-------------------------- MODULE CatalogApiProofs --------------------------
(***************************************************************************)
(* The two ends of the catalogue API: that the events of the feed read as  *)
(* the life of each offer, for any finite set of offers and any views of   *)
(* them; and that the webhook that reads the feed puts every event in a    *)
(* delivery, once unless replicas cross, and says of each delivery what    *)
(* the receiver took, for any feed, replicas, batches, attempts, restarts  *)
(* and whatever the owner does.                                            *)
(***************************************************************************)
EXTENDS Webhooks, CatalogFeed, FiniteLemmas

-----------------------------------------------------------------------------
(* The feed.                                                               *)
Events == [type : Pauses]
          \cup [type : {"none", "offer.created", "offer.removed", "offer.updated"}, offer : Offers, after : Contents]

FeedTypeOK ==
  /\ log \in Seq(Events)
  /\ known \in [Offers -> Contents]
  /\ paused \in BOOLEAN

(* There is nothing in the log before the first picture.                   *)
QuietBefore == ~started => log = <<>>

FeedIInv == FeedTypeOK /\ QuietBefore /\ LogTellsKnown

LEMMA OfferEventIs ==
  ASSUME NEW o \in Offers, NEW before \in Contents, NEW after \in Contents, before # after
  PROVE  /\ OfferEvent(o, before, after) \in Events
         /\ OfferEvent(o, before, after).type \notin Pauses
         /\ OfferEvent(o, before, after).type = DiffOffer(before, after)
         /\ OfferEvent(o, before, after).offer = o
         /\ OfferEvent(o, before, after).after = after
         /\ (DiffOffer(before, after) = "offer.removed") <=> (after = Hidden)
  BY DEF OfferEvent, Events, DiffOffer, Pauses

(* A transaction writes one event for each offer that changed, after those *)
(* that were there.                                                        *)
Written(order) ==
  /\ log' \in Seq(Events)
  /\ DOMAIN log' = 1..(Len(log) + Cardinality(Changed))
  /\ \A i \in 1..Len(log) : log'[i] = log[i]
  /\ \A i \in 1..Cardinality(Changed) :
       log'[Len(log) + i] = OfferEvent(order[i], known[order[i]], known'[order[i]])

LEMMA PublishWrites ==
  ASSUME IsFiniteSet(Offers), FeedTypeOK, Publish
  PROVE  \E order \in [1..Cardinality(Changed) -> Changed] :
           /\ Written(order)
           /\ \A o \in Changed : \E i \in 1..Cardinality(Changed) : order[i] = o
           /\ \A i, j \in 1..Cardinality(Changed) : order[i] = order[j] => i = j
<1> DEFINE c == Cardinality(Changed)
           events(order) == [i \in 1..c |-> OfferEvent(order[i], known[order[i]], known'[order[i]])]
<1>1. IsFiniteSet(Changed) /\ c \in Nat
  BY FS_Subset, FS_CardinalityType DEF Changed
<1>2. PICK order \in [1..c -> Changed] :
        /\ \A o \in Changed : \E i \in 1..c : order[i] = o
        /\ log' = log \o events(order)
  <2>1. PICK order \in [1..c -> Changed] :
          /\ \A o \in Changed : \E i \in DOMAIN order : order[i] = o
          /\ log' = log \o [i \in DOMAIN order |-> OfferEvent(order[i], known[order[i]], known'[order[i]])]
    BY DEF Publish
  <2>2. DOMAIN order = 1..c
    BY <2>1
  <2> QED BY <2>1, <2>2
<1>3. events(order) \in Seq(Events) /\ Len(events(order)) = c
  <2>1. \A i \in 1..c : events(order)[i] \in Events
    BY <1>2, OfferEventIs DEF Publish, FeedTypeOK, Changed
  <2>2. events(order) \in [1..c -> Events]
    BY <2>1
  <2> HIDE DEF events, c
  <2> QED BY <2>2, <1>1
<1>4. /\ log' \in Seq(Events)
      /\ Len(log') = Len(log) + c
      /\ \A i \in 1..Len(log) : log'[i] = log[i]
      /\ \A i \in 1..c : log'[Len(log) + i] = events(order)[i]
  <2> DEFINE new == events(order)
  <2>1. log \in Seq(Events) /\ new \in Seq(Events) /\ Len(new) = c /\ log' = log \o new
    BY <1>2, <1>3 DEF FeedTypeOK
  <2> HIDE DEF events, c, new
  <2>2. /\ log' \in Seq(Events) /\ Len(log') = Len(log) + c /\ Len(log) \in Nat
        /\ \A i \in 1..(Len(log) + c) : log'[i] = IF i <= Len(log) THEN log[i] ELSE new[i - Len(log)]
    BY <2>1, ConcatProperties
  <2>3. \A i \in 1..c : Len(log) + i \in 1..(Len(log) + c) /\ ~(Len(log) + i <= Len(log)) /\ Len(log) + i - Len(log) = i
    BY <1>1, <2>2
  <2>4. \A i \in 1..Len(log) : i \in 1..(Len(log) + c) /\ i <= Len(log)
    BY <1>1, <2>2
  <2>5. \A i \in 1..c : log'[Len(log) + i] = new[i]
    BY <2>2, <2>3
  <2>6. \A i \in 1..Len(log) : log'[i] = log[i]
    BY <2>2, <2>4
  <2> QED BY <2>2, <2>5, <2>6 DEF new
<1>5. Written(order)
  BY <1>4 DEF Written
<1>6. \A i, j \in 1..c : order[i] = order[j] => i = j
  <2>1. IsFiniteSet(1..c) /\ Cardinality(1..c) = c
    <3> HIDE DEF c
    <3> QED BY <1>1, FS_Interval
  <2>2. order \in Surjection(1..c, Changed)
    BY <1>2 DEF Surjection
  <2>3. order \in Injection(1..c, Changed)
    <3> QED BY <2>1, <2>2, <1>1, FS_SurjSameCardinalityImpliesInj
  <2> QED BY <2>3 DEF Injection, IsInjective
<1> QED BY <1>2, <1>5, <1>6

(* What one offer has in the log after a transaction: what it had, and one *)
(* event more if it changed.                                               *)
LEMMA EventsAfterPublish ==
  ASSUME IsFiniteSet(Offers), FeedTypeOK, Publish, NEW o \in Offers
  PROVE  \/ /\ known'[o] = known[o]
            /\ EventsOf(o)' = EventsOf(o)
            /\ \A i \in EventsOf(o) : log'[i] = log[i]
         \/ \E n \in Nat :
              /\ known'[o] # known[o]
              /\ \A i \in EventsOf(o) : i < n /\ log'[i] = log[i]
              /\ EventsOf(o)' = EventsOf(o) \cup {n}
              /\ log'[n].type = DiffOffer(known[o], known'[o])
              /\ log'[n].after = known'[o]
<1> DEFINE c == Cardinality(Changed)
<1>0. c \in Nat /\ known' \in [Offers -> Contents]
  BY FS_Subset, FS_CardinalityType DEF Publish, Changed
<1>1. PICK order \in [1..c -> Changed] :
        /\ Written(order)
        /\ \A p \in Changed : \E i \in 1..c : order[i] = p
        /\ \A i, j \in 1..c : order[i] = order[j] => i = j
  BY PublishWrites
<1> HIDE DEF c
<1>2. /\ DOMAIN log = 1..Len(log) /\ Len(log) \in Nat
      /\ DOMAIN log' = 1..(Len(log) + c)
      /\ \A i \in 1..Len(log) : log'[i] = log[i]
  BY <1>1 DEF FeedTypeOK, Written, c
<1>3. \A i \in 1..c : /\ order[i] \in Offers /\ known'[order[i]] # known[order[i]]
                      /\ log'[Len(log) + i].type \notin Pauses
                      /\ log'[Len(log) + i].offer = order[i]
                      /\ log'[Len(log) + i].after = known'[order[i]]
                      /\ log'[Len(log) + i].type = DiffOffer(known[order[i]], known'[order[i]])
  <2> SUFFICES ASSUME NEW i \in 1..c
      PROVE  /\ order[i] \in Offers /\ known'[order[i]] # known[order[i]]
             /\ log'[Len(log) + i].type \notin Pauses
             /\ log'[Len(log) + i].offer = order[i]
             /\ log'[Len(log) + i].after = known'[order[i]]
             /\ log'[Len(log) + i].type = DiffOffer(known[order[i]], known'[order[i]])
    OBVIOUS
  <2>1. order[i] \in Offers /\ known'[order[i]] # known[order[i]]
    BY <1>1 DEF Changed, c
  <2>2. log'[Len(log) + i] = OfferEvent(order[i], known[order[i]], known'[order[i]])
    BY <1>1 DEF Written, c
  <2> QED BY <2>1, <2>2, <1>0, OfferEventIs DEF FeedTypeOK
<1>4. \A i \in DOMAIN log' : i \in 1..Len(log) \/ \E k \in 1..c : i = Len(log) + k
  <2> SUFFICES ASSUME NEW i \in 1..(Len(log) + c), ~(i <= Len(log)) PROVE \E k \in 1..c : i = Len(log) + k
    BY <1>2
  <2>1. i - Len(log) \in 1..c /\ i = Len(log) + (i - Len(log))
    BY <1>0, <1>2
  <2> QED BY <2>1
<1>5. CASE known'[o] # known[o]
  <2>1. PICK k \in 1..c : order[k] = o
    BY <1>1, <1>5 DEF Changed
  <2> DEFINE n == Len(log) + k
  <2>2. n \in DOMAIN log' /\ n \in Nat /\ n > Len(log)
    BY <1>0, <1>2
  <2>3. EventsOf(o)' = EventsOf(o) \cup {n}
    <3>1. \A i \in DOMAIN log' : (log'[i].type \notin Pauses /\ log'[i].offer = o) <=> (i \in EventsOf(o) \/ i = n)
      <4> SUFFICES ASSUME NEW i \in DOMAIN log'
                   PROVE  (log'[i].type \notin Pauses /\ log'[i].offer = o) <=> (i \in EventsOf(o) \/ i = n)
        OBVIOUS
      <4>1. CASE i \in 1..Len(log)
        BY <4>1, <1>2, <2>2 DEF EventsOf
      <4>2. CASE i \notin 1..Len(log)
        <5>1. PICK m \in 1..c : i = Len(log) + m
          BY <1>4, <4>2
        <5>2. i \notin EventsOf(o)
          BY <4>2, <1>2 DEF EventsOf
        <5>3. (order[m] = o) <=> (m = k)
          BY <1>1, <2>1
        <5>4. (i = n) <=> (m = k)
          BY <5>1, <1>2
        <5> QED BY <5>1, <5>2, <5>3, <5>4, <1>3
      <4> QED BY <4>1, <4>2
    <3>2. EventsOf(o) \subseteq DOMAIN log'
      BY <1>0, <1>2 DEF EventsOf
    <3> QED BY <3>1, <3>2, <2>2 DEF EventsOf
  <2>4. \A i \in EventsOf(o) : i < n /\ log'[i] = log[i]
    BY <1>2, <2>2 DEF EventsOf
  <2> QED BY <2>1, <2>2, <2>3, <2>4, <1>3, <1>5
<1>6. CASE known'[o] = known[o]
  <2>1. \A i \in DOMAIN log' : (log'[i].type \notin Pauses /\ log'[i].offer = o) <=> i \in EventsOf(o)
    <3> SUFFICES ASSUME NEW i \in DOMAIN log'
                 PROVE  (log'[i].type \notin Pauses /\ log'[i].offer = o) <=> i \in EventsOf(o)
      OBVIOUS
    <3>1. CASE i \in 1..Len(log)
      BY <3>1, <1>2 DEF EventsOf
    <3>2. CASE i \notin 1..Len(log)
      <4>1. PICK m \in 1..c : i = Len(log) + m
        BY <1>4, <3>2
      <4>2. i \notin EventsOf(o)
        BY <3>2, <1>2 DEF EventsOf
      <4> QED BY <4>1, <4>2, <1>3, <1>6
    <3> QED BY <3>1, <3>2
  <2>2. EventsOf(o) \subseteq DOMAIN log'
    BY <1>0, <1>2 DEF EventsOf
  <2>3. EventsOf(o)' = EventsOf(o)
    BY <2>1, <2>2 DEF EventsOf
  <2>4. \A i \in EventsOf(o) : log'[i] = log[i]
    BY <1>2 DEF EventsOf
  <2> QED BY <2>3, <2>4, <1>6
<1> QED BY <1>5, <1>6

LEMMA FeedInitIInv == FeedInit => FeedIInv
<1> SUFFICES ASSUME FeedInit PROVE FeedIInv
  OBVIOUS
<1>1. FeedTypeOK
  <2>1. known \in [Offers -> Contents]
    BY DEF FeedInit, Contents
  <2>2. log \in Seq(Events)
    BY DEF FeedInit
  <2> QED BY <2>1, <2>2 DEF FeedInit, FeedTypeOK
<1>2. \A o \in Offers : EventsOf(o) = {}
  BY DEF FeedInit, EventsOf
<1>3. QuietBefore
  BY DEF FeedInit, QuietBefore
<1> QED BY <1>1, <1>2, <1>3 DEF FeedIInv, LogTellsKnown

LEMMA PublishTells ==
  ASSUME IsFiniteSet(Offers), FeedIInv, Publish
  PROVE  LogTellsKnown'
<1> SUFFICES ASSUME NEW o \in Offers, NEW i \in EventsOf(o)'
    PROVE  /\ (log'[i].type = "offer.removed") <=> (log'[i].after = Hidden)
           /\ (\A j \in EventsOf(o)' : j <= i) => log'[i].after = known'[o]
           /\ \A j \in EventsOf(o)' :
                i < j /\ (\A k \in EventsOf(o)' : ~(i < k /\ k < j)) => log'[j].type = DiffOffer(log'[i].after, log'[j].after)
  BY DEF LogTellsKnown
<1>0. /\ EventsOf(o) \subseteq Nat /\ known[o] \in Contents /\ known'[o] \in Contents
      /\ FeedTypeOK /\ LogTellsKnown
  BY DEF FeedIInv, FeedTypeOK, Publish, EventsOf
<1>1. CASE /\ known'[o] = known[o]
           /\ EventsOf(o)' = EventsOf(o)
           /\ \A j \in EventsOf(o) : log'[j] = log[j]
  BY <1>0, <1>1 DEF LogTellsKnown
<1>2. ASSUME NEW n \in Nat,
             known'[o] # known[o],
             \A j \in EventsOf(o) : j < n /\ log'[j] = log[j],
             EventsOf(o)' = EventsOf(o) \cup {n},
             log'[n].type = DiffOffer(known[o], known'[o]),
             log'[n].after = known'[o]
      PROVE  /\ (log'[i].type = "offer.removed") <=> (log'[i].after = Hidden)
             /\ (\A j \in EventsOf(o)' : j <= i) => log'[i].after = known'[o]
             /\ \A j \in EventsOf(o)' :
                  i < j /\ (\A k \in EventsOf(o)' : ~(i < k /\ k < j)) => log'[j].type = DiffOffer(log'[i].after, log'[j].after)
  <2>1. CASE i = n
    <3>1. \A j \in EventsOf(o)' : ~(i < j)
      BY <1>2, <2>1, <1>0
    <3>2. (DiffOffer(known[o], known'[o]) = "offer.removed") <=> (known'[o] = Hidden)
      BY <1>2 DEF DiffOffer
    <3> QED BY <1>2, <2>1, <3>1, <3>2
  <2>2. CASE i # n
    <3>1. i \in EventsOf(o) /\ log'[i] = log[i] /\ i < n
      BY <1>2, <2>2
    <3>2. (log'[i].type = "offer.removed") <=> (log'[i].after = Hidden)
      BY <3>1, <1>0 DEF LogTellsKnown
    <3>3. ~(\A j \in EventsOf(o)' : j <= i)
      BY <1>2, <3>1, <1>0
    <3>4. ASSUME NEW j \in EventsOf(o)', i < j, \A k \in EventsOf(o)' : ~(i < k /\ k < j)
          PROVE  log'[j].type = DiffOffer(log'[i].after, log'[j].after)
      <4>1. CASE j = n
        <5>1. \A k \in EventsOf(o) : k <= i
          BY <1>2, <3>4, <4>1, <3>1, <1>0
        <5>2. log[i].after = known[o]
          BY <5>1, <3>1, <1>0 DEF LogTellsKnown
        <5> QED BY <5>2, <4>1, <3>1, <1>2
      <4>2. CASE j # n
        <5>1. j \in EventsOf(o) /\ log'[j] = log[j] /\ \A k \in EventsOf(o) : ~(i < k /\ k < j)
          BY <1>2, <3>4, <4>2
        <5> QED BY <5>1, <3>1, <3>4, <1>0 DEF LogTellsKnown
      <4> QED BY <4>1, <4>2
    <3> QED BY <3>2, <3>3, <3>4
  <2> QED BY <2>1, <2>2
<1> QED BY <1>0, <1>1, <1>2, EventsAfterPublish

LEMMA FeedNextIInv ==
  ASSUME IsFiniteSet(Offers), FeedIInv, [FeedNext]_feedVars
  PROVE  FeedIInv'
<1>0. FeedTypeOK /\ QuietBefore /\ LogTellsKnown
  BY DEF FeedIInv
<1>1. CASE Photograph
  <2>1. log = <<>> /\ log' = <<>>
    BY <1>0, <1>1 DEF Photograph, QuietBefore
  <2>2. \A o \in Offers : EventsOf(o)' = {}
    BY <2>1 DEF EventsOf
  <2>3. FeedTypeOK'
    BY <1>0, <1>1, <2>1 DEF Photograph, FeedTypeOK
  <2> QED BY <2>1, <2>2, <2>3 DEF FeedIInv, QuietBefore, LogTellsKnown
<1>2. CASE Publish
  <2>1. PICK order : Written(order)
    BY <1>0, <1>2, PublishWrites
  <2>2. FeedTypeOK'
    BY <2>1, <1>0, <1>2 DEF FeedTypeOK, Publish, Written
  <2> QED BY <2>2, <1>2, PublishTells DEF FeedIInv, QuietBefore, Publish
<1>3. CASE PublishPause
  <2>1. /\ PauseEvent(paused') \in Events /\ PauseEvent(paused').type \in Pauses
    BY DEF PauseEvent, Events, Pauses
  <2>2. FeedTypeOK'
    BY <1>0, <1>3, <2>1 DEF PublishPause, FeedTypeOK
  <2>3. /\ DOMAIN log' = 1..(Len(log) + 1) /\ DOMAIN log = 1..Len(log) /\ Len(log) \in Nat
        /\ \A i \in 1..Len(log) : log'[i] = log[i]
        /\ log'[Len(log) + 1].type \in Pauses
    BY <1>0, <1>3, <2>1 DEF PublishPause, FeedTypeOK
  <2>4. \A o \in Offers : EventsOf(o)' = EventsOf(o) /\ \A i \in EventsOf(o) : log'[i] = log[i]
    BY <2>3 DEF EventsOf
  <2>5. known' = known
    BY <1>3 DEF PublishPause
  <2>6. LogTellsKnown'
    BY <1>0, <2>4, <2>5 DEF LogTellsKnown
  <2> QED BY <1>3, <2>2, <2>6 DEF FeedIInv, QuietBefore, PublishPause
<1>4. CASE UNCHANGED feedVars
  <2>1. log' = log /\ known' = known /\ paused' = paused /\ started' = started
    BY <1>4 DEF feedVars
  <2> QED BY <1>0, <2>1 DEF FeedIInv, FeedTypeOK, QuietBefore, LogTellsKnown, EventsOf
<1> QED BY <1>1, <1>2, <1>3, <1>4 DEF FeedNext

(* compareAndRecord and trackProviderPauses: whoever reads the events of   *)
(* an offer in order knows the offer.                                      *)
THEOREM LogTellsLife ==
  ASSUME IsFiniteSet(Offers)
  PROVE  FeedSpec => []LogTellsKnown
<1>1. FeedIInv => LogTellsKnown
  BY DEF FeedIInv
<1> QED BY <1>1, FeedInitIInv, FeedNextIInv, PTL DEF FeedSpec

-----------------------------------------------------------------------------
(***************************************************************************)
(* The webhook.  Every replica has a pass, which works from a queue of     *)
(* copies that it took, while retries become due, other replicas take and  *)
(* record and the webhook may go.  The argument is that the line has no    *)
(* delivery twice and only pending ones, and that a delivery that has been *)
(* in one pass at most at a time (not in doubled) stays in the line for as *)
(* long as a pass has it: so what is posted was pending, nobody else       *)
(* records it, and recording it takes it out of the line.                  *)
(***************************************************************************)
Busy == {"post", "good", "bad"}

HookOK ==
  /\ feed \in Seq(BOOLEAN)
  /\ DOMAIN hook = {"exists", "active", "disabled", "cursor", "start", "failures"}
  /\ hook.exists \in BOOLEAN /\ hook.cursor \in Nat

(* A copy of a delivery says which it is, and the attempts it had.         *)
Copies == [id : Nat \ {0}, attempts : 0..(MaxAttempts - 1)]

QueueOK(j) ==
  /\ DOMAIN j = {"step", "queue", "failures"}
  /\ j.queue \in Seq(Copies) /\ j.queue # <<>>
  /\ \A i, k \in 1..Len(j.queue) : j.queue[i].id = j.queue[k].id => i = k

PassOK(j, n) ==
  /\ j.step \in Busy => QueueOK(j)
  /\ j.step \in {"events", "write"} => j.cursor \in Nat
  /\ j.step = "write" => j.last \in Nat /\ j.cursor <= j.last /\ j.last <= n

JobOK == job = [r \in Replicas |-> job[r]] /\ \A r \in Replicas : PassOK(job[r], Len(feed))

RowsOK ==
  LET n == Len(deliveries)
  IN /\ n \in Nat /\ DOMAIN deliveries = 1..n /\ deliveries = [d \in 1..n |-> deliveries[d]]
     /\ \A d \in 1..n : DOMAIN deliveries[d] = {"items", "status", "attempts"} /\ deliveries[d].attempts \in Nat
     /\ taken \subseteq 1..n /\ unheard \subseteq 1..n /\ twice \subseteq 1..n

(* What is due is pending, and once in the line.                           *)
LineOK ==
  /\ line \in Seq(DOMAIN deliveries)
  /\ \A i \in 1..Len(line) : deliveries[line[i]].status = "PENDING"
  /\ \A i, k \in 1..Len(line) : line[i] = line[k] => i = k

Waits(d) == \E i \in 1..Len(line) : line[i] = d

(* What a pass has is a delivery, and of one that no two passes had at     *)
(* once the line still has it and no other pass does.                      *)
InHandOK ==
  hook.exists =>
    \A r \in Replicas : \A d \in Nat \ {0} :
      Has(r, d) => /\ d \in DOMAIN deliveries
                   /\ d \notin doubled => Waits(d) /\ \A q \in Replicas : Has(q, d) => q = r

(* What is about to be recorded as delivered was taken.                    *)
GoodOK == hook.exists => \A r \in Replicas : job[r].step = "good" => Posting(r) \in taken

GoneOK == ~hook.exists => deliveries = <<>> /\ line = <<>>

IInv == HookOK /\ JobOK /\ RowsOK /\ LineOK /\ InHandOK /\ GoodOK /\ GoneOK /\ DeliveryMeansTaken

-----------------------------------------------------------------------------
(* Lemmas about sequences.                                                 *)
LEMMA SequenceOfItsElements ==
  ASSUME NEW s, NEW n \in Nat, s = [i \in 1..n |-> s[i]]
  PROVE  s \in Seq({s[i] : i \in 1..n}) /\ Len(s) = n
<1>1. s \in [1..n -> {s[i] : i \in 1..n}]
  OBVIOUS
<1> QED BY <1>1

LEMMA Joined ==
  ASSUME NEW s, NEW m \in Nat, s = [i \in 1..m |-> s[i]],
         NEW t, NEW n \in Nat, t = [i \in 1..n |-> t[i]]
  PROVE  /\ s \o t = [i \in 1..(m + n) |-> (s \o t)[i]]
         /\ DOMAIN (s \o t) = 1..(m + n) /\ Len(s \o t) = m + n
         /\ \A i \in 1..m : (s \o t)[i] = s[i]
         /\ \A i \in 1..n : (s \o t)[m + i] = t[i]
<1> DEFINE S == {s[i] : i \in 1..m} \cup {t[i] : i \in 1..n}
<1>1. s \in Seq(S) /\ Len(s) = m
  <2>1. s \in [1..m -> S]
    OBVIOUS
  <2> QED BY <2>1
<1>2. t \in Seq(S) /\ Len(t) = n
  <2>1. t \in [1..n -> S]
    OBVIOUS
  <2> QED BY <2>1
<1> HIDE DEF S
<1>3. /\ s \o t \in Seq(S) /\ Len(s \o t) = m + n
      /\ \A i \in 1..(m + n) : (s \o t)[i] = IF i <= m THEN s[i] ELSE t[i - m]
  BY <1>1, <1>2, ConcatProperties
<1>4. s \o t \in [1..(m + n) -> S]
  BY <1>3, LenProperties
<1>5. \A i \in 1..n : (s \o t)[m + i] = t[i]
  <2> TAKE i \in 1..n
  <2>1. m + i \in 1..(m + n) /\ ~(m + i <= m) /\ m + i - m = i
    OBVIOUS
  <2> QED BY <2>1, <1>3
<1> QED BY <1>3, <1>4, <1>5

(* One leaves: the others stay, in their order.                            *)
LEMMA RemoveOne ==
  ASSUME NEW S, NEW s \in Seq(S), NEW e,
         \A i, k \in 1..Len(s) : s[i] = s[k] => i = k
  PROVE  LET t == RemoveFirst(s, e) IN
         /\ t \in Seq(S)
         /\ \A i \in 1..Len(t) : t[i] # e /\ \E k \in 1..Len(s) : s[k] = t[i]
         /\ \A k \in 1..Len(s) : s[k] # e => \E i \in 1..Len(t) : t[i] = s[k]
         /\ \A i, k \in 1..Len(t) : t[i] = t[k] => i = k
<1> DEFINE n == Len(s)
<1>0. n \in Nat /\ s \in [1..n -> S]
  BY LenProperties
<1>1. CASE ~\E i \in 1..n : s[i] = e
  <2>1. RemoveFirst(s, e) = s
    BY <1>1 DEF RemoveFirst
  <2> QED BY <1>1, <2>1
<1>2. CASE \E i \in 1..n : s[i] = e
  <2> DEFINE I == {i \in 1..n : s[i] = e}
  <2>1. PICK p \in 1..n : s[p] = e
    BY <1>2
  <2>2. I = {p}
    BY <2>1
  <2>3. SelectInSeq(s, LAMBDA v : v = e) = p
    <3>1. SelectInSeq(s, LAMBDA v : v = e) = Min(I)
      BY <2>1 DEF SelectInSeq
    <3>2. Min(I) = p
      <4> HIDE DEF I, n
      <4>1. \E x \in {p} : \A y \in {p} : x <= y
        BY <1>0, <2>1
      <4>2. Min({p}) \in {p}
        BY <4>1 DEF Min
      <4> QED BY <2>2, <4>2
    <3> QED BY <3>1, <3>2, Zenon
  <2>4. RemoveFirst(s, e) = SubSeq(s, 1, p - 1) \o SubSeq(s, p + 1, n)
    BY <1>2, <2>3 DEF RemoveFirst, RemoveAt
  <2> DEFINE a == SubSeq(s, 1, p - 1)
             b == SubSeq(s, p + 1, n)
             t == a \o b
  <2>5. a \in Seq(S) /\ Len(a) = p - 1 /\ \A i \in 1..(p - 1) : a[i] = s[i]
    <3>1. \A i \in 1..(p - 1) : s[i] \in S
      BY <1>0, <2>1
    <3>2. /\ a \in Seq(S) /\ Len(a) = IF 1 <= p - 1 THEN p - 1 - 1 + 1 ELSE 0
          /\ \A i \in 1..(p - 1 - 1 + 1) : a[i] = s[1 + i - 1]
      BY <1>0, <2>1, <3>1, SubSeqProperties
    <3> HIDE DEF a, n
    <3>3. \A i \in 1..(p - 1) : i \in 1..(p - 1 - 1 + 1) /\ 1 + i - 1 = i
      BY <1>0, <2>1
    <3>4. Len(a) = p - 1
      BY <1>0, <2>1, <3>2
    <3> QED BY <3>2, <3>3, <3>4
  <2>6. b \in Seq(S) /\ Len(b) = n - p /\ \A i \in 1..(n - p) : b[i] = s[p + i]
    <3>1. \A i \in (p + 1)..n : s[i] \in S
      BY <1>0, <2>1
    <3>2. /\ b \in Seq(S) /\ Len(b) = IF p + 1 <= n THEN n - (p + 1) + 1 ELSE 0
          /\ \A i \in 1..(n - (p + 1) + 1) : b[i] = s[p + 1 + i - 1]
      BY <1>0, <2>1, <3>1, SubSeqProperties
    <3> HIDE DEF b, n
    <3>3. \A i \in 1..(n - p) : i \in 1..(n - (p + 1) + 1) /\ p + 1 + i - 1 = p + i
      BY <1>0, <2>1
    <3>4. Len(b) = n - p
      BY <1>0, <2>1, <3>2
    <3> QED BY <3>2, <3>3, <3>4
  <2> HIDE DEF a, b, n
  <2>7. /\ t \in Seq(S) /\ Len(t) = n - 1
        /\ \A i \in 1..(n - 1) : t[i] = IF i <= p - 1 THEN a[i] ELSE b[i - (p - 1)]
    <3>0. /\ t \in Seq(S) /\ Len(t) = Len(a) + Len(b)
          /\ \A i \in 1..(Len(a) + Len(b)) : t[i] = IF i <= Len(a) THEN a[i] ELSE b[i - Len(a)]
      BY <2>5, <2>6, ConcatProperties
    <3> HIDE DEF t
    <3>1. /\ t \in Seq(S) /\ Len(t) = (p - 1) + (n - p)
          /\ \A i \in 1..((p - 1) + (n - p)) : t[i] = IF i <= p - 1 THEN a[i] ELSE b[i - (p - 1)]
      BY <3>0, <2>5, <2>6
    <3>2. (p - 1) + (n - p) = n - 1
      BY <1>0, <2>1
    <3> QED BY <3>1, <3>2
  <2> HIDE DEF t
  <2>8. \A i \in 1..(n - 1) : t[i] = IF i < p THEN s[i] ELSE s[i + 1]
    <3> TAKE i \in 1..(n - 1)
    <3>1. CASE i < p
      <4>1. i <= p - 1 /\ i \in 1..(p - 1)
        BY <1>0, <2>1, <3>1
      <4> QED BY <2>5, <2>7, <3>1, <4>1
    <3>2. CASE ~(i < p)
      <4>1. ~(i <= p - 1) /\ i - (p - 1) \in 1..(n - p) /\ p + (i - (p - 1)) = i + 1
        BY <1>0, <2>1, <3>2
      <4> QED BY <2>6, <2>7, <3>2, <4>1
    <3> QED BY <3>1, <3>2
  <2>9. \A i, k \in 1..n : s[i] = s[k] => i = k
    BY DEF n
  <2>10. \A i \in 1..(n - 1) : t[i] # e /\ \E k \in 1..n : s[k] = t[i]
    BY <1>0, <2>1, <2>8, <2>9
  <2>11. \A k \in 1..n : s[k] # e => \E i \in 1..(n - 1) : t[i] = s[k]
    <3> SUFFICES ASSUME NEW k \in 1..n, s[k] # e PROVE \E i \in 1..(n - 1) : t[i] = s[k]
      OBVIOUS
    <3>1. CASE k < p
      <4>1. k \in 1..(n - 1) /\ t[k] = s[k]
        BY <1>0, <2>1, <2>8, <3>1
      <4> QED BY <4>1
    <3>2. CASE k > p
      <4>1. k - 1 \in 1..(n - 1) /\ ~(k - 1 < p) /\ k - 1 + 1 = k
        BY <1>0, <2>1, <3>2
      <4>2. t[k - 1] = s[k]
        BY <2>8, <4>1
      <4> QED BY <4>1, <4>2
    <3>3. k # p
      BY <2>1
    <3> QED BY <1>0, <3>1, <3>2, <3>3
  <2>12. \A i, k \in 1..(n - 1) : t[i] = t[k] => i = k
    <3> SUFFICES ASSUME NEW i \in 1..(n - 1), NEW k \in 1..(n - 1), t[i] = t[k] PROVE i = k
      OBVIOUS
    <3>1. i \in 1..n /\ k \in 1..n /\ i + 1 \in 1..n /\ k + 1 \in 1..n
      BY <1>0
    <3>2. (IF i < p THEN s[i] ELSE s[i + 1]) = (IF k < p THEN s[k] ELSE s[k + 1])
      BY <2>8
    <3>3. (IF i < p THEN i ELSE i + 1) = (IF k < p THEN k ELSE k + 1)
      BY <2>9, <3>1, <3>2
    <3> QED BY <1>0, <2>1, <3>3
  <2> QED BY <2>4, <2>7, <2>10, <2>11, <2>12 DEF t, a, b, n
<1> QED BY <1>1, <1>2

-----------------------------------------------------------------------------
(* Passes and what they have.                                              *)
Recording(j, d) == j.step = "good" /\ Head(j.queue).id = d
Holds(j, d) == j.step \in Busy /\ \E i \in 1..Len(j.queue) : j.queue[i].id = d

(* What the invariant says of a delivery.                                  *)
Told(row) ==
  CASE row.status = "DELIVERED" -> TRUE
    [] row.status = "FAILED" -> row.attempts = MaxAttempts
    [] OTHER -> row.attempts < MaxAttempts

ToldOf(d) ==
  /\ Told(deliveries[d])
  /\ deliveries[d].status = "DELIVERED" => d \in taken
  /\ d \notin doubled =>
       /\ d \notin twice
       /\ d \in taken \ unheard <=> deliveries[d].status = "DELIVERED" \/ \E r \in Replicas : Recording(job[r], d)

LEMMA MeansTaken == DeliveryMeansTaken <=> \A d \in DOMAIN deliveries : ToldOf(d)
<1>1. \A d : BeingRecorded(d) <=> \E r \in Replicas : Recording(job[r], d)
  BY DEF BeingRecorded, Posting, Recording
<1>2. \A d \in DOMAIN deliveries :
        (CASE deliveries[d].status = "DELIVERED" -> d \in taken
           [] deliveries[d].status = "FAILED" -> deliveries[d].attempts = MaxAttempts
           [] OTHER -> deliveries[d].attempts < MaxAttempts)
        <=> (Told(deliveries[d]) /\ (deliveries[d].status = "DELIVERED" => d \in taken))
  BY DEF Told
<1> QED BY <1>1, <1>2 DEF DeliveryMeansTaken, ToldOf

LEMMA MeansTakenNext == DeliveryMeansTaken' <=> \A d \in DOMAIN deliveries' : ToldOf(d)'
<1>1. (DeliveryMeansTaken <=> \A d \in DOMAIN deliveries : ToldOf(d))'
  BY MeansTaken, PTL
<1> QED BY <1>1

LEMMA HasIs == ASSUME NEW r, JobOK, r \in Replicas PROVE \A d : Has(r, d) <=> Holds(job[r], d)
BY DEF Has, Holds, Busy, JobOK, PassOK, QueueOK

(* What a pass is about to post, or to record, is the first it has.        *)
LEMMA HeadOfQueue ==
  ASSUME NEW j, QueueOK(j), j.step \in Busy
  PROVE  /\ Head(j.queue) = j.queue[1] /\ Head(j.queue) \in Copies /\ Len(j.queue) \in Nat \ {0}
         /\ Holds(j, Head(j.queue).id)
         /\ \A i \in 1..Len(j.queue) : j.queue[i] \in Copies
<1>1. j.queue \in Seq(Copies) /\ j.queue # <<>>
  BY DEF QueueOK
<1>2. Len(j.queue) \in Nat \ {0} /\ Head(j.queue) = j.queue[1] /\ \A i \in 1..Len(j.queue) : j.queue[i] \in Copies
  BY <1>1
<1>3. 1 \in 1..Len(j.queue)
  BY <1>2
<1> QED BY <1>2, <1>3 DEF Holds

(* What is left of a pass when the first of its queue is done.             *)
LEMMA NextOfIs ==
  ASSUME NEW j, QueueOK(j), j.step \in Busy, NEW m
  PROVE  /\ PassOK(NextOf(j), m) /\ NextOf(j).step \in {"idle", "post"}
         /\ \A d : Holds(NextOf(j), d) => Holds(j, d) /\ d # Head(j.queue).id
<1> DEFINE q == j.queue
           n == Len(j.queue)
<1>1. q \in Seq(Copies) /\ q # <<>> /\ n \in Nat \ {0} /\ Head(q) = q[1]
      /\ \A i, k \in 1..n : q[i].id = q[k].id => i = k
  BY HeadOfQueue DEF QueueOK
<1>2. CASE n = 1
  BY <1>2 DEF NextOf, PassOK, Idle, Busy, Holds
<1>3. CASE n # 1
  <2> DEFINE rest == Tail(q)
  <2>1. NextOf(j) = [j EXCEPT !.step = "post", !.queue = rest]
    BY <1>3 DEF NextOf
  <2>2. /\ DOMAIN NextOf(j) = {"step", "queue", "failures"}
        /\ NextOf(j).step = "post" /\ NextOf(j).queue = rest
    BY <2>1 DEF QueueOK
  <2>3. rest \in Seq(Copies) /\ Len(rest) = n - 1 /\ \A i \in 1..(n - 1) : rest[i] = q[i + 1]
    BY <1>1, HeadTailProperties
  <2> HIDE DEF rest, q, n
  <2>4. n - 1 \in Nat \ {0} /\ rest # <<>>
    BY <1>1, <1>3, <2>3
  <2>5. \A i \in 1..(n - 1) : i + 1 \in 1..n /\ i + 1 # 1 /\ 1 \in 1..n
    BY <1>1
  <2>6. \A i, k \in 1..Len(rest) : rest[i].id = rest[k].id => i = k
    <3> SUFFICES ASSUME NEW i \in 1..(n - 1), NEW k \in 1..(n - 1), rest[i].id = rest[k].id PROVE i = k
      BY <2>3
    <3>1. rest[i] = q[i + 1] /\ rest[k] = q[k + 1]
      BY <2>3
    <3>2. i + 1 \in 1..n /\ k + 1 \in 1..n
      BY <2>5
    <3>3. i + 1 = k + 1
      BY <1>1, <3>1, <3>2
    <3> QED BY <1>1, <3>3
  <2>7. PassOK(NextOf(j), m)
    BY <2>2, <2>3, <2>4, <2>6 DEF PassOK, QueueOK
  <2>8. ASSUME NEW d, Holds(NextOf(j), d) PROVE Holds(j, d) /\ d # Head(j.queue).id
    <3>1. PICK i \in 1..(n - 1) : rest[i].id = d
      BY <2>2, <2>3, <2>8 DEF Holds
    <3>2. q[i + 1].id = d /\ i + 1 \in 1..n /\ 1 \in 1..n /\ i + 1 # 1
      BY <2>3, <2>5, <3>1
    <3>3. d # q[1].id
      BY <1>1, <3>2
    <3> QED BY <1>1, <3>2, <3>3 DEF Holds, q, n
  <2> QED BY <2>2, <2>7, <2>8
<1> QED BY <1>2, <1>3

LEMMA GoesTo ==
  ASSUME JobOK, NEW r \in Replicas, NEW j, Goes(r, j)
  PROVE  /\ job' = [q \in Replicas |-> job'[q]] /\ job'[r] = j
         /\ \A q \in Replicas \ {r} : job'[q] = job[q]
<1>1. job = [q \in Replicas |-> job[q]] /\ job' = [job EXCEPT ![r] = j]
  BY DEF JobOK, Goes
<1>2. job' = [q \in Replicas |-> IF q = r THEN j ELSE job[q]]
  BY <1>1
<1> QED BY <1>2

LEMMA SameRows ==
  ASSUME IInv, UNCHANGED <<feed, hook, deliveries, line, taken, unheard, twice>>
  PROVE  HookOK' /\ RowsOK' /\ LineOK' /\ GoneOK'
BY DEF IInv, HookOK, RowsOK, LineOK, GoneOK

LEMMA InvPrimed ==
  IInv' <=> HookOK' /\ JobOK' /\ RowsOK' /\ LineOK' /\ InHandOK' /\ GoodOK' /\ GoneOK' /\ DeliveryMeansTaken'
BY DEF IInv

(* A step of one pass that is well formed leaves all of them so.           *)
LEMMA JobStaysOK ==
  ASSUME JobOK, NEW r \in Replicas, NEW j, Goes(r, j), UNCHANGED feed, PassOK(j, Len(feed))
  PROVE  JobOK'
BY GoesTo DEF JobOK

(* Steps that leave the rows, the line and the passes alone.               *)
LEMMA RestKeeps ==
  ASSUME IInv, HookOK', hook'.exists = hook.exists, Len(feed) \in Nat, Len(feed') \in Nat, Len(feed) <= Len(feed'),
         UNCHANGED <<deliveries, line, job, taken, unheard, twice, doubled>>
  PROVE  IInv'
<1>1. JobOK'
  BY DEF IInv, JobOK, PassOK
<1>2. RowsOK' /\ LineOK' /\ GoneOK'
  BY DEF IInv, RowsOK, LineOK, GoneOK
<1>3. InHandOK' /\ GoodOK'
  BY DEF IInv, InHandOK, GoodOK, Has, Waits, Posting
<1>4. DeliveryMeansTaken'
  BY DEF IInv, DeliveryMeansTaken, BeingRecorded, Posting
<1> QED BY <1>1, <1>2, <1>3, <1>4, InvPrimed

LEMMA OwnersKeep ==
  IInv /\ (\/ \E says \in BOOLEAN : NewEvent(says)
          \/ ServeOrNot \/ Activate \/ Deactivate \/ StartTest
          \/ \E good \in BOOLEAN : FinishTest(good)) => IInv'
<1> SUFFICES ASSUME IInv,
      \/ \E says \in BOOLEAN : NewEvent(says)
      \/ ServeOrNot \/ Activate \/ Deactivate \/ StartTest
      \/ \E good \in BOOLEAN : FinishTest(good)
    PROVE IInv'
  OBVIOUS
<1>1. UNCHANGED <<deliveries, line, job, taken, unheard, twice, doubled>>
  BY DEF NewEvent, ServeOrNot, Activate, Deactivate, StartTest, FinishTest, hookVars, history
<1>2. feed \in Seq(BOOLEAN) /\ Len(feed) \in Nat
  BY DEF IInv, HookOK
<1>3. ASSUME NEW says \in BOOLEAN, NewEvent(says)
      PROVE  HookOK' /\ hook' = hook /\ Len(feed') \in Nat /\ Len(feed) <= Len(feed')
  <2>1. hook' = hook /\ feed' = Append(feed, says)
    BY <1>3 DEF NewEvent, hookVars
  <2>2. feed' \in Seq(BOOLEAN) /\ Len(feed') = Len(feed) + 1
    BY <1>2, <2>1
  <2> QED BY <1>2, <2>1, <2>2 DEF IInv, HookOK
<1>4. CASE ServeOrNot \/ Activate \/ Deactivate \/ StartTest \/ \E good \in BOOLEAN : FinishTest(good)
  <2>1. HookOK' /\ hook'.exists = hook.exists /\ feed' = feed
    BY <1>4 DEF ServeOrNot, Activate, Deactivate, StartTest, FinishTest, hookVars, IInv, HookOK
  <2> QED BY <1>1, <1>2, <2>1, RestKeeps
<1> QED BY <1>1, <1>2, <1>3, <1>4, RestKeeps

(* The webhook goes with its deliveries.                                   *)
LEMMA RemoveKeeps == IInv /\ RemoveHook => IInv'
<1> SUFFICES ASSUME IInv, RemoveHook PROVE IInv'
  OBVIOUS
<1>1. /\ deliveries' = <<>> /\ line' = <<>> /\ taken' = {} /\ unheard' = {} /\ twice' = {}
      /\ hook' = [hook EXCEPT !.exists = FALSE] /\ UNCHANGED <<feed, job>>
  BY DEF RemoveHook
<1>2. HookOK' /\ ~hook'.exists
  BY <1>1 DEF IInv, HookOK
<1>3. RowsOK' /\ LineOK' /\ DeliveryMeansTaken'
  BY <1>1 DEF RowsOK, LineOK, DeliveryMeansTaken
<1>4. JobOK' /\ InHandOK' /\ GoodOK' /\ GoneOK'
  BY <1>1, <1>2 DEF IInv, JobOK, InHandOK, GoodOK, GoneOK
<1> QED BY <1>2, <1>3, <1>4, InvPrimed

(* When the webhook is gone there is nothing a pass could break.           *)
LEMMA GoneKeeps ==
  ASSUME IInv, ~hook.exists, JobOK', UNCHANGED <<feed, hook, deliveries, line, taken, unheard, twice>>
  PROVE  IInv'
<1>1. InHandOK' /\ GoodOK' /\ DeliveryMeansTaken'
  BY DEF IInv, InHandOK, GoodOK, GoneOK, DeliveryMeansTaken
<1> QED BY <1>1, SameRows, InvPrimed

(* Steps of a pass that touch no row and end with nothing in hand.         *)
LEMMA PassKeeps ==
  ASSUME IInv, NEW r \in Replicas, NEW j, Goes(r, j), PassOK(j, Len(feed)), j.step \notin Busy,
         job[r].step # "good" \/ ~hook.exists,
         UNCHANGED <<feed, hook, deliveries, line, taken, unheard, twice, doubled>>
  PROVE  IInv'
<1>0. JobOK /\ JobOK'
  BY JobStaysOK DEF IInv
<1>1. CASE ~hook.exists
  BY <1>0, <1>1, GoneKeeps
<1>2. CASE hook.exists /\ job[r].step # "good"
  <2>1. job'[r] = j /\ \A q \in Replicas \ {r} : job'[q] = job[q]
    BY <1>0, GoesTo
  <2>2. \A q \in Replicas : \A d : Has(q, d)' => Has(q, d)
    BY <2>1 DEF Has, Busy
  <2>3. InHandOK'
    BY <2>2 DEF IInv, InHandOK, Waits
  <2>4. \A q \in Replicas : job'[q].step = "good" => job'[q] = job[q]
    BY <2>1 DEF Busy
  <2>5. GoodOK'
    BY <2>4 DEF IInv, GoodOK, Posting
  <2>6. \A d : BeingRecorded(d)' <=> BeingRecorded(d)
    BY <2>1, <1>2 DEF BeingRecorded, Posting, Busy
  <2>7. DeliveryMeansTaken'
    BY <2>6 DEF IInv, DeliveryMeansTaken
  <2> QED BY <1>0, <2>3, <2>5, <2>7, SameRows, InvPrimed
<1> QED BY <1>1, <1>2

LEMMA ReadingKeeps ==
  ASSUME IInv, NEW r \in Replicas, ReadHook(r) \/ ReadEvents(r) \/ EnqueueFails(r) \/ RowGone(r)
  PROVE  IInv'
<1>0. UNCHANGED <<feed, hook, deliveries, line, taken, unheard, twice, doubled>> /\ hook.cursor \in Nat /\ Len(feed) \in Nat
  BY DEF ReadHook, ReadEvents, EnqueueFails, RowGone, hookVars, history, IInv, HookOK
<1>1. CASE ReadHook(r)
  <2>1. CASE Goes(r, [step |-> "events", cursor |-> hook.cursor])
    BY <1>0, <1>1, <2>1, PassKeeps DEF ReadHook, Idle, PassOK, Busy
  <2>2. CASE Goes(r, [step |-> "due"])
    BY <1>0, <1>1, <2>2, PassKeeps DEF ReadHook, Idle, PassOK, Busy
  <2> QED BY <1>1, <2>1, <2>2 DEF ReadHook
<1>2. CASE ReadEvents(r)
  <2> DEFINE c == job[r].cursor
             last == Min2(c + EventsPerTick, Len(feed))
             write == [step |-> "write", cursor |-> c, last |-> last]
  <2>0. job[r].step = "events" /\ c \in Nat
    BY <1>2 DEF ReadEvents, IInv, JobOK, PassOK
  <2>1. CASE served /\ c < Len(feed)
    <3>1. Goes(r, write)
      BY <1>2, <2>1 DEF ReadEvents
    <3>2. last \in Nat /\ c <= last /\ last <= Len(feed)
      BY <1>0, <2>0, <2>1, WebhooksAssumption DEF Min2
    <3> HIDE DEF c, last
    <3>3. PassOK(write, Len(feed)) /\ write.step \notin Busy
      BY <2>0, <3>2 DEF PassOK, Busy
    <3> HIDE DEF write
    <3> QED BY <1>0, <2>0, <3>1, <3>3, PassKeeps
  <2>2. CASE ~(served /\ c < Len(feed))
    <3>1. Goes(r, [step |-> "due"])
      BY <1>2, <2>2 DEF ReadEvents
    <3> QED BY <1>0, <2>0, <3>1, PassKeeps DEF PassOK, Busy
  <2> QED BY <2>1, <2>2
<1>3. CASE EnqueueFails(r)
  BY <1>0, <1>3, PassKeeps DEF EnqueueFails, PassOK, Busy
<1>4. CASE RowGone(r)
  BY <1>0, <1>4, PassKeeps DEF RowGone, Idle, PassOK, Busy
<1> QED BY <1>1, <1>2, <1>3, <1>4

(* The queue of a pass is the beginning of the line, with the attempts of  *)
(* that moment; what another pass has too is counted in doubled.           *)
LEMMA TakeDueKeeps == ASSUME IInv, NEW r \in Replicas, TakeDue(r) PROVE IInv'
<1> DEFINE n == Min2(DeliveriesPerTick, Len(line))
           due == SubSeq(line, 1, n)
           queue == [i \in DOMAIN due |-> [id |-> due[i], attempts |-> deliveries[due[i]].attempts]]
           j == [step |-> "post", failures |-> hook.failures, queue |-> queue]
<1>1. /\ job[r].step = "due" /\ UNCHANGED <<feed, hook, deliveries, line, taken, unheard, twice>>
      /\ JobOK /\ InHandOK /\ LineOK /\ DeliveryMeansTaken
  BY DEF TakeDue, hookVars, history, IInv
<1>2. CASE ~(On /\ line # <<>>)
  <2>1. Goes(r, Idle) /\ UNCHANGED doubled
    BY <1>2 DEF TakeDue
  <2> QED BY <1>1, <2>1, PassKeeps DEF Idle, PassOK, Busy
<1>3. CASE On /\ line # <<>>
  <2>1. /\ Goes(r, j)
        /\ doubled' = doubled \cup {d \in ToSet(due) : \E other \in Replicas \ {r} : Has(other, d)}
    BY <1>3 DEF TakeDue
  <2>2. /\ line \in Seq(DOMAIN deliveries) /\ Len(line) \in Nat \ {0}
        /\ line \in [1..Len(line) -> DOMAIN deliveries] /\ DOMAIN deliveries = 1..Len(deliveries)
    BY <1>3, LenProperties DEF IInv, LineOK, RowsOK
  <2>3. n \in 1..Len(line)
    BY <2>2, WebhooksAssumption DEF Min2
  <2>4. due \in Seq(DOMAIN deliveries) /\ Len(due) = n /\ \A i \in 1..n : due[i] = line[i]
    <3>1. \A i \in 1..n : line[i] \in DOMAIN deliveries
      BY <2>2, <2>3
    <3> HIDE DEF n
    <3>2. /\ due \in Seq(DOMAIN deliveries) /\ Len(due) = IF 1 <= n THEN n - 1 + 1 ELSE 0
          /\ \A i \in 1..(n - 1 + 1) : due[i] = line[1 + i - 1]
      BY <2>3, <3>1, SubSeqProperties
    <3> HIDE DEF due
    <3>3. Len(due) = n
      BY <2>2, <2>3, <3>2
    <3>4. \A i \in 1..n : i \in 1..(n - 1 + 1) /\ 1 + i - 1 = i
      BY <2>2, <2>3
    <3> QED BY <3>2, <3>3, <3>4
  <2> HIDE DEF due, n
  <2>5. DOMAIN due = 1..n /\ n \in Nat \ {0}
    BY <2>2, <2>3, <2>4
  <2>6. \A i \in 1..n : /\ i \in 1..Len(line) /\ due[i] = line[i] /\ due[i] \in DOMAIN deliveries
                        /\ due[i] \in Nat \ {0} /\ deliveries[due[i]].status = "PENDING"
                        /\ deliveries[due[i]].attempts \in Nat
    <3> TAKE i \in 1..n
    <3>1. i \in 1..Len(line) /\ due[i] = line[i] /\ due[i] \in DOMAIN deliveries
      BY <2>2, <2>3, <2>4
    <3> QED BY <2>2, <3>1 DEF IInv, LineOK, RowsOK
  <2>7. \A i \in 1..n : deliveries[due[i]].attempts \in 0..(MaxAttempts - 1)
    <3> TAKE i \in 1..n
    <3>1. Told(deliveries[due[i]])
      BY <1>1, <2>6, MeansTaken DEF ToldOf
    <3> QED BY <2>6, <3>1, WebhooksAssumption DEF Told
  <2>8. /\ \A i \in 1..n : queue[i] = [id |-> due[i], attempts |-> deliveries[due[i]].attempts]
        /\ queue \in [1..n -> Copies]
    BY <2>5, <2>6, <2>7 DEF Copies
  <2>9. queue \in Seq(Copies) /\ Len(queue) = n
    BY <2>5, <2>8, ArrayIsSequence
  <2>10. QueueOK(j)
    <3>1. \A i, k \in 1..n : queue[i].id = queue[k].id => i = k
      BY <2>6, <2>8 DEF IInv, LineOK
    <3>2. queue # <<>>
      BY <2>5, <2>9
    <3> HIDE DEF queue
    <3> QED BY <2>9, <3>1, <3>2 DEF QueueOK
  <2>11. \A d : Holds(j, d) <=> \E i \in 1..n : due[i] = d
    <3>1. \A i \in 1..n : queue[i].id = due[i]
      BY <2>8
    <3> HIDE DEF queue
    <3> QED BY <2>9, <3>1 DEF Holds, Busy
  <2>12. j.step = "post" /\ PassOK(j, Len(feed))
    BY <2>10 DEF PassOK, Busy
  <2> HIDE DEF j
  <2>13. JobOK' /\ job'[r] = j /\ \A q \in Replicas \ {r} : job'[q] = job[q]
    BY <1>1, <2>1, <2>12, JobStaysOK, GoesTo
  <2>14. \A q \in Replicas : \A d : Has(q, d)' <=> Holds(job'[q], d)
    <3> TAKE q \in Replicas
    <3>1. PassOK(job'[q], Len(feed)')
      BY <2>13 DEF JobOK
    <3> QED BY <3>1 DEF Has, Holds, Busy, PassOK, QueueOK
  <2>15. \A q \in Replicas \ {r} : \A d : Has(q, d)' <=> Has(q, d)
    BY <2>13 DEF Has
  <2>16. \A d : Has(r, d)' <=> \E i \in 1..n : due[i] = d
    BY <2>11, <2>13, <2>14
  <2>17. ToSet(due) = {due[i] : i \in 1..n}
    BY <2>5 DEF ToSet
  <2>18. InHandOK'
    <3> SUFFICES ASSUME NEW q \in Replicas, NEW d \in Nat \ {0}, Has(q, d)', hook.exists
          PROVE  /\ d \in DOMAIN deliveries
                 /\ d \notin doubled' => Waits(d) /\ \A p \in Replicas : Has(p, d)' => p = q
      BY <1>1 DEF InHandOK, Waits
    <3>1. CASE q = r
      <4>1. PICK i \in 1..n : due[i] = d
        BY <2>16, <3>1
      <4>2. d \in DOMAIN deliveries /\ Waits(d) /\ d \in ToSet(due)
        BY <2>6, <2>17, <4>1 DEF Waits
      <4>3. d \notin doubled' => \A p \in Replicas \ {r} : ~Has(p, d)
        BY <2>1, <4>2
      <4> QED BY <2>15, <3>1, <4>2, <4>3
    <3>2. CASE q # r
      <4>1. Has(q, d)
        BY <2>15, <3>2
      <4>2. d \in DOMAIN deliveries /\ (d \notin doubled => Waits(d) /\ \A p \in Replicas : Has(p, d) => p = q)
        BY <1>1, <4>1 DEF InHandOK
      <4>3. d \notin doubled' => d \notin doubled /\ d \notin ToSet(due)
        BY <2>1, <3>2, <4>1
      <4>4. d \notin ToSet(due) => ~Has(r, d)'
        BY <2>16, <2>17
      <4> QED BY <2>15, <4>2, <4>3, <4>4
    <3> QED BY <3>1, <3>2
  <2>19. GoodOK'
    BY <1>1, <2>12, <2>13 DEF IInv, GoodOK, Posting
  <2>20. \A d : BeingRecorded(d)' <=> BeingRecorded(d)
    BY <1>1, <2>12, <2>13 DEF BeingRecorded, Posting
  <2>21. doubled \subseteq doubled'
    BY <2>1
  <2>22. DeliveryMeansTaken'
    BY <1>1, <2>20, <2>21 DEF DeliveryMeansTaken
  <2> QED BY <1>1, <2>13, <2>18, <2>19, <2>22, SameRows, InvPrimed
<1> QED BY <1>2, <1>3

(* The POST: what the receiver takes was pending and, unless two passes    *)
(* have it, no answer to it was about to be recorded.                      *)
LEMMA PostKeeps ==
  ASSUME IInv, NEW r \in Replicas, NEW outcome \in {"taken", "unheard", "refused"}, Post(r, outcome)
  PROVE  IInv'
<1> DEFINE d == Posting(r)
           step == IF outcome = "taken" THEN "good" ELSE "bad"
           j == [job[r] EXCEPT !.step = step]
<1>1. /\ job[r].step = "post" /\ Goes(r, j)
      /\ UNCHANGED <<feed, hook, deliveries, line, doubled>>
      /\ JobOK /\ InHandOK /\ DeliveryMeansTaken
  BY DEF Post, hookVars, IInv
<1>2. QueueOK(job[r])
  BY <1>1 DEF JobOK, PassOK, Busy
<1>3. /\ DOMAIN j = {"step", "queue", "failures"} /\ j.step = step /\ j.queue = job[r].queue
      /\ step \in {"good", "bad"} /\ (step = "good" <=> outcome = "taken")
  BY <1>2 DEF QueueOK
<1>4. PassOK(j, Len(feed))
  BY <1>2, <1>3 DEF PassOK, QueueOK
<1> HIDE DEF j, step
<1>5. JobOK' /\ job'[r] = j /\ \A q \in Replicas \ {r} : job'[q] = job[q]
  BY <1>1, <1>4, JobStaysOK, GoesTo
<1>6. CASE ~hook.exists
  <2>1. UNCHANGED <<taken, unheard, twice>>
    BY <1>6 DEF Post
  <2> QED BY <1>1, <1>5, <1>6, <2>1, GoneKeeps
<1>7. CASE hook.exists
  <2>1. \A q \in Replicas : \A e : Has(q, e)' <=> Has(q, e)
    BY <1>1, <1>3, <1>5 DEF Has
  <2>2. InHandOK'
    BY <1>1, <2>1 DEF InHandOK, Waits
  <2>3. Holds(job[r], d) /\ d \in Nat \ {0} /\ d = Head(job[r].queue).id
    BY <1>1, <1>2, HeadOfQueue DEF Posting, Copies, Busy
  <2>4. Has(r, d) /\ d \in DOMAIN deliveries
    BY <1>1, <1>7, <2>3, HasIs DEF InHandOK
  <2>5. d \notin doubled => deliveries[d].status = "PENDING" /\ \A q \in Replicas : Has(q, d) => q = r
    BY <1>1, <1>7, <2>3, <2>4 DEF InHandOK, IInv, LineOK, Waits
  <2>6. \A q \in Replicas : Recording(job[q], d) => Has(q, d)
    <3> SUFFICES ASSUME NEW q \in Replicas, Recording(job[q], d) PROVE Has(q, d)
      OBVIOUS
    <3>1. QueueOK(job[q]) /\ job[q].step \in Busy
      BY <1>1 DEF Recording, JobOK, PassOK, Busy
    <3> QED BY <1>1, <3>1, HeadOfQueue, HasIs DEF Recording
  <2>7. ~Recording(job[r], d) /\ \A e : ~Recording(job[r], e)
    BY <1>1 DEF Recording
  <2>8. d \notin doubled => ~\E q \in Replicas : Recording(job[q], d)
    BY <2>5, <2>6, <2>7
  <2>9. d \notin doubled => d \notin twice /\ d \notin taken \ unheard
    BY <1>1, <2>4, <2>5, <2>8, MeansTaken DEF ToldOf
  <2>10. \A e : Recording(job'[r], e) <=> outcome = "taken" /\ e = d
    BY <1>3, <1>5, <2>3 DEF Recording
  <2>11. \A q \in Replicas \ {r} : \A e : Recording(job'[q], e) <=> Recording(job[q], e)
    BY <1>5
  <2> HIDE DEF d
  <2>12. \A e : e # d => ((\E q \in Replicas : Recording(job'[q], e)) <=> \E q \in Replicas : Recording(job[q], e))
    BY <2>7, <2>10, <2>11
  <2>13. d \notin doubled => ((\E q \in Replicas : Recording(job'[q], d)) <=> outcome = "taken")
    BY <2>8, <2>10, <2>11
  <2>14. /\ taken \subseteq taken' /\ (outcome # "refused" => d \in taken')
         /\ \A e : e # d => (e \in taken' <=> e \in taken) /\ (e \in unheard' <=> e \in unheard) /\ (e \in twice' <=> e \in twice)
         /\ d \in taken \ unheard \/ d \in twice \/ d \notin twice'
         /\ d \notin taken \ unheard => (d \in taken' \ unheard' <=> outcome = "taken")
    BY <1>7 DEF Post, d
  <2>15. RowsOK'
    <3>1. d \in 1..Len(deliveries) /\ RowsOK
      BY <2>4 DEF IInv, RowsOK
    <3>2. taken' \subseteq 1..Len(deliveries) /\ unheard' \subseteq 1..Len(deliveries) /\ twice' \subseteq 1..Len(deliveries)
      BY <2>14, <3>1 DEF RowsOK
    <3> QED BY <1>1, <3>1, <3>2 DEF RowsOK
  <2>16. GoodOK'
    <3> SUFFICES ASSUME NEW q \in Replicas, job'[q].step = "good" PROVE Head(job'[q].queue).id \in taken'
      BY DEF GoodOK, Posting
    <3>1. CASE q = r
      BY <1>3, <1>5, <2>3, <2>14, <3>1
    <3>2. CASE q # r
      BY <1>5, <1>7, <2>14, <3>2 DEF IInv, GoodOK, Posting
    <3> QED BY <3>1, <3>2
  <2>17. DeliveryMeansTaken'
    <3>1. \A e \in DOMAIN deliveries' : ToldOf(e)'
      <4> TAKE e \in DOMAIN deliveries'
      <4>1. ToldOf(e)
        BY <1>1, MeansTaken
      <4>2. CASE e = d
        BY <1>1, <2>5, <2>9, <2>13, <2>14, <4>1, <4>2 DEF ToldOf
      <4>3. CASE e # d
        BY <1>1, <2>12, <2>14, <4>1, <4>3 DEF ToldOf
      <4> QED BY <4>2, <4>3
    <3> QED BY <3>1, MeansTakenNext
  <2> QED BY <1>1, <1>5, <2>2, <2>15, <2>16, <2>17, InvPrimed DEF IInv, HookOK, LineOK, GoneOK
<1> QED BY <1>6, <1>7

-----------------------------------------------------------------------------
(* The answer of a post is recorded, on the attempts of the copy: the row  *)
(* leaves the line if it was there, and no pass records it any more unless *)
(* two had it.                                                             *)
LEMMA RecordKeeps ==
  ASSUME IInv, NEW r \in Replicas, job[r].step \in {"good", "bad"}, hook.exists,
         NEW status \in {"PENDING", "DELIVERED", "FAILED"}, Record(r, status),
         HookOK', hook'.exists = hook.exists,
         status = "DELIVERED" <=> job[r].step = "good",
         status = "FAILED" => ~(Head(job[r].queue).attempts + 1 < MaxAttempts),
         status = "PENDING" => Head(job[r].queue).attempts + 1 < MaxAttempts
  PROVE  IInv'
<1> DEFINE d == Posting(r)
           a == Head(job[r].queue).attempts
           n == Len(deliveries)
<1>1. /\ JobOK /\ InHandOK /\ RowsOK /\ LineOK /\ DeliveryMeansTaken /\ QueueOK(job[r])
      /\ job[r].step \in Busy
  BY DEF IInv, JobOK, PassOK, Busy
<1>2. /\ deliveries' = [deliveries EXCEPT ![d].status = status, ![d].attempts = a + 1]
      /\ line' = RemoveFirst(line, d)
      /\ Goes(r, NextOf(job[r]))
      /\ UNCHANGED <<feed, taken, unheard, twice, doubled>>
  BY DEF Record, history
<1>3. /\ d \in Nat \ {0} /\ a \in 0..(MaxAttempts - 1) /\ Holds(job[r], d) /\ Has(r, d)
      /\ d \in DOMAIN deliveries /\ n \in Nat /\ DOMAIN deliveries = 1..n
  <2>1. Head(job[r].queue) \in Copies /\ Holds(job[r], d) /\ d \in Nat \ {0} /\ a \in 0..(MaxAttempts - 1)
    BY <1>1, HeadOfQueue DEF Copies, Posting
  <2> QED BY <1>1, <2>1, HasIs DEF InHandOK, RowsOK
<1>4. /\ PassOK(NextOf(job[r]), Len(feed)) /\ NextOf(job[r]).step \in {"idle", "post"}
      /\ \A e : Holds(NextOf(job[r]), e) => Holds(job[r], e) /\ e # d
  BY <1>1, NextOfIs DEF Posting
<1>5. JobOK' /\ job'[r] = NextOf(job[r]) /\ \A q \in Replicas \ {r} : job'[q] = job[q]
  BY <1>1, <1>2, <1>4, JobStaysOK, GoesTo
<1>6. \A q \in Replicas : \A e : Has(q, e)' => Has(q, e) /\ (q = r => e # d)
  <2> TAKE q \in Replicas
  <2>1. PassOK(job'[q], Len(feed'))
    BY <1>5 DEF JobOK
  <2>2. \A e : Has(q, e)' <=> Holds(job'[q], e)
    BY <2>1 DEF Has, Holds, Busy, PassOK, QueueOK
  <2> QED BY <1>1, <1>4, <1>5, <2>2, HasIs
<1>7. /\ DOMAIN deliveries' = 1..n /\ deliveries' = [e \in 1..n |-> deliveries'[e]]
      /\ \A e \in (1..n) \ {d} : deliveries'[e] = deliveries[e]
      /\ deliveries'[d].status = status /\ deliveries'[d].attempts = a + 1
      /\ DOMAIN deliveries'[d] = {"items", "status", "attempts"}
  BY <1>1, <1>2, <1>3 DEF RowsOK
<1> HIDE DEF a, d
<1>8. /\ line' \in Seq(1..n)
      /\ \A i \in 1..Len(line') : line'[i] # d /\ \E k \in 1..Len(line) : line[k] = line'[i]
      /\ \A k \in 1..Len(line) : line[k] # d => \E i \in 1..Len(line') : line'[i] = line[k]
      /\ \A i, k \in 1..Len(line') : line'[i] = line'[k] => i = k
  <2>1. line \in Seq(1..n) /\ \A i, k \in 1..Len(line) : line[i] = line[k] => i = k
    BY <1>1, <1>3 DEF LineOK
  <2> HIDE DEF n
  <2> QED BY <1>2, <2>1, RemoveOne
<1>9. RowsOK'
  <2>1. /\ \A e \in 1..n : DOMAIN deliveries[e] = {"items", "status", "attempts"} /\ deliveries[e].attempts \in Nat
        /\ taken \subseteq 1..n /\ unheard \subseteq 1..n /\ twice \subseteq 1..n
    BY <1>1 DEF RowsOK
  <2>2. \A e \in 1..n : DOMAIN deliveries'[e] = {"items", "status", "attempts"} /\ deliveries'[e].attempts \in Nat
    BY <1>3, <1>7, <2>1
  <2> HIDE DEF n
  <2>3. Len(deliveries') = n
    BY <1>3, <1>7, SequenceOfItsElements
  <2> QED BY <1>2, <1>3, <1>7, <2>1, <2>2, <2>3 DEF RowsOK
<1>10. LineOK'
  <2>1. \A i \in 1..Len(line') : deliveries'[line'[i]].status = "PENDING"
    <3> TAKE i \in 1..Len(line')
    <3>1. PICK k \in 1..Len(line) : line[k] = line'[i] /\ line'[i] # d
      BY <1>8
    <3>2. deliveries[line[k]].status = "PENDING" /\ line[k] \in 1..n
      BY <1>1, <1>3 DEF LineOK
    <3> QED BY <1>7, <3>1, <3>2
  <2> QED BY <1>7, <1>8, <2>1 DEF LineOK
<1>11. InHandOK'
  <2> SUFFICES ASSUME NEW q \in Replicas, NEW e \in Nat \ {0}, Has(q, e)'
        PROVE  /\ e \in DOMAIN deliveries'
               /\ e \notin doubled' => Waits(e)' /\ \A p \in Replicas : Has(p, e)' => p = q
    BY DEF InHandOK
  <2>1. Has(q, e) /\ (q = r => e # d)
    BY <1>6
  <2>2. e \in DOMAIN deliveries /\ (e \notin doubled => Waits(e) /\ \A p \in Replicas : Has(p, e) => p = q)
    BY <1>1, <2>1 DEF InHandOK
  <2>3. e \notin doubled => e # d
    BY <1>3, <2>1, <2>2
  <2>4. e \notin doubled => Waits(e)'
    BY <1>8, <2>2, <2>3 DEF Waits
  <2> QED BY <1>2, <1>3, <1>6, <1>7, <2>2, <2>4
<1>12. GoodOK'
  BY <1>2, <1>4, <1>5 DEF IInv, GoodOK, Posting
<1>13. DeliveryMeansTaken'
  <2>1. \A q \in Replicas : Recording(job[q], d) => Has(q, d)
    <3> SUFFICES ASSUME NEW q \in Replicas, Recording(job[q], d) PROVE Has(q, d)
      OBVIOUS
    <3>1. QueueOK(job[q]) /\ job[q].step \in Busy
      BY <1>1 DEF Recording, JobOK, PassOK, Busy
    <3> QED BY <1>1, <3>1, HeadOfQueue, HasIs DEF Recording
  <2>2. \A e : ~Recording(job'[r], e)
    BY <1>4, <1>5 DEF Recording
  <2>3. \A q \in Replicas \ {r} : \A e : Recording(job'[q], e) <=> Recording(job[q], e)
    BY <1>5
  <2>4. Recording(job[r], d) <=> job[r].step = "good"
    BY DEF Recording, d, Posting
  <2>5. \A e : e # d => ~Recording(job[r], e)
    BY DEF Recording, d, Posting
  <2>6. d \notin doubled => /\ deliveries[d].status = "PENDING"
                            /\ \A q \in Replicas : Has(q, d) => q = r
    <3>1. d \notin doubled => Waits(d) /\ \A q \in Replicas : Has(q, d) => q = r
      BY <1>1, <1>3 DEF InHandOK
    <3>2. Waits(d) => deliveries[d].status = "PENDING"
      BY <1>1 DEF LineOK, Waits
    <3> QED BY <3>1, <3>2
  <2>7. d \notin doubled => ~\E q \in Replicas : Recording(job'[q], d)
    BY <2>1, <2>2, <2>3, <2>6
  <2>8. ToldOf(d)
    BY <1>1, <1>3, MeansTaken
  <2>9. d \notin doubled => d \notin twice /\ (d \in taken \ unheard <=> status = "DELIVERED")
    BY <2>1, <2>4, <2>6, <2>8 DEF ToldOf
  <2>10. status = "DELIVERED" => d \in taken
    BY DEF IInv, GoodOK, d
  <2>11. Told(deliveries'[d])
    <3> DEFINE row == deliveries'[d]
    <3>1. row.status = status /\ row.attempts = a + 1
      BY <1>7
    <3>2. (status = "FAILED" => a + 1 = MaxAttempts) /\ (status = "PENDING" => a + 1 < MaxAttempts)
      BY <1>3, WebhooksAssumption DEF a
    <3> HIDE DEF row
    <3>3. Told(row)
      BY <3>1, <3>2 DEF Told
    <3> QED BY <3>3 DEF row
  <2>12. \A e \in DOMAIN deliveries' : ToldOf(e)'
    <3> TAKE e \in DOMAIN deliveries'
    <3>1. CASE e = d
      <4>1. deliveries'[e].status = status /\ Told(deliveries'[e])
        BY <1>7, <2>11, <3>1
      <4> QED BY <1>2, <2>7, <2>9, <2>10, <3>1, <4>1 DEF ToldOf
    <3>2. CASE e # d
      <4>1. ToldOf(e) /\ deliveries'[e] = deliveries[e]
        BY <1>1, <1>3, <1>7, <3>2, MeansTaken
      <4>2. (\E q \in Replicas : Recording(job'[q], e)) <=> \E q \in Replicas : Recording(job[q], e)
        BY <2>2, <2>3, <2>5, <3>2
      <4> QED BY <1>2, <4>1, <4>2 DEF ToldOf
    <3> QED BY <3>1, <3>2
  <2> QED BY <2>12, MeansTakenNext
<1> QED BY <1>5, <1>9, <1>10, <1>11, <1>12, <1>13, InvPrimed DEF IInv, GoneOK

LEMMA RecordGoodKeeps == ASSUME IInv, NEW r \in Replicas, RecordGood(r) PROVE IInv'
<1>1. HookOK' /\ hook'.exists = hook.exists
  BY DEF RecordGood, Record, IInv, HookOK
<1> QED BY <1>1, RecordKeeps DEF RecordGood

LEMMA RecordBadKeeps == ASSUME IInv, NEW r \in Replicas, RecordBad(r) PROVE IInv'
<1>1. /\ job[r].step = "bad" /\ hook.exists
      /\ Record(r, IF Head(job[r].queue).attempts + 1 < MaxAttempts THEN "PENDING" ELSE "FAILED")
  BY DEF RecordBad, RecordFailure
<1>2. HookOK' /\ hook'.exists = hook.exists
  BY DEF RecordBad, RecordFailure, Record, IInv, HookOK
<1>3. CASE Head(job[r].queue).attempts + 1 < MaxAttempts
  BY <1>1, <1>2, <1>3, RecordKeeps
<1>4. CASE ~(Head(job[r].queue).attempts + 1 < MaxAttempts)
  BY <1>1, <1>2, <1>4, RecordKeeps
<1> QED BY <1>3, <1>4

-----------------------------------------------------------------------------
(* A retry joins the line.                                                 *)
LEMMA RetryDueKeeps == ASSUME IInv, NEW d \in DOMAIN deliveries, RetryDue(d) PROVE IInv'
<1>1. /\ deliveries[d].status = "PENDING" /\ ~Contains(line, d) /\ line' = Append(line, d)
      /\ UNCHANGED <<feed, hook, deliveries, job, taken, unheard, twice, doubled>>
  BY DEF RetryDue, history
<1> DEFINE m == Len(line)
<1>2. line \in Seq(DOMAIN deliveries) /\ m \in Nat
  BY DEF IInv, LineOK
<1>3. /\ line' \in Seq(DOMAIN deliveries) /\ Len(line') = m + 1
      /\ \A i \in 1..m : line'[i] = line[i]
      /\ line'[m + 1] = d
  BY <1>1, <1>2, AppendProperties
<1>4. \A i \in 1..m : line[i] # d
  BY <1>1 DEF Contains
<1>5. \A i \in 1..m : deliveries[line[i]].status = "PENDING"
  BY DEF IInv, LineOK
<1>6. \A i, k \in 1..m : line[i] = line[k] => i = k
  BY DEF IInv, LineOK
<1>7. \A e : Waits(e) => Waits(e)'
  <2> SUFFICES ASSUME NEW e, NEW i \in 1..m, line[i] = e PROVE \E k \in 1..Len(line') : line'[k] = e
    BY DEF Waits
  <2>1. i \in 1..Len(line') /\ line'[i] = e
    BY <1>2, <1>3
  <2> QED BY <2>1
<1> HIDE DEF m
<1>8. LineOK'
  <2>1. \A i \in 1..(m + 1) : i \in 1..m \/ i = m + 1
    BY <1>2
  <2>2. \A i \in 1..(m + 1) : deliveries'[line'[i]].status = "PENDING"
    BY <1>1, <1>3, <1>5, <2>1
  <2>3. \A i, k \in 1..(m + 1) : line'[i] = line'[k] => i = k
    BY <1>3, <1>4, <1>6, <2>1
  <2> QED BY <1>1, <1>3, <2>2, <2>3 DEF LineOK
<1>9. HookOK' /\ JobOK' /\ RowsOK'
  BY <1>1 DEF IInv, HookOK, JobOK, RowsOK
<1>10. GoneOK'
  BY <1>1 DEF IInv, GoneOK
<1>11. InHandOK'
  BY <1>1, <1>7 DEF IInv, InHandOK, Has
<1>12. GoodOK' /\ DeliveryMeansTaken'
  BY <1>1 DEF IInv, GoodOK, DeliveryMeansTaken, BeingRecorded, Posting
<1> QED BY <1>8, <1>9, <1>10, <1>11, <1>12, InvPrimed

(* A restart loses the answer that was going to be recorded.               *)
LEMMA CrashKeeps == ASSUME IInv, NEW r \in Replicas, Crash(r) PROVE IInv'
<1> DEFINE d == Posting(r)
<1>1. /\ Goes(r, Idle) /\ UNCHANGED <<feed, hook, deliveries, line, taken, twice, doubled>>
      /\ JobOK /\ InHandOK /\ DeliveryMeansTaken /\ RowsOK
  BY DEF Crash, hookVars, IInv
<1>2. PassOK(Idle, Len(feed)) /\ Idle.step \notin Busy
  BY DEF PassOK, Idle, Busy
<1>3. CASE ~(job[r].step = "good" /\ hook.exists)
  <2>1. UNCHANGED unheard
    BY <1>3 DEF Crash
  <2> QED BY <1>1, <1>2, <1>3, <2>1, PassKeeps DEF IInv, HookOK
<1>4. CASE job[r].step = "good" /\ hook.exists
  <2>1. unheard' = unheard \cup {d}
    BY <1>4 DEF Crash
  <2>2. JobOK' /\ job'[r] = Idle /\ \A q \in Replicas \ {r} : job'[q] = job[q]
    BY <1>1, <1>2, JobStaysOK, GoesTo
  <2>3. QueueOK(job[r]) /\ job[r].step \in Busy
    BY <1>1, <1>4 DEF JobOK, PassOK, Busy
  <2>4. d \in Nat \ {0} /\ Holds(job[r], d)
    BY <2>3, HeadOfQueue DEF Posting, Copies
  <2>5. Has(r, d) /\ d \in DOMAIN deliveries
    BY <1>1, <1>4, <2>4, HasIs DEF InHandOK
  <2>6. d \notin doubled => deliveries[d].status = "PENDING" /\ \A q \in Replicas : Has(q, d) => q = r
    BY <1>1, <1>4, <2>4, <2>5 DEF InHandOK, IInv, LineOK, Waits
  <2>7. \A q \in Replicas : \A e : Has(q, e)' => Has(q, e)
    BY <1>2, <2>2 DEF Has, Busy
  <2>8. InHandOK'
    BY <1>1, <2>7 DEF InHandOK, Waits
  <2>9. GoodOK'
    BY <1>1, <1>2, <2>2 DEF IInv, GoodOK, Posting, Busy
  <2>10. RowsOK'
    BY <1>1, <2>1, <2>5 DEF RowsOK
  <2>11. \A q \in Replicas : Recording(job[q], d) => Has(q, d)
    <3> SUFFICES ASSUME NEW q \in Replicas, Recording(job[q], d) PROVE Has(q, d)
      OBVIOUS
    <3>1. QueueOK(job[q]) /\ job[q].step \in Busy
      BY <1>1 DEF Recording, JobOK, PassOK, Busy
    <3> QED BY <1>1, <3>1, HeadOfQueue, HasIs DEF Recording
  <2>12. \A e : ~Recording(job'[r], e)
    BY <1>2, <2>2 DEF Recording, Busy
  <2>13. \A q \in Replicas \ {r} : \A e : Recording(job'[q], e) <=> Recording(job[q], e)
    BY <2>2
  <2>14. \A e : e # d => ~Recording(job[r], e)
    BY DEF Recording, Posting
  <2> HIDE DEF d
  <2>15. \A e \in DOMAIN deliveries' : ToldOf(e)'
    <3> TAKE e \in DOMAIN deliveries'
    <3>1. ToldOf(e)
      BY <1>1, MeansTaken
    <3>2. CASE e = d
      <4>1. d \notin doubled => ~\E q \in Replicas : Recording(job'[q], d)
        BY <2>6, <2>11, <2>12, <2>13
      <4> QED BY <1>1, <2>1, <2>6, <3>1, <3>2, <4>1 DEF ToldOf
    <3>3. CASE e # d
      <4>1. (\E q \in Replicas : Recording(job'[q], e)) <=> \E q \in Replicas : Recording(job[q], e)
        BY <2>12, <2>13, <2>14, <3>3
      <4> QED BY <1>1, <2>1, <3>1, <3>3, <4>1 DEF ToldOf
    <3> QED BY <3>2, <3>3
  <2> QED BY <1>1, <2>2, <2>8, <2>9, <2>10, <2>15, MeansTakenNext, InvPrimed DEF IInv, HookOK, LineOK, GoneOK
<1> QED BY <1>3, <1>4

-----------------------------------------------------------------------------
(* How many deliveries a batch of events makes: a number.                  *)
LEMMA BatchIsFinite ==
  ASSUME NEW from \in Nat, NEW to \in Nat
  PROVE  (Cardinality(Wanted(from, to)) + ItemsPerDelivery - 1) \div ItemsPerDelivery \in Int
<1>1. IsFiniteSet((from + 1)..to)
  BY FS_Interval
<1>2. Wanted(from, to) \subseteq (from + 1)..to
  BY DEF Wanted
<1>3. Cardinality(Wanted(from, to)) \in Nat
  BY <1>1, <1>2, FS_Subset, FS_CardinalityType
<1> DEFINE many == Cardinality(Wanted(from, to))
<1> HIDE DEF many
<1>4. many + ItemsPerDelivery - 1 \in Int /\ ItemsPerDelivery \in Nat \ {0}
  BY <1>3, WebhooksAssumption DEF many
<1>5. (many + ItemsPerDelivery - 1) \div ItemsPerDelivery \in Int
  BY <1>4
<1> QED BY <1>5 DEF many

(* New rows are pending, were never tried and go to the end of the line;   *)
(* no pass has them.                                                       *)
LEMMA EnqueueKeeps == ASSUME IInv, NEW r \in Replicas, Enqueue(r) PROVE IInv'
<1> DEFINE wanted == Wanted(job[r].cursor, job[r].last)
           many == Cardinality(wanted)
           k == (many + ItemsPerDelivery - 1) \div ItemsPerDelivery
           slice(i) == SubSeq(InOrder(wanted), (i - 1) * ItemsPerDelivery + 1, Min2(i * ItemsPerDelivery, many))
           rows == [i \in 1..k |-> [items |-> slice(i), status |-> "PENDING", attempts |-> 0]]
           m == Len(deliveries)
           j == [step |-> "due"]
<1>1. /\ job[r].step = "write" /\ hook.exists
      /\ deliveries' = deliveries \o rows
      /\ line' = line \o [i \in 1..k |-> m + i]
      /\ hook' = [hook EXCEPT !.cursor = job[r].last]
      /\ Goes(r, j)
      /\ UNCHANGED <<feed, doubled, taken, unheard, twice>>
  BY DEF Enqueue, EnqueueAndMoveTo
<1>2. /\ job[r].cursor \in Nat /\ job[r].last \in Nat
      /\ JobOK /\ RowsOK /\ LineOK /\ InHandOK /\ DeliveryMeansTaken
  BY <1>1 DEF IInv, JobOK, PassOK
<1>3. k \in Int
  BY <1>2, BatchIsFinite
<1>4. HookOK' /\ hook'.exists
  BY <1>1, <1>2 DEF IInv, HookOK
<1>5. PassOK(j, Len(feed)) /\ j.step \notin Busy
  BY DEF PassOK, Busy
<1> HIDE DEF k, wanted, many, slice, j
<1>6. JobOK' /\ job'[r] = j /\ \A q \in Replicas \ {r} : job'[q] = job[q]
  BY <1>1, <1>2, <1>5, JobStaysOK, GoesTo
<1> DEFINE n == IF k < 0 THEN 0 ELSE k
<1>7. n \in Nat /\ 1..k = 1..n
  BY <1>3
<1> HIDE DEF n
<1>8. /\ rows = [i \in 1..n |-> rows[i]] /\ DOMAIN rows = 1..n
      /\ \A i \in 1..n : /\ rows[i].status = "PENDING" /\ rows[i].attempts = 0
                         /\ DOMAIN rows[i] = {"items", "status", "attempts"}
  BY <1>7
<1> HIDE DEF rows
<1>9. /\ m \in Nat /\ DOMAIN deliveries = 1..m /\ deliveries = [d \in 1..m |-> deliveries[d]]
      /\ \A d \in 1..m : DOMAIN deliveries[d] = {"items", "status", "attempts"} /\ deliveries[d].attempts \in Nat
      /\ taken \subseteq 1..m /\ unheard \subseteq 1..m /\ twice \subseteq 1..m
  BY <1>2 DEF RowsOK
<1>10. /\ deliveries' = [d \in 1..(m + n) |-> deliveries'[d]]
       /\ DOMAIN deliveries' = 1..(m + n) /\ Len(deliveries') = m + n
       /\ \A d \in 1..m : deliveries'[d] = deliveries[d]
       /\ \A i \in 1..n : deliveries'[m + i] = rows[i]
  BY <1>1, <1>7, <1>8, <1>9, Joined
<1> HIDE DEF m
<1>11. /\ \A d \in 1..(m + n) : d \in 1..m \/ (d - m \in 1..n /\ d = m + (d - m) /\ d \notin 1..m)
       /\ 1..m \subseteq 1..(m + n) /\ \A i \in 1..n : m + i \in 1..(m + n)
  BY <1>7, <1>9
<1>12. RowsOK'
  <2>1. \A d \in 1..(m + n) : DOMAIN deliveries'[d] = {"items", "status", "attempts"} /\ deliveries'[d].attempts \in Nat
    <3> TAKE d \in 1..(m + n)
    <3>1. CASE d \in 1..m
      BY <3>1, <1>9, <1>10
    <3>2. CASE d - m \in 1..n /\ d = m + (d - m)
      BY <3>2, <1>8, <1>10
    <3> QED BY <3>1, <3>2, <1>11
  <2>2. m + n \in Nat
    BY <1>7, <1>9
  <2> QED BY <2>1, <2>2, <1>1, <1>9, <1>10, <1>11 DEF RowsOK
<1> DEFINE l == Len(line)
           late == [i \in 1..n |-> m + i]
<1>13. /\ line \in Seq(1..m) /\ l \in Nat /\ line \in [1..l -> 1..m]
       /\ \A i \in 1..l : deliveries[line[i]].status = "PENDING"
       /\ \A i, h \in 1..l : line[i] = line[h] => i = h
  BY <1>2, <1>9, LenProperties DEF LineOK
<1> HIDE DEF l
<1>14. line = [i \in 1..l |-> line[i]] /\ late = [i \in 1..n |-> late[i]] /\ \A i \in 1..n : late[i] = m + i
  BY <1>13
<1>15. line' = line \o late
  BY <1>1, <1>7 DEF m
<1> HIDE DEF late
<1>16. /\ line' = [i \in 1..(l + n) |-> line'[i]] /\ Len(line') = l + n
       /\ \A i \in 1..l : line'[i] = line[i]
       /\ \A i \in 1..n : line'[l + i] = m + i
  BY <1>7, <1>13, <1>14, <1>15, Joined
<1>17. \A i \in 1..(l + n) : i \in 1..l \/ (i - l \in 1..n /\ i = l + (i - l))
  BY <1>7, <1>13
<1>18. \A d : Waits(d) => Waits(d)'
  <2> SUFFICES ASSUME NEW d, NEW i \in 1..l, line[i] = d PROVE \E h \in 1..Len(line') : line'[h] = d
    BY DEF Waits, l
  <2>1. i \in 1..Len(line') /\ line'[i] = d
    BY <1>7, <1>13, <1>16
  <2> QED BY <2>1
<1>19. LineOK'
  <2>1. \A i \in 1..(l + n) : line'[i] \in 1..(m + n) /\ deliveries'[line'[i]].status = "PENDING"
    <3> TAKE i \in 1..(l + n)
    <3>1. CASE i \in 1..l
      <4>1. line'[i] = line[i] /\ line[i] \in 1..m
        BY <3>1, <1>13, <1>16
      <4> QED BY <3>1, <4>1, <1>10, <1>11, <1>13
    <3>2. CASE i - l \in 1..n /\ i = l + (i - l)
      <4>1. line'[i] = m + (i - l)
        BY <3>2, <1>16
      <4> QED BY <3>2, <4>1, <1>8, <1>10, <1>11
    <3> QED BY <3>1, <3>2, <1>17
  <2>2. \A i, h \in 1..(l + n) : line'[i] = line'[h] => i = h
    <3> TAKE i, h \in 1..(l + n)
    <3>1. i \in 1..l => line'[i] = line[i] /\ line[i] \in 1..m
      BY <1>13, <1>16
    <3>2. h \in 1..l => line'[h] = line[h] /\ line[h] \in 1..m
      BY <1>13, <1>16
    <3>3. i \notin 1..l => line'[i] = m + (i - l) /\ i - l \in 1..n
      BY <1>16, <1>17
    <3>4. h \notin 1..l => line'[h] = m + (h - l) /\ h - l \in 1..n
      BY <1>16, <1>17
    <3>5. CASE i \in 1..l /\ h \in 1..l
      BY <3>1, <3>2, <3>5, <1>13
    <3>6. CASE i \notin 1..l /\ h \notin 1..l
      <4>1. i \in Int /\ h \in Int /\ l \in Int /\ m \in Int
        BY <1>7, <1>9, <1>13
      <4>2. m + (i - l) = m + (h - l) => i = h
        BY <4>1
      <4> QED BY <3>3, <3>4, <3>6, <4>2
    <3>7. \A x \in 1..m, y \in 1..n : x # m + y
      BY <1>7, <1>9
    <3>8. CASE i \in 1..l /\ h \notin 1..l
      BY <3>1, <3>4, <3>7, <3>8
    <3>9. CASE i \notin 1..l /\ h \in 1..l
      BY <3>2, <3>3, <3>7, <3>9
    <3> QED BY <3>5, <3>6, <3>8, <3>9
  <2>3. line' \in [1..(l + n) -> 1..(m + n)] /\ l + n \in Nat
    BY <1>7, <1>13, <1>16, <2>1
  <2> QED BY <1>10, <1>16, <2>1, <2>2, <2>3 DEF LineOK
<1>20. \A q \in Replicas : \A d : Has(q, d)' => Has(q, d)
  BY <1>5, <1>6 DEF Has, Busy
<1>21. InHandOK'
  <2> SUFFICES ASSUME NEW q \in Replicas, NEW d \in Nat \ {0}, Has(q, d)'
        PROVE  /\ d \in DOMAIN deliveries'
               /\ d \notin doubled' => Waits(d)' /\ \A p \in Replicas : Has(p, d)' => p = q
    BY DEF InHandOK
  <2>1. d \in DOMAIN deliveries /\ (d \notin doubled => Waits(d) /\ \A p \in Replicas : Has(p, d) => p = q)
    BY <1>1, <1>2, <1>20 DEF InHandOK
  <2> QED BY <1>1, <1>9, <1>10, <1>11, <1>18, <1>20, <2>1
<1>22. GoodOK'
  BY <1>1, <1>5, <1>6 DEF IInv, GoodOK, Posting, Busy
<1>23. \A q \in Replicas : \A d : Recording(job'[q], d) <=> Recording(job[q], d)
  BY <1>1, <1>5, <1>6 DEF Recording, Busy
<1>24. \A d \in 1..(m + n) : ToldOf(d)'
  <2> TAKE d \in 1..(m + n)
  <2>1. CASE d \in 1..m
    <3>1. ToldOf(d) /\ deliveries'[d] = deliveries[d]
      BY <1>2, <1>9, <1>10, <2>1, MeansTaken
    <3> QED BY <1>1, <1>23, <3>1 DEF ToldOf
  <2>2. CASE d - m \in 1..n /\ d = m + (d - m) /\ d \notin 1..m
    <3>1. deliveries'[d].status = "PENDING" /\ deliveries'[d].attempts = 0
      BY <1>8, <1>10, <2>2
    <3>2. d \notin taken' /\ d \notin twice'
      BY <1>1, <1>9, <2>2
    <3>3. \A q \in Replicas : ~Recording(job'[q], d)
      <4> SUFFICES ASSUME NEW q \in Replicas, Recording(job[q], d) PROVE FALSE
        BY <1>23
      <4>1. QueueOK(job[q]) /\ job[q].step \in Busy
        BY <1>2 DEF Recording, JobOK, PassOK, Busy
      <4>2. Has(q, d) /\ d \in Nat \ {0}
        BY <1>2, <4>1, HeadOfQueue, HasIs DEF Recording, Copies
      <4>3. d \in DOMAIN deliveries
        BY <1>1, <1>2, <4>2 DEF InHandOK
      <4> QED BY <1>9, <2>2, <4>3
    <3> DEFINE row == deliveries'[d]
    <3>4. row.status = "PENDING" /\ row.attempts = 0
      BY <3>1
    <3> HIDE DEF row
    <3>5. Told(row)
      BY <3>4, WebhooksAssumption DEF Told
    <3> QED BY <3>1, <3>2, <3>3, <3>5 DEF ToldOf, row
  <2> QED BY <1>11, <2>1, <2>2
<1>25. DeliveryMeansTaken'
  BY <1>10, <1>24, MeansTakenNext
<1> QED BY <1>4, <1>6, <1>12, <1>19, <1>21, <1>22, <1>25, InvPrimed DEF GoneOK

-----------------------------------------------------------------------------
(* The initial states satisfy the invariant.                               *)
LEMMA InitIInv == Init => IInv
<1> SUFFICES ASSUME Init PROVE IInv
  OBVIOUS
<1>1. HookOK
  <2>1. feed \in Seq(BOOLEAN) /\ Len(feed) \in Nat
    <3>1. CASE feed = <<>>
      BY <3>1
    <3>2. CASE feed = <<TRUE>>
      BY <3>2
    <3> QED BY <3>1, <3>2 DEF Init
  <2> QED BY <2>1 DEF Init, HookOK
<1>2. /\ deliveries = <<>> /\ line = <<>> /\ taken = {} /\ unheard = {} /\ twice = {}
      /\ job = [r \in Replicas |-> Idle]
  BY DEF Init
<1>3. RowsOK /\ LineOK /\ DeliveryMeansTaken
  BY <1>2 DEF RowsOK, LineOK, DeliveryMeansTaken
<1>4. JobOK /\ \A r \in Replicas : job[r].step = "idle"
  BY <1>2 DEF JobOK, PassOK, Idle, Busy
<1>5. InHandOK /\ GoodOK
  BY <1>4 DEF InHandOK, Has, GoodOK
<1> QED BY <1>1, <1>2, <1>3, <1>4, <1>5 DEF IInv, GoneOK

LEMMA NextIInv == IInv /\ [Next]_vars => IInv'
<1> SUFFICES ASSUME IInv, [Next]_vars PROVE IInv'
  OBVIOUS
<1>1. CASE \/ \E says \in BOOLEAN : NewEvent(says)
           \/ ServeOrNot \/ Activate \/ Deactivate \/ StartTest
           \/ \E good \in BOOLEAN : FinishTest(good)
  BY <1>1, OwnersKeep
<1>2. CASE RemoveHook
  BY <1>2, RemoveKeeps
<1>3. ASSUME NEW r \in Replicas, ReadHook(r) \/ ReadEvents(r) \/ EnqueueFails(r) \/ RowGone(r)
      PROVE  IInv'
  BY <1>3, ReadingKeeps
<1>4. ASSUME NEW r \in Replicas, Enqueue(r) \/ TakeDue(r)
      PROVE  IInv'
  BY <1>4, EnqueueKeeps, TakeDueKeeps
<1>5. ASSUME NEW r \in Replicas, NEW outcome \in {"taken", "unheard", "refused"}, Post(r, outcome)
      PROVE  IInv'
  BY <1>5, PostKeeps
<1>6. ASSUME NEW r \in Replicas, RecordGood(r) \/ RecordBad(r)
      PROVE  IInv'
  BY <1>6, RecordGoodKeeps, RecordBadKeeps
<1>7. CASE \E d \in DOMAIN deliveries : RetryDue(d)
  BY <1>7, RetryDueKeeps
<1>8. ASSUME NEW r \in Replicas, Crash(r) PROVE IInv'
  BY <1>8, CrashKeeps
<1>9. CASE UNCHANGED vars
  <2>1. UNCHANGED <<feed, hook, deliveries, line, job, taken, unheard, twice, doubled>>
    BY <1>9 DEF vars, hookVars, history
  <2>2. Len(feed) \in Nat
    BY DEF IInv, HookOK
  <2>3. HookOK'
    BY <2>1 DEF IInv, HookOK
  <2> QED BY <2>1, <2>2, <2>3, RestKeeps
<1> QED BY <1>1, <1>2, <1>3, <1>4, <1>5, <1>6, <1>7, <1>8, <1>9 DEF Next, Owner, JobStep

-----------------------------------------------------------------------------
(***************************************************************************)
(* What the deliveries hold.  A pass writes what comes after the cursor it *)
(* read, which is the row's or was: of what comes up to it nothing is      *)
(* missing, and while no replica wrote after the pass read, nothing is     *)
(* twice.                                                                  *)
(***************************************************************************)
Items == [d \in DOMAIN deliveries |-> deliveries[d].items]

Fed(cursor) ==
  /\ hook.start <= cursor /\ cursor <= Len(feed)
  /\ Wanted(hook.start, cursor) \subseteq ToSet(FlattenSeq(Items))

FedOK ==
  hook.exists =>
    /\ hook.start \in Nat /\ Items \in Seq(Seq(Nat))
    /\ Fed(hook.cursor)
    /\ ~crossed => FlattenSeq(Items) = InOrder(Wanted(hook.start, hook.cursor))
    /\ \A r \in Replicas : job[r].step \in {"events", "write"} => Fed(job[r].cursor)

LEMMA WantedInOrder ==
  ASSUME NEW from \in Nat, NEW to \in Nat
  PROVE  /\ Wanted(from, to) \in SUBSET Nat /\ IsFiniteSet(Wanted(from, to))
         /\ Sorted(InOrder(Wanted(from, to)), Wanted(from, to), Smaller)
<1>1. IsFiniteSet((from + 1)..to) /\ Wanted(from, to) \subseteq (from + 1)..to
  BY FS_Interval DEF Wanted
<1>2. Wanted(from, to) \in SUBSET Nat /\ IsFiniteSet(Wanted(from, to))
  BY <1>1, FS_Subset
<1> QED BY <1>2, NumbersSorted DEF InOrder

(* Two batches, one after the other, are the batch of both.                *)
LEMMA BatchesTogether ==
  ASSUME NEW from \in Nat, NEW mid \in Nat, NEW to \in Nat, from <= mid, mid <= to
  PROVE  InOrder(Wanted(from, mid)) \o InOrder(Wanted(mid, to)) = InOrder(Wanted(from, to))
<1> DEFINE S == Wanted(from, mid)
           U == Wanted(mid, to)
<1>1. S \cup U = Wanted(from, to)
  BY DEF Wanted
<1>2. \A a \in S, b \in U : <<a, b>> \in Smaller
  BY DEF Wanted, Smaller
<1>3. /\ S \in SUBSET Nat /\ IsFiniteSet(S) /\ Sorted(InOrder(S), S, Smaller)
      /\ U \in SUBSET Nat /\ IsFiniteSet(U) /\ Sorted(InOrder(U), U, Smaller)
      /\ S \cup U \in SUBSET Nat /\ IsFiniteSet(S \cup U) /\ Sorted(InOrder(S \cup U), S \cup U, Smaller)
  BY <1>1, WantedInOrder
<1>4. StrictlyOrders(Smaller, Nat)
  BY DEF StrictlyOrders, Smaller
<1> HIDE DEF S, U
<1>5. Sorted(InOrder(S) \o InOrder(U), S \cup U, Smaller)
  BY <1>2, <1>3, <1>4, SortedBoth
<1>6. InOrder(S) \o InOrder(U) = InOrder(S \cup U)
  BY <1>3, <1>4, <1>5, SortedOnce
<1> QED BY <1>1, <1>6 DEF S, U

(* A batch, cut in deliveries of a few items.                              *)
LEMMA BatchInSlices ==
  ASSUME NEW from \in Nat, NEW to \in Nat
  PROVE  LET wanted == Wanted(from, to)
             many == Cardinality(wanted)
             n == (many + ItemsPerDelivery - 1) \div ItemsPerDelivery
             slices == [i \in 1..n |->
                         SubSeq(InOrder(wanted), (i - 1) * ItemsPerDelivery + 1, Min2(i * ItemsPerDelivery, many))]
         IN n \in Nat /\ slices \in Seq(Seq(Nat)) /\ Len(slices) = n /\ FlattenSeq(slices) = InOrder(wanted)
<1> DEFINE s == InOrder(Wanted(from, to))
           many == Cardinality(Wanted(from, to))
           w == ItemsPerDelivery
<1>1. s \in Seq(Nat) /\ Len(s) = many
  <2>1. Sorted(s, Wanted(from, to), Smaller) /\ Wanted(from, to) \in SUBSET Nat /\ many \in Nat
    BY WantedInOrder, FS_CardinalityType
  <2>2. s \in [1..many -> Nat]
    BY <2>1 DEF Sorted
  <2> HIDE DEF s, many
  <2> QED BY <2>1, <2>2, ArrayIsSequence
<1>2. w \in Nat \ {0}
  BY WebhooksAssumption
<1>3. Slices(s, w) = [i \in 1..Needed(many, w) |-> SubSeq(s, (i - 1) * w + 1, Min2(i * w, many))]
  BY <1>1 DEF Slices, Min2
<1>4. many \in Nat
  BY <1>1
<1> HIDE DEF s, many, w
<1>5. /\ Slices(s, w) \in Seq(Seq(Nat)) /\ Len(Slices(s, w)) = Needed(many, w)
      /\ FlattenSeq(Slices(s, w)) = s
  BY <1>1, <1>2, SlicesTogether
<1>6. Needed(many, w) \in Nat
  BY <1>2, <1>4, SlicesNeeded
<1> QED BY <1>3, <1>5, <1>6 DEF s, many, w, Needed

LEMMA ElementsOfBatch ==
  ASSUME NEW from \in Nat, NEW to \in Nat
  PROVE  InOrder(Wanted(from, to)) \in Seq(Nat) /\ ToSet(InOrder(Wanted(from, to))) = Wanted(from, to)
<1> DEFINE S == Wanted(from, to)
           s == InOrder(S)
           n == Cardinality(S)
<1>1. S \in SUBSET Nat /\ n \in Nat /\ Sorted(s, S, Smaller)
  BY WantedInOrder, FS_CardinalityType
<1> HIDE DEF S, s, n
<1>2. s \in [1..n -> S] /\ \A e \in S : \E i \in 1..n : s[i] = e
  BY <1>1 DEF Sorted, n
<1>3. s \in [1..n -> Nat]
  BY <1>1, <1>2
<1>4. s \in Seq(Nat)
  BY <1>1, <1>3, ArrayIsSequence
<1>5. ToSet(s) = S
  BY <1>2 DEF ToSet
<1> QED BY <1>4, <1>5 DEF S, s

LEMMA ElementsOfBoth ==
  ASSUME NEW s \in Seq(Nat), NEW t \in Seq(Nat)
  PROVE  ToSet(s \o t) = ToSet(s) \cup ToSet(t)
<1> DEFINE m == Len(s)
           n == Len(t)
           u == s \o t
<1>1. /\ m \in Nat /\ n \in Nat /\ DOMAIN s = 1..m /\ DOMAIN t = 1..n
      /\ u \in Seq(Nat) /\ Len(u) = m + n /\ \A i \in 1..(m + n) : u[i] = IF i <= m THEN s[i] ELSE t[i - m]
  BY ConcatProperties
<1>2. DOMAIN u = 1..(m + n)
  BY <1>1
<1> HIDE DEF m, n, u
<1>3. \A i \in 1..m : i \in 1..(m + n) /\ u[i] = s[i]
  BY <1>1
<1>4. \A i \in 1..n : m + i \in 1..(m + n) /\ u[m + i] = t[i]
  <2> TAKE i \in 1..n
  <2>1. m + i \in 1..(m + n) /\ ~(m + i <= m) /\ m + i - m = i
    BY <1>1
  <2> QED BY <1>1, <2>1
<1>5. \A i \in 1..(m + n) : (i \in 1..m /\ u[i] = s[i]) \/ (i - m \in 1..n /\ u[i] = t[i - m])
  <2> TAKE i \in 1..(m + n)
  <2>1. i <= m => i \in 1..m
    BY <1>1
  <2>2. ~(i <= m) => i - m \in 1..n
    BY <1>1
  <2> QED BY <1>1, <2>1, <2>2
<1>6. ToSet(u) \subseteq ToSet(s) \cup ToSet(t)
  BY <1>1, <1>2, <1>5 DEF ToSet
<1>7. ToSet(s) \subseteq ToSet(u)
  BY <1>1, <1>2, <1>3 DEF ToSet
<1>8. ToSet(t) \subseteq ToSet(u)
  <2> SUFFICES ASSUME NEW i \in 1..n PROVE t[i] \in ToSet(u)
    BY <1>1 DEF ToSet
  <2>1. m + i \in DOMAIN u /\ u[m + i] = t[i]
    BY <1>2, <1>4
  <2> QED BY <2>1 DEF ToSet
<1>9. ToSet(u) = ToSet(s) \cup ToSet(t)
  BY <1>6, <1>7, <1>8, Zenon
<1> QED BY <1>9 DEF u

(* Steps that leave what the deliveries hold, and the cursor.              *)
LEMMA SameItems ==
  ASSUME IInv, FedOK, Items' = Items, hook'.exists => hook.exists,
         hook'.start = hook.start, hook'.cursor = hook.cursor, crossed' = crossed,
         Len(feed) <= Len(feed'), Len(feed') \in Nat, \A e \in 1..Len(feed) : feed'[e] = feed[e],
         \A r \in Replicas : job'[r].step \in {"events", "write"} =>
           \/ job[r].step \in {"events", "write"} /\ job'[r].cursor = job[r].cursor
           \/ job'[r].cursor = hook.cursor
  PROVE  FedOK'
<1> SUFFICES ASSUME hook'.exists
             PROVE  /\ hook'.start \in Nat /\ Items' \in Seq(Seq(Nat))
                    /\ Fed(hook.cursor)'
                    /\ ~crossed' => FlattenSeq(Items') = InOrder(Wanted(hook.start, hook.cursor)')
                    /\ \A r \in Replicas : job'[r].step \in {"events", "write"} => Fed(job[r].cursor)'
  BY DEF FedOK, InOrder, Wanted
<1>1. /\ hook.exists /\ hook.start \in Nat /\ Items \in Seq(Seq(Nat)) /\ Fed(hook.cursor)
      /\ hook.cursor \in Nat /\ Len(feed) \in Nat
      /\ ~crossed => FlattenSeq(Items) = InOrder(Wanted(hook.start, hook.cursor))
      /\ \A r \in Replicas : job[r].step \in {"events", "write"} => Fed(job[r].cursor) /\ job[r].cursor \in Nat
  BY DEF FedOK, IInv, HookOK, JobOK, PassOK
<1>2. \A c \in Nat : Fed(c) => \A e \in (hook.start + 1)..c : feed'[e] = feed[e]
  BY <1>1 DEF Fed
<1>3. \A c \in Nat : Fed(c) =>
        {e \in (hook'.start + 1)..c : feed'[e]} = {e \in (hook.start + 1)..c : feed[e]}
  BY <1>2
<1>4. \A c \in Nat : Fed(c) =>
        /\ hook'.start <= c /\ c <= Len(feed')
        /\ {e \in (hook'.start + 1)..c : feed'[e]} \subseteq ToSet(FlattenSeq(Items'))
  <2> SUFFICES ASSUME NEW c \in Nat, Fed(c)
        PROVE  /\ hook'.start <= c /\ c <= Len(feed')
               /\ {e \in (hook'.start + 1)..c : feed'[e]} \subseteq ToSet(FlattenSeq(Items'))
    OBVIOUS
  <2>1. hook'.start <= c /\ c <= Len(feed')
    BY <1>1 DEF Fed
  <2>2. {e \in (hook.start + 1)..c : feed[e]} \subseteq ToSet(FlattenSeq(Items))
    BY DEF Fed, Wanted
  <2> QED BY <1>3, <2>1, <2>2, Zenon
<1>5. Fed(hook.cursor)'
  <2>1. PICK c \in Nat : c = hook.cursor
    BY <1>1
  <2>2. hook'.cursor = c /\ Fed(c)
    BY <1>1, <2>1
  <2> QED BY <1>4, <2>2, Zenon DEF Fed, Wanted
<1>6. ASSUME NEW r \in Replicas, job'[r].step \in {"events", "write"} PROVE Fed(job[r].cursor)'
  <2>1. PICK c \in Nat : c = job'[r].cursor /\ Fed(c)
    BY <1>1, <1>6
  <2> QED BY <1>4, <2>1, Zenon DEF Fed, Wanted
<1>7. ~crossed' => FlattenSeq(Items') = InOrder(Wanted(hook.start, hook.cursor)')
  <2>1. Wanted(hook.start, hook.cursor)' = Wanted(hook.start, hook.cursor)
    BY <1>1, <1>3 DEF Wanted
  <2> QED BY <1>1, <2>1
<1> QED BY <1>1, <1>5, <1>6, <1>7

LEMMA RecordLeavesItems ==
  ASSUME IInv, NEW r \in Replicas, job[r].step \in {"good", "bad"}, hook.exists, NEW status, Record(r, status)
  PROVE  /\ Items' = Items
         /\ \A q \in Replicas : job'[q].step \in {"events", "write"} => job'[q] = job[q]
<1> DEFINE d == Posting(r)
           n == Len(deliveries)
<1>1. QueueOK(job[r]) /\ job[r].step \in Busy /\ JobOK
  BY DEF IInv, JobOK, PassOK, Busy
<1>2. d \in 1..n
  <2>1. Holds(job[r], d) /\ d \in Nat \ {0}
    BY <1>1, HeadOfQueue DEF Posting, Copies
  <2>2. d \in DOMAIN deliveries
    BY <1>1, <2>1, HasIs DEF IInv, InHandOK
  <2> QED BY <2>2 DEF IInv, RowsOK
<1>3. /\ DOMAIN deliveries = 1..n /\ deliveries = [e \in 1..n |-> deliveries[e]]
      /\ DOMAIN deliveries[d] = {"items", "status", "attempts"}
  BY <1>2 DEF IInv, RowsOK
<1>4. /\ deliveries' = [deliveries EXCEPT ![d].status = status, ![d].attempts = Head(job[r].queue).attempts + 1]
      /\ Goes(r, NextOf(job[r]))
  BY DEF Record
<1> HIDE DEF d, n
<1>5. DOMAIN deliveries' = 1..n /\ \A e \in 1..n : deliveries'[e].items = deliveries[e].items
  BY <1>2, <1>3, <1>4
<1>6. NextOf(job[r]).step \in {"idle", "post"}
  BY <1>1, NextOfIs
<1>7. job'[r].step \in {"idle", "post"} /\ \A q \in Replicas \ {r} : job'[q] = job[q]
  BY <1>1, <1>4, <1>6, GoesTo
<1> QED BY <1>3, <1>5, <1>7 DEF Items

LEMMA EnqueueFeeds == ASSUME IInv, FedOK, NEW r \in Replicas, Enqueue(r) PROVE FedOK'
<1> DEFINE c == job[r].cursor
           last == job[r].last
           wanted == Wanted(c, last)
           many == Cardinality(wanted)
           n == (many + ItemsPerDelivery - 1) \div ItemsPerDelivery
           slice(i) == SubSeq(InOrder(wanted), (i - 1) * ItemsPerDelivery + 1, Min2(i * ItemsPerDelivery, many))
           slices == [i \in 1..n |-> slice(i)]
           rows == [i \in 1..n |-> [items |-> slice(i), status |-> "PENDING", attempts |-> 0]]
           m == Len(deliveries)
<1>1. /\ job[r].step = "write" /\ hook.exists
      /\ deliveries' = deliveries \o rows
      /\ hook' = [hook EXCEPT !.cursor = last]
      /\ crossed' = (crossed \/ hook.cursor # c)
      /\ Goes(r, [step |-> "due"])
      /\ UNCHANGED feed
  BY DEF Enqueue, EnqueueAndMoveTo
<1>2. /\ hook.start \in Nat /\ Items \in Seq(Seq(Nat)) /\ Len(feed) \in Nat
      /\ Fed(c) /\ hook.start <= c
      /\ ~crossed => FlattenSeq(Items) = InOrder(Wanted(hook.start, hook.cursor))
      /\ \A q \in Replicas : job[q].step \in {"events", "write"} => Fed(job[q].cursor)
      /\ JobOK
  BY <1>1 DEF FedOK, Fed, IInv, HookOK
<1>3. c \in Nat /\ last \in Nat /\ c <= last /\ last <= Len(feed)
  BY <1>1, <1>2 DEF JobOK, PassOK
<1>4. hook'.start = hook.start /\ hook'.cursor = last
  BY <1>1 DEF IInv, HookOK
<1>5. n \in Nat /\ slices \in Seq(Seq(Nat)) /\ Len(slices) = n /\ FlattenSeq(slices) = InOrder(wanted)
  BY <1>3, BatchInSlices
<1>6. DOMAIN rows = 1..n /\ rows = [i \in 1..n |-> rows[i]] /\ \A i \in 1..n : rows[i].items = slices[i]
  OBVIOUS
<1>7. m \in Nat /\ DOMAIN deliveries = 1..m /\ deliveries = [d \in 1..m |-> deliveries[d]]
  BY DEF IInv, RowsOK
<1>8. /\ \A q \in Replicas \ {r} : job'[q] = job[q]
      /\ job'[r].step = "due"
  BY <1>1, <1>2, GoesTo
<1> HIDE DEF wanted, many, n, slice, slices, rows, m, c, last
<1>9. /\ DOMAIN deliveries' = 1..(m + n)
      /\ \A d \in 1..m : deliveries'[d] = deliveries[d]
      /\ \A i \in 1..n : deliveries'[m + i] = rows[i]
  BY <1>1, <1>5, <1>6, <1>7, Joined
<1>10. /\ Items = [d \in 1..m |-> Items[d]] /\ \A d \in 1..m : Items[d] = deliveries[d].items
       /\ DOMAIN Items' = 1..(m + n) /\ Items' = [d \in 1..(m + n) |-> Items'[d]]
       /\ \A d \in 1..(m + n) : Items'[d] = deliveries'[d].items
  BY <1>7, <1>9 DEF Items
<1>11. slices = [i \in 1..n |-> slices[i]]
  BY DEF slices
<1>12. Items' = Items \o slices
  <2> DEFINE both == Items \o slices
  <2>1. /\ both = [d \in 1..(m + n) |-> both[d]]
        /\ \A d \in 1..m : both[d] = Items[d]
        /\ \A i \in 1..n : both[m + i] = slices[i]
    BY <1>5, <1>7, <1>10, <1>11, Joined, SMTT(20)
  <2> HIDE DEF both
  <2>2. \A d \in 1..(m + n) : Items'[d] = both[d]
    <3> TAKE d \in 1..(m + n)
    <3>1. CASE d \in 1..m
      BY <1>9, <1>10, <2>1, <3>1
    <3>2. CASE d \notin 1..m
      <4>1. d - m \in 1..n /\ d = m + (d - m)
        BY <1>5, <1>7, <3>2
      <4>2. Items'[d] = rows[d - m].items /\ both[d] = slices[d - m]
        BY <1>9, <1>10, <2>1, <4>1
      <4> QED BY <1>6, <4>1, <4>2
    <3> QED BY <3>1, <3>2
  <2>3. Items' = both
    BY <1>10, <2>1, <2>2
  <2> QED BY <2>3 DEF both
<1>13. /\ Items' \in Seq(Seq(Nat)) /\ FlattenSeq(Items') = FlattenSeq(Items) \o FlattenSeq(slices)
       /\ FlattenSeq(Items) \in Seq(Nat) /\ FlattenSeq(slices) \in Seq(Nat)
  BY <1>2, <1>5, <1>12, FlattenBoth
<1>14. ToSet(FlattenSeq(Items')) = ToSet(FlattenSeq(Items)) \cup Wanted(c, last)
  <2>1. ToSet(FlattenSeq(Items')) = ToSet(FlattenSeq(Items)) \cup ToSet(FlattenSeq(slices))
    BY <1>13, ElementsOfBoth
  <2>2. ToSet(FlattenSeq(slices)) = Wanted(c, last)
    BY <1>3, <1>5, ElementsOfBatch DEF wanted
  <2> QED BY <2>1, <2>2
<1>15. \A e : Fed(e) => Fed(e)'
  BY <1>1, <1>4, <1>14 DEF Fed, Wanted
<1>16. Fed(hook.cursor)'
  <2>1. Wanted(hook.start, last) \subseteq Wanted(hook.start, c) \cup Wanted(c, last)
    BY <1>2, <1>3 DEF Wanted
  <2>2. Wanted(hook.start, hook.cursor)' = Wanted(hook.start, last)
    BY <1>1, <1>4 DEF Wanted
  <2>3. Wanted(hook.start, c) \subseteq ToSet(FlattenSeq(Items))
    BY <1>2 DEF Fed
  <2>4. Wanted(hook.start, hook.cursor)' \subseteq ToSet(FlattenSeq(Items'))
    BY <1>14, <2>1, <2>2, <2>3
  <2>5. hook'.start <= hook'.cursor /\ hook'.cursor <= Len(feed')
    BY <1>1, <1>2, <1>3, <1>4
  <2> QED BY <2>4, <2>5 DEF Fed
<1>17. \A q \in Replicas : job'[q].step \in {"events", "write"} => Fed(job[q].cursor)'
  <2> SUFFICES ASSUME NEW q \in Replicas, job'[q].step \in {"events", "write"} PROVE Fed(job[q].cursor)'
    OBVIOUS
  <2>1. q # r /\ job'[q] = job[q]
    BY <1>8
  <2>2. PICK e : e = job[q].cursor
    OBVIOUS
  <2>3. Fed(e)' /\ job'[q].cursor = e
    BY <1>2, <1>15, <2>1, <2>2
  <2> QED BY <2>3 DEF Fed, Wanted
<1>18. ~crossed' => FlattenSeq(Items)' = InOrder(Wanted(hook.start, hook.cursor))'
  <2> SUFFICES ASSUME ~crossed' PROVE FlattenSeq(Items)' = InOrder(Wanted(hook.start, hook.cursor))'
    OBVIOUS
  <2>1. ~crossed /\ hook.cursor = c
    BY <1>1
  <2>2. InOrder(Wanted(hook.start, c)) \o InOrder(Wanted(c, last)) = InOrder(Wanted(hook.start, last))
    BY <1>2, <1>3, BatchesTogether
  <2>3. FlattenSeq(Items') = InOrder(Wanted(hook.start, last))
    BY <1>2, <1>5, <1>13, <2>1, <2>2, Zenon DEF wanted
  <2>4. Wanted(hook.start, hook.cursor)' = Wanted(hook.start, last)
    BY <1>1, <1>4 DEF Wanted
  <2>5. InOrder(Wanted(hook.start, hook.cursor))' = InOrder(Wanted(hook.start, last))
    BY <2>4, Zenon DEF InOrder
  <2> QED BY <2>3, <2>5, Zenon
<1> QED BY <1>2, <1>4, <1>13, <1>16, <1>17, <1>18 DEF FedOK

LEMMA NextFed == IInv /\ FedOK /\ [Next]_vars => FedOK'
<1> SUFFICES ASSUME IInv, FedOK, [Next]_vars PROVE FedOK'
  OBVIOUS
<1>0. /\ DOMAIN hook = {"exists", "active", "disabled", "cursor", "start", "failures"} /\ feed \in Seq(BOOLEAN)
      /\ Len(feed) \in Nat /\ JobOK
  BY DEF IInv, HookOK
<1>1. ASSUME NEW says \in BOOLEAN, NewEvent(says) PROVE FedOK'
  <2>1. feed' = Append(feed, says) /\ UNCHANGED <<deliveries, hook, job, crossed>>
    BY <1>1 DEF NewEvent, hookVars, history
  <2>2. Len(feed) <= Len(feed') /\ Len(feed') \in Nat /\ \A e \in 1..Len(feed) : feed'[e] = feed[e]
    BY <1>0, <2>1
  <2> QED BY <2>1, <2>2, SameItems DEF Items
<1>2. ASSUME deliveries' = deliveries, feed' = feed, hook'.exists = hook.exists, crossed' = crossed,
             hook'.start = hook.start, hook'.cursor = hook.cursor,
             \A r \in Replicas : job'[r].step \in {"events", "write"} =>
               \/ job[r].step \in {"events", "write"} /\ job'[r].cursor = job[r].cursor
               \/ job'[r].cursor = hook.cursor
      PROVE  FedOK'
  BY <1>0, <1>2, SameItems DEF Items
<1>3. CASE ServeOrNot \/ Activate \/ Deactivate \/ StartTest \/ \E good \in BOOLEAN : FinishTest(good)
  BY <1>0, <1>2, <1>3 DEF ServeOrNot, Activate, Deactivate, StartTest, FinishTest, hookVars, history
<1>4. CASE RemoveHook
  <2>1. ~hook'.exists
    BY <1>0, <1>4 DEF RemoveHook
  <2> QED BY <2>1 DEF FedOK
<1>5. ASSUME NEW r \in Replicas, NEW j, Goes(r, j),
             j.step \in {"events", "write"} =>
               (job[r].step \in {"events", "write"} /\ j.cursor = job[r].cursor) \/ j.cursor = hook.cursor,
             UNCHANGED <<deliveries, feed, hook, crossed>>
      PROVE  FedOK'
  <2>1. job'[r] = j /\ \A q \in Replicas \ {r} : job'[q] = job[q]
    BY <1>0, <1>5, GoesTo
  <2> QED BY <1>2, <1>5, <2>1
<1>6. ASSUME NEW r \in Replicas, ReadHook(r) PROVE FedOK'
  BY <1>5, <1>6 DEF ReadHook, hookVars, history
<1>7. ASSUME NEW r \in Replicas, ReadEvents(r) PROVE FedOK'
  <2> DEFINE c == job[r].cursor
             last == Min2(c + EventsPerTick, Len(feed))
             j == IF served /\ c < Len(feed) THEN [step |-> "write", cursor |-> c, last |-> last] ELSE [step |-> "due"]
  <2>1. Goes(r, j) /\ job[r].step = "events" /\ UNCHANGED <<deliveries, feed, hook, crossed>>
    BY <1>7 DEF ReadEvents, hookVars, history
  <2>2. j.step \in {"events", "write"} => j.cursor = job[r].cursor
    OBVIOUS
  <2> HIDE DEF j
  <2> QED BY <1>5, <2>1, <2>2
<1>8. ASSUME NEW r \in Replicas, EnqueueFails(r) \/ RowGone(r) PROVE FedOK'
  BY <1>5, <1>8 DEF EnqueueFails, RowGone, Idle, hookVars, history
<1>9. ASSUME NEW r \in Replicas, TakeDue(r) \/ Crash(r) PROVE FedOK'
  <2>1. \E j : Goes(r, j) /\ j.step \in {"idle", "post"}
    BY <1>9 DEF TakeDue, Crash, Idle
  <2>2. UNCHANGED <<deliveries, feed, hook, crossed>>
    BY <1>9 DEF TakeDue, Crash, hookVars, history
  <2> QED BY <1>5, <2>1, <2>2
<1>10. ASSUME NEW r \in Replicas, NEW outcome \in {"taken", "unheard", "refused"}, Post(r, outcome) PROVE FedOK'
  <2> DEFINE step == IF outcome = "taken" THEN "good" ELSE "bad"
             j == [job[r] EXCEPT !.step = step]
  <2>1. Goes(r, j) /\ job[r].step = "post" /\ UNCHANGED <<deliveries, feed, hook, crossed>>
    BY <1>10 DEF Post, hookVars
  <2>2. DOMAIN job[r] = {"step", "queue", "failures"}
    BY <1>0, <2>1 DEF JobOK, PassOK, QueueOK, Busy
  <2>3. j.step \notin {"events", "write"}
    BY <2>2
  <2> HIDE DEF j
  <2> QED BY <1>5, <2>1, <2>3
<1>11. ASSUME NEW r \in Replicas, RecordGood(r) \/ RecordBad(r) PROVE FedOK'
  <2>1. /\ hook.exists /\ job[r].step \in {"good", "bad"}
        /\ \E status : Record(r, status)
        /\ hook'.exists = hook.exists /\ hook'.start = hook.start /\ hook'.cursor = hook.cursor
    BY <1>0, <1>11 DEF RecordGood, RecordBad, RecordFailure
  <2>2. Items' = Items /\ \A q \in Replicas : job'[q].step \in {"events", "write"} => job'[q] = job[q]
    BY <2>1, RecordLeavesItems
  <2>3. feed' = feed /\ crossed' = crossed
    BY <2>1 DEF Record, history
  <2> QED BY <1>0, <2>1, <2>2, <2>3, SameItems
<1>12. CASE \E d \in DOMAIN deliveries : RetryDue(d)
  BY <1>2, <1>12 DEF RetryDue, history
<1>13. ASSUME NEW r \in Replicas, Enqueue(r) PROVE FedOK'
  BY <1>13, EnqueueFeeds
<1>14. CASE UNCHANGED vars
  BY <1>2, <1>14 DEF vars, hookVars, history
<1> QED BY <1>1, <1>3, <1>4, <1>6, <1>7, <1>8, <1>9, <1>10, <1>11, <1>12, <1>13, <1>14 DEF Next, Owner, JobStep

(* The rows, the line and the passes are as described.                     *)
THEOREM WebhooksInvariant == Spec => []IInv
BY InitIInv, NextIInv, PTL DEF Spec

(* What is recorded of a delivery tells what happened, and the receiver    *)
(* takes it a second time only when nothing recorded its first answer or   *)
(* two replicas had it at once: for any replicas, restarts, retries and    *)
(* whatever the owner does.                                                *)
THEOREM DeliveriesTellWhatWasTaken == Spec => []DeliveryMeansTaken
<1>1. IInv => DeliveryMeansTaken
  BY DEF IInv
<1> QED BY <1>1, WebhooksInvariant, PTL

(* Every event that says something to the key, from the webhook's creation *)
(* up to its cursor, is in a delivery whatever the replicas do, and in one *)
(* and in order while none enqueued from a cursor that had moved: for any  *)
(* feed, any size of the batches and of the deliveries, restarts and       *)
(* switches.                                                               *)
THEOREM NothingLostNorTwice == Spec => []EnqueuedOnce
<1>1. Init => FedOK
  <2> SUFFICES ASSUME Init PROVE FedOK
    OBVIOUS
  <2>1. /\ deliveries = <<>> /\ hook.start = Len(feed) /\ hook.cursor = Len(feed)
        /\ Len(feed) \in Nat /\ \A r \in Replicas : job[r].step = "idle"
    BY InitIInv DEF Init, IInv, HookOK, Idle
  <2>2. Items = <<>> /\ Items \in Seq(Seq(Nat)) /\ FlattenSeq(Items) = <<>>
    BY <2>1 DEF Items, FlattenSeq
  <2>3. Wanted(Len(feed), Len(feed)) = {}
    BY <2>1 DEF Wanted
  <2>4. InOrder(Wanted(Len(feed), Len(feed))) = <<>>
    <3> DEFINE none == InOrder(Wanted(Len(feed), Len(feed)))
    <3>1. Cardinality({}) = 0 /\ Sorted(none, {}, Smaller)
      BY <2>1, <2>3, WantedInOrder, FS_EmptySet
    <3>2. none \in [1..0 -> {}]
      BY <3>1 DEF Sorted
    <3> HIDE DEF none
    <3>3. none = <<>>
      BY <3>2
    <3> QED BY <3>3 DEF none
  <2>5. Fed(hook.cursor)
    BY <2>1, <2>3 DEF Fed
  <2> QED BY <2>1, <2>2, <2>4, <2>5 DEF FedOK
<1>2. FedOK => EnqueuedOnce
  BY DEF FedOK, Fed, EnqueuedOnce, Enqueued, Items
<1> QED BY <1>1, <1>2, WebhooksInvariant, NextFed, PTL DEF Spec
=============================================================================
