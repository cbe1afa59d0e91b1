------------------------------ MODULE Webhooks ------------------------------
(***************************************************************************)
(* One webhook of the catalogue API (catalog-api/webhooks): the job that   *)
(* turns events of the change feed into deliveries and posts them with     *)
(* retries, the owner who switches the webhook on and off and tries it,    *)
(* and the automatic switch-off after a run of failures.                   *)
(*                                                                         *)
(* Every replica of the API runs the job: what keeps two passes apart is   *)
(* a flag of each process.  A pass reads the row, then the events after    *)
(* its cursor, and writes deliveries and cursor by id; it takes the        *)
(* deliveries that are due, without claiming them, together with the       *)
(* webhook's row, and works from those copies while it posts one by one.   *)
(* The receiver is external: it takes a delivery or not, and its answer    *)
(* may be lost after it took it.  The feed is that of module CatalogFeed,  *)
(* reduced to whether an event says something to this key; its events      *)
(* appear in the order of their ids (see the README).                      *)
(***************************************************************************)
EXTENDS FiniteSetsExt, SequencesExt, Naturals

CONSTANTS
  Replicas,           \* processes of the API
  EventsPerTick,      \* EVENTS_PER_TICK
  ItemsPerDelivery,   \* ITEMS_PER_DELIVERY
  DeliveriesPerTick,  \* DELIVERIES_PER_TICK
  MaxAttempts,        \* MAX_ATTEMPTS
  DisableAfter,       \* DISABLE_AFTER_FAILURES
  MaxEvents,          \* bound on the events of the feed
  MaxIncidents,       \* bound on what the owner does and on the restarts
  MaxOverlaps         \* bound on the passes that begin during another replica's

ASSUME WebhooksAssumption ==
  /\ {EventsPerTick, ItemsPerDelivery, DeliveriesPerTick, MaxAttempts, DisableAfter} \subseteq Nat \ {0}
  /\ {MaxEvents, MaxIncidents, MaxOverlaps} \subseteq Nat

VARIABLES
  feed,        \* event -> whether it says something to this key
  hook,        \* the ApiWebhookEndpoint
  served,      \* the key is active and its subscription has the module
  deliveries,  \* the ApiWebhookDelivery rows of its changes
  line,        \* the deliveries that are due, by nextAttemptAt
  job,         \* replica -> its pass
  test,        \* the ping that is running
  incidents,   \* what the owner has done and the restarts
  overlaps,    \* the passes that began during another replica's
  taken,       \* deliveries the receiver has taken (history)
  unheard,     \* those whose last answer was not recorded (history)
  twice,       \* those it took again after an answer that was (history)
  crossed,     \* a pass enqueued from a cursor that was no longer the row's (history)
  doubled      \* deliveries that two passes have had at once (history)

hookVars == <<hook, deliveries, line>>
history == <<taken, unheard, twice, crossed, doubled>>
vars == <<feed, hookVars, served, job, test, incidents, overlaps, history>>

Idle == [step |-> "idle"]
Incident == incidents < MaxIncidents /\ incidents' = incidents + 1
On == hook.exists /\ hook.active /\ ~hook.disabled

Init ==
  /\ feed \in {<<>>, <<TRUE>>}
  /\ hook = [exists |-> TRUE, active |-> TRUE, disabled |-> FALSE, cursor |-> Len(feed), start |-> Len(feed),
             failures |-> 0]
  /\ served = TRUE
  /\ deliveries = <<>> /\ line = <<>>
  /\ job = [r \in Replicas |-> Idle] /\ test = Idle
  /\ incidents = 0 /\ overlaps = 0
  /\ taken = {} /\ unheard = {} /\ twice = {} /\ crossed = FALSE /\ doubled = {}

-----------------------------------------------------------------------------
(* The feed grows, and the key stops and starts being served.              *)
NewEvent(says) ==
  /\ Len(feed) < MaxEvents
  /\ feed' = Append(feed, says)
  /\ UNCHANGED <<hookVars, served, job, test, incidents, overlaps, history>>

ServeOrNot ==
  /\ Incident
  /\ served' = ~served
  /\ UNCHANGED <<feed, hookVars, job, test, overlaps, history>>

(* update: switching it on forgets the failures.                           *)
Activate ==
  /\ Incident
  /\ hook.exists /\ ~On
  /\ hook' = [hook EXCEPT !.active = TRUE, !.disabled = FALSE, !.failures = 0]
  /\ UNCHANGED <<feed, deliveries, line, served, job, test, overlaps, history>>

Deactivate ==
  /\ Incident
  /\ hook.exists /\ hook.active
  /\ hook' = [hook EXCEPT !.active = FALSE]
  /\ UNCHANGED <<feed, deliveries, line, served, job, test, overlaps, history>>

(* remove: the deliveries go with the row.                                 *)
RemoveHook ==
  /\ Incident
  /\ hook.exists
  /\ hook' = [hook EXCEPT !.exists = FALSE]
  /\ deliveries' = <<>> /\ line' = <<>> /\ taken' = {} /\ unheard' = {} /\ twice' = {}
  /\ UNCHANGED <<feed, served, job, test, overlaps, crossed, doubled>>

-----------------------------------------------------------------------------
Min2(a, b) == IF a < b THEN a ELSE b
Wanted(from, to) == {e \in (from + 1)..to : feed[e]}
InOrder(events) ==
  CHOOSE s \in SetToSeqs(events) : \A i, k \in DOMAIN s : i < k => s[i] < s[k]

Goes(r, j) == job' = [job EXCEPT ![r] = j]

(* enqueueAll reads the row if it is on; deliverDue follows in any case.   *)
ReadHook(r) ==
  /\ job[r] = Idle
  /\ IF \A other \in Replicas : job[other] = Idle THEN UNCHANGED overlaps
     ELSE overlaps < MaxOverlaps /\ overlaps' = overlaps + 1
  /\ \/ On /\ Goes(r, [step |-> "events", cursor |-> hook.cursor])
     \/ ~On /\ line # <<>> /\ Goes(r, [step |-> "due"])
  /\ UNCHANGED <<feed, hookVars, served, test, incidents, history>>

(* eventsAfter, unless the key is not served (ApiError).                   *)
ReadEvents(r) ==
  LET cursor == job[r].cursor
  IN /\ job[r].step = "events"
     /\ Goes(r, IF served /\ cursor < Len(feed)
                THEN [step |-> "write", cursor |-> cursor, last |-> Min2(cursor + EventsPerTick, Len(feed))]
                ELSE [step |-> "due"])
     /\ UNCHANGED <<feed, hookVars, served, test, incidents, overlaps, history>>

(* The events that were read, in deliveries of a few items; rows and       *)
(* cursor in one transaction, which nothing else conditions.               *)
EnqueueAndMoveTo(r, cursor) ==
  LET j == job[r]
      wanted == Wanted(j.cursor, j.last)
      many == Cardinality(wanted)
      n == (many + ItemsPerDelivery - 1) \div ItemsPerDelivery
      slice(i) == SubSeq(InOrder(wanted), (i - 1) * ItemsPerDelivery + 1, Min2(i * ItemsPerDelivery, many))
  IN /\ j.step = "write" /\ hook.exists
     /\ deliveries' = deliveries \o [i \in 1..n |-> [items |-> slice(i), status |-> "PENDING", attempts |-> 0]]
     /\ line' = line \o [i \in 1..n |-> Len(deliveries) + i]
     /\ hook' = [hook EXCEPT !.cursor = cursor]
     /\ crossed' = (crossed \/ hook.cursor # j.cursor)
     /\ Goes(r, [step |-> "due"])
     /\ UNCHANGED <<feed, served, test, incidents, overlaps, doubled, taken, unheard, twice>>

(* Mutant of Enqueue: the cursor goes to the last event there is.          *)
EnqueueToEnd(r) == EnqueueAndMoveTo(r, Len(feed))

(* Mutant of Enqueue: events that say nothing to the key do not move it.   *)
EnqueueOnlyItems(r) ==
  EnqueueAndMoveTo(r, IF Wanted(job[r].cursor, job[r].last) = {} THEN hook.cursor ELSE job[r].last)

Enqueue(r) == EnqueueAndMoveTo(r, job[r].last)

(* The row is gone: the transaction fails, and the pass goes on.           *)
EnqueueFails(r) ==
  /\ job[r].step = "write" /\ ~hook.exists
  /\ Goes(r, [step |-> "due"])
  /\ UNCHANGED <<feed, hookVars, served, test, incidents, overlaps, history>>

(* deliverDue: the first of the line, with the rows as they are now.       *)
Has(r, d) == job[r].step \in {"post", "good", "bad"} /\ \E i \in DOMAIN job[r].queue : job[r].queue[i].id = d
TakeDue(r) ==
  LET due == SubSeq(line, 1, Min2(DeliveriesPerTick, Len(line)))
  IN /\ job[r].step = "due"
     /\ \/ /\ On /\ line # <<>>
           /\ Goes(r, [step |-> "post", failures |-> hook.failures,
                       queue |-> [i \in DOMAIN due |-> [id |-> due[i], attempts |-> deliveries[due[i]].attempts]]])
           /\ doubled' = doubled \cup {d \in ToSet(due) : \E other \in Replicas \ {r} : Has(other, d)}
        \/ (~On \/ line = <<>>) /\ Goes(r, Idle) /\ UNCHANGED doubled
     /\ UNCHANGED <<feed, hookVars, served, test, incidents, overlaps, taken, unheard, twice, crossed>>

(* The POST: the receiver answers, or takes it and the answer is lost, or  *)
(* does not take it.                                                       *)
Posting(r) == Head(job[r].queue).id
Post(r, outcome) ==
  LET d == Posting(r)
  IN /\ job[r].step = "post"
     /\ Goes(r, [job[r] EXCEPT !.step = IF outcome = "taken" THEN "good" ELSE "bad"])
     /\ IF hook.exists /\ outcome # "refused"
        THEN /\ taken' = taken \cup {d}
             /\ twice' = IF d \in taken \ unheard THEN twice \cup {d} ELSE twice
             /\ unheard' = IF outcome = "unheard" THEN unheard \cup {d} ELSE unheard \ {d}
        ELSE UNCHANGED <<taken, unheard, twice>>
     /\ UNCHANGED <<feed, hookVars, served, test, incidents, overlaps, crossed, doubled>>

NextOf(j) == IF Len(j.queue) = 1 THEN Idle ELSE [j EXCEPT !.step = "post", !.queue = Tail(@)]

(* The row went while the pass was posting: its update fails, and so does  *)
(* the rest of the pass.                                                   *)
RowGone(r) ==
  /\ job[r].step \in {"good", "bad"} /\ ~hook.exists
  /\ Goes(r, Idle)
  /\ UNCHANGED <<feed, hookVars, served, test, incidents, overlaps, history>>

(* What is written of a delivery, by id, counts on the copy that was taken.*)
Record(r, status) ==
  LET d == Posting(r)
  IN /\ deliveries' = [deliveries EXCEPT ![d].status = status, ![d].attempts = Head(job[r].queue).attempts + 1]
     /\ line' = RemoveFirst(line, d)
     /\ Goes(r, NextOf(job[r]))
     /\ UNCHANGED <<feed, served, test, incidents, overlaps, history>>

RecordGood(r) ==
  /\ job[r].step = "good" /\ hook.exists
  /\ Record(r, "DELIVERED")
  /\ hook' = [hook EXCEPT !.failures = 0]

RecordFailure(r, again) ==
  LET failures == job[r].failures + 1
  IN /\ job[r].step = "bad" /\ hook.exists
     /\ Record(r, IF again THEN "PENDING" ELSE "FAILED")
     /\ hook' = [hook EXCEPT !.failures = failures, !.disabled = @ \/ failures >= DisableAfter]

(* Mutant of RecordBad: one attempt less.                                  *)
RecordBadTooSoon(r) == RecordFailure(r, Head(job[r].queue).attempts + 2 < MaxAttempts)

(* So does the count of failures, on the copy of the row.                  *)
RecordBad(r) == RecordFailure(r, Head(job[r].queue).attempts + 1 < MaxAttempts)

(* A retry becomes due.                                                    *)
RetryDue(d) ==
  /\ deliveries[d].status = "PENDING" /\ ~Contains(line, d)
  /\ line' = Append(line, d)
  /\ UNCHANGED <<feed, hook, deliveries, served, job, test, incidents, overlaps, history>>

(* test: a ping of the owner, with a copy of the row of its own; a bad one *)
(* does not count but writes that copy's count back.                       *)
StartTest ==
  /\ Incident
  /\ hook.exists /\ test = Idle
  /\ test' = [step |-> "post", failures |-> hook.failures]
  /\ UNCHANGED <<feed, hookVars, served, job, overlaps, history>>

FinishTest(good) ==
  /\ test # Idle
  /\ hook' = IF hook.exists THEN [hook EXCEPT !.failures = IF good THEN 0 ELSE test.failures] ELSE hook
  /\ test' = Idle
  /\ UNCHANGED <<feed, deliveries, line, served, job, incidents, overlaps, history>>

(* A replica restarts: what was posted and not recorded will be posted     *)
(* again; the ping may have been running there.                            *)
Crash(r) ==
  /\ Incident
  /\ test' \in {test, Idle}
  /\ job[r] # Idle \/ test' # test
  /\ unheard' = IF job[r].step = "good" /\ hook.exists
                THEN unheard \cup {Posting(r)} ELSE unheard
  /\ Goes(r, Idle)
  /\ UNCHANGED <<feed, hookVars, served, overlaps, taken, twice, crossed, doubled>>

JobStep(r) == \/ ReadHook(r) \/ ReadEvents(r) \/ Enqueue(r) \/ EnqueueFails(r) \/ TakeDue(r)
              \/ \E outcome \in {"taken", "unheard", "refused"} : Post(r, outcome)
              \/ RowGone(r) \/ RecordGood(r) \/ RecordBad(r)

Owner == Activate \/ Deactivate \/ RemoveHook \/ StartTest

Next == \/ \E says \in BOOLEAN : NewEvent(says)
        \/ ServeOrNot
        \/ Owner
        \/ \E good \in BOOLEAN : FinishTest(good)
        \/ \E r \in Replicas : JobStep(r) \/ Crash(r)
        \/ \E d \in DOMAIN deliveries : RetryDue(d)

Spec == Init /\ [][Next]_vars

(* The cron fires every minute in every replica and a post ends in ten     *)
(* seconds; the time of a retry comes.                                     *)
FairSpec == /\ Spec
            /\ \A r \in Replicas : WF_vars(JobStep(r))
            /\ WF_vars(\E d \in DOMAIN deliveries : RetryDue(d))

-----------------------------------------------------------------------------
WebhookTypeOK ==
  /\ feed \in Seq(BOOLEAN) /\ served \in BOOLEAN
  /\ hook \in [exists : BOOLEAN, active : BOOLEAN, disabled : BOOLEAN, cursor : 0..Len(feed), start : 0..Len(feed),
               failures : Nat]
  /\ \A d \in DOMAIN deliveries :
       deliveries[d] \in [items : Seq(1..hook.cursor), status : {"PENDING", "DELIVERED", "FAILED"}, attempts : 0..MaxAttempts]
  /\ line \in Seq(DOMAIN deliveries)

(* The deliveries hold every event that says something to the key, from    *)
(* the webhook's creation up to its cursor, whatever restarts, switches    *)
(* and replicas do: nothing is lost.  They hold it once and in order as    *)
(* long as no replica enqueued what another had (the code says "nada se    *)
(* pierde ni se duplica", see the README).                                 *)
Enqueued == FlattenSeq([d \in DOMAIN deliveries |-> deliveries[d].items])
EnqueuedOnce ==
  hook.exists => /\ Wanted(hook.start, hook.cursor) \subseteq ToSet(Enqueued)
                 /\ ~crossed => Enqueued = InOrder(Wanted(hook.start, hook.cursor))

(* A delivery recorded as DELIVERED was taken, one given up was tried as   *)
(* often as it should, and only those that may be tried again are PENDING, *)
(* whichever replica recorded it last.  The receiver takes a delivery a    *)
(* second time only when nothing recorded its first answer, or two         *)
(* replicas had it at once.                                                *)
BeingRecorded(d) == \E r \in Replicas : job[r].step = "good" /\ Posting(r) = d
DeliveryMeansTaken ==
  \A d \in DOMAIN deliveries :
    /\ CASE deliveries[d].status = "DELIVERED" -> d \in taken
         [] deliveries[d].status = "FAILED" -> deliveries[d].attempts = MaxAttempts
         [] OTHER -> deliveries[d].attempts < MaxAttempts
    /\ d \notin doubled =>
         /\ d \notin twice
         /\ d \in taken \ unheard <=> deliveries[d].status = "DELIVERED" \/ BeingRecorded(d)

(* While the webhook stays on and served, every event that says something  *)
(* to the key ends up delivered or given up.                               *)
Settled(e) == \E d \in DOMAIN deliveries : e \in ToSet(deliveries[d].items) /\ deliveries[d].status # "PENDING"
EveryChangeSettles ==
  <>[](On /\ served) =>
    \A e \in 1..MaxEvents : [](e <= Len(feed) /\ e > hook.start /\ feed[e] => <>Settled(e))
=============================================================================
