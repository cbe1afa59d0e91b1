---------------------------- MODULE CatalogFeed ----------------------------
(***************************************************************************)
(* What the change feed of the catalogue API promises: numbered events, an *)
(* event for every difference an integrator can see and for nothing else,  *)
(* so that whoever takes a picture of the catalogue and then applies the   *)
(* events knows the catalogue (catalog-api/changes).  ChangeTracker        *)
(* implements it, Webhooks reads it.                                       *)
(***************************************************************************)
EXTENDS Naturals, Sequences, FiniteSets

CONSTANTS
  Offers,  \* offers of one retailer
  Views,   \* what an integrator sees of an offer: price, stock and sheet
  Hidden   \* what is seen of an offer that is off, without price or deleted

VARIABLES
  log,     \* the events, ApiCatalogEvent: the index in the log is the id
  known,   \* offer -> what the events up to now say of it
  paused,  \* whether the events say that the distributor is paused
  started  \* whether the first picture has been taken

feedVars == <<log, known, paused, started>>
Contents == Views \cup {Hidden}

(* diffOffer: what is compared is what an integrator sees.                 *)
DiffOffer(before, after) ==
  IF before = after THEN "none"
  ELSE IF before = Hidden THEN "offer.created"
  ELSE IF after = Hidden THEN "offer.removed"
  ELSE "offer.updated"

PauseEvent(is) == [type |-> IF is THEN "provider.sync_paused" ELSE "provider.sync_resumed"]
OfferEvent(o, before, after) == [type |-> DiffOffer(before, after), offer |-> o, after |-> after]

FeedInit == /\ log = <<>>
            /\ known = [o \in Offers |-> Hidden]
            /\ paused = FALSE
            /\ started = FALSE

(* What is already there is photographed and makes no events.              *)
Photograph ==
  /\ ~started
  /\ known' \in [Offers -> Contents] /\ paused' \in BOOLEAN /\ started' \in BOOLEAN
  /\ UNCHANGED log

(* One transaction: the offers whose view changed, in some order.          *)
Changed == {o \in Offers : known'[o] # known[o]}
Publish ==
  /\ started
  /\ known' \in [Offers -> Contents]
  /\ \E order \in [1..Cardinality(Changed) -> Changed] :
       /\ \A o \in Changed : \E i \in DOMAIN order : order[i] = o
       /\ log' = log \o [i \in DOMAIN order |-> OfferEvent(order[i], known[order[i]], known'[order[i]])]
  /\ UNCHANGED <<paused, started>>

PublishPause ==
  /\ started
  /\ paused' = ~paused
  /\ log' = Append(log, PauseEvent(paused'))
  /\ UNCHANGED <<known, started>>

FeedNext == Photograph \/ Publish \/ PublishPause
FeedSpec == FeedInit /\ [][FeedNext]_feedVars

-----------------------------------------------------------------------------
Pauses == {"provider.sync_paused", "provider.sync_resumed"}
EventsOf(o) == {i \in DOMAIN log : log[i].type \notin Pauses /\ log[i].offer = o}

(* The log reads as the life of each offer: every event tells the          *)
(* difference with the one before it, and the last leaves the offer as it  *)
(* is known.                                                               *)
LogTellsKnown ==
  \A o \in Offers : \A i \in EventsOf(o) :
    /\ (log[i].type = "offer.removed") <=> (log[i].after = Hidden)
    /\ (\A j \in EventsOf(o) : j <= i) => log[i].after = known[o]
    /\ \A j \in EventsOf(o) :
         i < j /\ (\A k \in EventsOf(o) : ~(i < k /\ k < j)) => log[j].type = DiffOffer(log[i].after, log[j].after)
=============================================================================
