--------------------------- MODULE ChangeTracker ---------------------------
(***************************************************************************)
(* The job that writes the change feed of one retailer                     *)
(* (catalog-api/changes/change-tracker.service.ts): it finds rows by the   *)
(* date they were last written, compares each with the last state it       *)
(* recorded and writes the difference as events.                           *)
(*                                                                         *)
(* Every replica of the API runs the job: what keeps two passes apart is   *)
(* a flag of each process.  A pass reads the tracker, a batch of rows,     *)
(* their states, and only then writes events and states in a transaction   *)
(* that nothing conditions; so do the picture, the deleted rows and the    *)
(* pauses, and the cursors are written by the retailer's id.               *)
(*                                                                         *)
(* A row gets its date when it is written and is seen when its transaction *)
(* commits, which may be later: the cursors stay COMMIT_LAG_MS behind.     *)
(* Time is counted in ticks of the cron.                                   *)
(***************************************************************************)
EXTENDS Integers, Sequences, FiniteSetsExt, SequencesExt

CONSTANTS
  Replicas,    \* processes of the API
  Offers,      \* offers, numbered in the order of their ids
  Listed,      \* offers that exist when the first key of the API is created
  Prices,      \* prices (and stocks) an offer may have
  Lag,         \* COMMIT_LAG_MS
  Batch,       \* BATCH
  MaxPerTick,  \* MAX_PER_TICK
  ScanEvery,   \* passes between two searches of deleted rows (FULL_SCAN_EVERY_MS)
  MaxClock,    \* bound on time
  MaxIncidents \* bound on the changes of the catalogue, the restarts of a replica
               \* and the passes that begin during another replica's

ASSUME TrackerAssumption ==
  /\ Offers \subseteq Nat /\ IsFiniteSet(Offers) /\ Listed \subseteq Offers
  /\ Prices \cap {"gone", "off", "none", "hidden"} = {}
  /\ Lag \in Nat \ {0} /\ Batch \in Nat \ {0} /\ MaxPerTick \in Nat \ {0}
  /\ {ScanEvery, MaxClock, MaxIncidents} \subseteq Nat

VARIABLES
  clock,
  terms,    \* offer -> a price, "off" or "gone" (no row in TenantProductOffer)
  dated,    \* offer -> updatedAt of its row
  sheet,    \* offer -> version of its product sheet (ProviderSyncCache)
  sheeted,  \* offer -> updatedAt of the sheet
  writing,  \* transactions that have dated their rows and not committed
  stopped,  \* whether the distributor's synchronisation is paused
  recorded, \* ApiOfferState
  events,   \* ApiCatalogEvent
  tracker,  \* ApiCatalogTracker
  job,      \* replica -> its pass
  batch,    \* replica -> the rows it is comparing
  incidents, \* the changes, restarts and passes begun during another's
  cut,      \* history: a restart cut a baseline
  hurried,  \* history: a full pass left its cursor nearer than the lag
  apart     \* history: a pass began during another replica's of an earlier minute

catalogVars == <<terms, dated, sheet, sheeted, writing, stopped>>
feed == <<recorded, events>>
history == <<cut, hurried, apart>>
vars == <<clock, catalogVars, feed, tracker, job, batch, incidents, history>>

Incident == incidents < MaxIncidents /\ incidents' = incidents + 1
Hidden == <<"hidden", 0>>
NoState == <<"none", 0>>
Idle == [step |-> "idle"]
NoBatch == [step |-> "none"]
(* stateOf: an offer that is off or without price is like one that is not. *)
View(o) == IF terms[o] \in {"gone", "off"} THEN Hidden ELSE <<terms[o], sheet[o]>>
Shown(state) == IF state = NoState THEN Hidden ELSE state
Seen(o) == Shown(recorded[o])
Rows == {o \in Offers : terms[o] # "gone"}

Feed == INSTANCE CatalogFeed WITH
          Views <- Prices \X {0, 1}, log <- events, known <- [o \in Offers |-> Seen(o)],
          paused <- tracker.paused, started <- tracker.baseline

Init ==
  /\ clock = 0
  /\ terms \in [Offers -> {"gone"} \cup Prices]
  /\ \A o \in Offers : terms[o] # "gone" <=> o \in Listed
  /\ dated = [o \in Offers |-> 0]
  /\ sheet = [o \in Offers |-> 0]
  /\ sheeted = [o \in Offers |-> 0]
  /\ writing = {}
  /\ stopped = FALSE
  /\ recorded = [o \in Offers |-> NoState]
  /\ events = <<>>
  /\ tracker = [baseline |-> FALSE, offers |-> 0, sheets |-> 0, scan |-> 0, paused |-> FALSE]
  /\ job = [r \in Replicas |-> Idle] /\ batch = [r \in Replicas |-> NoBatch]
  /\ incidents = 0
  /\ cut = FALSE /\ hurried = FALSE /\ apart = FALSE

-----------------------------------------------------------------------------
(* The catalogue: syncs, lists, stores and people write it.  Time passes   *)
(* only up to the moment a transaction must have committed.                *)
Tick ==
  /\ clock < MaxClock
  /\ \A w \in writing : clock + 1 < w.date + Lag
  /\ clock' = clock + 1
  /\ UNCHANGED <<catalogVars, feed, tracker, job, batch, incidents, history>>

Stamp(rows, new) ==
  /\ Incident
  /\ writing' = writing \cup {[rows |-> rows, terms |-> new, date |-> clock]}
  /\ UNCHANGED <<clock, terms, dated, sheet, sheeted, stopped, feed, tracker, job, batch, history>>

Commit(w) ==
  /\ w \in writing
  /\ terms' = [o \in Offers |-> IF o \in w.rows THEN w.terms ELSE terms[o]]
  /\ dated' = [o \in Offers |-> IF o \in w.rows THEN w.date ELSE dated[o]]
  /\ writing' = writing \ {w}
  /\ UNCHANGED <<clock, sheet, sheeted, stopped, feed, tracker, job, batch, incidents, history>>

Delete(o) ==
  /\ Incident
  /\ o \in Rows /\ \A w \in writing : o \notin w.rows
  /\ terms' = [terms EXCEPT ![o] = "gone"]
  /\ UNCHANGED <<clock, dated, sheet, sheeted, writing, stopped, feed, tracker, job, batch, history>>

WriteSheet(o) ==
  /\ Incident
  /\ sheet' = [sheet EXCEPT ![o] = 1 - @]
  /\ sheeted' = [sheeted EXCEPT ![o] = clock]
  /\ UNCHANGED <<clock, terms, dated, writing, stopped, feed, tracker, job, batch, history>>

PauseOrResume ==
  /\ Incident
  /\ stopped' = ~stopped
  /\ UNCHANGED <<clock, terms, dated, sheet, sheeted, writing, feed, tracker, job, batch, history>>

-----------------------------------------------------------------------------
(* ORDER BY, as pairs of the rows that come one before the other.         *)
ById == {p \in Offers \X Offers : p[1] < p[2]}
ByDate == {p \in Offers \X Offers :
             dated[p[1]] < dated[p[2]] \/ (dated[p[1]] = dated[p[2]] /\ p[1] < p[2])}

(* The rows of a query in its order, those that it takes when it has a     *)
(* limit, and the last of them.                                            *)
InOrder(rows, order) ==
  CHOOSE s \in SetToSeqs(rows) : \A i, j \in DOMAIN s : i < j => <<s[i], s[j]>> \in order
Taken(rows, order) == {InOrder(rows, order)[i] : i \in 1..Min({Cardinality(rows), Batch})}
LastOf(rows, order) == CHOOSE o \in rows : \A x \in rows \ {o} : <<x, o>> \in order

(* A pass of a replica begins, with the time it has then, if that replica  *)
(* is not in one.                                                          *)
Begin(r, first) ==
  LET others == {q \in Replicas : job[q] # Idle}
  IN /\ job[r] = Idle
     /\ IF others = {} THEN UNCHANGED incidents ELSE Incident
     /\ apart' = (apart \/ \E q \in others : job[q].now # clock)
     /\ job' = [job EXCEPT ![r] = first]
     /\ UNCHANGED <<clock, catalogVars, feed, tracker, batch, cut, hurried>>

(* A query returns rows: their views are those of now.                     *)
Reads(r, rows, order) ==
  batch' = [batch EXCEPT ![r] = IF rows = {} THEN NoBatch
                                ELSE [step |-> "rows", rows |-> rows, order |-> order,
                                      after |-> [o \in Offers |-> IF o \in rows THEN View(o) ELSE Hidden],
                                      before |-> [o \in Offers |-> NoState]]]
Goes(r, j) == job' = [job EXCEPT ![r] = j]
At(r, step) == job[r].step = step /\ batch[r] = NoBatch

(* baseline: a picture of everything, without events.                      *)
StartBaseline(r) ==
  /\ ~tracker.baseline
  /\ Begin(r, [step |-> "baseline", now |-> clock, id |-> -1, last |-> -1])

ReadPicture(r) ==
  LET j == job[r]
      took == Taken({o \in Rows : o > j.id}, ById)
  IN /\ At(r, "baseline")
     /\ Reads(r, took, ById)
     /\ Goes(r, [j EXCEPT !.step = IF Cardinality(took) < Batch THEN "photographed" ELSE @,
                          !.id = IF took = {} THEN @ ELSE LastOf(took, ById),
                          !.last = Max({@} \cup {dated[o] : o \in took})])
     /\ UNCHANGED <<clock, catalogVars, feed, tracker, incidents, history>>

(* A row that already has a state keeps it (skipDuplicates).               *)
Photograph(r) ==
  LET b == batch[r]
  IN /\ job[r].step \in {"baseline", "photographed"} /\ b # NoBatch
     /\ recorded' = [o \in Offers |-> IF o \in b.rows /\ recorded[o] = NoState THEN b.after[o] ELSE recorded[o]]
     /\ batch' = [batch EXCEPT ![r] = NoBatch]
     /\ UNCHANGED <<clock, catalogVars, events, tracker, job, incidents, history>>

EndPicture(r) ==
  /\ At(r, "photographed")
  /\ Goes(r, [step |-> "saving", now |-> job[r].now, last |-> job[r].last, paused |-> stopped])
  /\ UNCHANGED <<clock, catalogVars, feed, tracker, batch, incidents, history>>

SaveBaseline(r) ==
  LET j == job[r]
  IN /\ j.step = "saving"
     /\ tracker' = [baseline |-> TRUE,
                    offers |-> Min({IF j.last < 0 THEN j.now ELSE j.last, j.now - Lag}),
                    sheets |-> j.now - Lag,
                    scan |-> ScanEvery,
                    paused |-> j.paused]
     /\ Goes(r, Idle)
     /\ UNCHANGED <<clock, catalogVars, feed, batch, incidents, history>>

-----------------------------------------------------------------------------
(* compareAndRecord: the states of the rows are read after the rows.       *)
ReadStates(r) ==
  LET b == batch[r]
  IN /\ job[r].step \in {"offers", "sheets"} /\ b.step = "rows"
     /\ batch' = [batch EXCEPT ![r].step = "states",
                               ![r].before = [o \in Offers |-> IF o \in b.rows THEN recorded[o] ELSE NoState]]
     /\ UNCHANGED <<clock, catalogVars, feed, tracker, job, incidents, history>>

(* The events of the offers whose view is another, in the order of the     *)
(* rows.                                                                   *)
EventsFor(b) ==
  LET differ == {o \in b.rows : Feed!DiffOffer(Shown(b.before[o]), b.after[o]) # "none"}
      changed == InOrder(differ, b.order)
  IN [i \in DOMAIN changed |-> Feed!OfferEvent(changed[i], Shown(b.before[changed[i]]), b.after[changed[i]])]

(* Events and states in one transaction, whatever the states are by then.  *)
RecordSaving(r, saved) ==
  /\ job[r].step \in {"offers", "sheets"} /\ batch[r].step = "states"
  /\ events' = events \o EventsFor(batch[r])
  /\ recorded' = [o \in Offers |-> IF o \in saved THEN batch[r].after[o] ELSE recorded[o]]
  /\ batch' = [batch EXCEPT ![r] = NoBatch]
  /\ UNCHANGED <<clock, catalogVars, tracker, job, incidents, history>>

(* Mutant of Record: the states are not saved with the events.             *)
RecordEventsOnly(r) == RecordSaving(r, {})

Record(r) == RecordSaving(r, {o \in batch[r].rows : batch[r].before[o] # batch[r].after[o]})

(* track: the tracker is read.                                             *)
StartPass(r) ==
  /\ tracker.baseline
  /\ Begin(r, [step |-> "touched", now |-> clock, mark |-> tracker.offers, id |-> -1, seen |-> 0,
               caughtUp |-> TRUE, sheets |-> tracker.sheets, touched |-> {}, full |-> FALSE,
               due |-> tracker.scan = 0, paused |-> tracker.paused])

(* trackOffers: the sheets written since the mark and up to now; at most   *)
(* MaxPerTick of them, in no order.                                        *)
ReadTouched(r) ==
  LET j == job[r]
      touched == {o \in Rows : sheeted[o] > j.sheets /\ sheeted[o] <= j.now}
  IN /\ j.step = "touched"
     /\ \E some \in SUBSET touched :
          /\ Cardinality(some) = Min({Cardinality(touched), MaxPerTick})
          /\ Goes(r, [j EXCEPT !.step = "offers", !.touched = some, !.full = Cardinality(some) = MaxPerTick])
     /\ UNCHANGED <<clock, catalogVars, feed, tracker, batch, incidents, history>>

PassOffersFrom(r, ahead) ==
  LET j == job[r]
      took == Taken(ahead, ByDate)
      last == LastOf(took, ByDate)
      n == j.seen + Cardinality(took)
      more == Cardinality(took) = Batch
  IN /\ At(r, "offers")
     /\ Reads(r, took, ByDate)
     /\ Goes(r, IF took = {} THEN [j EXCEPT !.step = "sheets"]
                ELSE [j EXCEPT !.step = IF more /\ n < MaxPerTick THEN @ ELSE "sheets",
                               !.mark = dated[last], !.id = last, !.seen = n,
                               !.caughtUp = ~more \/ n < MaxPerTick])
     /\ UNCHANGED <<clock, catalogVars, feed, tracker, incidents, history>>

(* Mutant of PassOffers: the id does not break the tie of equal dates.     *)
PassOffersByDateOnly(r) == PassOffersFrom(r, {o \in Rows : dated[o] > job[r].mark})

(* One batch: rows after (mark, id) in the order of both.                  *)
PassOffers(r) ==
  PassOffersFrom(r, {o \in Rows : dated[o] > job[r].mark \/ (dated[o] = job[r].mark /\ o > job[r].id)})

(* Then the offers of the touched sheets, slice by slice.                  *)
PassSheets(r) ==
  LET slice == Taken(job[r].touched, ById)
  IN /\ At(r, "sheets") /\ job[r].touched # {}
     /\ Reads(r, slice \cap Rows, ById)
     /\ Goes(r, [job[r] EXCEPT !.touched = @ \ slice])
     /\ UNCHANGED <<clock, catalogVars, feed, tracker, incidents, history>>

MoveCursorsUpTo(r, limit) ==
  LET j == job[r]
  IN /\ At(r, "sheets") /\ j.touched = {}
     /\ tracker' = [tracker EXCEPT !.offers = IF j.caughtUp THEN Min({j.mark, limit}) ELSE j.mark - 1,
                                   !.sheets = IF j.full THEN j.sheets ELSE limit]
     /\ hurried' = (hurried \/ (~j.caughtUp /\ j.mark - 1 > j.now - Lag))
     /\ Goes(r, [step |-> IF j.due THEN "deleted" ELSE "pauses", now |-> j.now, paused |-> j.paused])
     /\ UNCHANGED <<clock, catalogVars, feed, batch, incidents, cut, apart>>

(* Mutant of MoveCursors: the cursors go up to now.                        *)
MoveCursorsWithoutLag(r) == MoveCursorsUpTo(r, job[r].now)

(* The cursors move, never nearer than the lag, unless the pass was full:  *)
(* then to one instant before the last row seen, however near that is.     *)
MoveCursors(r) == MoveCursorsUpTo(r, job[r].now - Lag)

(* trackDeleted: states whose row is gone, at most MaxPerTick of them.     *)
ReadDeleted(r) ==
  LET missing == {o \in Offers : recorded[o] # NoState /\ o \notin Rows}
  IN /\ At(r, "deleted")
     /\ \E some \in SUBSET missing :
          /\ Cardinality(some) = Min({Cardinality(missing), MaxPerTick})
          /\ batch' = [batch EXCEPT ![r] =
                         [step |-> "states", rows |-> some, order |-> ById, after |-> [o \in Offers |-> Hidden],
                          before |-> [o \in Offers |-> IF o \in some THEN recorded[o] ELSE NoState]]]
     /\ UNCHANGED <<clock, catalogVars, feed, tracker, job, incidents, history>>

(* Their states go by key; one that was hidden already says nothing.       *)
RecordDeleted(r) ==
  /\ job[r].step = "deleted" /\ batch[r] # NoBatch
  /\ events' = events \o EventsFor(batch[r])
  /\ recorded' = [o \in Offers |-> IF o \in batch[r].rows THEN NoState ELSE recorded[o]]
  /\ tracker' = [tracker EXCEPT !.scan = ScanEvery]
  /\ batch' = [batch EXCEPT ![r] = NoBatch]
  /\ Goes(r, [job[r] EXCEPT !.step = "pauses"])
  /\ UNCHANGED <<clock, catalogVars, incidents, history>>

(* trackProviderPauses: what is paused now, against what the tracker said  *)
(* when the pass began.                                                    *)
ReadPauses(r) ==
  /\ At(r, "pauses")
  /\ Goes(r, IF stopped = job[r].paused THEN Idle ELSE [job[r] EXCEPT !.step = "paused", !.paused = stopped])
  /\ tracker' = [tracker EXCEPT !.scan = IF @ = 0 THEN 0 ELSE @ - 1]
  /\ UNCHANGED <<clock, catalogVars, feed, batch, incidents, history>>

RecordPauses(r) ==
  /\ job[r].step = "paused"
  /\ events' = Append(events, Feed!PauseEvent(job[r].paused))
  /\ tracker' = [tracker EXCEPT !.paused = job[r].paused]
  /\ Goes(r, Idle)
  /\ UNCHANGED <<clock, catalogVars, recorded, batch, incidents, history>>

(* A replica restarts, or a query of its pass fails: what was committed    *)
(* stays, and the next pass starts from the tracker as it is.              *)
Crash(r) ==
  /\ Incident /\ job[r] # Idle
  /\ cut' = (cut \/ job[r].step \in {"baseline", "photographed", "saving"})
  /\ Goes(r, Idle) /\ batch' = [batch EXCEPT ![r] = NoBatch]
  /\ UNCHANGED <<clock, catalogVars, feed, tracker, hurried, apart>>

Catalogue == \/ \E rows \in SUBSET Offers \ {{}}, new \in Prices \cup {"off"} : Stamp(rows, new)
             \/ \E o \in Offers : Delete(o) \/ WriteSheet(o)
             \/ PauseOrResume

JobStep(r) ==
  \/ StartBaseline(r) \/ ReadPicture(r) \/ Photograph(r) \/ EndPicture(r) \/ SaveBaseline(r)
  \/ StartPass(r) \/ ReadTouched(r) \/ PassOffers(r) \/ PassSheets(r) \/ ReadStates(r) \/ Record(r) \/ MoveCursors(r)
  \/ ReadDeleted(r) \/ RecordDeleted(r) \/ ReadPauses(r) \/ RecordPauses(r)

Next == Tick \/ Catalogue \/ (\E w \in writing : Commit(w)) \/ (\E r \in Replicas : JobStep(r) \/ Crash(r))

Spec == Init /\ [][Next]_vars

(* The cron fires every minute in every replica and its queries answer; a  *)
(* transaction that dated its rows commits.                                *)
FairSpec == /\ Spec
            /\ \A r \in Replicas : WF_vars(JobStep(r))
            /\ WF_vars(\E w \in writing : Commit(w))

-----------------------------------------------------------------------------
Dates == (-Lag - 1)..MaxClock

TrackerTypeOK ==
  /\ clock \in 0..MaxClock
  /\ terms \in [Offers -> {"gone", "off"} \cup Prices]
  /\ dated \in [Offers -> 0..MaxClock] /\ sheeted \in [Offers -> 0..MaxClock]
  /\ sheet \in [Offers -> {0, 1}] /\ stopped \in BOOLEAN
  /\ recorded \in [Offers -> {NoState, Hidden} \cup (Prices \X {0, 1})]
  /\ tracker \in [baseline : BOOLEAN, offers : Dates, sheets : Dates, scan : 0..ScanEvery, paused : BOOLEAN]
  /\ \A w \in writing : w.rows \subseteq Offers /\ w.date <= clock

(* The job implements the feed: whatever it finds twice, late or after a   *)
(* restart, every event is a difference with what the earlier ones said    *)
(* ("Repetir no duplica eventos").  The exception are the steps of a       *)
(* replica that writes over what another wrote since it read: those may    *)
(* tell again what was told (see the README).                              *)
Overtaken(r) ==
  \/ batch[r].step = "states" /\ \E o \in batch[r].rows : recorded[o] # batch[r].before[o]
  \/ job[r].step = "paused" /\ tracker.paused = job[r].paused
  \/ job[r].step \in {"baseline", "photographed", "saving"} /\ tracker.baseline
Writes(r) == Photograph(r) \/ SaveBaseline(r) \/ Record(r) \/ RecordDeleted(r) \/ RecordPauses(r)
OvertakenWrites == \E r \in Replicas : Overtaken(r) /\ Writes(r)
IsFeed == Feed!FeedInit /\ [][Feed!FeedNext \/ OvertakenWrites]_(Feed!feedVars)

(* No row is left behind the cursors, with any replicas at work: what an   *)
(* integrator does not know yet will be found again by date, also a row    *)
(* committed late.  There are three exceptions: a baseline cut by a        *)
(* restart keeps old states, a pass that was full may leave its cursor     *)
(* nearer than the lag, and one that lasts into another replica's later    *)
(* pass may write an old state over the one that pass recorded.            *)
NothingBehindCursor ==
  tracker.baseline /\ ~cut /\ ~hurried /\ ~apart =>
    \A o \in Rows : Seen(o) = View(o) \/ dated[o] > tracker.offers \/ sheeted[o] > tracker.sheets

(* When the catalogue rests, the events end up telling it as it is, pauses *)
(* and deleted offers included ("Tope de trabajo por comercio y por        *)
(* pasada: el resto sigue en la próxima").                                 *)
Agrees == (\A o \in Offers : Seen(o) = View(o)) /\ tracker.paused = stopped
CatchesUp == <>[](cut \/ hurried \/ apart \/ Agrees)
=============================================================================
