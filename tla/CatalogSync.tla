---------------------------- MODULE CatalogSync ----------------------------
(***************************************************************************)
(* The synchronisations of one distributor's catalogue for one retailer    *)
(* (providers/providers.service.ts runSync, providers/                     *)
(* catalog-sync-progress.ts): a run is a row that says RUNNING while its   *)
(* worker beats; a run whose beat is old is taken for dead and another may *)
(* start.  What a complete run brought is shown, what it did not bring is  *)
(* hidden or deleted, and a run cut short must leave the catalogue alone.  *)
(*                                                                         *)
(* Time is the age of the last beat of each run, in intervals of the beat. *)
(* syncedAt >= syncStartedAt is kept as the set of offers written since a  *)
(* worker began.  The portal is external and may change at any moment.     *)
(***************************************************************************)
EXTENDS Naturals, FiniteSets

CONSTANTS
  Offers,
  Runs,           \* runs of the retailer's synchronisation, taken in order
  Stale,          \* CATALOG_SYNC_STALE_MS, in beats
  Grace,          \* RESTART_GRACE_MS, in beats
  Closing,        \* bound on the beats a run lasts after its last page
  MinBefore,      \* MISSING_GUARD_MIN_BEFORE
  MissingActions, ZeroActions,  \* the rules a retailer may choose
  MaxChanges      \* bound on the changes of portal and rules

ASSUME SyncAssumption ==
  /\ IsFiniteSet(Offers)
  /\ Runs = 1..Cardinality(Runs)
  /\ {Stale, Grace, Closing, MinBefore, MaxChanges} \subseteq Nat
  /\ 1 <= Closing /\ Closing < Grace /\ Grace <= Stale
  /\ MissingActions \subseteq {"KEEP", "HIDE", "DELETE"}
  /\ ZeroActions \subseteq {"KEEP", "HIDE", "DELETE"}

VARIABLES
  portal,    \* offer -> whether the distributor lists it, and with stock
  rows,      \* offer -> its TenantProductOffer, if any: shown, without stock
  run,       \* run -> its CatalogSyncRun: status and age of the beat
  worker,    \* run -> the call of runSync that carries it out
  rules,     \* missingProductAction and zeroStockAction
  failures,  \* consecutiveFailures of ProviderSyncConfig
  changes

vars == <<portal, rows, run, worker, rules, failures, changes>>

NoRow == [is |-> FALSE, shown |-> FALSE, empty |-> FALSE]
Exists == {o \in Offers : rows[o].is}
Shown == {o \in Exists : rows[o].shown}
Closers == {"reactivate", "missing", "zero", "succeed"}
Paging == {r \in Runs : worker[r].step = "pages"}
Working == {r \in Runs : worker[r].step \in {"pages"} \cup Closers}
Alive == {r \in Runs : worker[r].step \notin {"none", "dead", "done"}}

Init ==
  /\ portal \in [Offers -> {"stock", "unlisted"}]
  /\ rows = [o \in Offers |-> IF portal[o] = "stock" THEN [is |-> TRUE, shown |-> TRUE, empty |-> FALSE] ELSE NoRow]
  /\ run = [r \in Runs |-> [status |-> "NONE", beat |-> 0]]
  /\ worker = [r \in Runs |-> [step |-> "none"]]
  /\ rules \in [missing : MissingActions, zero : ZeroActions]
  /\ failures = 0
  /\ changes = 0

Goto(r, step) == worker' = [worker EXCEPT ![r].step = step]
Leave(r, step) == worker' = [worker EXCEPT ![r] = [step |-> step]]
Says(r, status) == run' = [run EXCEPT ![r] = [status |-> status, beat |-> 0]]

-----------------------------------------------------------------------------
(* Mutant of Interrupted: the comparison of the dates is swapped.          *)
InterruptedRecent(age) ==
  [r \in Runs |-> IF run[r].status = "RUNNING" /\ run[r].beat < age
                    THEN [status |-> "ERROR", beat |-> 0] ELSE run[r]]

(* What the rows say once those that have not beaten for a while are in    *)
(* ERROR.                                                                  *)
Interrupted(age) ==
  [r \in Runs |-> IF run[r].status = "RUNNING" /\ run[r].beat > age
                    THEN [status |-> "ERROR", beat |-> 0] ELSE run[r]]

Interrupt(after) ==
  /\ after # run
  /\ run' = after
  /\ UNCHANGED <<portal, rows, worker, rules, failures, changes>>

(* Mutant of InterruptAtBoot: every RUNNING row is taken for dead.         *)
InterruptAllAtBoot ==
  Interrupt([r \in Runs |-> IF run[r].status = "RUNNING" THEN [status |-> "ERROR", beat |-> 0] ELSE run[r]])

(* onModuleInit of any replica, at once and a minute later.                *)
InterruptAtBoot == Interrupt(Interrupted(Grace))

(* interruptStaleCatalogSyncRuns, when the panel asks for the current run. *)
InterruptStale == Interrupt(Interrupted(Stale))

(* Mutant of Start: no look at the row that runs, no unique index.         *)
StartAnyway(r, source) ==
  /\ run[r].status = "NONE" /\ \A q \in Runs : q < r => run[q].status # "NONE"
  /\ run' = [Interrupted(Stale) EXCEPT ![r] = [status |-> "RUNNING", beat |-> 0]]
  /\ worker' = [worker EXCEPT ![r] = [step |-> "started", source |-> source]]
  /\ UNCHANGED <<portal, rows, rules, failures, changes>>

(* startCatalogSyncRun, from the button or the cron: stale runs are        *)
(* interrupted, a row that says RUNNING keeps a second run out, and the    *)
(* unique index decides between two at once.                               *)
Start(r, source) ==
  LET now == Interrupted(Stale) IN
  /\ run[r].status = "NONE" /\ \A q \in Runs : q < r => run[q].status # "NONE"
  /\ \A q \in Runs : now[q].status # "RUNNING"
  /\ run' = [now EXCEPT ![r] = [status |-> "RUNNING", beat |-> 0]]
  /\ worker' = [worker EXCEPT ![r] = [step |-> "started", source |-> source]]
  /\ UNCHANGED <<portal, rows, rules, failures, changes>>

(* runSync begins: the rules as they are, the offers shown before, and the *)
(* moment that tells what this run has written.                            *)
Begin(r) ==
  /\ worker[r].step = "started"
  /\ worker' = [worker EXCEPT ![r] =
       [step |-> "pages", source |-> worker[r].source, rules |-> rules, before |-> Cardinality(Shown),
        todo |-> Offers, fresh |-> {}, bare |-> {}, safe |-> FALSE, disturbed |-> FALSE]]
  /\ run' = [run EXCEPT ![r].beat = 0]
  /\ UNCHANGED <<portal, rows, rules, failures, changes>>

(* upsertPage, one item: a new row is shown, an old one stays as it was.   *)
(* bare are the items that came without stock (history).                   *)
Page(r, o) ==
  /\ r \in Paging /\ o \in worker[r].todo
  /\ worker' = [worker EXCEPT ![r].todo = @ \ {o}, ![r].fresh = IF portal[o] = "unlisted" THEN @ ELSE @ \cup {o},
                              ![r].bare = IF portal[o] = "empty" THEN @ \cup {o} ELSE @]
  /\ rows' = IF portal[o] = "unlisted" THEN rows
             ELSE [rows EXCEPT ![o] = [is |-> TRUE, shown |-> @.is => @.shown, empty |-> portal[o] = "empty"]]
  /\ UNCHANGED <<portal, run, rules, failures, changes>>

(* The portal or a write fails while the pages come: ERROR.                *)
PagesFail(r) ==
  /\ r \in Paging
  /\ Says(r, "ERROR")
  /\ Leave(r, "failed")
  /\ UNCHANGED <<portal, rows, rules, failures, changes>>

CountFailure(r) ==
  /\ worker[r].step = "failed"
  /\ failures' = failures + 1
  /\ Leave(r, "done")
  /\ UNCHANGED <<portal, rows, run, rules, changes>>

(* Mutant of missingActionIsSafe: no brake.                                *)
AlwaysSafe(before, seen) == TRUE

(* missingActionIsSafe: a run that brought less than half of a catalogue   *)
(* of some size takes nothing down.                                        *)
MissingActionIsSafe(before, seen) == before < MinBefore \/ 2 * seen >= before

PagesDone(r) ==
  /\ r \in Paging /\ worker[r].todo = {}
  /\ worker' = [worker EXCEPT ![r].step = "reactivate",
                  ![r].safe = MissingActionIsSafe(worker[r].before, Cardinality(worker[r].fresh))]
  /\ UNCHANGED <<portal, rows, run, rules, failures, changes>>

(* What came is shown again.                                               *)
Reactivate(r) ==
  /\ worker[r].step = "reactivate"
  /\ rows' = [o \in Offers |-> IF o \in worker[r].fresh THEN [rows[o] EXCEPT !.shown = rows[o].is] ELSE rows[o]]
  /\ Goto(r, "missing")
  /\ UNCHANGED <<portal, run, rules, failures, changes>>

TakeDown(set, action) ==
  rows' = [o \in Offers |-> IF o \notin set THEN rows[o]
                            ELSE IF action = "DELETE" THEN NoRow ELSE [rows[o] EXCEPT !.shown = FALSE]]

(* applyMissingProductAction: KEEP hides too.                              *)
ApplyMissing(r) ==
  /\ worker[r].step = "missing"
  /\ TakeDown(IF worker[r].safe THEN Offers \ worker[r].fresh ELSE {}, worker[r].rules.missing)
  /\ Goto(r, "zero")
  /\ UNCHANGED <<portal, run, rules, failures, changes>>

(* applyZeroStockAction, with the rule read when the run began.            *)
ApplyZero(r) ==
  /\ worker[r].step = "zero"
  /\ TakeDown(IF worker[r].rules.zero = "KEEP" THEN {} ELSE {o \in worker[r].fresh : rows[o].empty}, worker[r].rules.zero)
  /\ Goto(r, "succeed")
  /\ UNCHANGED <<portal, run, rules, failures, changes>>

(* succeed, by id and whatever the row says.                               *)
Succeed(r) ==
  /\ worker[r].step = "succeed"
  /\ Says(r, "OK")
  /\ Leave(r, "saveConfig")
  /\ UNCHANGED <<portal, rows, rules, failures, changes>>

SaveConfig(r) ==
  /\ worker[r].step = "saveConfig"
  /\ failures' = 0
  /\ Leave(r, "done")
  /\ UNCHANGED <<portal, rows, run, rules, changes>>

(* A write fails outside the pages, or the one that says ERROR: the row    *)
(* stays as it is.  The cron counts the failure, the button only logs it.  *)
WriteFails(r) ==
  /\ worker[r].step \in {"started", "pages"} \cup Closers
  /\ Leave(r, IF worker[r].source = "cron" THEN "failed" ELSE "done")
  /\ UNCHANGED <<portal, rows, run, rules, failures, changes>>

-----------------------------------------------------------------------------
(* Time.  A worker that pages beats every interval (setInterval), one that *)
(* starts or closes its run goes on in time, a dead one does not beat.     *)
Tick ==
  LET old == {r \in Runs \ Paging : run[r].status = "RUNNING" /\ run[r].beat <= Stale} IN
  /\ \A r \in Alive \ Paging : run[r].beat < Closing
  /\ old # {}
  /\ run' = [r \in Runs |-> IF r \in old THEN [run[r] EXCEPT !.beat = @ + 1] ELSE run[r]]
  /\ UNCHANGED <<portal, rows, worker, rules, failures, changes>>

(* A replica of the API stops, with the run it was carrying out.           *)
Crash(r) ==
  /\ r \in Alive
  /\ Leave(r, "dead")
  /\ UNCHANGED <<portal, rows, run, rules, failures, changes>>

PortalChanges(o, to) ==
  /\ changes < MaxChanges /\ changes' = changes + 1
  /\ portal[o] # to
  /\ portal' = [portal EXCEPT ![o] = to]
  /\ UNCHANGED <<rows, run, worker, rules, failures>>

(* setConfig: when the new rules hide nothing any more, what was hidden is *)
(* shown at once (shouldUnhideOnConfigChange).                             *)
Hides(set) == "HIDE" \in {set.missing, set.zero}
SetRules(new) ==
  /\ changes < MaxChanges /\ changes' = changes + 1
  /\ new # rules
  /\ rules' = new
  /\ rows' = IF Hides(rules) /\ ~Hides(new)
             THEN [o \in Offers |-> [rows[o] EXCEPT !.shown = rows[o].is]] ELSE rows
  /\ worker' = [r \in Runs |-> IF r \in Working THEN [worker[r] EXCEPT !.disturbed = TRUE] ELSE worker[r]]
  /\ UNCHANGED <<portal, run, failures>>

(* The account is saved again: the count of failures starts over.          *)
SaveAccount ==
  /\ failures > 0 /\ failures' = 0
  /\ UNCHANGED <<portal, rows, run, worker, rules, changes>>

Advance(r) == \/ Begin(r) \/ (\E o \in Offers : Page(r, o)) \/ PagesFail(r) \/ CountFailure(r)
              \/ PagesDone(r) \/ Reactivate(r) \/ ApplyMissing(r) \/ ApplyZero(r)
              \/ Succeed(r) \/ SaveConfig(r) \/ WriteFails(r)

Next == \/ \E r \in Runs, source \in {"cron", "manual"} : Start(r, source)
        \/ \E r \in Runs : Advance(r) \/ Crash(r)
        \/ InterruptStale \/ InterruptAtBoot
        \/ Tick
        \/ \E o \in Offers, to \in {"stock", "empty", "unlisted"} : PortalChanges(o, to)
        \/ \E new \in [missing : MissingActions, zero : ZeroActions] : SetRules(new)
        \/ SaveAccount

Spec == Init /\ [][Next]_vars

(* A worker goes on (the requests to the portals have timeouts), time      *)
(* passes and the panel asks.                                              *)
FairSpec == Spec /\ WF_vars(Tick) /\ WF_vars(InterruptStale) /\ \A r \in Runs : WF_vars(Advance(r))

-----------------------------------------------------------------------------
Rules == [missing : {"KEEP", "HIDE", "DELETE"}, zero : {"KEEP", "HIDE", "DELETE"}]
Sources == {"cron", "manual"}
WorkerStates ==
       [step : {"none", "dead", "done", "failed", "saveConfig"}]
  \cup [step : {"started"}, source : Sources]
  \cup [step : {"pages"} \cup Closers, source : Sources, rules : Rules, before : Nat,
        todo : SUBSET Offers, fresh : SUBSET Offers, bare : SUBSET Offers, safe : BOOLEAN, disturbed : BOOLEAN]

SyncTypeOK ==
  /\ portal \in [Offers -> {"stock", "empty", "unlisted"}]
  /\ rows \in [Offers -> [is : BOOLEAN, shown : BOOLEAN, empty : BOOLEAN]]
  /\ run \in [Runs -> [status : {"NONE", "RUNNING", "OK", "ERROR"}, beat : 0..(Stale + 1)]]
  /\ worker \in [Runs -> WorkerStates]
  /\ rules \in Rules
  /\ failures \in Nat
  /\ changes \in 0..MaxChanges

(* A beating worker keeps its run: while it pages or closes, nobody takes  *)
(* it for dead, nor does a second worker write the same catalogue, replica *)
(* restarts included (the comments of onModuleInit and                     *)
(* startCatalogSyncRun).                                                   *)
Owns(r) == worker[r].step \in {"started", "pages"} \cup Closers
BeatingRunIsAlone ==
  \A r \in Runs : Owns(r) => run[r].status = "RUNNING" /\ \A q \in Runs : Owns(q) => q = r

(* A run ends once: what was shown as interrupted does not turn OK later.  *)
EndsOnce == [][\A r \in Runs : run[r].status \in {"OK", "ERROR"} => run'[r].status = run[r].status]_vars

(* A run about to be OK shows exactly what it brought, less what the zero  *)
(* stock rule takes down; if it brought too little, nothing that was not   *)
(* brought has been touched (the comments of missing-guard.ts).            *)
Brought(r) == worker[r].fresh \ (IF worker[r].rules.zero = "KEEP" THEN {} ELSE worker[r].bare)
CompleteRunShows ==
  \A r \in Runs : worker[r].step = "succeed" /\ ~worker[r].disturbed =>
    /\ Shown \cap worker[r].fresh = Brought(r)
    /\ worker[r].safe => Shown = Brought(r)
    /\ worker[r].before >= MinBefore /\ Cardinality(worker[r].fresh) = 0 => Cardinality(Shown) = worker[r].before

(* A run that no longer advances does not block the distributor: its row   *)
(* stops saying RUNNING, whatever its worker died of.                      *)
RunsEnd == \A r \in Runs : run[r].status = "RUNNING" ~> run[r].status # "RUNNING"
=============================================================================
