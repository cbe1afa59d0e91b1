------------------------- MODULE CatalogSyncProofs -------------------------
(***************************************************************************)
(* That a worker which beats owns its run, for any number of runs, offers  *)
(* and any delays with Closing < Grace <= Stale: nobody takes it for dead, *)
(* nobody works beside it and nobody overwrites how a run ended.  And,     *)
(* since nobody works beside it, that a run about to be OK shows what it   *)
(* brought.                                                                *)
(***************************************************************************)
EXTENDS CatalogSync, FiniteSetTheorems, TLAPS

(* A worker's row says RUNNING, and young enough not to be taken for dead. *)
OwnersBeat ==
  \A r \in Runs : Owns(r) => run[r].status = "RUNNING" /\ run[r].beat <= Closing

(* The unique index on the rows that say RUNNING.                          *)
OneRuns ==
  \A r, q \in Runs : run[r].status = "RUNNING" /\ run[q].status = "RUNNING" => r = q

IInv == SyncTypeOK /\ OwnersBeat /\ OneRuns

RunRows == [status : {"NONE", "RUNNING", "OK", "ERROR"}, beat : 0..(Stale + 1)]

(* Interrupting only ends runs that say RUNNING and are older.             *)
LEMMA InterruptedEnds ==
  ASSUME run \in [Runs -> RunRows], NEW age \in Nat
  PROVE  /\ Interrupted(age) \in [Runs -> RunRows]
         /\ \A r \in Runs :
              \/ Interrupted(age)[r] = run[r]
              \/ run[r].status = "RUNNING" /\ run[r].beat > age /\ Interrupted(age)[r].status = "ERROR"
<1> USE SyncAssumption DEF RunRows
<1>1. \A r \in Runs : [status |-> "ERROR", beat |-> 0] \in RunRows
  BY SMT
<1> QED BY <1>1 DEF Interrupted

(* A worker that goes on with its run changes only what the step names.    *)
Running == [step : {"pages"} \cup Closers, source : Sources, rules : Rules, before : Nat,
            todo : SUBSET Offers, fresh : SUBSET Offers, bare : SUBSET Offers, safe : BOOLEAN, disturbed : BOOLEAN]

LEMMA WorkerHasRun ==
  ASSUME NEW w \in WorkerStates, w.step \in {"pages"} \cup Closers
  PROVE  w \in Running
  BY DEF WorkerStates, Running, Closers

LEMMA RunningSteps ==
  ASSUME NEW w \in Running, NEW step \in {"pages"} \cup Closers
  PROVE  [w EXCEPT !.step = step] \in WorkerStates
  BY DEF WorkerStates, Running, Closers

LEMMA RunningIsSafe ==
  ASSUME NEW w \in Running, NEW safe \in BOOLEAN
  PROVE  [w EXCEPT !.step = "reactivate", !.safe = safe] \in WorkerStates
  BY DEF WorkerStates, Running, Closers

LEMMA RunningPages ==
  ASSUME NEW w \in Running, NEW todo \in SUBSET Offers, NEW fresh \in SUBSET Offers, NEW bare \in SUBSET Offers
  PROVE  [w EXCEPT !.todo = todo, !.fresh = fresh, !.bare = bare] \in WorkerStates
  BY DEF WorkerStates, Running, Closers

LEMMA RunningDisturbed ==
  ASSUME NEW w \in Running
  PROVE  [w EXCEPT !.disturbed = TRUE] \in WorkerStates
  BY DEF WorkerStates, Running, Closers

LEMMA Resting ==
  \A step \in {"none", "dead", "done", "failed", "saveConfig"} : [step |-> step] \in WorkerStates
  BY DEF WorkerStates

LEMMA InitIInv == Init => IInv
<1> SUFFICES ASSUME Init PROVE IInv
  OBVIOUS
<1>1. worker \in [Runs -> WorkerStates]
  BY Resting DEF Init
<1>2. rows \in [Offers -> [is : BOOLEAN, shown : BOOLEAN, empty : BOOLEAN]]
  BY DEF Init, NoRow
<1>3. portal \in [Offers -> {"stock", "empty", "unlisted"}]
  BY DEF Init
<1>4. rules \in Rules /\ failures \in Nat /\ changes \in 0..MaxChanges
  <2>1. rules \in [missing : MissingActions, zero : ZeroActions]
    BY DEF Init
  <2>2. rules \in Rules
    BY <2>1, SyncAssumption DEF Rules
  <2> QED BY <2>2, SyncAssumption DEF Init
<1>5. run \in [Runs -> RunRows]
  BY SyncAssumption DEF Init, RunRows
<1>6. SyncTypeOK
  BY <1>1, <1>2, <1>3, <1>4, <1>5 DEF SyncTypeOK, RunRows
<1>7. OwnersBeat /\ OneRuns
  BY DEF Init, OwnersBeat, OneRuns, Owns, Closers
<1> QED BY <1>6, <1>7 DEF IInv

(* Every step keeps the types.                                             *)
LEMMA NextType == SyncTypeOK /\ [Next]_vars => SyncTypeOK'
<1> SUFFICES ASSUME SyncTypeOK, [Next]_vars PROVE SyncTypeOK'
  OBVIOUS
<1> USE SyncAssumption DEF SyncTypeOK
<1>1. ASSUME NEW r \in Runs, NEW source \in {"cron", "manual"}, Start(r, source) PROVE SyncTypeOK'
  <2>1. Interrupted(Stale) \in [Runs -> RunRows]
    BY InterruptedEnds DEF RunRows
  <2>2. [step |-> "started", source |-> source] \in WorkerStates
    BY DEF WorkerStates, Sources
  <2>3. worker' \in [Runs -> WorkerStates]
    BY <1>1, <2>2 DEF Start
  <2>4. run' \in [Runs -> RunRows]
    BY <1>1, <2>1 DEF Start, RunRows
  <2> QED BY <1>1, <2>3, <2>4 DEF Start, RunRows
<1>2. ASSUME NEW r \in Runs, Begin(r) PROVE SyncTypeOK'
  <2>1. Cardinality(Shown) \in Nat
    BY FS_Subset, FS_CardinalityType DEF Shown, Exists
  <2>2. worker[r].source \in Sources
    BY <1>2 DEF Begin, WorkerStates, Closers
  <2>3. worker' \in [Runs -> WorkerStates]
    BY <1>2, <2>1, <2>2 DEF Begin, WorkerStates
  <2>4. run' \in [Runs -> RunRows]
    <3>1. run' = [run EXCEPT ![r] = [run[r] EXCEPT !.beat = 0]]
      BY <1>2 DEF Begin
    <3>2. run[r] \in RunRows /\ 0 \in 0..(Stale + 1)
      BY DEF RunRows
    <3>3. [run[r] EXCEPT !.beat = 0] \in RunRows
      BY <3>2 DEF RunRows
    <3> QED BY <3>1, <3>3 DEF RunRows
  <2> QED BY <1>2, <2>3, <2>4 DEF Begin, RunRows
<1>3. ASSUME NEW r \in Runs, NEW o \in Offers, Page(r, o) PROVE SyncTypeOK'
  <2> DEFINE fresh == IF portal[o] = "unlisted" THEN worker[r].fresh ELSE worker[r].fresh \cup {o}
             bare == IF portal[o] = "empty" THEN worker[r].bare \cup {o} ELSE worker[r].bare
  <2>1. worker[r] \in Running
    BY <1>3, WorkerHasRun DEF Page, Paging
  <2>2. fresh \in SUBSET Offers /\ bare \in SUBSET Offers /\ worker[r].todo \ {o} \in SUBSET Offers
    BY <2>1 DEF Running
  <2>3. [worker[r] EXCEPT !.todo = worker[r].todo \ {o}, !.fresh = fresh, !.bare = bare] \in WorkerStates
    BY <2>1, <2>2, RunningPages
  <2>4. worker' = [worker EXCEPT ![r] = [worker[r] EXCEPT !.todo = worker[r].todo \ {o}, !.fresh = fresh, !.bare = bare]]
    BY <1>3 DEF Page
  <2>5. worker' \in [Runs -> WorkerStates]
    BY <2>3, <2>4
  <2>6. rows' \in [Offers -> [is : BOOLEAN, shown : BOOLEAN, empty : BOOLEAN]]
    BY <1>3 DEF Page
  <2> QED BY <1>3, <2>5, <2>6 DEF Page
<1>4. ASSUME NEW r \in Runs, PagesFail(r) PROVE SyncTypeOK'
  BY <1>4, Resting DEF PagesFail, Says, Leave
<1>5. ASSUME NEW r \in Runs, CountFailure(r) PROVE SyncTypeOK'
  BY <1>5, Resting DEF CountFailure, Leave
<1>6. ASSUME NEW r \in Runs, PagesDone(r) PROVE SyncTypeOK'
  <2> DEFINE safe == MissingActionIsSafe(worker[r].before, Cardinality(worker[r].fresh))
  <2>1. worker[r] \in Running
    BY <1>6, WorkerHasRun DEF PagesDone, Paging
  <2>2. safe \in BOOLEAN
    BY DEF MissingActionIsSafe
  <2>3. [worker[r] EXCEPT !.step = "reactivate", !.safe = safe] \in WorkerStates
    BY <2>1, <2>2, RunningIsSafe
  <2>4. worker' = [worker EXCEPT ![r] = [worker[r] EXCEPT !.step = "reactivate", !.safe = safe]]
    BY <1>6 DEF PagesDone
  <2>5. worker' \in [Runs -> WorkerStates]
    BY <2>3, <2>4
  <2> QED BY <1>6, <2>5 DEF PagesDone
<1>7. ASSUME NEW r \in Runs, Reactivate(r) PROVE SyncTypeOK'
  <2>1. worker[r] \in Running
    BY <1>7, WorkerHasRun DEF Reactivate, Closers
  <2>2. [worker[r] EXCEPT !.step = "missing"] \in WorkerStates
    BY <2>1, RunningSteps DEF Closers
  <2>3. worker' \in [Runs -> WorkerStates]
    BY <1>7, <2>2 DEF Reactivate, Goto
  <2> QED BY <1>7, <2>3 DEF Reactivate
<1>8. ASSUME NEW r \in Runs, ApplyMissing(r) PROVE SyncTypeOK'
  <2>1. worker[r] \in Running
    BY <1>8, WorkerHasRun DEF ApplyMissing, Closers
  <2>2. [worker[r] EXCEPT !.step = "zero"] \in WorkerStates
    BY <2>1, RunningSteps DEF Closers
  <2>3. worker' \in [Runs -> WorkerStates]
    BY <1>8, <2>2 DEF ApplyMissing, Goto
  <2> QED BY <1>8, <2>3 DEF ApplyMissing, TakeDown, NoRow
<1>9. ASSUME NEW r \in Runs, ApplyZero(r) PROVE SyncTypeOK'
  <2>1. worker[r] \in Running
    BY <1>9, WorkerHasRun DEF ApplyZero, Closers
  <2>2. [worker[r] EXCEPT !.step = "succeed"] \in WorkerStates
    BY <2>1, RunningSteps DEF Closers
  <2>3. worker' \in [Runs -> WorkerStates]
    BY <1>9, <2>2 DEF ApplyZero, Goto
  <2> QED BY <1>9, <2>3, ZenonT(60) DEF ApplyZero, TakeDown, NoRow
<1>10. ASSUME NEW r \in Runs, Succeed(r) PROVE SyncTypeOK'
  BY <1>10, Resting DEF Succeed, Says, Leave
<1>11. ASSUME NEW r \in Runs, SaveConfig(r) PROVE SyncTypeOK'
  BY <1>11, Resting DEF SaveConfig, Leave
<1>12. ASSUME NEW r \in Runs, WriteFails(r) PROVE SyncTypeOK'
  BY <1>12, Resting DEF WriteFails, Leave
<1>13. ASSUME NEW r \in Runs, Crash(r) PROVE SyncTypeOK'
  BY <1>13, Resting DEF Crash, Leave
<1>14. ASSUME InterruptStale \/ InterruptAtBoot PROVE SyncTypeOK'
  <2>1. Interrupted(Stale) \in [Runs -> RunRows] /\ Interrupted(Grace) \in [Runs -> RunRows]
    BY InterruptedEnds DEF RunRows
  <2> QED BY <1>14, <2>1 DEF InterruptStale, InterruptAtBoot, Interrupt, RunRows
<1>15. ASSUME Tick PROVE SyncTypeOK'
  BY <1>15 DEF Tick
<1>16. ASSUME NEW o \in Offers, NEW to \in {"stock", "empty", "unlisted"}, PortalChanges(o, to) PROVE SyncTypeOK'
  BY <1>16 DEF PortalChanges
<1>17. ASSUME NEW new \in [missing : MissingActions, zero : ZeroActions], SetRules(new) PROVE SyncTypeOK'
  <2>1. \A r \in Working : [worker[r] EXCEPT !.disturbed = TRUE] \in WorkerStates
    <3> SUFFICES ASSUME NEW r \in Working PROVE [worker[r] EXCEPT !.disturbed = TRUE] \in WorkerStates
      OBVIOUS
    <3>1. r \in Runs /\ worker[r] \in Running
      BY WorkerHasRun DEF Working, Closers
    <3> QED BY <3>1, RunningDisturbed
  <2>2. worker' \in [Runs -> WorkerStates]
    BY <1>17, <2>1 DEF SetRules, Working
  <2>3. new \in Rules
    <3>1. new.missing \in MissingActions /\ new.zero \in ZeroActions
          /\ new = [missing |-> new.missing, zero |-> new.zero]
      OBVIOUS
    <3> QED BY <3>1 DEF Rules
  <2>4. rows' \in [Offers -> [is : BOOLEAN, shown : BOOLEAN, empty : BOOLEAN]]
    BY <1>17, ZenonT(60) DEF SetRules
  <2>5. changes' \in 0..MaxChanges
    BY <1>17 DEF SetRules
  <2> QED BY <1>17, <2>2, <2>3, <2>4, <2>5 DEF SetRules
<1>18. ASSUME SaveAccount PROVE SyncTypeOK'
  BY <1>18 DEF SaveAccount
<1>19. ASSUME UNCHANGED vars PROVE SyncTypeOK'
  BY <1>19 DEF vars
<1> HIDE DEF SyncTypeOK
<1> QED BY <1>1, <1>2, <1>3, <1>4, <1>5, <1>6, <1>7, <1>8, <1>9, <1>10, <1>11, <1>12, <1>13, <1>14,
           <1>15, <1>16, <1>17, <1>18, <1>19 DEF Next, Advance

(* Interrupting takes no run from a worker that beats: its row is too      *)
(* young for either delay.                                                 *)
LEMMA OwnersAreNotStale ==
  ASSUME SyncTypeOK, OwnersBeat, NEW age \in {Stale, Grace}, NEW r \in Runs, Owns(r)
  PROVE  Interrupted(age)[r] = run[r]
<1>1. run[r].beat <= Closing /\ run[r].beat \in Nat
  BY SyncAssumption DEF OwnersBeat, SyncTypeOK
<1>2. ~(run[r].beat > age)
  BY <1>1, SyncAssumption
<1> QED BY <1>2 DEF Interrupted

(* A worker that does not own its run any more, and the run as the step    *)
(* left it; the others are untouched.                                      *)
LEMMA OneLeaves ==
  ASSUME SyncTypeOK, OwnersBeat, OneRuns, NEW r \in Runs, ~Owns(r)',
         \A q \in Runs \ {r} : worker'[q] = worker[q] /\ run'[q] = run[q],
         run'[r].status = "RUNNING" => run[r].status = "RUNNING"
  PROVE  OwnersBeat' /\ OneRuns'
BY DEF OwnersBeat, OneRuns, Owns

(* A worker goes on with its run, which keeps beating.                     *)
LEMMA OneGoesOn ==
  ASSUME SyncTypeOK, OwnersBeat, OneRuns, NEW r \in Runs, Owns(r),
         \A q \in Runs \ {r} : worker'[q] = worker[q] /\ run'[q] = run[q],
         run'[r].status = run[r].status, run'[r].beat \in {0, run[r].beat}
  PROVE  OwnersBeat' /\ OneRuns'
<1>1. run'[r].status = "RUNNING" /\ run'[r].beat <= Closing
  BY SyncAssumption DEF OwnersBeat
<1> QED BY <1>1 DEF OwnersBeat, OneRuns, Owns

(* Runs are ended from outside: those of the owners stay.                  *)
LEMMA SomeAreInterrupted ==
  ASSUME SyncTypeOK, OwnersBeat, OneRuns, NEW age \in {Stale, Grace},
         run' = Interrupted(age), worker' = worker
  PROVE  OwnersBeat' /\ OneRuns'
<1>1. \A r \in Runs : Owns(r) => run'[r] = run[r]
  BY OwnersAreNotStale
<1>2. \A r \in Runs : run'[r].status = "RUNNING" => run[r].status = "RUNNING"
  BY InterruptedEnds, SyncAssumption DEF SyncTypeOK, RunRows
<1> QED BY <1>1, <1>2 DEF OwnersBeat, OneRuns, Owns

LEMMA NextIInv == IInv /\ [Next]_vars => IInv'
<1> SUFFICES ASSUME IInv, [Next]_vars PROVE IInv'
  OBVIOUS
<1>0. SyncTypeOK'
  BY NextType DEF IInv
<1>f. /\ run \in [Runs -> RunRows] /\ run' \in [Runs -> RunRows]
      /\ worker \in [Runs -> WorkerStates] /\ worker' \in [Runs -> WorkerStates]
  BY <1>0 DEF IInv, SyncTypeOK, RunRows
<1> SUFFICES OwnersBeat' /\ OneRuns'
  BY <1>0 DEF IInv
<1> USE DEF IInv
<1>1. ASSUME NEW r \in Runs, NEW source \in {"cron", "manual"}, Start(r, source) PROVE OwnersBeat' /\ OneRuns'
  <2>1. /\ \A q \in Runs : Interrupted(Stale)[q].status # "RUNNING"
        /\ run' = [Interrupted(Stale) EXCEPT ![r] = [status |-> "RUNNING", beat |-> 0]]
        /\ \A q \in Runs \ {r} : worker'[q] = worker[q]
    BY <1>1, <1>f DEF Start
  <2>2. Interrupted(Stale) \in [Runs -> RunRows]
    BY <1>f, InterruptedEnds, SyncAssumption
  <2>3. \A q \in Runs \ {r} : run'[q].status # "RUNNING"
    BY <2>1, <2>2
  <2>4. run'[r].status = "RUNNING" /\ run'[r].beat = 0
    BY <2>1, <2>2
  <2>5. \A q \in Runs \ {r} : ~Owns(q)'
    <3> SUFFICES ASSUME NEW q \in Runs \ {r}, Owns(q) PROVE FALSE
      BY <2>1 DEF Owns
    <3>1. Interrupted(Stale)[q] = run[q] /\ run[q].status = "RUNNING"
      BY OwnersAreNotStale DEF OwnersBeat
    <3> QED BY <3>1, <2>1
  <2> QED BY <2>3, <2>4, <2>5, SyncAssumption DEF OwnersBeat, OneRuns
<1>2. ASSUME NEW r \in Runs, Begin(r) PROVE OwnersBeat' /\ OneRuns'
  <2>1. Owns(r) /\ run'[r].status = run[r].status /\ run'[r].beat = 0
    BY <1>2, <1>f DEF Begin, Owns, RunRows
  <2> QED BY <1>2, <1>f, <2>1, OneGoesOn DEF Begin
<1>3. ASSUME NEW r \in Runs, NEW o \in Offers, Page(r, o) PROVE OwnersBeat' /\ OneRuns'
  <2>1. Owns(r)
    BY <1>3 DEF Page, Paging, Owns
  <2> QED BY <1>3, <1>f, <2>1, OneGoesOn DEF Page
<1>4. ASSUME NEW r \in Runs, PagesDone(r) \/ Reactivate(r) \/ ApplyMissing(r) \/ ApplyZero(r)
      PROVE  OwnersBeat' /\ OneRuns'
  <2>1. Owns(r)
    BY <1>4 DEF PagesDone, Reactivate, ApplyMissing, ApplyZero, Paging, Owns, Closers
  <2>2. run' = run /\ \A q \in Runs \ {r} : worker'[q] = worker[q]
    BY <1>4, <1>f DEF PagesDone, Reactivate, ApplyMissing, ApplyZero, Goto
  <2> QED BY <2>1, <2>2, OneGoesOn
<1>5. ASSUME NEW r \in Runs, PagesFail(r) \/ Succeed(r) PROVE OwnersBeat' /\ OneRuns'
  <2>1. worker'[r].step \in {"failed", "saveConfig"} /\ run'[r].status # "RUNNING"
    BY <1>5, <1>f DEF PagesFail, Succeed, Leave, Says
  <2>2. \A q \in Runs \ {r} : worker'[q] = worker[q] /\ run'[q] = run[q]
    BY <1>5, <1>f DEF PagesFail, Succeed, Leave, Says
  <2>3. ~Owns(r)'
    BY <2>1 DEF Owns, Closers
  <2> QED BY <2>1, <2>2, <2>3, OneLeaves
<1>6. ASSUME NEW r \in Runs, CountFailure(r) \/ SaveConfig(r) \/ WriteFails(r) \/ Crash(r)
      PROVE  OwnersBeat' /\ OneRuns'
  <2>1. worker'[r].step \in {"failed", "done", "dead"} /\ run' = run
    BY <1>6, <1>f DEF CountFailure, SaveConfig, WriteFails, Crash, Leave
  <2>2. \A q \in Runs \ {r} : worker'[q] = worker[q]
    BY <1>6, <1>f DEF CountFailure, SaveConfig, WriteFails, Crash, Leave
  <2>3. ~Owns(r)'
    BY <2>1 DEF Owns, Closers
  <2> QED BY <2>1, <2>2, <2>3, OneLeaves
<1>7. ASSUME InterruptStale \/ InterruptAtBoot PROVE OwnersBeat' /\ OneRuns'
  <2>1. worker' = worker /\ (run' = Interrupted(Stale) \/ run' = Interrupted(Grace))
    BY <1>7 DEF InterruptStale, InterruptAtBoot, Interrupt
  <2> QED BY <2>1, SomeAreInterrupted
<1>8. ASSUME Tick PROVE OwnersBeat' /\ OneRuns'
  <2>1. worker' = worker /\ \A r \in Runs : run'[r].status = run[r].status
    BY <1>8, <1>f DEF Tick, RunRows
  <2>2. ASSUME NEW r \in Runs, Owns(r) PROVE run'[r].beat <= Closing
    <3>1. run[r].beat <= Closing /\ run[r].beat \in Nat
      BY <2>2, <1>f DEF OwnersBeat, RunRows
    <3>2. CASE r \in Paging
      <4>1. run'[r] = run[r]
        BY <1>8, <3>2 DEF Tick
      <4> QED BY <3>1, <4>1
    <3>3. CASE r \notin Paging
      <4>1. r \in Alive
        BY <2>2 DEF Alive, Owns, Closers
      <4>2. run[r].beat < Closing
        BY <1>8, <3>3, <4>1 DEF Tick
      <4>3. run'[r].beat \in {run[r].beat, run[r].beat + 1}
        BY <1>8, <1>f DEF Tick, RunRows
      <4> QED BY <3>1, <4>2, <4>3, SyncAssumption
    <3> QED BY <3>2, <3>3
  <2> QED BY <2>1, <2>2 DEF OwnersBeat, OneRuns, Owns
<1>9. ASSUME NEW new \in [missing : MissingActions, zero : ZeroActions], SetRules(new)
      PROVE  OwnersBeat' /\ OneRuns'
  <2>1. run' = run /\ \A r \in Runs : worker'[r].step = worker[r].step
    <3> SUFFICES ASSUME NEW r \in Runs PROVE worker'[r].step = worker[r].step
      BY <1>9 DEF SetRules
    <3>1. CASE r \in Working
      <4>1. worker[r] \in Running
        BY <3>1, <1>f, WorkerHasRun DEF Working
      <4>2. worker'[r] = [worker[r] EXCEPT !.disturbed = TRUE]
        BY <3>1, <1>9 DEF SetRules
      <4> QED BY <4>1, <4>2 DEF Running
    <3>2. CASE r \notin Working
      BY <3>2, <1>9 DEF SetRules
    <3> QED BY <3>1, <3>2
  <2> QED BY <2>1 DEF OwnersBeat, OneRuns, Owns
<1>10. ASSUME \/ SaveAccount \/ UNCHANGED vars
              \/ \E o \in Offers, to \in {"stock", "empty", "unlisted"} : PortalChanges(o, to)
       PROVE  OwnersBeat' /\ OneRuns'
  <2>1. run' = run /\ worker' = worker
    BY <1>10 DEF SaveAccount, PortalChanges, vars
  <2> QED BY <2>1 DEF OwnersBeat, OneRuns, Owns
<1> HIDE DEF IInv
<1> QED BY <1>1, <1>2, <1>3, <1>4, <1>5, <1>6, <1>7, <1>8, <1>9, <1>10 DEF Next, Advance

LEMMA Invariant == Spec => []IInv
BY InitIInv, NextIInv, PTL DEF Spec

(* Runs, workers and offers keep their types.                              *)
THEOREM SyncTypeCorrect == Spec => []SyncTypeOK
<1>1. IInv => SyncTypeOK
  BY DEF IInv
<1> QED BY <1>1, Invariant, PTL

(* startCatalogSyncRun and onModuleInit: whatever the replicas do, a run   *)
(* whose worker pages or closes says RUNNING and is the only one.          *)
THEOREM BeatingRunsAreAlone == Spec => []BeatingRunIsAlone
<1>1. IInv => BeatingRunIsAlone
  BY DEF IInv, OwnersBeat, OneRuns, BeatingRunIsAlone
<1> QED BY <1>1, Invariant, PTL

(* succeed and fail, by id and whatever the row says, never overwrite a    *)
(* run that somebody has ended.                                            *)
THEOREM EndedRunsStay == Spec => EndsOnce
<1> DEFINE Stays == \A r \in Runs : run[r].status \in {"OK", "ERROR"} => run'[r].status = run[r].status
<1>1. IInv /\ [Next]_vars => [Stays]_vars
  <2> SUFFICES ASSUME IInv, Next, NEW e \in Runs, run[e].status \in {"OK", "ERROR"}
               PROVE  run'[e].status = run[e].status
    OBVIOUS
  <2>f. run \in [Runs -> RunRows] /\ ~Owns(e)
    BY DEF IInv, SyncTypeOK, RunRows, OwnersBeat
  <2>1. ASSUME NEW r \in Runs, NEW source \in {"cron", "manual"}, Start(r, source)
        PROVE  run'[e].status = run[e].status
    <3>1. r # e /\ Interrupted(Stale) \in [Runs -> RunRows] /\ Interrupted(Stale)[e] = run[e]
      BY <2>1, <2>f, InterruptedEnds, SyncAssumption DEF Start
    <3> QED BY <2>1, <3>1 DEF Start
  <2>2. ASSUME NEW r \in Runs, Begin(r) PROVE run'[e].status = run[e].status
    BY <2>2, <2>f DEF Begin, RunRows
  <2>3. ASSUME NEW r \in Runs, PagesFail(r) \/ Succeed(r) PROVE run'[e].status = run[e].status
    <3>1. r # e
      BY <2>3, <2>f DEF PagesFail, Succeed, Paging, Owns, Closers
    <3> QED BY <2>3, <2>f, <3>1 DEF PagesFail, Succeed, Says
  <2>4. ASSUME InterruptStale \/ InterruptAtBoot PROVE run'[e].status = run[e].status
    <3>1. Interrupted(Stale)[e] = run[e] /\ Interrupted(Grace)[e] = run[e]
      BY <2>f, InterruptedEnds, SyncAssumption
    <3> QED BY <2>4, <3>1 DEF InterruptStale, InterruptAtBoot, Interrupt
  <2>5. ASSUME Tick PROVE run'[e].status = run[e].status
    BY <2>5, <2>f DEF Tick, RunRows
  <2>6. ASSUME run' = run PROVE run'[e].status = run[e].status
    BY <2>6
  <2>7. ASSUME NEW r \in Runs, Advance(r) \/ Crash(r) PROVE Begin(r) \/ PagesFail(r) \/ Succeed(r) \/ run' = run
    BY <2>7 DEF Advance, Crash, Page, CountFailure, PagesDone, Reactivate, ApplyMissing, ApplyZero, SaveConfig, WriteFails
  <2>8. ASSUME \/ SaveAccount
               \/ \E o \in Offers, to \in {"stock", "empty", "unlisted"} : PortalChanges(o, to)
               \/ \E new \in [missing : MissingActions, zero : ZeroActions] : SetRules(new)
        PROVE  run' = run
    BY <2>8 DEF SaveAccount, PortalChanges, SetRules
  <2> QED BY <2>1, <2>2, <2>3, <2>4, <2>5, <2>6, <2>7, <2>8 DEF Next
<1> QED BY <1>1, Invariant, PTL DEF Spec, EndsOnce

-----------------------------------------------------------------------------
(* What a complete run shows, by the rows it found and those it wrote.     *)
ShownIn(rs) == {o \in Offers : rs[o].is /\ rs[o].shown}
Left(w) == w.fresh \ (IF w.rules.zero = "KEEP" THEN {} ELSE w.bare)

Wrote(w, rs) ==
  /\ w.bare \subseteq w.fresh
  /\ w.step = "pages" => w.todo \cap w.fresh = {}
  /\ w.step # "succeed" => \A o \in w.fresh : rs[o].is /\ (rs[o].empty <=> o \in w.bare)
  /\ w.step \in {"missing", "zero"} => w.fresh \subseteq ShownIn(rs)
  /\ w.step = "zero" /\ w.safe => ShownIn(rs) = w.fresh
  /\ w.step = "succeed" => ShownIn(rs) \cap w.fresh = Left(w) /\ (w.safe => ShownIn(rs) = Left(w))

(* A run that brings nothing leaves what there was, whatever it finds it   *)
(* safe to do.                                                             *)
Spared(w, rs) ==
  /\ w.step # "pages" /\ w.safe => MissingActionIsSafe(w.before, Cardinality(w.fresh))
  /\ w.fresh = {} /\ w.before >= MinBefore => Cardinality(ShownIn(rs)) = w.before

RunsWrote == \A r \in Working : worker[r].disturbed \/ (Wrote(worker[r], rows) /\ Spared(worker[r], rows))

LEMMA WorksAlone ==
  ASSUME IInv, NEW r \in Runs, worker[r].step \in {"started", "pages"} \cup Closers, NEW q \in Working
  PROVE  q = r
BY DEF IInv, OwnersBeat, OneRuns, Owns, Working

(* The step of a run that pages or closes: only it has to be looked at.    *)
LEMMA OneWrites ==
  ASSUME IInv, NEW r \in Runs, worker[r].step \in {"started", "pages"} \cup Closers,
         \A q \in Runs \ {r} : worker'[q] = worker[q],
         worker'[r].step \in {"pages"} \cup Closers =>
           worker'[r].disturbed \/ (Wrote(worker'[r], rows') /\ Spared(worker'[r], rows'))
  PROVE  RunsWrote'
<1> SUFFICES ASSUME NEW q \in Runs, worker'[q].step \in {"pages"} \cup Closers
             PROVE  worker'[q].disturbed \/ (Wrote(worker'[q], rows') /\ Spared(worker'[q], rows'))
  BY DEF RunsWrote, Working
<1>1. q = r
  BY WorksAlone DEF Working
<1> QED BY <1>1

LEMMA ShownAreIn == Shown = ShownIn(rows) /\ IsFiniteSet(ShownIn(rows))
<1>1. ShownIn(rows) \subseteq Offers
  BY DEF ShownIn
<1> QED BY <1>1, FS_Subset, SyncAssumption DEF Shown, Exists, ShownIn

LEMMA BeginWrites == ASSUME IInv, NEW r \in Runs, Begin(r) PROVE RunsWrote'
<1>1. /\ worker[r].step = "started" /\ rows' = rows
      /\ worker'[r].step = "pages" /\ worker'[r].before = Cardinality(Shown)
      /\ worker'[r].fresh = {} /\ worker'[r].bare = {} /\ worker'[r].todo = Offers
      /\ \A q \in Runs \ {r} : worker'[q] = worker[q]
  BY DEF Begin, IInv, SyncTypeOK
<1>2. Wrote(worker'[r], rows') /\ Spared(worker'[r], rows')
  BY <1>1, ShownAreIn DEF Wrote, Spared
<1> QED BY <1>1, <1>2, OneWrites

LEMMA PageWrites == ASSUME IInv, RunsWrote, NEW r \in Runs, NEW o \in Offers, Page(r, o) PROVE RunsWrote'
<1> DEFINE w == worker[r]
           fresh == IF portal[o] = "unlisted" THEN w.fresh ELSE w.fresh \cup {o}
           bare == IF portal[o] = "empty" THEN w.bare \cup {o} ELSE w.bare
           k == [w EXCEPT !.todo = w.todo \ {o}, !.fresh = fresh, !.bare = bare]
<1>1. /\ r \in Working /\ w.step = "pages" /\ o \in w.todo /\ w \in Running
      /\ worker' = [worker EXCEPT ![r] = k]
  BY WorkerHasRun DEF Page, Paging, Working, IInv, SyncTypeOK
<1>2. /\ worker'[r] = k /\ \A q \in Runs \ {r} : worker'[q] = worker[q]
      /\ k.step = "pages" /\ k.disturbed = w.disturbed /\ k.before = w.before
      /\ k.todo = w.todo \ {o} /\ k.fresh = fresh /\ k.bare = bare
  BY <1>1 DEF IInv, SyncTypeOK, Running
<1> HIDE DEF k
<1>3. CASE portal[o] = "unlisted"
  <2>1. rows' = rows /\ fresh = w.fresh /\ bare = w.bare
    BY <1>3 DEF Page
  <2>2. w.disturbed \/ (Wrote(w, rows) /\ Spared(w, rows))
    BY <1>1 DEF RunsWrote
  <2>3. worker'[r].disturbed \/ (Wrote(worker'[r], rows') /\ Spared(worker'[r], rows'))
    BY <1>1, <1>2, <2>1, <2>2 DEF Wrote, Spared
  <2> QED BY <1>1, <1>2, <2>3, OneWrites
<1>4. CASE portal[o] # "unlisted"
  <2>1. /\ rows'[o].is /\ (rows'[o].empty <=> portal[o] = "empty")
        /\ \A x \in Offers \ {o} : rows'[x] = rows[x]
    BY <1>4 DEF Page, IInv, SyncTypeOK
  <2>2. w.disturbed \/ (Wrote(w, rows) /\ Spared(w, rows))
    BY <1>1 DEF RunsWrote
  <2>3. w.fresh \subseteq Offers /\ fresh = w.fresh \cup {o}
    BY <1>1, <1>4 DEF Running
  <2>4. Wrote(w, rows) => Wrote(k, rows') /\ Spared(k, rows')
    <3> SUFFICES ASSUME Wrote(w, rows) PROVE Wrote(k, rows') /\ Spared(k, rows')
      OBVIOUS
    <3>1. /\ w.bare \subseteq w.fresh /\ w.todo \cap w.fresh = {}
          /\ \A x \in w.fresh : rows[x].is /\ (rows[x].empty <=> x \in w.bare)
      BY <1>1 DEF Wrote
    <3>2. o \notin w.fresh /\ o \notin w.bare
      BY <1>1, <3>1
    <3>3. \A x \in k.fresh : rows'[x].is /\ (rows'[x].empty <=> x \in k.bare)
      BY <1>2, <2>1, <2>3, <3>1, <3>2
    <3>4. k.bare \subseteq k.fresh /\ k.todo \cap k.fresh = {} /\ k.fresh # {}
      BY <1>2, <2>3, <3>1
    <3> QED BY <1>2, <3>3, <3>4 DEF Wrote, Spared
  <2> QED BY <1>1, <1>2, <2>2, <2>4, OneWrites
<1> QED BY <1>3, <1>4

LEMMA PagesDoneWrites == ASSUME IInv, RunsWrote, NEW r \in Runs, PagesDone(r) PROVE RunsWrote'
<1> DEFINE w == worker[r]
           safe == MissingActionIsSafe(w.before, Cardinality(w.fresh))
           k == [w EXCEPT !.step = "reactivate", !.safe = safe]
<1>1. /\ r \in Working /\ w.step = "pages" /\ w \in Running
      /\ worker' = [worker EXCEPT ![r] = k] /\ rows' = rows
  BY WorkerHasRun DEF PagesDone, Paging, Working, IInv, SyncTypeOK
<1>2. /\ worker'[r] = k /\ \A q \in Runs \ {r} : worker'[q] = worker[q]
      /\ k.step = "reactivate" /\ k.disturbed = w.disturbed /\ k.before = w.before
      /\ k.fresh = w.fresh /\ k.bare = w.bare /\ k.safe = safe
  BY <1>1 DEF IInv, SyncTypeOK, Running
<1>3. w.disturbed \/ (Wrote(w, rows) /\ Spared(w, rows))
  BY <1>1 DEF RunsWrote
<1> HIDE DEF k, w
<1>4. worker'[r].disturbed \/ (Wrote(worker'[r], rows') /\ Spared(worker'[r], rows'))
  BY <1>1, <1>2, <1>3 DEF Wrote, Spared
<1> QED BY <1>1, <1>2, <1>4, OneWrites DEF w

(* The closing steps of a run.                                             *)
LEMMA ClosesOn ==
  ASSUME IInv, RunsWrote, NEW r \in Runs, worker[r].step \in Closers, NEW step \in Closers, Goto(r, step)
  PROVE  /\ r \in Working /\ worker[r] \in Running
         /\ worker[r].disturbed \/ (Wrote(worker[r], rows) /\ Spared(worker[r], rows))
         /\ \A q \in Runs \ {r} : worker'[q] = worker[q]
         /\ worker'[r].step = step /\ worker'[r].disturbed = worker[r].disturbed
         /\ worker'[r].before = worker[r].before /\ worker'[r].fresh = worker[r].fresh
         /\ worker'[r].bare = worker[r].bare /\ worker'[r].safe = worker[r].safe
         /\ worker'[r].rules = worker[r].rules
<1>1. r \in Working /\ worker[r] \in Running
  BY WorkerHasRun DEF Working, IInv, SyncTypeOK
<1>2. worker' = [worker EXCEPT ![r] = [worker[r] EXCEPT !.step = step]]
  BY DEF Goto
<1> QED BY <1>1, <1>2 DEF RunsWrote, IInv, SyncTypeOK, Running

LEMMA ReactivateWrites == ASSUME IInv, RunsWrote, NEW r \in Runs, Reactivate(r) PROVE RunsWrote'
<1> DEFINE w == worker[r]
           k == worker'[r]
<1>1. /\ w.step = "reactivate" /\ w.step \in Closers /\ "missing" \in Closers /\ Goto(r, "missing")
      /\ rows' = [o \in Offers |-> IF o \in w.fresh THEN [rows[o] EXCEPT !.shown = rows[o].is] ELSE rows[o]]
  BY DEF Reactivate, Closers
<1>2. /\ w \in Running /\ (w.disturbed \/ (Wrote(w, rows) /\ Spared(w, rows)))
      /\ \A q \in Runs \ {r} : worker'[q] = worker[q]
      /\ k.step = "missing" /\ k.disturbed = w.disturbed /\ k.before = w.before /\ k.fresh = w.fresh
      /\ k.bare = w.bare /\ k.safe = w.safe
  BY <1>1, ClosesOn
<1>3. ASSUME Wrote(w, rows), Spared(w, rows) PROVE Wrote(k, rows') /\ Spared(k, rows')
  <2>1. w.fresh \subseteq Offers
    BY <1>2 DEF Running
  <2>2. \A o \in w.fresh : rows[o].is /\ (rows[o].empty <=> o \in w.bare)
    BY <1>1, <1>3 DEF Wrote
  <2>3. \A o \in w.fresh : rows'[o].is /\ rows'[o].shown /\ (rows'[o].empty <=> o \in w.bare)
    BY <1>1, <2>1, <2>2 DEF IInv, SyncTypeOK
  <2>4. Wrote(k, rows')
    BY <1>2, <1>3, <2>1, <2>3 DEF Wrote, ShownIn
  <2>5. w.fresh = {} => \A o \in Offers : rows'[o] = rows[o]
    BY <1>1
  <2>6. w.fresh = {} => ShownIn(rows') = ShownIn(rows)
    BY <2>5 DEF ShownIn
  <2>7. Spared(k, rows')
    BY <1>1, <1>2, <1>3, <2>6 DEF Spared
  <2> QED BY <2>4, <2>7
<1> QED BY <1>1, <1>2, <1>3, OneWrites

LEMMA ApplyMissingWrites == ASSUME IInv, RunsWrote, NEW r \in Runs, ApplyMissing(r) PROVE RunsWrote'
<1> DEFINE w == worker[r]
           k == worker'[r]
           set == IF w.safe THEN Offers \ w.fresh ELSE {}
<1>1. /\ w.step = "missing" /\ w.step \in Closers /\ "zero" \in Closers /\ Goto(r, "zero")
      /\ rows' = [o \in Offers |-> IF o \notin set THEN rows[o]
                                   ELSE IF w.rules.missing = "DELETE" THEN NoRow ELSE [rows[o] EXCEPT !.shown = FALSE]]
  BY DEF ApplyMissing, TakeDown, Closers
<1>2. /\ w \in Running /\ (w.disturbed \/ (Wrote(w, rows) /\ Spared(w, rows)))
      /\ \A q \in Runs \ {r} : worker'[q] = worker[q]
      /\ k.step = "zero" /\ k.disturbed = w.disturbed /\ k.before = w.before /\ k.fresh = w.fresh
      /\ k.bare = w.bare /\ k.safe = w.safe
  BY <1>1, ClosesOn
<1>3. ASSUME Wrote(w, rows), Spared(w, rows) PROVE Wrote(k, rows') /\ Spared(k, rows')
  <2>1. w.fresh \subseteq Offers /\ w.before \in Nat
    BY <1>2 DEF Running
  <2>2. /\ \A o \in w.fresh : rows[o].is /\ rows[o].shown /\ (rows[o].empty <=> o \in w.bare)
        /\ w.bare \subseteq w.fresh
    BY <1>1, <1>3 DEF Wrote, ShownIn
  <2>3. \A o \in Offers \ set : rows'[o] = rows[o]
    BY <1>1
  <2>4. \A o \in set : ~rows'[o].is \/ ~rows'[o].shown
    BY <1>1, <2>1 DEF NoRow, IInv, SyncTypeOK
  <2>5. w.safe => ShownIn(rows') = w.fresh
    BY <2>1, <2>2, <2>3, <2>4 DEF ShownIn
  <2>6. ~w.safe => ShownIn(rows') = ShownIn(rows)
    BY <2>3 DEF ShownIn
  <2>7. \A o \in w.fresh : rows'[o] = rows[o]
    BY <2>1, <2>3
  <2>8. Wrote(k, rows')
    BY <1>2, <2>1, <2>2, <2>5, <2>7 DEF Wrote, ShownIn
  <2>9. ASSUME w.fresh = {}, w.before >= MinBefore PROVE Cardinality(ShownIn(rows')) = w.before
    <3>1. CASE w.safe
      <4>1. w.before = 0
        <5>1. Cardinality(w.fresh) = 0
          BY <2>9, FS_EmptySet
        <5>2. MissingActionIsSafe(w.before, 0)
          BY <1>1, <1>3, <3>1, <5>1 DEF Spared
        <5> QED BY <2>1, <2>9, <5>2, SyncAssumption DEF MissingActionIsSafe
      <4> QED BY <2>5, <2>9, <3>1, <4>1, FS_EmptySet
    <3>2. CASE ~w.safe
      BY <1>3, <2>6, <2>9, <3>2 DEF Spared
    <3> QED BY <3>1, <3>2
  <2>10. Spared(k, rows')
    BY <1>1, <1>2, <1>3, <2>9 DEF Spared
  <2> QED BY <2>8, <2>10
<1> QED BY <1>1, <1>2, <1>3, OneWrites

LEMMA ApplyZeroWrites == ASSUME IInv, RunsWrote, NEW r \in Runs, ApplyZero(r) PROVE RunsWrote'
<1> DEFINE w == worker[r]
           k == worker'[r]
           set == IF w.rules.zero = "KEEP" THEN {} ELSE {o \in w.fresh : rows[o].empty}
<1>1. /\ w.step = "zero" /\ w.step \in Closers /\ "succeed" \in Closers /\ Goto(r, "succeed")
      /\ rows' = [o \in Offers |-> IF o \notin set THEN rows[o]
                                   ELSE IF w.rules.zero = "DELETE" THEN NoRow ELSE [rows[o] EXCEPT !.shown = FALSE]]
  BY DEF ApplyZero, TakeDown, Closers
<1>2. /\ w \in Running /\ (w.disturbed \/ (Wrote(w, rows) /\ Spared(w, rows)))
      /\ \A q \in Runs \ {r} : worker'[q] = worker[q]
      /\ k.step = "succeed" /\ k.disturbed = w.disturbed /\ k.before = w.before /\ k.fresh = w.fresh
      /\ k.bare = w.bare /\ k.safe = w.safe /\ k.rules = w.rules
  BY <1>1, ClosesOn
<1>3. ASSUME Wrote(w, rows), Spared(w, rows) PROVE Wrote(k, rows') /\ Spared(k, rows')
  <2>1. w.fresh \subseteq Offers
    BY <1>2 DEF Running
  <2>2. /\ \A o \in w.fresh : rows[o].is /\ (rows[o].empty <=> o \in w.bare)
        /\ w.bare \subseteq w.fresh /\ w.fresh \subseteq ShownIn(rows)
        /\ w.safe => ShownIn(rows) = w.fresh
    BY <1>1, <1>3 DEF Wrote
  <2>3. set = (IF w.rules.zero = "KEEP" THEN {} ELSE w.bare)
    BY <2>2
  <2> HIDE DEF set
  <2>4. \A o \in Offers \ set : rows'[o] = rows[o]
    BY <1>1
  <2>5. \A o \in set : o \in Offers /\ (~rows'[o].is \/ ~rows'[o].shown)
    BY <1>1, <2>1, <2>2, <2>3 DEF NoRow, IInv, SyncTypeOK
  <2>6. ShownIn(rows') = ShownIn(rows) \ set
    BY <2>4, <2>5 DEF ShownIn
  <2>7. Left(k) = w.fresh \ set
    BY <1>2, <2>3 DEF Left
  <2>8. Wrote(k, rows')
    BY <1>2, <2>2, <2>6, <2>7 DEF Wrote
  <2>9. w.fresh = {} => ShownIn(rows') = ShownIn(rows)
    BY <2>2, <2>3, <2>6
  <2>10. Spared(k, rows')
    BY <1>1, <1>2, <1>3, <2>9 DEF Spared
  <2> QED BY <2>8, <2>10
<1> QED BY <1>1, <1>2, <1>3, OneWrites

LEMMA NextWrites == IInv /\ RunsWrote /\ [Next]_vars => RunsWrote'
<1> SUFFICES ASSUME IInv, RunsWrote, [Next]_vars PROVE RunsWrote'
  OBVIOUS
<1>f. worker \in [Runs -> WorkerStates]
  BY DEF IInv, SyncTypeOK
<1>1. ASSUME rows' = rows,
             \A r \in Runs : worker'[r] = worker[r] \/ worker'[r].step \notin {"pages"} \cup Closers
      PROVE  RunsWrote'
  BY <1>1 DEF RunsWrote, Working
<1>2. ASSUME NEW r \in Runs, NEW source \in {"cron", "manual"}, Start(r, source) PROVE RunsWrote'
  <2>1. /\ rows' = rows /\ worker'[r].step = "started"
        /\ \A q \in Runs \ {r} : worker'[q] = worker[q]
    BY <1>2, <1>f DEF Start
  <2> QED BY <1>1, <2>1 DEF Closers
<1>3. ASSUME NEW r \in Runs,
             PagesFail(r) \/ CountFailure(r) \/ Succeed(r) \/ SaveConfig(r) \/ WriteFails(r) \/ Crash(r)
      PROVE  RunsWrote'
  <2>1. /\ rows' = rows /\ worker'[r].step \in {"failed", "done", "saveConfig", "dead"}
        /\ \A q \in Runs \ {r} : worker'[q] = worker[q]
    BY <1>3, <1>f DEF PagesFail, CountFailure, Succeed, SaveConfig, WriteFails, Crash, Leave
  <2> QED BY <1>1, <2>1 DEF Closers
<1>4. ASSUME NEW r \in Runs, Advance(r) PROVE RunsWrote'
  BY <1>3, <1>4, BeginWrites, PageWrites, PagesDoneWrites, ReactivateWrites, ApplyMissingWrites, ApplyZeroWrites
     DEF Advance
<1>5. ASSUME NEW new \in [missing : MissingActions, zero : ZeroActions], SetRules(new) PROVE RunsWrote'
  <2>1. worker' = [r \in Runs |-> IF r \in Working THEN [worker[r] EXCEPT !.disturbed = TRUE] ELSE worker[r]]
    BY <1>5 DEF SetRules
  <2>2. ASSUME NEW r \in Runs, worker'[r].step \in {"pages"} \cup Closers PROVE worker'[r].disturbed
    <3>1. r \in Working
      BY <2>1, <2>2 DEF Working
    <3>2. worker[r] \in Running
      BY <1>f, <3>1, WorkerHasRun DEF Working
    <3> QED BY <2>1, <3>1, <3>2 DEF Running
  <2> QED BY <2>2 DEF RunsWrote, Working
<1>6. ASSUME \/ InterruptStale \/ InterruptAtBoot \/ Tick \/ SaveAccount \/ UNCHANGED vars
             \/ \E o \in Offers, to \in {"stock", "empty", "unlisted"} : PortalChanges(o, to)
      PROVE  RunsWrote'
  <2>1. rows' = rows /\ worker' = worker
    BY <1>6 DEF InterruptStale, InterruptAtBoot, Interrupt, Tick, SaveAccount, PortalChanges, vars
  <2> QED BY <1>1, <2>1
<1> QED BY <1>2, <1>3, <1>4, <1>5, <1>6 DEF Next

(* A run about to be OK shows what it brought, less what the zero stock    *)
(* rule takes down; one that brought nothing of a catalogue of some size   *)
(* has touched nothing.                                                    *)
THEOREM CompleteRunsShow == Spec => []CompleteRunShows
<1>1. Init => RunsWrote
  BY DEF Init, RunsWrote, Working, Closers
<1>2. IInv /\ RunsWrote => CompleteRunShows
  <2> SUFFICES ASSUME IInv, RunsWrote, NEW r \in Runs, worker[r].step = "succeed", ~worker[r].disturbed
               PROVE  /\ Shown \cap worker[r].fresh = Brought(r)
                      /\ worker[r].safe => Shown = Brought(r)
                      /\ worker[r].before >= MinBefore /\ Cardinality(worker[r].fresh) = 0
                           => Cardinality(Shown) = worker[r].before
    BY DEF CompleteRunShows
  <2>1. Wrote(worker[r], rows) /\ Spared(worker[r], rows)
    BY DEF RunsWrote, Working, Closers
  <2>2. worker[r].fresh \subseteq Offers
    BY WorkerHasRun DEF IInv, SyncTypeOK, Running, Closers
  <2>3. Cardinality(worker[r].fresh) = 0 => worker[r].fresh = {}
    BY <2>2, FS_Subset, FS_EmptySet, SyncAssumption
  <2> QED BY <2>1, <2>3, ShownAreIn DEF Wrote, Spared, Left, Brought
<1> QED BY <1>1, <1>2, NextWrites, Invariant, PTL DEF Spec
=============================================================================
