----------------------------- MODULE ListImport -----------------------------
(***************************************************************************)
(* A retailer's own price list of one distributor (list-import/): a sheet  *)
(* is uploaded, read in the background, applied at once or after a review, *)
(* and the last one applied can be reverted.                               *)
(*                                                                         *)
(* Applying keeps a photograph of the offers, writes the new ones under    *)
(* the run of the synchronisation (module CatalogSync), hides what the     *)
(* sheet no longer brings and only then says APPLIED.  Nothing else keeps  *)
(* two of these apart: the status is checked when a call begins.           *)
(***************************************************************************)
EXTENDS Naturals

CONSTANTS
  Imports,   \* uploaded sheets
  Codes,     \* products, by the distributor's code
  Workers,   \* calls, and readings in the background
  MayOverlap \* whether two calls may change the list at once

VARIABLES
  imports,   \* import -> its row: status, whether it was read, photograph, appliedAt
  sheet,     \* import -> the products of its file
  offers,    \* product -> its OWN_LIST offer
  workers,   \* worker -> what it is doing
  syncRun,   \* the worker whose run of the synchronisation goes on, or Nobody
  broken     \* one was cut, or could not put the list back (history)

listVars == <<imports, sheet, offers, workers, syncRun, broken>>

Nobody == "nobody"
ASSUME NobodyAssumption == Nobody \notin Imports \cup Workers

NoOffer == [by |-> Nobody, active |-> FALSE]
NoList == [p \in Codes |-> NoOffer]
Resting == [op |-> "none"]

IsIdle(w) == workers[w] = Resting
Doing(w, op, step) == workers[w].op = op /\ workers[w].step = step
ChangesList(w) == workers[w].op \in {"apply", "revert"}
MayBegin(w, i, changes) ==
  (\E v \in Workers \ {w} : ~IsIdle(v) /\ (workers[v].import = i \/ (changes /\ ChangesList(v))))
    => MayOverlap
InBackground(w) == workers[w].op \in {"read", "apply"} /\ workers[w].background
Of(w) == workers[w].import
Go(w, step) == workers' = [workers EXCEPT ![w].step = step]
Rest(w) == workers' = [workers EXCEPT ![w] = Resting]
Mark(i, status) == imports' = [imports EXCEPT ![i].status = status]

(* The list that a sheet gives when the list was before: what it no longer *)
(* brings is hidden.                                                       *)
ListAfter(before, i) ==
  [p \in Codes |-> IF p \in sheet[i] THEN [by |-> i, active |-> TRUE]
                                        ELSE [before[p] EXCEPT !.active = FALSE]]

AppliedImports == {i \in Imports : imports[i].status = "APPLIED"}
Newest(S) == CHOOSE i \in S : \A k \in S : imports[k].at <= imports[i].at

ListInit ==
  /\ imports = [i \in Imports |-> [status |-> "none", read |-> FALSE, photograph |-> NoList, at |-> 0]]
  /\ sheet \in [Imports -> SUBSET Codes \ {{}}]
  /\ offers = NoList
  /\ workers = [w \in Workers |-> Resting]
  /\ syncRun = Nobody
  /\ broken = FALSE

-----------------------------------------------------------------------------
StartReading(w, i) ==
  workers' = [workers EXCEPT ![w] = [op |-> "read", import |-> i, step |-> "file", background |-> TRUE]]

(* createImport: the file is stored and read in the background.            *)
Upload(w, i) ==
  /\ IsIdle(w) /\ imports[i].status = "none"
  /\ Mark(i, "PROCESSING")
  /\ StartReading(w, i)
  /\ UNCHANGED <<sheet, offers, syncRun, broken>>

(* chooseSheet, saveProfile and discard look at the status first ...       *)
Check(w, i, op) ==
  /\ IsIdle(w) /\ imports[i].status \in {"NEEDS_REVIEW", "FAILED"}
  /\ workers' = [workers EXCEPT ![w] = [op |-> op, import |-> i, step |-> "checked"]]
  /\ MayBegin(w, i, FALSE)
  /\ UNCHANGED <<imports, sheet, offers, syncRun, broken>>

(* ... and the first two read the file again, unless it is being read or   *)
(* applied in the background (kick).                                       *)
ReadAgain(w) ==
  LET i == Of(w) IN
  /\ Doing(w, "again", "checked")
  /\ Mark(i, "PROCESSING")
  /\ IF \E v \in Workers : InBackground(v) /\ Of(v) = i THEN Rest(w) ELSE StartReading(w, i)
  /\ UNCHANGED <<sheet, offers, syncRun, broken>>

Discard(w) ==
  /\ Doing(w, "discard", "checked")
  /\ imports' = [imports EXCEPT ![Of(w)].status = "DISCARDED", ![Of(w)].read = FALSE]
  /\ Rest(w)
  /\ UNCHANGED <<sheet, offers, syncRun, broken>>

(* applyImport takes the rows and begins.                                  *)
StartApplying(w, i, background) ==
  /\ workers' = [workers EXCEPT ![w] =
       [op |-> "apply", import |-> i, step |-> "look", background |-> background,
        photograph |-> NoList, left |-> sheet[i], written |-> {}]]
  /\ MayBegin(w, i, TRUE)

(* process: the rows are stored, and the import waits for a review or is   *)
(* applied; a file without a table fails.                                  *)
StoreRows(w) ==
  /\ Doing(w, "read", "file")
  /\ \/ /\ imports' = [imports EXCEPT ![Of(w)].read = TRUE, ![Of(w)].status = "NEEDS_REVIEW"]
        /\ Rest(w)
     \/ /\ imports' = [imports EXCEPT ![Of(w)].read = TRUE, ![Of(w)].status = "PROCESSING"]
        /\ StartApplying(w, Of(w), TRUE)
     \/ Mark(Of(w), "FAILED") /\ Rest(w)
  /\ UNCHANGED <<sheet, offers, syncRun, broken>>

(* Somebody applies an import.                                             *)
Apply(w, i) ==
  /\ IsIdle(w)
  /\ imports[i].status \in {"NEEDS_REVIEW", "PROCESSING"} /\ imports[i].read
  /\ StartApplying(w, i, FALSE)
  /\ UNCHANGED <<imports, sheet, offers, syncRun, broken>>

-----------------------------------------------------------------------------
(* snapshotFor.                                                            *)
TakePhotograph(w) ==
  /\ Doing(w, "apply", "look")
  /\ workers' = [workers EXCEPT ![w].photograph = offers, ![w].step = "keep"]
  /\ UNCHANGED <<imports, sheet, offers, syncRun, broken>>

KeepPhotograph(w) ==
  /\ Doing(w, "apply", "keep")
  /\ imports' = [imports EXCEPT ![Of(w)].photograph = workers[w].photograph, ![Of(w)].status = "PROCESSING"]
  /\ workers' = [workers EXCEPT ![w].written = {}, ![w].step = "run"]
  /\ UNCHANGED <<sheet, offers, syncRun, broken>>

(* applyListOffers: one run of the synchronisation at a time.              *)
StartSync(w) ==
  /\ Doing(w, "apply", "run")
  /\ IF syncRun = Nobody THEN syncRun' = w /\ Go(w, "write")
                         ELSE UNCHANGED syncRun /\ Go(w, "restore")
  /\ UNCHANGED <<imports, sheet, offers, broken>>

(* Every write of an offer dates it (syncedAt).                            *)
Dated(S) == [v \in Workers |->
  IF workers[v].op = "apply" THEN [workers[v] EXCEPT !.written = @ \cup S] ELSE workers[v]]

(* upsertPage: the offer takes the row; hidden ones stay so for now.       *)
WriteOffer(w, p) ==
  /\ Doing(w, "apply", "write") /\ p \in workers[w].left
  /\ offers' = [offers EXCEPT ![p] = [by |-> Of(w), active |-> @ = NoOffer \/ @.active]]
  /\ workers' = [Dated({p}) EXCEPT ![w].left = @ \ {p}]
  /\ UNCHANGED <<imports, sheet, syncRun, broken>>

(* The run ends: what came is shown and, unless its brake holds (safe),    *)
(* the rest is hidden.  Zero stock is kept and nothing is deleted: the     *)
(* retailer's other rules are in module CatalogSync.                       *)
FinishSync(w, safe) ==
  /\ Doing(w, "apply", "write") /\ workers[w].left = {}
  /\ offers' = [p \in Codes |->
       IF p \in workers[w].written /\ offers[p] # NoOffer THEN [offers[p] EXCEPT !.active = TRUE]
       ELSE [offers[p] EXCEPT !.active = @ /\ ~safe]]
  /\ syncRun' = Nobody
  /\ Go(w, "hide")
  /\ UNCHANGED <<imports, sheet, broken>>

(* applyTenant: what was not written since it began is hidden.             *)
HideMissing(w) ==
  /\ Doing(w, "apply", "hide")
  /\ offers' = [p \in Codes |->
       IF p \in workers[w].written THEN offers[p] ELSE [offers[p] EXCEPT !.active = FALSE]]
  /\ Go(w, "mark")
  /\ UNCHANGED <<imports, sheet, syncRun, broken>>

LastDate == IF AppliedImports = {} THEN 0 ELSE imports[Newest(AppliedImports)].at

MarkApplied(w) ==
  /\ Doing(w, "apply", "mark")
  /\ imports' = [imports EXCEPT ![Of(w)].status = "APPLIED", ![Of(w)].read = FALSE, ![Of(w)].at = LastDate + 1]
  /\ Rest(w)
  /\ UNCHANGED <<sheet, offers, syncRun, broken>>

-----------------------------------------------------------------------------
(* Mutant of Restore: the import fails and the list stays as it is.        *)
RestoreNothing(w) ==
  /\ Doing(w, "apply", "restore")
  /\ Go(w, "fail")
  /\ UNCHANGED <<imports, sheet, offers, syncRun, broken>>

(* failApply: the list goes back to the photograph ...                     *)
Restore(w) ==
  /\ Doing(w, "apply", "restore")
  /\ offers' = workers[w].photograph
  /\ workers' = [Dated(Codes) EXCEPT ![w].step = "fail"]
  /\ UNCHANGED <<imports, sheet, syncRun, broken>>

(* ... and the import fails.                                               *)
MarkFailed(w) ==
  /\ Doing(w, "apply", "fail")
  /\ Mark(Of(w), "FAILED")
  /\ Rest(w)
  /\ UNCHANGED <<sheet, offers, syncRun, broken>>

(* Mutant of StartRevert: any import that is applied.                      *)
RevertAny(w, i) ==
  /\ IsIdle(w)
  /\ imports[i].status = "APPLIED"
  /\ workers' = [workers EXCEPT ![w] =
       [op |-> "revert", import |-> i, step |-> "restore", photograph |-> imports[i].photograph]]
  /\ MayBegin(w, i, TRUE)
  /\ UNCHANGED <<imports, sheet, offers, syncRun, broken>>

(* revert: only the last import that is applied.                           *)
StartRevert(w, i) ==
  /\ IsIdle(w)
  /\ imports[i].status = "APPLIED" /\ i = Newest(AppliedImports)
  /\ workers' = [workers EXCEPT ![w] =
       [op |-> "revert", import |-> i, step |-> "restore", photograph |-> imports[i].photograph]]
  /\ MayBegin(w, i, TRUE)
  /\ UNCHANGED <<imports, sheet, offers, syncRun, broken>>

RestoreReverted(w) ==
  /\ Doing(w, "revert", "restore")
  /\ offers' = workers[w].photograph
  /\ workers' = [Dated(Codes) EXCEPT ![w].step = "mark"]
  /\ UNCHANGED <<imports, sheet, syncRun, broken>>

MarkReverted(w) ==
  /\ Doing(w, "revert", "mark")
  /\ Mark(Of(w), "REVERTED")
  /\ Rest(w)
  /\ UNCHANGED <<sheet, offers, syncRun, broken>>

-----------------------------------------------------------------------------
FreeRun(w) == syncRun' = IF syncRun = w THEN Nobody ELSE syncRun

(* A write of an apply throws, or a synchronisation of the distributor is  *)
(* under way: once the list may have changed, failApply puts it back.      *)
ApplyThrows(w) ==
  /\ workers[w].op = "apply" /\ workers[w].step \in {"run", "write", "hide"}
  /\ FreeRun(w)
  /\ Go(w, "restore")
  /\ UNCHANGED <<imports, sheet, offers, broken>>

(* Any other call that throws ends there; in the background its import     *)
(* fails.                                                                  *)
CallThrows(w) ==
  /\ ~IsIdle(w)
  /\ ~(workers[w].op = "apply" /\ workers[w].step \in {"run", "write", "hide"})
  /\ IF InBackground(w) THEN Mark(Of(w), "FAILED") ELSE UNCHANGED imports
  /\ broken' = (broken \/ (ChangesList(w) /\ workers[w].step \in {"mark", "fail"})
                        \/ Doing(w, "apply", "restore"))
  /\ Rest(w)
  /\ UNCHANGED <<sheet, offers, syncRun>>

(* The process stops; the run of a process that is gone is interrupted     *)
(* (module CatalogSync).                                                   *)
ProcessStops(w) ==
  /\ ~IsIdle(w)
  /\ FreeRun(w)
  /\ broken' = (broken \/ (ChangesList(w) /\ workers[w].step \notin {"look", "keep", "run"}))
  /\ Rest(w)
  /\ UNCHANGED <<imports, sheet, offers>>

(* failStuckImports goes by the age of the import, not of the call.        *)
FailStuck(i) ==
  /\ imports[i].status = "PROCESSING"
  /\ Mark(i, "FAILED")
  /\ UNCHANGED <<sheet, offers, workers, syncRun, broken>>

ApplyStep(w) ==
  \/ TakePhotograph(w) \/ KeepPhotograph(w) \/ StartSync(w)
  \/ (\E p \in Codes : WriteOffer(w, p)) \/ (\E safe \in BOOLEAN : FinishSync(w, safe)) \/ HideMissing(w) \/ MarkApplied(w)
  \/ Restore(w) \/ MarkFailed(w) \/ ApplyThrows(w)

ListNext ==
  \/ \E w \in Workers, i \in Imports :
       \/ Upload(w, i) \/ Apply(w, i) \/ StartRevert(w, i)
       \/ Check(w, i, "again") \/ Check(w, i, "discard")
  \/ \E w \in Workers :
       \/ StoreRows(w) \/ ReadAgain(w) \/ Discard(w) \/ ApplyStep(w)
       \/ RestoreReverted(w) \/ MarkReverted(w) \/ CallThrows(w) \/ ProcessStops(w)
  \/ \E i \in Imports : FailStuck(i)

ListSpec == ListInit /\ [][ListNext]_listVars

-----------------------------------------------------------------------------
Statuses == {"none", "PROCESSING", "NEEDS_REVIEW", "APPLIED", "FAILED", "DISCARDED", "REVERTED"}
Lists == [Codes -> [by : Imports \cup {Nobody}, active : BOOLEAN]]
ApplySteps == {"look", "keep", "run", "write", "hide", "mark", "restore", "fail"}
Readings == [op : {"read"}, import : Imports, step : {"file"}, background : {TRUE}]
Checks == [op : {"again", "discard"}, import : Imports, step : {"checked"}]
Reverts == [op : {"revert"}, import : Imports, step : {"restore", "mark"}, photograph : Lists]
Applies == [op : {"apply"}, import : Imports, step : ApplySteps, background : BOOLEAN, photograph : Lists,
            left : SUBSET Codes, written : SUBSET Codes]
WorkerStates == {Resting} \cup Readings \cup Checks \cup Reverts \cup Applies

(* Type invariant: which steps each kind of call goes through.             *)
ListTypeOK ==
  /\ imports \in [Imports -> [status : Statuses, read : BOOLEAN, photograph : Lists, at : Nat]]
  /\ sheet \in [Imports -> SUBSET Codes]
  /\ offers \in Lists
  /\ workers \in [Workers -> WorkerStates]
  /\ syncRun \in Workers \cup {Nobody}
  /\ broken \in BOOLEAN

AppliedList ==
  IF AppliedImports = {} THEN NoList
  ELSE LET last == Newest(AppliedImports) IN ListAfter(imports[last].photograph, last)

(* When nothing is changing it, the list in force is the one of the last   *)
(* import that is applied, whatever throws on the way ("una carga que      *)
(* falla a mitad no puede quedar aplicada en parte"), however often a file *)
(* is read again, and even if an import is given up as stuck while it is   *)
(* being applied.  It needs calls that do not overlap: see the README.     *)
ListIsWhole ==
  ~broken /\ (\A w \in Workers : ~ChangesList(w)) => offers = AppliedList

(* Each import goes back to the one before it, and the first to the        *)
(* beginning: reverting them one after the other undoes them all.          *)
RevertsGoBack ==
  ~broken =>
    \A i \in AppliedImports :
      LET older == {k \in AppliedImports : imports[k].at < imports[i].at} IN
      imports[i].photograph =
        IF older = {} THEN NoList ELSE ListAfter(imports[Newest(older)].photograph, Newest(older))
=============================================================================
