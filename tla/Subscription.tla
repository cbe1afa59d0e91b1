---------------------------- MODULE Subscription ----------------------------
(***************************************************************************)
(* A retailer's subscription (subscriptions/): what is stored, the state   *)
(* that its dates give it on each request, the operations of               *)
(* Administration and the hourly job of every replica, which brings the    *)
(* stored status up to date.                                               *)
(*                                                                         *)
(* Administration and the job read the row, compute, and write only the    *)
(* columns they change, with nothing that keeps the row still in between:  *)
(* not from the job of another replica, nor from another operation of      *)
(* Administration.  Time is counted in days.                               *)
(***************************************************************************)
EXTENDS Integers, FiniteSets

CONSTANTS
  Replicas,
  Admins,                             \* who may have an operation in progress
  PastDueDays, GraceDays, TrialDays,  \* SUBSCRIPTION_POLICY
  Month,                              \* days that a payment covers
  Dates, Extensions,                  \* dates and days that Administration may type
  MaxDay,                             \* bound on the days that pass
  MaxEvents                           \* bound on operations and aborted runs

ASSUME PolicyAssumption ==
  /\ {PastDueDays, TrialDays} \subseteq Nat
  /\ GraceDays \in Nat \ {0}
  /\ Month \in Nat /\ Month > GraceDays
  /\ Dates \cup Extensions \subseteq Nat

VARIABLES
  row,        \* the subscription: status, the dates it keeps, suspension reason
  today,
  jobs,       \* replica -> what its run of the hourly job is going to write
  request,    \* administrator -> the row that the operation in progress read
  edits,      \* operations that have written (history)
  manual,     \* a manual suspension is in force (history)
  overwritten,\* what was written over an operation that had not been read:
              \* by a run of the job, a date or a status by an operation (history)
  aborts

subVars == <<row, today, jobs, request, edits, manual, overwritten, aborts>>

NoDate == -1
NoPatch == <<>>
NoRequest == [copy |-> NoPatch]

FirstDate(d1, d2) == IF d1 # NoDate THEN d1 ELSE d2

(* The columns of a patch over those of a row, or of another patch (the @@ *)
(* of module TLC, which the provers do not know).                          *)
Over(patch, r) == [c \in DOMAIN patch \cup DOMAIN r |-> IF c \in DOMAIN patch THEN patch[c] ELSE r[c]]

-----------------------------------------------------------------------------
(* computeSubscriptionState: the dates correct the stored status.          *)
DueDate(r) == CASE r.status = "COURTESY" -> r.until
                [] r.status = "TRIAL"    -> FirstDate(r.trial, r.end)
                [] OTHER                 -> FirstDate(r.due, r.end)

SuspensionDate(r) == IF r.grace > DueDate(r) THEN r.grace ELSE DueDate(r) + GraceDays

ManuallySuspended(r) == r.status = "SUSPENDED" /\ r.reason # "OVERDUE"

OverdueStatus(r, day) ==
  IF day < DueDate(r) THEN IF r.status \in {"COURTESY", "TRIAL"} THEN r.status ELSE "ACTIVE"
  ELSE IF day >= SuspensionDate(r) THEN "SUSPENDED"
  ELSE IF day < DueDate(r) + PastDueDays THEN "PAST_DUE" ELSE "GRACE_PERIOD"

StateOf(r, day) ==
  CASE r.status = "CANCELLED" ->
         [status |-> "CANCELLED", open |-> day < r.end, due |-> r.end, suspends |-> NoDate]
    [] ManuallySuspended(r) ->
         [status |-> "SUSPENDED", open |-> FALSE, due |-> FirstDate(r.due, r.end), suspends |-> NoDate]
    [] r.status # "CANCELLED" /\ ~ManuallySuspended(r) /\ DueDate(r) = NoDate ->
         [status |-> IF r.status \in {"COURTESY", "TRIAL"} THEN r.status ELSE "ACTIVE",
          open |-> TRUE, due |-> NoDate, suspends |-> NoDate]
    [] OTHER ->
         LET status == OverdueStatus(r, day) IN
         [status |-> status, open |-> status # "SUSPENDED",
          due |-> DueDate(r), suspends |-> SuspensionDate(r)]

-----------------------------------------------------------------------------
(* Mutant of StatusPatch: a row that is up to date again stays as it is.   *)
StatusPatchOneWay(r, day) ==
  LET s == StateOf(r, day) IN
  CASE r.status = "CANCELLED" \/ ManuallySuspended(r) \/ r.status = s.status -> NoPatch
    [] s.status \in {"PAST_DUE", "GRACE_PERIOD"} -> [status |-> s.status, due |-> FirstDate(r.due, s.due)]
    [] s.status = "SUSPENDED" -> [status |-> "SUSPENDED", reason |-> "OVERDUE", due |-> FirstDate(r.due, s.due)]
    [] OTHER -> NoPatch

(* statusSyncPatch: the columns that bring the stored status to the state. *)
StatusPatch(r, day) ==
  LET s == StateOf(r, day) IN
  CASE r.status = "CANCELLED" \/ ManuallySuspended(r) \/ r.status = s.status -> NoPatch
    [] s.status \in {"PAST_DUE", "GRACE_PERIOD"} /\ r.status # s.status ->
         [status |-> s.status, due |-> FirstDate(r.due, s.due)]
    [] s.status = "SUSPENDED" /\ r.status # "SUSPENDED" ->
         [status |-> "SUSPENDED", reason |-> "OVERDUE", due |-> FirstDate(r.due, s.due)]
    [] s.status = "ACTIVE" /\ r.status \notin {"ACTIVE", "COURTESY", "TRIAL"} ->
         [status |-> "ACTIVE", reason |-> "none"]
    [] OTHER -> NoPatch

-----------------------------------------------------------------------------
(* ensure and initialSubscription: trial, courtesy with a date or without, *)
(* or paid from the start.                                                 *)
Blank == [status |-> "ACTIVE", due |-> NoDate, end |-> NoDate, grace |-> NoDate,
          trial |-> NoDate, until |-> NoDate, reason |-> "none"]
NewTrial == [Blank EXCEPT !.status = "TRIAL", !.due = TrialDays, !.end = TrialDays, !.trial = TrialDays]
NewCourtesy(date) == [Blank EXCEPT !.status = "COURTESY", !.due = date, !.end = date, !.until = date]
NewActive(date) == [Blank EXCEPT !.due = date, !.end = date]

SubInit == /\ row \in {NewTrial} \cup {NewCourtesy(d) : d \in Dates \cup {NoDate}}
                               \cup {NewActive(d) : d \in Dates \cup {Month}}
           /\ today = 0
           /\ jobs = [j \in Replicas |-> NoPatch]
           /\ request = [a \in Admins |-> NoRequest]
           /\ edits = 0
           /\ manual = FALSE
           /\ overwritten = {}
           /\ aborts = 0

InProgress == {a \in Admins : request[a] # NoRequest}

(* The bound: operations that wrote or are in progress, aborted runs.      *)
MoreEvents == edits + Cardinality(InProgress) + aborts < MaxEvents

NextDay == /\ today < MaxDay
           /\ today' = today + 1
           /\ UNCHANGED <<row, jobs, request, edits, manual, overwritten, aborts>>

-----------------------------------------------------------------------------
(* The hourly job reads the rows that are not cancelled and computes what  *)
(* to write, if anything ...                                               *)
ReadRow(j) ==
  LET patch == StatusPatch(row, today) IN
  /\ jobs[j] = NoPatch
  /\ patch # NoPatch
  /\ jobs' = [jobs EXCEPT ![j] = [columns |-> patch, seen |-> edits]]
  /\ UNCHANGED <<row, today, request, edits, manual, overwritten, aborts>>

(* ... and writes it without looking at the row again.                     *)
WriteStatus(j) ==
  /\ jobs[j] # NoPatch
  /\ row' = Over(jobs[j].columns, row)
  /\ overwritten' = overwritten \cup (IF jobs[j].seen # edits THEN {"job"} ELSE {})
  /\ jobs' = [jobs EXCEPT ![j] = NoPatch]
  /\ UNCHANGED <<today, request, edits, manual, aborts>>

JobStep(j) == ReadRow(j) \/ WriteStatus(j)

(* The replica restarts, or a write of the run fails: the run ends there.  *)
AbortRun(j) ==
  /\ jobs[j] # NoPatch
  /\ MoreEvents
  /\ aborts' = aborts + 1
  /\ jobs' = [jobs EXCEPT ![j] = NoPatch]
  /\ UNCHANGED <<row, today, request, edits, manual, overwritten>>

-----------------------------------------------------------------------------
(* An operation of Administration reads the row (loadForWrite) ...         *)
ReadForWrite(a) ==
  /\ request[a] = NoRequest
  /\ MoreEvents
  /\ request' = [request EXCEPT ![a] = [copy |-> row, day |-> today, seen |-> edits]]
  /\ UNCHANGED <<row, today, jobs, edits, manual, overwritten, aborts>>

(* ... and writes columns that it computed from what it read, whatever     *)
(* another operation wrote in the meantime.                                *)
WriteColumns(a, patch) ==
  /\ request[a] # NoRequest
  /\ row' = Over(patch, row)
  /\ edits' = edits + 1
  /\ request' = [request EXCEPT ![a] = NoRequest]
  /\ UNCHANGED <<today, jobs, aborts>>

(* The operations that decide whether the retailer is suspended by hand.   *)
DecideSuspension(a, patch, suspension) ==
  /\ WriteColumns(a, patch)
  /\ manual' = suspension
  /\ UNCHANGED overwritten

(* Those that have no say in it: they move dates from those that they     *)
(* read, and the status if what they read asks for it.                     *)
MoveDates(a, patch) ==
  /\ WriteColumns(a, patch)
  /\ overwritten' = overwritten \cup
       {what \in {"dates", "status"} :
          request[a].seen # edits /\ (what = "status" => "status" \in DOMAIN patch)}
  /\ UNCHANGED manual

(* paymentPeriod: early or within the grace, the period goes on from the   *)
(* due date; otherwise it starts today.  What is paid never shrinks.       *)
PaidUntil(c, day) ==
  LET s == StateOf(c, day)
      anchor == FirstDate(s.due, c.end)
      start == IF anchor # NoDate /\ s.open /\ s.status # "COURTESY" THEN anchor ELSE day
  IN  IF c.end > start + Month THEN c.end ELSE start + Month

RegisterPayment(a) ==
  LET paid == PaidUntil(request[a].copy, request[a].day) IN
  DecideSuspension(a, [Blank EXCEPT !.end = paid, !.due = paid], FALSE)

(* Mutant of LiftOverdue: any suspension is lifted.                        *)
LiftAny(c) == IF c.status = "SUSPENDED" THEN [status |-> "ACTIVE", reason |-> "none"] ELSE NoPatch

(* liftOverdueSuspension.                                                  *)
LiftOverdue(c) ==
  IF c.status = "SUSPENDED" /\ c.reason = "OVERDUE"
    THEN [status |-> "ACTIVE", reason |-> "none"] ELSE NoPatch

(* Mutant of MoveDueDate: the date of a trial or a courtesy stays.         *)
MoveDueDateOnly(c, date) == Over([due |-> date, grace |-> NoDate], LiftOverdue(c))

(* What setBillingDate and extend write.                                   *)
MoveDueDate(c, date) ==
  LET ends == IF c.status = "TRIAL" THEN [trial |-> date]
              ELSE IF c.status = "COURTESY" /\ c.until # NoDate THEN [until |-> date] ELSE NoPatch
  IN  Over([due |-> date, grace |-> NoDate], Over(LiftOverdue(c), ends))

SetBillingDate(a) == \E date \in Dates : MoveDates(a, MoveDueDate(request[a].copy, date))

(* Extend counts from the due date, past or not.                           *)
Extend(a) ==
  LET due == StateOf(request[a].copy, request[a].day).due IN
  \E days \in Extensions :
    MoveDates(a, MoveDueDate(request[a].copy, FirstDate(due, request[a].day) + days))

SetCourtesy(a) == \E date \in Dates \cup {NoDate} :
  DecideSuspension(a, [status |-> "COURTESY", until |-> date, due |-> date,
             grace |-> NoDate, reason |-> "none"], FALSE)

(* Ends today, on a date, when the courtesy ended, or in a month.          *)
EndCourtesy(a) ==
  LET c == request[a].copy
      day == request[a].day
  IN  /\ c.status = "COURTESY"
      /\ \E date \in Dates \cup {day, FirstDate(c.until, day + Month)} :
           MoveDates(a, [status |-> "ACTIVE", until |-> NoDate, end |-> date,
                      due |-> date, grace |-> NoDate])

Suspend(a) == DecideSuspension(a, [status |-> "SUSPENDED", reason |-> "MANUAL"], TRUE)

(* reactivate: without a date, one that has passed is kept, with a full    *)
(* grace from today.                                                       *)
Reactivate(a) ==
  LET kept == FirstDate(request[a].copy.due, request[a].copy.end)
      day == request[a].day
  IN  \E typed \in Dates \cup {NoDate} :
        DecideSuspension(a,
          [status |-> "ACTIVE", reason |-> "none",
           due |-> FirstDate(FirstDate(typed, kept), day),
           grace |-> IF typed = NoDate /\ kept <= day THEN day + GraceDays ELSE NoDate],
          FALSE)

Cancel(a) == DecideSuspension(a, [status |-> "CANCELLED"], FALSE)

Operation(a) ==
  /\ request[a] # NoRequest
  /\ \/ RegisterPayment(a) \/ SetBillingDate(a) \/ Extend(a) \/ SetCourtesy(a)
     \/ EndCourtesy(a) \/ Suspend(a) \/ Reactivate(a) \/ Cancel(a)

SubNext == \/ NextDay
           \/ \E j \in Replicas : JobStep(j) \/ AbortRun(j)
           \/ \E a \in Admins : ReadForWrite(a) \/ Operation(a)

SubSpec == SubInit /\ [][SubNext]_subVars

(* The job runs every hour in every replica.  Administration owes nothing. *)
FairSubSpec == SubSpec /\ \A j \in Replicas : WF_subVars(JobStep(j))

-----------------------------------------------------------------------------
(* The job records what already is: it leaves the effective state as it    *)
(* was, also when replicas run together on different days, unless it       *)
(* writes over an operation that it had not read, or an operation left     *)
(* dates that it computed before another moved them.                       *)
JobKeepsState ==
  [][\A j \in Replicas :
       WriteStatus(j) /\ overwritten' \cap {"job", "dates"} = {}
         => StateOf(row', today) = StateOf(row, today)]_subVars

(* A manual suspension stands until Administration lifts it: neither a     *)
(* date that moves nor a run of the job reopens the account, however       *)
(* operations and runs overlap, unless a status computed from a row read   *)
(* before another operation is written over it (the README says when).     *)
ManualSuspensionHolds ==
  manual /\ overwritten \cap {"job", "status"} = {} => ~StateOf(row, today).open

(* What lists and reports read ends up telling the effective state,        *)
(* whatever stale copies were written.                                     *)
StoredCatchesUp == <>[](row.status = StateOf(row, today).status)

(* Registering a payment opens the account at once ("nadie queda           *)
(* suspendido después de pagar").  The code does not keep it: see the      *)
(* README.                                                                 *)
PaidIsOpen ==
  [][\A a \in Admins :
       request[a] = [copy |-> row, day |-> today, seen |-> edits] /\ RegisterPayment(a)
         => StateOf(row', today).open]_subVars
=============================================================================
