-------------------------- MODULE SmallPartsProofs --------------------------
(***************************************************************************)
(* What is proved of two of the parts of MCSmallParts, which share nothing *)
(* but the run: the approval of orders, for any orders, requests and       *)
(* faults, and the subscription, for any number of replicas, policy and    *)
(* dates, and however many operations and days.                            *)
(***************************************************************************)
EXTENDS OrderApproval, Subscription, TLAPS

-----------------------------------------------------------------------------
(* The approval of orders.                                                 *)
Used(r) == req[r] # Unused

(* Each kind of request only reaches the steps its handler has.            *)
StepsFitOps ==
  \A r \in Requests : Used(r) =>
    /\ req[r].op = "reject" => req[r].step \in {"deciding", "done", "lost"}
    /\ req[r].step = "deciding" => req[r].op = "reject"
    /\ req[r].step = "recorded" => req[r].op = "approve"
    /\ req[r].step = "markFailed" => req[r].op = "background"

(* Decisions are about held orders and nothing else is; an order that is   *)
(* not held belongs to one request.                                        *)
OwnersFitRows ==
  /\ \A r \in Requests : Used(r) =>
       (Held(req[r].order) <=> req[r].op \in {"approve", "reject"})
  /\ \A r1, r2 \in Requests :
       Used(r1) /\ Used(r2) /\ req[r1].order = req[r2].order /\ ~Held(req[r1].order) => r1 = r2
  /\ \A o \in Orders : Held(o) => status[o] # "NONE"

(* Every portal order has a request that sent it.                          *)
PortalAccounted ==
  /\ \A o \in Orders : portal[o] > 0 =>
       \E r \in Requests : Used(r) /\ req[r].order = o /\ req[r].op # "reject"
  /\ \A o \in Orders : ~Held(o) => portal[o] <= 1
  /\ \A r \in Requests : Used(r) =>
       /\ ~Held(req[r].order) /\ req[r].step = "sending" => portal[req[r].order] = 0
       /\ req[r].step \in {"sent", "recorded"} => portal[req[r].order] > 0

(* What the row and the portal say while a request about an untouched      *)
(* order is on its way.                                                    *)
RowWaitsFor(r) ==
  LET o == req[r].order IN
  /\ req[r].op = "checkout" => status[o] = "NONE" /\ approval[o] = "NONE"
  /\ req[r].op = "background" => status[o] = "PENDING" /\ approval[o] = "NOT_REQUIRED"
  /\ req[r].op \in {"approve", "reject"} =>
       approval[o] = "PENDING_APPROVAL" /\ status[o] \in {"PENDING_APPROVAL", "FAILED"}

OnItsWay(r) ==
  LET o == req[r].order IN
  /\ req[r].step \in {"sending", "declined", "deciding"} => RowWaitsFor(r) /\ portal[o] = 0
  /\ req[r].step = "sent" => RowWaitsFor(r) /\ portal[o] = 1
  /\ req[r].step = "recorded" => status[o] = "CREATED" /\ approval[o] = "PENDING_APPROVAL" /\ portal[o] = 1
  /\ req[r].step = "markFailed" => status[o] \in {"PENDING", "FAILED"} /\ approval[o] = "NOT_REQUIRED" /\ portal[o] = 0

Alone(r) == \A q \in Requests : InFlight(q) /\ req[q].order = req[r].order => q = r

(* A request about an untouched order is alone and its row is where its    *)
(* handler left it.                                                        *)
UntouchedOnTheWay ==
  \A r \in Requests : InFlight(r) /\ req[r].order \notin upset => Alone(r) /\ OnItsWay(r)

(* QuietRowsAgreeWithPortal with what the rows say of orders not seen yet. *)
Agrees(o) ==
  \/ approval[o] = "APPROVED" /\ status[o] = "CREATED" /\ portal[o] = 1
  \/ approval[o] = "REJECTED" /\ status[o] = "REJECTED" /\ portal[o] = 0
  \/ approval[o] = "PENDING_APPROVAL" /\ status[o] \in {"PENDING_APPROVAL", "FAILED"} /\ portal[o] = 0
  \/ approval[o] = "NOT_REQUIRED" /\ status[o] = "CREATED" /\ portal[o] = 1
  \/ approval[o] = "NOT_REQUIRED" /\ status[o] = "FAILED" /\ portal[o] = 0
  \/ approval[o] = "NONE" /\ status[o] = "NONE" /\ portal[o] = 0

UntouchedAgree == \A o \in Orders \ upset : Quiet(o) => Agrees(o)

IInv == /\ TypeOK
        /\ StepsFitOps
        /\ OwnersFitRows
        /\ PortalAccounted
        /\ RecordedWasSent
        /\ PendingHasWorker

(* The initial states satisfy the invariant.                               *)
LEMMA InitIInv == Init => IInv
BY DEF Init, IInv, TypeOK, StepsFitOps, OwnersFitRows, PortalAccounted, RecordedWasSent,
       PendingHasWorker, Used, Held, Statuses, Approvals

(* Every step keeps the type invariant.                                    *)
LEMMA NextType == TypeOK /\ [Next]_vars => TypeOK'
<1> SUFFICES ASSUME TypeOK, [Next]_vars PROVE TypeOK'
  OBVIOUS
<1> USE DEF TypeOK, Statuses, Approvals
<1>1. ASSUME NEW o \in Orders, Hold(o) PROVE TypeOK'
  BY <1>1 DEF Hold
<1>2. ASSUME NEW r \in Requests, NEW o \in Orders, Start(r, o) PROVE TypeOK'
  BY <1>2 DEF Start, SubmitDraft, SubmitBackground, Approve, Reject, Decide, Open, Request
<1>3. ASSUME NEW r \in Requests, Advance(r) PROVE TypeOK'
  <2> USE DEF At, Goto, Request, Unused
  <2>1. CASE PortalThrows(r) BY <2>1 DEF PortalThrows, CallFails, LeftBehind, AfterThrow
  <2>2. CASE PortalDeclines(r) BY <2>2 DEF PortalDeclines, CallFails, LeftBehind
  <2>3. CASE PortalAccepts(r) BY <2>3 DEF PortalAccepts
  <2>4. CASE SaveFailed(r) BY <2>4 DEF SaveFailed, Save, AfterThrow
  <2>5. CASE SaveCreated(r) BY <2>5 DEF SaveCreated, Save
  <2>6. CASE MarkFailed(r) BY <2>6 DEF MarkFailed, Save
  <2>7. CASE MarkApproved(r) BY <2>7 DEF MarkApproved
  <2>8. CASE WriteRejection(r) BY <2>8 DEF WriteRejection
  <2>9. CASE StoreThrows(r) BY <2>9 DEF StoreThrows, AfterThrow
  <2> QED BY <1>3, <2>1, <2>2, <2>3, <2>4, <2>5, <2>6, <2>7, <2>8, <2>9 DEF Advance
<1>4. CASE Crash
  BY <1>4 DEF Crash, InFlight, Request, Unused, Running
<1>5. CASE UNCHANGED vars
  BY <1>5 DEF vars
<1> QED BY <1>1, <1>2, <1>3, <1>4, <1>5 DEF Next

(* What a step does to one order it works on: the request that advances,   *)
(* whatever it does, leaves every other request alone, keeps what it is    *)
(* about and never moves a row that another order owns.                    *)
LEMMA AdvanceFrame ==
  ASSUME TypeOK, NEW r \in Requests, Advance(r)
  PROVE  /\ Used(r) /\ InFlight(r)
         /\ \A q \in Requests \ {r} : req'[q] = req[q]
         /\ Used(r)' /\ req'[r].op = req[r].op /\ req'[r].order = req[r].order
         /\ \A o \in Orders \ {req[r].order} :
              status'[o] = status[o] /\ approval'[o] = approval[o] /\ portal'[o] = portal[o]
         /\ upset \subseteq upset' /\ upset' \subseteq upset \cup {req[r].order}
<1> USE DEF TypeOK, Used, At, InFlight, Running, Goto, Request, Unused, Save
<1>1. CASE PortalThrows(r) BY <1>1 DEF PortalThrows, CallFails, LeftBehind
<1>2. CASE PortalDeclines(r) BY <1>2 DEF PortalDeclines, CallFails, LeftBehind
<1>3. CASE PortalAccepts(r) BY <1>3 DEF PortalAccepts
<1>4. CASE SaveFailed(r) BY <1>4 DEF SaveFailed
<1>5. CASE SaveCreated(r) BY <1>5 DEF SaveCreated
<1>6. CASE MarkFailed(r) BY <1>6 DEF MarkFailed
<1>7. CASE MarkApproved(r) BY <1>7 DEF MarkApproved
<1>8. CASE WriteRejection(r) BY <1>8 DEF WriteRejection
<1>9. CASE StoreThrows(r) BY <1>9 DEF StoreThrows
<1> QED BY <1>1, <1>2, <1>3, <1>4, <1>5, <1>6, <1>7, <1>8, <1>9 DEF Advance

(* Every step keeps requests on the steps their handlers have. *)
LEMMA NextSteps == IInv /\ [Next]_vars => StepsFitOps'
<1> SUFFICES ASSUME IInv, [Next]_vars PROVE StepsFitOps'
  OBVIOUS
<1>0. TypeOK'
  BY NextType DEF IInv
<1> USE DEF IInv, TypeOK, Used, Held, Request, Unused, StepsFitOps
<1>1. ASSUME NEW o \in Orders, Hold(o) PROVE StepsFitOps'
  BY <1>0, <1>1 DEF Hold, Unseen
<1>2. ASSUME NEW r \in Requests, NEW o \in Orders, Start(r, o) PROVE StepsFitOps'
  <2>1. CASE SubmitDraft(r, o) BY <1>0, <2>1 DEF SubmitDraft, Unseen, Open, Request
  <2>2. CASE SubmitBackground(r, o) BY <1>0, <2>2 DEF SubmitBackground, Unseen, Open, Request
  <2>3. CASE Approve(r, o) BY <1>0, <2>3 DEF Approve, Approvable, Decide, Open, Request
  <2>4. CASE Reject(r, o) BY <1>0, <2>4 DEF Reject, Approvable, Decide, Open, Request
  <2> QED BY <1>2, <2>1, <2>2, <2>3, <2>4 DEF Start
<1>3. ASSUME NEW r \in Requests, Advance(r) PROVE StepsFitOps'
  <2> USE <1>0, <1>3, AdvanceFrame DEF At, Goto
  <2>1. CASE PortalThrows(r) BY <2>1 DEF PortalThrows, CallFails, LeftBehind, AfterThrow
  <2>2. CASE PortalDeclines(r) BY <2>2 DEF PortalDeclines, CallFails, LeftBehind
  <2>3. CASE PortalAccepts(r) BY <2>3 DEF PortalAccepts
  <2>4. CASE SaveFailed(r) BY <2>4 DEF SaveFailed, Save, AfterThrow
  <2>5. CASE SaveCreated(r) BY <2>5 DEF SaveCreated, Save
  <2>6. CASE MarkFailed(r) BY <2>6 DEF MarkFailed, Save
  <2>7. CASE MarkApproved(r) BY <2>7 DEF MarkApproved
  <2>8. CASE WriteRejection(r) BY <2>8 DEF WriteRejection
  <2>9. CASE StoreThrows(r) BY <2>9 DEF StoreThrows, AfterThrow
  <2> QED BY <1>3, <2>1, <2>2, <2>3, <2>4, <2>5, <2>6, <2>7, <2>8, <2>9 DEF Advance
<1>4. CASE Crash
  BY <1>0, <1>4 DEF Crash, InFlight, Running
<1>5. CASE UNCHANGED vars
  BY <1>5 DEF vars, InFlight
<1> QED BY <1>1, <1>2, <1>3, <1>4, <1>5 DEF Next

(* Every step keeps requests and rows matched. *)
LEMMA NextOwners == IInv /\ [Next]_vars => OwnersFitRows'
<1> SUFFICES ASSUME IInv, [Next]_vars PROVE OwnersFitRows'
  OBVIOUS
<1>0. TypeOK'
  BY NextType DEF IInv
<1> USE DEF IInv, TypeOK, Used, Held, Request, Unused, StepsFitOps, OwnersFitRows
<1>1. ASSUME NEW o \in Orders, Hold(o) PROVE OwnersFitRows'
  BY <1>0, <1>1 DEF Hold, Unseen
<1>2. ASSUME NEW r \in Requests, NEW o \in Orders, Start(r, o) PROVE OwnersFitRows'
  <2>1. CASE SubmitDraft(r, o) BY <1>0, <2>1 DEF SubmitDraft, Unseen, Open, Request
  <2>2. CASE SubmitBackground(r, o) BY <1>0, <2>2 DEF SubmitBackground, Unseen, Open, Request
  <2>3. CASE Approve(r, o) BY <1>0, <2>3 DEF Approve, Approvable, Decide, Open, Request
  <2>4. CASE Reject(r, o) BY <1>0, <2>4 DEF Reject, Approvable, Decide, Open, Request
  <2> QED BY <1>2, <2>1, <2>2, <2>3, <2>4 DEF Start
<1>3. ASSUME NEW r \in Requests, Advance(r) PROVE OwnersFitRows'
  <2> USE <1>0, <1>3, AdvanceFrame DEF At, Goto
  <2>1. CASE PortalThrows(r) BY <2>1 DEF PortalThrows, CallFails, LeftBehind, AfterThrow
  <2>2. CASE PortalDeclines(r) BY <2>2 DEF PortalDeclines, CallFails, LeftBehind
  <2>3. CASE PortalAccepts(r) BY <2>3 DEF PortalAccepts
  <2>4. CASE SaveFailed(r) BY <2>4 DEF SaveFailed, Save, AfterThrow
  <2>5. CASE SaveCreated(r) BY <2>5 DEF SaveCreated, Save
  <2>6. CASE MarkFailed(r) BY <2>6 DEF MarkFailed, Save
  <2>7. CASE MarkApproved(r) BY <2>7 DEF MarkApproved
  <2>8. CASE WriteRejection(r) BY <2>8 DEF WriteRejection
  <2>9. CASE StoreThrows(r) BY <2>9 DEF StoreThrows, AfterThrow
  <2> QED BY <1>3, <2>1, <2>2, <2>3, <2>4, <2>5, <2>6, <2>7, <2>8, <2>9 DEF Advance
<1>4. CASE Crash
  BY <1>0, <1>4 DEF Crash, InFlight, Running
<1>5. CASE UNCHANGED vars
  BY <1>5 DEF vars, InFlight
<1> QED BY <1>1, <1>2, <1>3, <1>4, <1>5 DEF Next

(* Every step keeps the portal accounted for. *)
LEMMA NextPortal == IInv /\ [Next]_vars => PortalAccounted'
<1> SUFFICES ASSUME IInv, [Next]_vars PROVE PortalAccounted'
  OBVIOUS
<1>0. TypeOK'
  BY NextType DEF IInv
<1> USE DEF IInv, TypeOK, Used, Held, Request, Unused, StepsFitOps, OwnersFitRows, PortalAccounted
<1>1. ASSUME NEW o \in Orders, Hold(o) PROVE PortalAccounted'
  BY <1>0, <1>1 DEF Hold, Unseen
<1>2. ASSUME NEW r \in Requests, NEW o \in Orders, Start(r, o) PROVE PortalAccounted'
  <2>1. CASE SubmitDraft(r, o) BY <1>0, <2>1 DEF SubmitDraft, Unseen, Open, Request
  <2>2. CASE SubmitBackground(r, o) BY <1>0, <2>2 DEF SubmitBackground, Unseen, Open, Request
  <2>3. CASE Approve(r, o) BY <1>0, <2>3 DEF Approve, Approvable, Decide, Open, Request
  <2>4. CASE Reject(r, o) BY <1>0, <2>4 DEF Reject, Approvable, Decide, Open, Request
  <2> QED BY <1>2, <2>1, <2>2, <2>3, <2>4 DEF Start
<1>3. ASSUME NEW r \in Requests, Advance(r) PROVE PortalAccounted'
  <2> USE <1>0, <1>3, AdvanceFrame DEF At, Goto
  <2>1. CASE PortalThrows(r) BY <2>1 DEF PortalThrows, CallFails, LeftBehind, AfterThrow
  <2>2. CASE PortalDeclines(r) BY <2>2 DEF PortalDeclines, CallFails, LeftBehind
  <2>3. CASE PortalAccepts(r) BY <2>3 DEF PortalAccepts
  <2>4. CASE SaveFailed(r) BY <2>4 DEF SaveFailed, Save, AfterThrow
  <2>5. CASE SaveCreated(r) BY <2>5 DEF SaveCreated, Save
  <2>6. CASE MarkFailed(r) BY <2>6 DEF MarkFailed, Save
  <2>7. CASE MarkApproved(r) BY <2>7 DEF MarkApproved
  <2>8. CASE WriteRejection(r) BY <2>8 DEF WriteRejection
  <2>9. CASE StoreThrows(r) BY <2>9 DEF StoreThrows, AfterThrow
  <2> QED BY <1>3, <2>1, <2>2, <2>3, <2>4, <2>5, <2>6, <2>7, <2>8, <2>9 DEF Advance
<1>4. CASE Crash
  BY <1>0, <1>4 DEF Crash, InFlight, Running
<1>5. CASE UNCHANGED vars
  BY <1>5 DEF vars, InFlight
<1> QED BY <1>1, <1>2, <1>3, <1>4, <1>5 DEF Next

(* Every step keeps recorded rows backed by the portal. *)
LEMMA NextRecorded == IInv /\ [Next]_vars => RecordedWasSent'
<1> SUFFICES ASSUME IInv, [Next]_vars PROVE RecordedWasSent'
  OBVIOUS
<1>0. TypeOK'
  BY NextType DEF IInv
<1> USE DEF IInv, TypeOK, Used, Held, Request, Unused, PortalAccounted, RecordedWasSent
<1>1. ASSUME NEW o \in Orders, Hold(o) PROVE RecordedWasSent'
  BY <1>0, <1>1 DEF Hold, Unseen
<1>2. ASSUME NEW r \in Requests, NEW o \in Orders, Start(r, o) PROVE RecordedWasSent'
  <2>1. CASE SubmitDraft(r, o) BY <1>0, <2>1 DEF SubmitDraft, Unseen, Open, Request
  <2>2. CASE SubmitBackground(r, o) BY <1>0, <2>2 DEF SubmitBackground, Unseen, Open, Request
  <2>3. CASE Approve(r, o) BY <1>0, <2>3 DEF Approve, Approvable, Decide, Open, Request
  <2>4. CASE Reject(r, o) BY <1>0, <2>4 DEF Reject, Approvable, Decide, Open, Request
  <2> QED BY <1>2, <2>1, <2>2, <2>3, <2>4 DEF Start
<1>3. ASSUME NEW r \in Requests, Advance(r) PROVE RecordedWasSent'
  <2> USE <1>0, <1>3, AdvanceFrame DEF At, Goto
  <2>1. CASE PortalThrows(r) BY <2>1 DEF PortalThrows, CallFails, LeftBehind, AfterThrow
  <2>2. CASE PortalDeclines(r) BY <2>2 DEF PortalDeclines, CallFails, LeftBehind
  <2>3. CASE PortalAccepts(r) BY <2>3 DEF PortalAccepts
  <2>4. CASE SaveFailed(r) BY <2>4 DEF SaveFailed, Save, AfterThrow
  <2>5. CASE SaveCreated(r) BY <2>5 DEF SaveCreated, Save
  <2>6. CASE MarkFailed(r) BY <2>6 DEF MarkFailed, Save
  <2>7. CASE MarkApproved(r) BY <2>7 DEF MarkApproved
  <2>8. CASE WriteRejection(r) BY <2>8 DEF WriteRejection
  <2>9. CASE StoreThrows(r) BY <2>9 DEF StoreThrows, AfterThrow
  <2> QED BY <1>3, <2>1, <2>2, <2>3, <2>4, <2>5, <2>6, <2>7, <2>8, <2>9 DEF Advance
<1>4. CASE Crash
  BY <1>0, <1>4 DEF Crash, InFlight, Running
<1>5. CASE UNCHANGED vars
  BY <1>5 DEF vars, InFlight
<1> QED BY <1>1, <1>2, <1>3, <1>4, <1>5 DEF Next

(* Every step keeps the worker of a PENDING row, or there was a fault. *)
LEMMA NextWorker == IInv /\ [Next]_vars => PendingHasWorker'
<1> SUFFICES ASSUME IInv, [Next]_vars PROVE PendingHasWorker'
  OBVIOUS
<1>0. TypeOK'
  BY NextType DEF IInv
<1> USE DEF IInv, TypeOK, Used, Held, Request, Unused, StepsFitOps, OwnersFitRows, PendingHasWorker, InFlight, Running
<1>1. ASSUME NEW o \in Orders, Hold(o) PROVE PendingHasWorker'
  BY <1>0, <1>1 DEF Hold, Unseen
<1>2. ASSUME NEW r \in Requests, NEW o \in Orders, Start(r, o) PROVE PendingHasWorker'
  <2>1. CASE SubmitDraft(r, o) BY <1>0, <2>1 DEF SubmitDraft, Unseen, Open, Request
  <2>2. CASE SubmitBackground(r, o) BY <1>0, <2>2 DEF SubmitBackground, Unseen, Open, Request
  <2>3. CASE Approve(r, o) BY <1>0, <2>3 DEF Approve, Approvable, Decide, Open, Request
  <2>4. CASE Reject(r, o) BY <1>0, <2>4 DEF Reject, Approvable, Decide, Open, Request
  <2> QED BY <1>2, <2>1, <2>2, <2>3, <2>4 DEF Start
<1>3. ASSUME NEW r \in Requests, Advance(r) PROVE PendingHasWorker'
  <2> USE <1>0, <1>3, AdvanceFrame DEF At, Goto
  <2>1. CASE PortalThrows(r) BY <2>1 DEF PortalThrows, CallFails, LeftBehind, AfterThrow
  <2>2. CASE PortalDeclines(r) BY <2>2 DEF PortalDeclines, CallFails, LeftBehind
  <2>3. CASE PortalAccepts(r) BY <2>3 DEF PortalAccepts
  <2>4. CASE SaveFailed(r) BY <2>4 DEF SaveFailed, Save, AfterThrow
  <2>5. CASE SaveCreated(r) BY <2>5 DEF SaveCreated, Save
  <2>6. CASE MarkFailed(r) BY <2>6 DEF MarkFailed, Save
  <2>7. CASE MarkApproved(r) BY <2>7 DEF MarkApproved
  <2>8. CASE WriteRejection(r) BY <2>8 DEF WriteRejection
  <2>9. CASE StoreThrows(r) BY <2>9 DEF StoreThrows, AfterThrow
  <2> QED BY <1>3, <2>1, <2>2, <2>3, <2>4, <2>5, <2>6, <2>7, <2>8, <2>9 DEF Advance
<1>4. CASE Crash
  BY <1>0, <1>4 DEF Crash, Quiet, InFlight, Running
<1>5. CASE UNCHANGED vars
  BY <1>5 DEF vars, InFlight
<1> QED BY <1>1, <1>2, <1>3, <1>4, <1>5 DEF Next

(* The inductive invariant holds in every reachable state.                 *)
THEOREM InvariantHolds == Spec => []IInv
<1>1. IInv /\ [Next]_vars => IInv'
  BY NextType, NextSteps, NextOwners, NextPortal, NextRecorded, NextWorker DEF IInv
<1> QED BY InitIInv, <1>1, PTL DEF Spec

(* Type correctness of the rows, the portal counts and the requests.       *)
THEOREM TypeCorrect == Spec => []TypeOK
<1>1. IInv => TypeOK BY DEF IInv
<1> QED BY InvariantHolds, <1>1, PTL

(* A CREATED or APPROVED row always stands for a real portal order.        *)
THEOREM RecordedRowsWereSent == Spec => []RecordedWasSent
<1>1. IInv => RecordedWasSent BY DEF IInv
<1> QED BY InvariantHolds, <1>1, PTL

(* A held order is only sent by a request of someone who may approve.      *)
THEOREM HeldOrdersNeedAnApprover == Spec => []HeldSentOnlyByApprover
<1>1. IInv => HeldSentOnlyByApprover
  BY DEF IInv, TypeOK, OwnersFitRows, PortalAccounted, HeldSentOnlyByApprover, Used, Request
<1> QED BY InvariantHolds, <1>1, PTL

(* A checkout that needed no approval is sent at most once and never       *)
(* decided.                                                                *)
THEOREM SubmittedOrdersAreSentOnce == Spec => []SubmittedAtMostOnce
<1>1. IInv => SubmittedAtMostOnce
  BY DEF IInv, TypeOK, OwnersFitRows, PortalAccounted, SubmittedAtMostOnce, Used, Request
<1> QED BY InvariantHolds, <1>1, PTL

(* Only a fault separates a PENDING row from its worker.                   *)
THEOREM PendingRowsHaveAWorker == Spec => []PendingHasWorker
<1>1. IInv => PendingHasWorker BY DEF IInv
<1> QED BY InvariantHolds, <1>1, PTL

(* A decided order that nothing works on never changes again.              *)
THEOREM SettledOrdersStay == Spec => SettledStaysSettled
<1> DEFINE Kept(o) == /\ status'[o] = status[o]
                      /\ approval'[o] = approval[o]
                      /\ portal'[o] = portal[o]
                      /\ Quiet(o)'
<1>1. ASSUME IInv, [Next]_vars, NEW o \in Orders, DecidedAndQuiet(o) PROVE Kept(o)
  <2>1. Held(o) /\ ~Unseen(o) /\ ~Approvable(o)
    BY <1>1 DEF IInv, OwnersFitRows, DecidedAndQuiet, Held, Unseen, Approvable
  <2>0. Quiet(o)
    BY <1>1 DEF DecidedAndQuiet
  <2> USE DEF Quiet, InFlight, Running, Unused
  <2>2. ASSUME NEW p \in Orders, Hold(p) PROVE Kept(o)
    BY <1>1, <2>0, <2>1, <2>2 DEF Hold, IInv, TypeOK
  <2>3. ASSUME NEW r \in Requests, NEW p \in Orders, Start(r, p) PROVE Kept(o)
    <3>1. p # o
      BY <2>1, <2>3 DEF Start, SubmitDraft, SubmitBackground, Approve, Reject
    <3> QED BY <1>1, <2>0, <2>3, <3>1
        DEF Start, SubmitDraft, SubmitBackground, Approve, Reject, Decide, Open, IInv, TypeOK, Request
  <2>4. ASSUME NEW r \in Requests, Advance(r) PROVE Kept(o)
    <3>1. req[r].order # o
      BY <1>1, <2>0, <2>4, AdvanceFrame DEF IInv
    <3> QED BY <1>1, <2>0, <2>4, <3>1, AdvanceFrame DEF IInv, Used
  <2>5. CASE Crash \/ UNCHANGED vars
    BY <1>1, <2>0, <2>5 DEF Crash, vars, IInv, TypeOK, Request
  <2> QED BY <1>1, <2>2, <2>3, <2>4, <2>5 DEF Next
<1>2. IInv /\ [Next]_vars =>
        [\A o \in Orders : DecidedAndQuiet(o) =>
           /\ status'[o] = status[o]
           /\ approval'[o] = approval[o]
           /\ portal'[o] = portal[o]
           /\ Quiet(o)']_vars
  BY <1>1 DEF Kept
<1> QED BY InvariantHolds, <1>2, PTL DEF Spec, SettledStaysSettled

(* A request about an untouched order that advances leaves it agreeing     *)
(* with the portal when it is done, or still on its way.                   *)
LEMMA AdvanceUntouched ==
  ASSUME IInv, UntouchedOnTheWay, NEW r \in Requests, Advance(r), req[r].order \notin upset'
  PROVE  /\ InFlight(r)' => OnItsWay(r)'
         /\ ~InFlight(r)' => Agrees(req[r].order)'
<1>1. OnItsWay(r) /\ InFlight(r) /\ req[r] \in Request /\ req[r].order \in Orders
  BY AdvanceFrame DEF IInv, TypeOK, UntouchedOnTheWay, Request, InFlight
<1>2. req'[r].op = req[r].op /\ req'[r].order = req[r].order /\ req'[r] # Unused
  BY AdvanceFrame DEF IInv, Used
<1> USE <1>1, <1>2 DEF IInv, TypeOK, Request, At, Goto, InFlight, Running, OnItsWay, RowWaitsFor, Agrees
<1>3. CASE PortalThrows(r)
  BY <1>3 DEF PortalThrows, CallFails, LeftBehind, AfterThrow, StepsFitOps, Used
<1>4. CASE PortalDeclines(r)
  BY <1>4 DEF PortalDeclines, CallFails, LeftBehind
<1>5. CASE PortalAccepts(r)
  BY <1>5 DEF PortalAccepts
<1>6. CASE SaveFailed(r)
  BY <1>6 DEF SaveFailed, Save, AfterThrow, StepsFitOps, Used
<1>7. CASE SaveCreated(r)
  BY <1>7 DEF SaveCreated, Save, StepsFitOps, Used
<1>8. CASE MarkFailed(r)
  BY <1>8 DEF MarkFailed, Save
<1>9. CASE MarkApproved(r)
  BY <1>9 DEF MarkApproved
<1>10. CASE WriteRejection(r)
  BY <1>10 DEF WriteRejection, StepsFitOps, Used
<1>11. CASE StoreThrows(r)
  BY <1>11 DEF StoreThrows
<1> QED BY <1>3, <1>4, <1>5, <1>6, <1>7, <1>8, <1>9, <1>10, <1>11 DEF Advance

(* Every step keeps untouched orders agreeing or on their way.             *)
LEMMA NextUntouched ==
  IInv /\ UntouchedOnTheWay /\ UntouchedAgree /\ [Next]_vars => UntouchedOnTheWay' /\ UntouchedAgree'
<1> SUFFICES ASSUME IInv, UntouchedOnTheWay, UntouchedAgree, [Next]_vars
             PROVE  UntouchedOnTheWay' /\ UntouchedAgree'
  OBVIOUS
<1> USE DEF IInv, TypeOK
<1>1. ASSUME NEW o \in Orders, Hold(o) PROVE UntouchedOnTheWay' /\ UntouchedAgree'
  <2>1. \A r \in Requests : InFlight(r) => req[r].order # o
    BY <1>1 DEF Hold, Unseen, InFlight
  <2> QED BY <1>1, <2>1 DEF Hold, UntouchedOnTheWay, UntouchedAgree, Alone, OnItsWay, RowWaitsFor,
                            Quiet, InFlight, Agrees, Request, Unseen
<1>2. ASSUME NEW r \in Requests, NEW o \in Orders, Start(r, o) PROVE UntouchedOnTheWay' /\ UntouchedAgree'
  <2>1. req[r] = Unused /\ req'[r].order = o /\ InFlight(r)' /\ \A q \in Requests \ {r} : req'[q] = req[q]
    BY <1>2 DEF Start, SubmitDraft, SubmitBackground, Approve, Reject, Open, InFlight, Running, Unused
  <2>2. portal' = portal /\ upset \subseteq upset' /\ \A p \in Orders \ {o} : status'[p] = status[p] /\ approval'[p] = approval[p]
    BY <1>2 DEF Start, SubmitDraft, SubmitBackground, Approve, Reject, Decide
  <2>3. o \notin upset' => Quiet(o)
    BY <1>2 DEF Start, SubmitDraft, SubmitBackground, Approve, Reject, Decide, Unseen, Quiet, InFlight
  <2>4. o \notin upset' => OnItsWay(r)'
    <3>1. o \notin upset' => Agrees(o)
      BY <2>2, <2>3 DEF UntouchedAgree
    <3> QED BY <1>2, <2>1, <2>2, <3>1 DEF Start, SubmitDraft, SubmitBackground, Approve, Reject, Approvable,
                                        Open, Agrees, OnItsWay, RowWaitsFor, Unseen
  <2>5. UntouchedOnTheWay'
    BY <2>1, <2>2, <2>3, <2>4 DEF UntouchedOnTheWay, Alone, OnItsWay, RowWaitsFor, Quiet, InFlight, Request
  <2>6. UntouchedAgree'
    BY <2>1, <2>2 DEF UntouchedAgree, Agrees, Quiet, InFlight
  <2> QED BY <2>5, <2>6
<1>3. ASSUME NEW r \in Requests, Advance(r) PROVE UntouchedOnTheWay' /\ UntouchedAgree'
  <2> DEFINE o == req[r].order
  <2>1. /\ InFlight(r) /\ o \in Orders
        /\ \A q \in Requests \ {r} : req'[q] = req[q]
        /\ req'[r].order = o
        /\ \A p \in Orders \ {o} : status'[p] = status[p] /\ approval'[p] = approval[p] /\ portal'[p] = portal[p]
        /\ upset \subseteq upset'
    BY <1>3, AdvanceFrame DEF Request, InFlight
  <2>2. o \notin upset' => /\ InFlight(r)' => OnItsWay(r)'
                           /\ ~InFlight(r)' => Agrees(o)'
    BY <1>3, AdvanceUntouched
  <2>3. o \notin upset' => Alone(r)
    BY <2>1 DEF UntouchedOnTheWay
  <2> HIDE DEF o
  <2>4. UntouchedOnTheWay'
    <3> SUFFICES ASSUME NEW q \in Requests, InFlight(q)', req'[q].order \notin upset'
                 PROVE  Alone(q)' /\ OnItsWay(q)'
      BY DEF UntouchedOnTheWay
    <3>1. CASE q = r
      BY <2>1, <2>2, <2>3, <3>1 DEF Alone, InFlight, o
    <3>2. CASE q # r
      <4>1. InFlight(q) /\ req[q].order \notin upset /\ req[q].order \in Orders
        BY <2>1, <3>2 DEF InFlight, Request
      <4>2. Alone(q) /\ OnItsWay(q) /\ req[q].order # o
        BY <2>1, <3>2, <4>1 DEF UntouchedOnTheWay, Alone, o
      <4> QED BY <2>1, <3>2, <4>1, <4>2 DEF Alone, OnItsWay, RowWaitsFor, InFlight
    <3> QED BY <3>1, <3>2
  <2>5. UntouchedAgree'
    <3> SUFFICES ASSUME NEW p \in Orders, p \notin upset', Quiet(p)' PROVE Agrees(p)'
      BY DEF UntouchedAgree
    <3>1. CASE p = o
      BY <2>1, <2>2, <3>1 DEF Quiet, Agrees, o
    <3>2. CASE p # o
      BY <2>1, <3>2 DEF UntouchedAgree, Quiet, InFlight, Agrees, o
    <3> QED BY <3>1, <3>2
  <2> QED BY <2>4, <2>5
<1>4. CASE Crash
  <2>1. \A p \in Orders : p \notin upset' => Quiet(p) /\ p \notin upset
    BY <1>4 DEF Crash
  <2>2. \A r \in Requests : ~InFlight(r)'
    BY <1>4 DEF Crash, InFlight, Running, Request, Unused
  <2> QED BY <1>4, <2>1, <2>2 DEF Crash, UntouchedOnTheWay, UntouchedAgree, Agrees
<1>5. CASE UNCHANGED vars
  BY <1>5 DEF vars, UntouchedOnTheWay, UntouchedAgree, Alone, OnItsWay, RowWaitsFor, Quiet, InFlight, Agrees
<1> QED BY <1>1, <1>2, <1>3, <1>4, <1>5 DEF Next

(* An order that no fault and no second decision touched agrees with the   *)
(* portal whenever nothing runs about it.                                  *)
THEOREM UntouchedOrdersAgree == Spec => []QuietRowsAgreeWithPortal
<1> DEFINE UInv == IInv /\ UntouchedOnTheWay /\ UntouchedAgree
<1>1. Init => UInv
  BY InitIInv DEF Init, UntouchedOnTheWay, UntouchedAgree, InFlight, Agrees
<1>2. UInv /\ [Next]_vars => UInv'
  BY NextType, NextSteps, NextOwners, NextPortal, NextRecorded, NextWorker, NextUntouched DEF IInv
<1>3. UInv => QuietRowsAgreeWithPortal
  BY DEF UntouchedAgree, Agrees, QuietRowsAgreeWithPortal
<1> QED BY <1>1, <1>2, <1>3, PTL DEF Spec

-----------------------------------------------------------------------------
(* The subscription: the hourly job only records what already is, and a    *)
(* manual suspension stands.                                               *)
(*                                                                         *)
(* What a run or an operation works from matters only while no other       *)
(* operation has come since it read: then it knows of a suspension by hand *)
(* and, unless dates were written over others that had not been read, what *)
(* the run is going to write is harmless to the row as it is now, whatever *)
(* other runs have written in between.                                     *)
Columns == {"status", "due", "end", "grace", "trial", "until", "reason"}

Standings == {"ACTIVE", "TRIAL", "COURTESY", "PAST_DUE", "GRACE_PERIOD", "SUSPENDED", "CANCELLED"}

(* A row: its dates are days.                                              *)
RowTyped(r) ==
  /\ DOMAIN r = Columns
  /\ r.status \in Standings
  /\ {r.due, r.end, r.grace, r.trial, r.until} \subseteq Int

(* The date of a trial or of a courtesy is also what the row says is due.  *)
DatesAgree(r) ==
  /\ r.status = "TRIAL" => r.due = NoDate \/ r.due = DueDate(r)
  /\ r.status = "COURTESY" => r.until = NoDate \/ r.due \in {NoDate, r.until}

RowOK(r) == RowTyped(r) /\ DatesAgree(r)

(* What the dates correct: they decide the state of the row.               *)
DatesDecide(r) == r.status # "CANCELLED" /\ ~ManuallySuspended(r)

Overdue == {"PAST_DUE", "GRACE_PERIOD", "SUSPENDED"}

(* The columns that a run writes.                                          *)
PatchOK(p) ==
  /\ DOMAIN p \in {{"status", "due"}, {"status", "due", "reason"}, {"status", "reason"}}
  /\ p.status \in Overdue \cup {"ACTIVE"}
  /\ "due" \in DOMAIN p => p.due \in Int
  /\ p.status = "SUSPENDED" => "reason" \in DOMAIN p /\ p.reason = "OVERDUE"

(* Writing it tells the status of a row that is overdue, and keeps its     *)
(* date, or that the row is up to date again.                              *)
Harmless(patch, r, day) ==
  /\ DatesDecide(r)
  /\ \/ /\ DOMAIN patch = {"status", "due"} \/ (DOMAIN patch = {"status", "due", "reason"} /\ patch.reason = "OVERDUE")
        /\ patch.status \in Overdue
        /\ patch.status = "SUSPENDED" => "reason" \in DOMAIN patch
        /\ DueDate(r) # NoDate /\ patch.due = DueDate(r) /\ day >= DueDate(r)
     \/ /\ DOMAIN patch = {"status", "reason"}
        /\ patch.status = "ACTIVE" /\ patch.reason = "none"
        /\ r.status \notin {"COURTESY", "TRIAL"}

-----------------------------------------------------------------------------
(* What a patch leaves in each column of a row.                            *)
LEMMA OverRow ==
  ASSUME NEW patch, NEW r, DOMAIN patch \subseteq Columns, DOMAIN r = Columns
  PROVE  /\ DOMAIN Over(patch, r) = Columns
         /\ \A c \in Columns : Over(patch, r)[c] = IF c \in DOMAIN patch THEN patch[c] ELSE r[c]
BY DEF Over

(* The run records the state of the row that it reads, if it writes.       *)
LEMMA PatchIsHarmless ==
  ASSUME NEW r, RowTyped(r), NEW day \in Int, StatusPatch(r, day) # NoPatch
  PROVE  /\ PatchOK(StatusPatch(r, day)) /\ DatesDecide(r)
         /\ DatesAgree(r) => Harmless(StatusPatch(r, day), r, day)
<1> DEFINE s == StateOf(r, day)
<1> DEFINE p == StatusPatch(r, day)
<1> USE PolicyAssumption DEF RowTyped, NoDate
<1>0. ~DatesDecide(r) => s.status = r.status
  BY DEF DatesDecide, StateOf, ManuallySuspended
<1>1. DatesDecide(r) /\ r.status # s.status
  <2>1. CASE r.status = s.status
    BY <2>1 DEF StatusPatch
  <2> QED BY <1>0, <2>1
<1>2. DueDate(r) \in Int /\ SuspensionDate(r) \in Int
  BY DEF DueDate, SuspensionDate, FirstDate
<1>3. DueDate(r) = NoDate => s.status \in {"COURTESY", "TRIAL", "ACTIVE"}
  BY <1>1 DEF StateOf, DatesDecide
<1>4. DueDate(r) # NoDate => s.status = OverdueStatus(r, day) /\ s.due = DueDate(r)
  BY <1>1 DEF StateOf, DatesDecide
<1>5. s.status \in Overdue => DueDate(r) # NoDate /\ s.due = DueDate(r) /\ day >= DueDate(r)
  BY <1>2, <1>3, <1>4 DEF Overdue, OverdueStatus
<1>6. DatesAgree(r) /\ DueDate(r) # NoDate => FirstDate(r.due, DueDate(r)) = DueDate(r)
  BY DEF DueDate, FirstDate, Standings, DatesAgree
<1>10. FirstDate(r.due, s.due) \in Int \/ DueDate(r) = NoDate
  BY <1>2, <1>4 DEF FirstDate
<1>7. CASE s.status \in {"PAST_DUE", "GRACE_PERIOD"}
  <2>1. p = [status |-> s.status, due |-> FirstDate(r.due, s.due)]
    BY <1>1, <1>7 DEF StatusPatch, DatesDecide
  <2> QED BY <2>1, <1>1, <1>5, <1>6, <1>7, <1>10 DEF Harmless, PatchOK, Overdue
<1>8. CASE s.status = "SUSPENDED"
  <2>1. p = [status |-> "SUSPENDED", reason |-> "OVERDUE", due |-> FirstDate(r.due, s.due)]
    BY <1>1, <1>8 DEF StatusPatch, DatesDecide
  <2> QED BY <2>1, <1>1, <1>5, <1>6, <1>8, <1>10 DEF Harmless, PatchOK, Overdue
<1>9. CASE s.status \notin Overdue
  <2>1. p = [status |-> "ACTIVE", reason |-> "none"] /\ r.status \notin {"COURTESY", "TRIAL"}
    BY <1>1, <1>9 DEF StatusPatch, DatesDecide, Overdue
  <2> QED BY <2>1, <1>1 DEF Harmless, PatchOK
<1> QED BY <1>7, <1>8, <1>9 DEF Overdue

(* Writing what is harmless changes nothing that the dates tell, and what  *)
(* other runs are going to write stays harmless.                           *)
LEMMA HarmlessWrite ==
  ASSUME NEW r, RowOK(r), NEW day \in Int, NEW p, Harmless(p, r, day)
  PROVE  /\ RowOK(Over(p, r))
         /\ Over(p, r).status \notin {"TRIAL", "COURTESY"}
         /\ StateOf(Over(p, r), day) = StateOf(r, day)
         /\ \A q : Harmless(q, r, day) => Harmless(q, Over(p, r), day)
<1> DEFINE w == Over(p, r)
<1> USE DEF NoDate
<1>1. DOMAIN p \subseteq Columns /\ DOMAIN r = Columns
  BY DEF Harmless, RowOK, RowTyped, Columns
<1>2. /\ DOMAIN w = Columns
      /\ w.status = p.status
      /\ w.end = r.end /\ w.grace = r.grace /\ w.trial = r.trial /\ w.until = r.until
      /\ w.due = IF "due" \in DOMAIN p THEN p.due ELSE r.due
      /\ w.reason = IF "reason" \in DOMAIN p THEN p.reason ELSE r.reason
  BY <1>1, OverRow DEF Columns, Harmless
<1>3. DueDate(r) \in Int
  BY DEF DueDate, FirstDate, RowOK, RowTyped
<1> HIDE DEF w
<1>4. w.status \in Overdue \cup {"ACTIVE"} /\ RowOK(w)
  BY <1>2, <1>3 DEF Harmless, RowOK, RowTyped, DatesAgree, Overdue, Standings
<1>5. DatesDecide(w)
  BY <1>2, <1>4 DEF Harmless, DatesDecide, ManuallySuspended, Overdue
<1>6. DueDate(w) = DueDate(r)
  BY <1>2 DEF Harmless, DueDate, FirstDate, Overdue, RowOK, RowTyped, DatesAgree, Standings, DatesDecide
<1>7. SuspensionDate(w) = SuspensionDate(r)
  BY <1>2, <1>6 DEF SuspensionDate
<1>8. StateOf(w, day) = StateOf(r, day)
  <2>1. DatesDecide(r)
    BY DEF Harmless
  <2>2. CASE DueDate(r) = NoDate
    BY <2>1, <2>2, <1>2, <1>4, <1>5, <1>6 DEF StateOf, DatesDecide, Harmless, Overdue
  <2>3. CASE DueDate(r) # NoDate
    <3>1. OverdueStatus(w, day) = OverdueStatus(r, day)
      BY <2>3, <1>2, <1>3, <1>4, <1>6, <1>7 DEF OverdueStatus, Harmless, Overdue
    <3> QED BY <2>1, <2>3, <3>1, <1>5, <1>6, <1>7 DEF StateOf, DatesDecide
  <2> QED BY <2>2, <2>3
<1>9. ASSUME NEW q, Harmless(q, r, day) PROVE Harmless(q, w, day)
  BY <1>4, <1>5, <1>6, <1>9 DEF Harmless, Overdue
<1> QED BY <1>4, <1>8, <1>9 DEF w, Overdue

-----------------------------------------------------------------------------
(* An operation in progress works from a row; if no other has written      *)
(* since it read, and the status is one that only operations write, the    *)
(* row is the one that it read.                                            *)
RequestsOK ==
  /\ DOMAIN request = Admins
  /\ \A a \in Admins :
       request[a] # NoRequest =>
         /\ RowTyped(request[a].copy) /\ request[a].day \in Int /\ request[a].seen \in 0..edits
         /\ request[a].seen = edits /\ row.status \in {"TRIAL", "COURTESY"} => request[a].copy = row

RunsOK ==
  /\ DOMAIN jobs = Replicas
  /\ \A j \in Replicas :
       jobs[j] # NoPatch => PatchOK(jobs[j].columns) /\ jobs[j].seen \in 0..edits

(* A run that has read since the last operation is about a row that its    *)
(* dates decide, and is going to write what is harmless.                   *)
Fresh(j) == jobs[j] # NoPatch /\ jobs[j].seen = edits

FreshRunsDecide == \A j \in Replicas : Fresh(j) => DatesDecide(row)

FreshRunsAreHarmless == \A j \in Replicas : Fresh(j) => Harmless(jobs[j].columns, row, today)

(* A manual suspension is in the row, and so it is in what was read since  *)
(* the last operation.                                                     *)
ManualIsKnown ==
  manual => /\ ManuallySuspended(row)
            /\ \A a \in Admins :
                 request[a] # NoRequest /\ request[a].seen = edits => ManuallySuspended(request[a].copy)

Unharmed(whats) == overwritten \cap whats = {}

SubIInv ==
  /\ today \in Int /\ edits \in Nat
  /\ RowTyped(row)
  /\ RequestsOK
  /\ RunsOK
  /\ Unharmed({"dates"}) => DatesAgree(row)
  /\ Unharmed({"job"}) => FreshRunsDecide
  /\ Unharmed({"job", "dates"}) => FreshRunsAreHarmless
  /\ Unharmed({"job", "status"}) => ManualIsKnown

(* The initial states satisfy the invariant.                               *)
LEMMA SubInitIInv == SubInit => SubIInv
<1> SUFFICES ASSUME SubInit PROVE SubIInv
  OBVIOUS
<1>1. RowOK(row)
  <2> USE PolicyAssumption DEF RowOK, RowTyped, DatesAgree, Columns, Standings, NoDate, DueDate, FirstDate, Blank
  <2>1. CASE row = NewTrial
    BY <2>1 DEF NewTrial
  <2>2. ASSUME NEW d \in Dates \cup {NoDate}, row = NewCourtesy(d) PROVE RowOK(row)
    BY <2>2 DEF NewCourtesy
  <2>3. ASSUME NEW d \in Dates \cup {Month}, row = NewActive(d) PROVE RowOK(row)
    BY <2>3 DEF NewActive
  <2> QED BY <2>1, <2>2, <2>3 DEF SubInit
<1>2. \A j \in Replicas : jobs[j] = NoPatch
  BY DEF SubInit
<1> QED BY <1>1, <1>2 DEF SubInit, SubIInv, RowOK, RequestsOK, RunsOK, Fresh, FreshRunsDecide, FreshRunsAreHarmless, ManualIsKnown

-----------------------------------------------------------------------------
(* One step of each kind.                                                  *)
LEMMA NextDayKeeps == SubIInv /\ NextDay => SubIInv'
<1> SUFFICES ASSUME SubIInv, NextDay PROVE SubIInv'
  OBVIOUS
<1>1. today' \in Int /\ today' > today /\ UNCHANGED <<row, jobs, request, edits, manual, overwritten>>
  BY DEF SubIInv, NextDay
<1>2. \A p : Harmless(p, row, today) => Harmless(p, row, today')
  <2>1. DueDate(row) \in Int
    BY DEF SubIInv, RowTyped, DueDate, FirstDate
  <2> QED BY <2>1, <1>1 DEF Harmless, SubIInv
<1>3. RunsOK' /\ RequestsOK'
  BY <1>1 DEF SubIInv, RunsOK, RequestsOK
<1>4. FreshRunsAreHarmless => FreshRunsAreHarmless'
  BY <1>1, <1>2 DEF FreshRunsAreHarmless, Fresh
<1>5. (FreshRunsDecide => FreshRunsDecide') /\ (ManualIsKnown => ManualIsKnown')
  BY <1>1 DEF FreshRunsDecide, Fresh, ManualIsKnown
<1> QED BY <1>1, <1>3, <1>4, <1>5 DEF SubIInv, Unharmed

LEMMA ReadRowKeeps == ASSUME NEW j \in Replicas, SubIInv, ReadRow(j) PROVE SubIInv'
<1> DEFINE patch == StatusPatch(row, today)
<1>1. /\ jobs' = [jobs EXCEPT ![j] = [columns |-> patch, seen |-> edits]]
      /\ patch # NoPatch
      /\ UNCHANGED <<row, today, request, edits, manual, overwritten, aborts>>
  BY DEF ReadRow
<1>2. PatchOK(patch) /\ DatesDecide(row) /\ (DatesAgree(row) => Harmless(patch, row, today))
  BY <1>1, PatchIsHarmless DEF SubIInv
<1> HIDE DEF patch
<1>3. RunsOK' /\ RequestsOK'
  BY <1>1, <1>2 DEF SubIInv, RunsOK, RequestsOK
<1>4. \A k \in Replicas : k # j => jobs'[k] = jobs[k]
  BY <1>1 DEF SubIInv, RunsOK
<1>5. jobs'[j].columns = patch
  BY <1>1 DEF SubIInv, RunsOK
<1>6. FreshRunsDecide => FreshRunsDecide'
  BY <1>1, <1>2, <1>4 DEF FreshRunsDecide, Fresh
<1>7. DatesAgree(row) /\ FreshRunsAreHarmless => FreshRunsAreHarmless'
  BY <1>1, <1>2, <1>4, <1>5 DEF FreshRunsAreHarmless, Fresh
<1>8. ManualIsKnown => ManualIsKnown'
  BY <1>1 DEF ManualIsKnown
<1> QED BY <1>1, <1>3, <1>6, <1>7, <1>8 DEF SubIInv, Unharmed

LEMMA WriteStatusKeeps == ASSUME NEW j \in Replicas, SubIInv, WriteStatus(j) PROVE SubIInv'
<1> DEFINE p == jobs[j].columns
<1>1. /\ jobs[j] # NoPatch
      /\ row' = Over(p, row)
      /\ jobs' = [jobs EXCEPT ![j] = NoPatch]
      /\ overwritten' = overwritten \cup (IF jobs[j].seen # edits THEN {"job"} ELSE {})
      /\ UNCHANGED <<today, request, edits, manual, aborts>>
  BY DEF WriteStatus
<1>2. PatchOK(p)
  BY <1>1 DEF SubIInv, RunsOK
<1> HIDE DEF p
<1>3. /\ DOMAIN row' = Columns
      /\ \A c \in Columns : row'[c] = IF c \in DOMAIN p THEN p[c] ELSE row[c]
  <2>1. DOMAIN p \subseteq Columns /\ DOMAIN row = Columns
    BY <1>2 DEF PatchOK, SubIInv, RowTyped, Columns
  <2> QED BY <2>1, <1>1, OverRow
<1>4. row'.status = p.status /\ p.status \in Overdue \cup {"ACTIVE"}
  BY <1>2, <1>3 DEF PatchOK, Columns
<1>5. RowTyped(row') /\ DatesAgree(row')
  BY <1>2, <1>3, <1>4 DEF PatchOK, SubIInv, RowTyped, DatesAgree, Columns, Overdue, Standings
<1>6. DatesDecide(row')
  BY <1>2, <1>3, <1>4 DEF PatchOK, DatesDecide, ManuallySuspended, Columns, Overdue
<1>7. \A k \in Replicas : jobs'[k] # NoPatch => jobs'[k] = jobs[k]
  BY <1>1 DEF SubIInv, RunsOK
<1>8. RunsOK' /\ RequestsOK'
  BY <1>1, <1>4, <1>7 DEF SubIInv, RunsOK, RequestsOK, Overdue
<1>9. Unharmed({"job"})' => Fresh(j) /\ Unharmed({"job"})
  BY <1>1 DEF Unharmed, Fresh
<1>10. ASSUME Unharmed({"job", "dates"})' PROVE FreshRunsAreHarmless'
  <2>1. Unharmed({"job", "dates"}) /\ Fresh(j)
    BY <1>1, <1>9, <1>10 DEF Unharmed
  <2>2. Harmless(p, row, today) /\ RowOK(row)
    BY <2>1 DEF SubIInv, FreshRunsAreHarmless, Unharmed, RowOK, p
  <2>3. \A q : Harmless(q, row, today) => Harmless(q, row', today)
    BY <2>2, <1>1, HarmlessWrite DEF SubIInv
  <2> QED BY <2>1, <2>3, <1>1, <1>7 DEF SubIInv, FreshRunsAreHarmless, Fresh
<1>11. ASSUME Unharmed({"job", "status"})' PROVE ManualIsKnown'
  <2>1. FreshRunsDecide /\ Fresh(j) /\ Unharmed({"job", "status"})
    BY <1>1, <1>9, <1>11 DEF Unharmed, SubIInv
  <2>2. ~manual
    BY <2>1 DEF SubIInv, FreshRunsDecide, ManualIsKnown, DatesDecide
  <2> QED BY <2>2, <1>1 DEF ManualIsKnown
<1>12. FreshRunsDecide'
  BY <1>6 DEF FreshRunsDecide
<1> QED BY <1>1, <1>5, <1>8, <1>10, <1>11, <1>12 DEF SubIInv

LEMMA AbortRunKeeps == ASSUME NEW j \in Replicas, SubIInv, AbortRun(j) PROVE SubIInv'
<1>1. /\ jobs' = [jobs EXCEPT ![j] = NoPatch]
      /\ UNCHANGED <<row, today, request, edits, manual, overwritten>>
  BY DEF AbortRun
<1>2. \A k \in Replicas : jobs'[k] # NoPatch => jobs'[k] = jobs[k]
  BY <1>1 DEF SubIInv, RunsOK
<1>3. RunsOK' /\ RequestsOK'
  BY <1>1, <1>2 DEF SubIInv, RunsOK, RequestsOK
<1>4. /\ FreshRunsDecide => FreshRunsDecide'
      /\ FreshRunsAreHarmless => FreshRunsAreHarmless'
      /\ ManualIsKnown => ManualIsKnown'
  BY <1>1, <1>2 DEF Fresh, FreshRunsDecide, FreshRunsAreHarmless, ManualIsKnown
<1> QED BY <1>1, <1>3, <1>4 DEF SubIInv, Unharmed

LEMMA ReadForWriteKeeps == ASSUME NEW a \in Admins, SubIInv, ReadForWrite(a) PROVE SubIInv'
<1>1. /\ request' = [request EXCEPT ![a] = [copy |-> row, day |-> today, seen |-> edits]]
      /\ UNCHANGED <<row, today, jobs, edits, manual, overwritten>>
  BY DEF ReadForWrite
<1>2. RunsOK' /\ RequestsOK'
  BY <1>1 DEF SubIInv, RunsOK, RequestsOK
<1>3. /\ FreshRunsDecide => FreshRunsDecide'
      /\ FreshRunsAreHarmless => FreshRunsAreHarmless'
  BY <1>1 DEF Fresh, FreshRunsDecide, FreshRunsAreHarmless
<1>4. ManualIsKnown => ManualIsKnown'
  BY <1>1 DEF ManualIsKnown, SubIInv, RequestsOK
<1> QED BY <1>1, <1>2, <1>3, <1>4 DEF SubIInv, Unharmed

-----------------------------------------------------------------------------
(* What an operation owes: a row, whose dates agree and which is suspended *)
(* by hand when it should be, as far as nothing was overwritten.           *)
LEMMA OperationKeeps ==
  ASSUME SubIInv, NEW a \in Admins, NEW patch, WriteColumns(a, patch),
         overwritten \subseteq overwritten', overwritten' \subseteq overwritten \cup {"dates", "status"},
         RowTyped(row'), Unharmed({"dates"})' => DatesAgree(row'),
         Unharmed({"job", "status"})' /\ manual' => ManuallySuspended(row')
  PROVE  SubIInv'
<1>1. /\ edits' = edits + 1 /\ request' = [request EXCEPT ![a] = NoRequest]
      /\ UNCHANGED <<today, jobs>>
  BY DEF WriteColumns
<1>2. edits \in Nat /\ edits' \in Nat
  BY <1>1 DEF SubIInv
<1>3. \A b \in Admins : request'[b] # NoRequest => request'[b] = request[b]
  BY <1>1 DEF SubIInv, RequestsOK
<1>4. RunsOK' /\ \A k \in Replicas : ~Fresh(k)'
  BY <1>1, <1>2 DEF SubIInv, RunsOK, Fresh
<1>5. RequestsOK' /\ \A b \in Admins : request'[b] # NoRequest => request'[b].seen # edits'
  BY <1>1, <1>2, <1>3 DEF SubIInv, RequestsOK
<1>6. FreshRunsDecide' /\ FreshRunsAreHarmless'
  BY <1>4 DEF FreshRunsDecide, FreshRunsAreHarmless
<1>7. Unharmed({"job", "status"})' => ManualIsKnown'
  BY <1>5 DEF ManualIsKnown
<1> QED BY <1>1, <1>2, <1>4, <1>5, <1>6, <1>7 DEF SubIInv

(* An operation that decides on the suspension.                            *)
LEMMA DecisionKeeps ==
  ASSUME SubIInv, NEW a \in Admins, NEW patch, NEW suspension \in BOOLEAN,
         DecideSuspension(a, patch, suspension),
         RowTyped(Over(patch, row)), DatesAgree(row) => DatesAgree(Over(patch, row)),
         suspension => ManuallySuspended(Over(patch, row))
  PROVE  SubIInv'
<1>1. WriteColumns(a, patch) /\ manual' = suspension /\ overwritten' = overwritten /\ row' = Over(patch, row)
  BY DEF DecideSuspension, WriteColumns
<1>2. Unharmed({"dates"})' => DatesAgree(row')
  BY <1>1 DEF SubIInv, Unharmed
<1> QED BY <1>1, <1>2, OperationKeeps

LEMMA RegisterPaymentKeeps == ASSUME NEW a \in Admins, SubIInv, RegisterPayment(a) PROVE SubIInv'
<1> DEFINE c == request[a].copy
<1> DEFINE day == request[a].day
<1> DEFINE paid == PaidUntil(c, day)
<1> DEFINE patch == [Blank EXCEPT !.end = paid, !.due = paid]
<1>1. DecideSuspension(a, patch, FALSE) /\ request[a] # NoRequest
  BY DEF RegisterPayment, DecideSuspension, WriteColumns
<1>2. RowTyped(c) /\ day \in Int
  BY <1>1 DEF SubIInv, RequestsOK
<1>3. paid \in Int
  <2> HIDE DEF c, day
  <2>1. DueDate(c) \in Int /\ FirstDate(c.due, c.end) \in Int /\ c.end \in Int
    BY <1>2 DEF RowTyped, DueDate, FirstDate
  <2>2. StateOf(c, day).due \in Int
    BY <2>1 DEF StateOf, NoDate
  <2> QED BY <1>2, <2>1, <2>2, PolicyAssumption DEF PaidUntil, FirstDate
<1> HIDE DEF paid
<1>4. RowOK(Over(patch, row))
  <2>1. DOMAIN row = Columns
    BY DEF SubIInv, RowTyped
  <2>2. /\ DOMAIN patch = Columns
        /\ patch.status = "ACTIVE" /\ patch.due = paid /\ patch.end = paid
        /\ patch.grace = NoDate /\ patch.trial = NoDate /\ patch.until = NoDate
    BY DEF Blank, Columns
  <2> HIDE DEF patch
  <2>3. \A x \in Columns : Over(patch, row)[x] = patch[x]
    BY <2>1, <2>2, OverRow
  <2>4. DOMAIN Over(patch, row) = Columns
    BY <2>1, <2>2, OverRow
  <2> QED BY <1>3, <2>2, <2>3, <2>4 DEF RowOK, RowTyped, DatesAgree, Columns, Standings, NoDate
<1> QED BY <1>1, <1>4, DecisionKeeps DEF RowOK

LEMMA MoveDueDateIs ==
  ASSUME NEW c, NEW date
  PROVE  LET p == MoveDueDate(c, date) IN
         /\ DOMAIN p \subseteq {"due", "grace", "status", "reason", "trial", "until"}
         /\ {"due", "grace"} \subseteq DOMAIN p /\ p.due = date /\ p.grace = NoDate
         /\ IF c.status = "SUSPENDED" /\ c.reason = "OVERDUE"
              THEN {"status", "reason"} \subseteq DOMAIN p /\ p.status = "ACTIVE" /\ p.reason = "none"
              ELSE "status" \notin DOMAIN p /\ "reason" \notin DOMAIN p
         /\ IF c.status = "TRIAL" THEN "trial" \in DOMAIN p /\ p.trial = date ELSE "trial" \notin DOMAIN p
         /\ IF c.status = "COURTESY" /\ c.until # NoDate
              THEN "until" \in DOMAIN p /\ p.until = date ELSE "until" \notin DOMAIN p
<1> DEFINE ends == IF c.status = "TRIAL" THEN [trial |-> date]
                   ELSE IF c.status = "COURTESY" /\ c.until # NoDate THEN [until |-> date] ELSE NoPatch
<1> DEFINE rest == Over(LiftOverdue(c), ends)
<1> DEFINE p == Over([due |-> date, grace |-> NoDate], rest)
<1>1. /\ DOMAIN ends = IF c.status = "TRIAL" THEN {"trial"}
                       ELSE IF c.status = "COURTESY" /\ c.until # NoDate THEN {"until"} ELSE {}
      /\ "trial" \in DOMAIN ends => ends.trial = date
      /\ "until" \in DOMAIN ends => ends.until = date
  BY DEF NoPatch
<1>2. /\ DOMAIN LiftOverdue(c) = IF c.status = "SUSPENDED" /\ c.reason = "OVERDUE" THEN {"status", "reason"} ELSE {}
      /\ "status" \in DOMAIN LiftOverdue(c) => LiftOverdue(c).status = "ACTIVE" /\ LiftOverdue(c).reason = "none"
  BY DEF NoPatch, LiftOverdue
<1> HIDE DEF ends
<1>3. /\ DOMAIN rest = DOMAIN LiftOverdue(c) \cup DOMAIN ends
      /\ \A x \in DOMAIN rest : rest[x] = IF x \in DOMAIN LiftOverdue(c) THEN LiftOverdue(c)[x] ELSE ends[x]
  BY DEF Over
<1> HIDE DEF rest
<1>4. /\ DOMAIN p = {"due", "grace"} \cup DOMAIN rest
      /\ \A x \in DOMAIN p : p[x] = IF x \in {"due", "grace"} THEN [due |-> date, grace |-> NoDate][x] ELSE rest[x]
  BY DEF Over
<1> HIDE DEF p
<1>5. MoveDueDate(c, date) = p
  BY DEF MoveDueDate, p, rest, ends
<1> QED BY <1>1, <1>2, <1>3, <1>4, <1>5

(* setBillingDate and extend: the date of a trial or a courtesy moves with *)
(* the due date, and a suspension by hand stays, if what was read is the   *)
(* last that was written.                                                  *)
LEMMA MovingTheDateKeeps ==
  ASSUME SubIInv, NEW a \in Admins, NEW date \in Int, MoveDates(a, MoveDueDate(request[a].copy, date))
  PROVE  SubIInv'
<1> DEFINE c == request[a].copy
<1> DEFINE p == MoveDueDate(c, date)
<1>0. /\ WriteColumns(a, p) /\ row' = Over(p, row) /\ manual' = manual /\ request[a] # NoRequest
      /\ overwritten' = overwritten \cup
           {what \in {"dates", "status"} :
              request[a].seen # edits /\ (what = "status" => "status" \in DOMAIN p)}
  BY DEF MoveDates, WriteColumns
<1>1. /\ RowTyped(c)
      /\ request[a].seen = edits /\ row.status \in {"TRIAL", "COURTESY"} => c = row
      /\ Unharmed({"job", "status"}) /\ manual =>
           ManuallySuspended(row) /\ (request[a].seen = edits => ManuallySuspended(c))
  BY <1>0 DEF SubIInv, RequestsOK, ManualIsKnown
<1>2. RowTyped(row) /\ (Unharmed({"dates"}) => DatesAgree(row))
  BY DEF SubIInv
<1>3. /\ DOMAIN p \subseteq {"due", "grace", "status", "reason", "trial", "until"}
      /\ {"due", "grace"} \subseteq DOMAIN p /\ p.due = date /\ p.grace = NoDate
      /\ IF c.status = "SUSPENDED" /\ c.reason = "OVERDUE"
           THEN {"status", "reason"} \subseteq DOMAIN p /\ p.status = "ACTIVE" /\ p.reason = "none"
           ELSE "status" \notin DOMAIN p /\ "reason" \notin DOMAIN p
      /\ IF c.status = "TRIAL" THEN "trial" \in DOMAIN p /\ p.trial = date ELSE "trial" \notin DOMAIN p
      /\ IF c.status = "COURTESY" /\ c.until # NoDate
           THEN "until" \in DOMAIN p /\ p.until = date ELSE "until" \notin DOMAIN p
  BY MoveDueDateIs
<1> HIDE DEF p
<1>4. /\ DOMAIN row' = Columns
      /\ \A x \in Columns : row'[x] = IF x \in DOMAIN p THEN p[x] ELSE row[x]
  <2>1. DOMAIN p \subseteq Columns /\ DOMAIN row = Columns
    BY <1>2, <1>3 DEF RowTyped, Columns
  <2> QED BY <1>0, <2>1, OverRow
<1> HIDE DEF c
<1>5. /\ row'.status = IF c.status = "SUSPENDED" /\ c.reason = "OVERDUE" THEN "ACTIVE" ELSE row.status
      /\ row'.reason = IF c.status = "SUSPENDED" /\ c.reason = "OVERDUE" THEN "none" ELSE row.reason
      /\ row'.due = date /\ row'.grace = NoDate /\ row'.end = row.end
      /\ row'.trial = IF c.status = "TRIAL" THEN date ELSE row.trial
      /\ row'.until = IF c.status = "COURTESY" /\ c.until # NoDate THEN date ELSE row.until
  BY <1>3, <1>4 DEF Columns
<1>6. RowTyped(row')
  BY <1>1, <1>2, <1>4, <1>5 DEF RowTyped, Standings, NoDate
<1>7. Unharmed({"dates"})' => DatesAgree(row')
  <2>1. Unharmed({"dates"})' => request[a].seen = edits /\ Unharmed({"dates"})
    BY <1>0 DEF Unharmed
  <2> QED BY <2>1, <1>1, <1>2, <1>5 DEF DatesAgree, DueDate, FirstDate, NoDate, RowTyped
<1>8. Unharmed({"job", "status"})' /\ manual' => ManuallySuspended(row')
  <2>1. Unharmed({"job", "status"})' =>
          Unharmed({"job", "status"}) /\ (request[a].seen = edits \/ "status" \notin DOMAIN p)
    BY <1>0 DEF Unharmed
  <2> QED BY <2>1, <1>0, <1>1, <1>3, <1>5 DEF ManuallySuspended
<1>9. overwritten \subseteq overwritten' /\ overwritten' \subseteq overwritten \cup {"dates", "status"}
  BY <1>0
<1> QED BY <1>0, <1>6, <1>7, <1>8, <1>9, OperationKeeps

LEMMA SetBillingDateKeeps == ASSUME NEW a \in Admins, SubIInv, SetBillingDate(a) PROVE SubIInv'
BY PolicyAssumption, MovingTheDateKeeps DEF SetBillingDate

LEMMA ExtendKeeps == ASSUME NEW a \in Admins, SubIInv, Extend(a) PROVE SubIInv'
<1> DEFINE c == request[a].copy
<1> DEFINE day == request[a].day
<1> DEFINE due == StateOf(c, day).due
<1>1. PICK days \in Extensions : MoveDates(a, MoveDueDate(c, FirstDate(due, day) + days))
  BY DEF Extend
<1>2. RowTyped(c) /\ day \in Int
  BY <1>1 DEF MoveDates, WriteColumns, SubIInv, RequestsOK
<1>3. due \in Int
  <2> HIDE DEF c, day
  <2>1. DueDate(c) \in Int /\ FirstDate(c.due, c.end) \in Int
    BY <1>2 DEF RowTyped, DueDate, FirstDate
  <2> QED BY <1>2, <2>1 DEF StateOf, RowTyped, NoDate
<1>4. FirstDate(due, day) + days \in Int
  <2>1. FirstDate(due, day) \in Int
    BY <1>2, <1>3 DEF FirstDate
  <2> QED BY <2>1, PolicyAssumption
<1> QED BY <1>1, <1>4, MovingTheDateKeeps

(* The operations that say the status.                                     *)
LEMMA SetCourtesyKeeps == ASSUME NEW a \in Admins, SubIInv, SetCourtesy(a) PROVE SubIInv'
<1>1. PICK date \in Dates \cup {NoDate} :
        DecideSuspension(a, [status |-> "COURTESY", until |-> date, due |-> date,
                             grace |-> NoDate, reason |-> "none"], FALSE)
  BY DEF SetCourtesy
<1> DEFINE patch == [status |-> "COURTESY", until |-> date, due |-> date, grace |-> NoDate, reason |-> "none"]
<1>2. RowTyped(Over(patch, row)) /\ DatesAgree(Over(patch, row))
  BY PolicyAssumption DEF SubIInv, RowTyped, DatesAgree, Over, Columns, Standings, NoDate
<1> QED BY <1>1, <1>2, DecisionKeeps

LEMMA EndCourtesyKeeps == ASSUME NEW a \in Admins, SubIInv, EndCourtesy(a) PROVE SubIInv'
<1> DEFINE c == request[a].copy
<1> DEFINE day == request[a].day
<1>1. PICK date \in Dates \cup {day, FirstDate(c.until, day + Month)} :
        MoveDates(a, [status |-> "ACTIVE", until |-> NoDate, end |-> date, due |-> date, grace |-> NoDate])
  BY DEF EndCourtesy
<1> DEFINE patch == [status |-> "ACTIVE", until |-> NoDate, end |-> date, due |-> date, grace |-> NoDate]
<1>2. /\ WriteColumns(a, patch) /\ row' = Over(patch, row) /\ manual' = manual /\ request[a] # NoRequest
      /\ overwritten' = overwritten \cup {what \in {"dates", "status"} : request[a].seen # edits}
  BY <1>1 DEF MoveDates, WriteColumns
<1>3. c.status = "COURTESY" /\ RowTyped(c) /\ day \in Int
  BY <1>2 DEF EndCourtesy, SubIInv, RequestsOK
<1>4. date \in Int
  BY <1>3, PolicyAssumption DEF RowTyped, FirstDate
<1>5. RowTyped(row') /\ DatesAgree(row')
  BY <1>2, <1>4 DEF SubIInv, RowTyped, DatesAgree, Over, Columns, Standings, NoDate
<1>6. ~(Unharmed({"job", "status"})' /\ manual')
  <2>1. Unharmed({"job", "status"})' => Unharmed({"job", "status"}) /\ request[a].seen = edits
    BY <1>2 DEF Unharmed
  <2> QED BY <2>1, <1>2, <1>3 DEF SubIInv, ManualIsKnown, ManuallySuspended
<1>7. overwritten \subseteq overwritten' /\ overwritten' \subseteq overwritten \cup {"dates", "status"}
  BY <1>2
<1> QED BY <1>2, <1>5, <1>6, <1>7, OperationKeeps

LEMMA SuspendKeeps == ASSUME NEW a \in Admins, SubIInv, Suspend(a) PROVE SubIInv'
<1> DEFINE patch == [status |-> "SUSPENDED", reason |-> "MANUAL"]
<1>1. RowTyped(Over(patch, row)) /\ DatesAgree(Over(patch, row)) /\ ManuallySuspended(Over(patch, row))
  BY DEF SubIInv, RowTyped, DatesAgree, Over, Columns, Standings, ManuallySuspended
<1> QED BY <1>1, DecisionKeeps DEF Suspend

LEMMA ReactivateKeeps == ASSUME NEW a \in Admins, SubIInv, Reactivate(a) PROVE SubIInv'
<1> DEFINE c == request[a].copy
<1> DEFINE day == request[a].day
<1> DEFINE kept == FirstDate(c.due, c.end)
<1>1. PICK typed \in Dates \cup {NoDate} :
        DecideSuspension(a,
          [status |-> "ACTIVE", reason |-> "none",
           due |-> FirstDate(FirstDate(typed, kept), day),
           grace |-> IF typed = NoDate /\ kept <= day THEN day + GraceDays ELSE NoDate],
          FALSE)
  BY DEF Reactivate
<1> DEFINE due == FirstDate(FirstDate(typed, kept), day)
<1> DEFINE grace == IF typed = NoDate /\ kept <= day THEN day + GraceDays ELSE NoDate
<1>2. RowTyped(c) /\ day \in Int
  BY <1>1 DEF DecideSuspension, WriteColumns, SubIInv, RequestsOK
<1>3. due \in Int /\ grace \in Int
  BY <1>2, PolicyAssumption DEF RowTyped, FirstDate, NoDate
<1> HIDE DEF due, grace
<1>4. RowTyped(Over([status |-> "ACTIVE", reason |-> "none", due |-> due, grace |-> grace], row))
  BY <1>3 DEF SubIInv, RowTyped, Over, Columns, Standings
<1>5. DatesAgree(Over([status |-> "ACTIVE", reason |-> "none", due |-> due, grace |-> grace], row))
  BY DEF SubIInv, RowTyped, DatesAgree, Over, Columns
<1> QED BY <1>1, <1>4, <1>5, DecisionKeeps DEF due, grace

LEMMA CancelKeeps == ASSUME NEW a \in Admins, SubIInv, Cancel(a) PROVE SubIInv'
<1>1. RowTyped(Over([status |-> "CANCELLED"], row)) /\ DatesAgree(Over([status |-> "CANCELLED"], row))
  BY DEF SubIInv, RowTyped, DatesAgree, Over, Columns, Standings
<1> QED BY <1>1, DecisionKeeps DEF Cancel

-----------------------------------------------------------------------------
LEMMA NextSubIInv == SubIInv /\ [SubNext]_subVars => SubIInv'
<1> SUFFICES ASSUME SubIInv, [SubNext]_subVars PROVE SubIInv'
  OBVIOUS
<1>1. CASE NextDay
  BY <1>1, NextDayKeeps
<1>2. ASSUME NEW j \in Replicas, JobStep(j) \/ AbortRun(j) PROVE SubIInv'
  BY <1>2, ReadRowKeeps, WriteStatusKeeps, AbortRunKeeps DEF JobStep
<1>3. ASSUME NEW a \in Admins, ReadForWrite(a) PROVE SubIInv'
  BY <1>3, ReadForWriteKeeps
<1>4. ASSUME NEW a \in Admins, Operation(a) PROVE SubIInv'
  BY <1>4, RegisterPaymentKeeps, SetBillingDateKeeps, ExtendKeeps, SetCourtesyKeeps,
     EndCourtesyKeeps, SuspendKeeps, ReactivateKeeps, CancelKeeps DEF Operation
<1>5. CASE UNCHANGED subVars
  BY <1>5 DEF subVars, SubIInv, RequestsOK, RunsOK, Fresh, FreshRunsDecide, FreshRunsAreHarmless,
              ManualIsKnown, Unharmed
<1> QED BY <1>1, <1>2, <1>3, <1>4, <1>5 DEF SubNext

(* The rows, the runs and the operations in progress are as described.     *)
THEOREM SubscriptionInvariant == SubSpec => []SubIInv
BY SubInitIInv, NextSubIInv, PTL DEF SubSpec

(* A manual suspension stands until Administration lifts it, however       *)
(* operations and runs overlap, while no stale status is written.          *)
THEOREM ManualSuspensionStands == SubSpec => []ManualSuspensionHolds
<1>1. SubIInv => ManualSuspensionHolds
  BY DEF SubIInv, Unharmed, ManualIsKnown, ManualSuspensionHolds, ManuallySuspended, StateOf
<1> QED BY <1>1, SubscriptionInvariant, PTL

(* The hourly job records what already is, however many replicas run it.   *)
THEOREM JobOnlyRecords == SubSpec => JobKeepsState
<1>1. ASSUME SubIInv, NEW j \in Replicas, WriteStatus(j), overwritten' \cap {"job", "dates"} = {}
      PROVE  StateOf(row', today) = StateOf(row, today)
  <2>1. Unharmed({"job", "dates"}) /\ Fresh(j) /\ row' = Over(jobs[j].columns, row)
    BY <1>1 DEF WriteStatus, Unharmed, Fresh
  <2>2. Harmless(jobs[j].columns, row, today) /\ RowOK(row) /\ today \in Int
    BY <1>1, <2>1 DEF SubIInv, FreshRunsAreHarmless, Unharmed, RowOK
  <2> QED BY <2>1, <2>2, HarmlessWrite
<1>2. SubIInv /\ [SubNext]_subVars =>
        [\A j \in Replicas :
           WriteStatus(j) /\ overwritten' \cap {"job", "dates"} = {}
             => StateOf(row', today) = StateOf(row, today)]_subVars
  BY <1>1
<1> QED BY <1>2, SubscriptionInvariant, PTL DEF SubSpec, JobKeepsState
=============================================================================
