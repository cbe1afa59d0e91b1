--------------------------- MODULE OrderApproval ---------------------------
(***************************************************************************)
(* The life of an ONLINE ProviderOrder row: held for approval or submitted *)
(* at once, sent to the distributor's portal, recorded, approved or        *)
(* rejected (orders/order-approval.service.ts, orders/orders.service.ts    *)
(* and the providers/*-order.service.ts checkouts).                        *)
(*                                                                         *)
(* Every await of a handler separates two actions, so requests interleave  *)
(* where the code lets them.  A request is one HTTP call; the number of    *)
(* requests is the only bound of the model.  The row is read only where    *)
(* the code reads it: the writes are unconditional updates by id.          *)
(*                                                                         *)
(* The portal is external: portal[o] counts the orders that really exist   *)
(* there for the checkout o.  Some providers serialise the portal calls of *)
(* an account (module PortalCartLock); Air, Grupo Nucleo and others do     *)
(* not, so this module does not either.                                    *)
(***************************************************************************)
EXTENDS Naturals

CONSTANTS
  Orders,    \* checkouts, each the identity of at most one ProviderOrder row
  Requests,  \* HTTP requests that run for more than one step
  Faults     \* the faults the environment may produce

ASSUME FaultsAssumption == Faults \subseteq {"crash", "lostReply", "store"}

VARIABLES
  status,    \* ProviderOrder.status, or NONE when there is no row
  approval,  \* ProviderOrder.approvalStatus, or NONE
  portal,    \* how many orders the portal holds for this checkout
  req,       \* the state of each request
  upset      \* orders that a fault or a second decision touched (history)

vars == <<status, approval, portal, req, upset>>

Statuses == {"NONE", "PENDING_APPROVAL", "PENDING", "CREATED", "FAILED", "REJECTED"}
Approvals == {"NONE", "NOT_REQUIRED", "PENDING_APPROVAL", "APPROVED", "REJECTED"}

Unused == [op |-> "none"]
Request == [op : {"checkout", "background", "approve", "reject"},
            order : Orders,
            step : {"sending", "declined", "sent", "recorded", "markFailed",
                    "deciding", "done", "lost"}]

Running == {"sending", "declined", "sent", "recorded", "markFailed", "deciding"}
InFlight(r) == req[r] # Unused /\ req[r].step \in Running
At(r, step) == req[r] # Unused /\ req[r].step = step
Quiet(o) == \A r \in Requests : InFlight(r) => req[r].order # o
Unseen(o) == status[o] = "NONE" /\ \A r \in Requests : req[r] # Unused => req[r].order # o

Init == /\ status = [o \in Orders |-> "NONE"]
        /\ approval = [o \in Orders |-> "NONE"]
        /\ portal = [o \in Orders |-> 0]
        /\ req = [r \in Requests |-> Unused]
        /\ upset = {}

Open(r, op, o, step) ==
  /\ req[r] = Unused
  /\ req' = [req EXCEPT ![r] = [op |-> op, order |-> o, step |-> step]]

Goto(r, step) == req' = [req EXCEPT ![r].step = step]

-----------------------------------------------------------------------------
(* A member without orders.confirm checks out: the draft is stored and     *)
(* nothing goes to the portal.                                             *)
Hold(o) ==
  /\ Unseen(o)
  /\ status' = [status EXCEPT ![o] = "PENDING_APPROVAL"]
  /\ approval' = [approval EXCEPT ![o] = "PENDING_APPROVAL"]
  /\ UNCHANGED <<portal, req, upset>>

(* Mutant of SubmitDraft: the checkout does not stop when hold has stored  *)
(* the order.                                                              *)
SubmitIgnoringHold(r, o) ==
  /\ Open(r, "checkout", o, "sending")
  /\ UNCHANGED <<status, approval, portal, upset>>

(* A member who may confirm checks out and waits for the portal.  There is *)
(* no row until the portal has answered.                                   *)
SubmitDraft(r, o) ==
  /\ Unseen(o)
  /\ Open(r, "checkout", o, "sending")
  /\ UNCHANGED <<status, approval, portal, upset>>

(* The same with input.background: a PENDING row is created and answered,  *)
(* and runBackgroundDraft goes on with the portal.                         *)
SubmitBackground(r, o) ==
  /\ Unseen(o)
  /\ Open(r, "background", o, "sending")
  /\ status' = [status EXCEPT ![o] = "PENDING"]
  /\ approval' = [approval EXCEPT ![o] = "NOT_REQUIRED"]
  /\ UNCHANGED <<portal, upset>>

(* Mutants of Approvable: only one of the settled values is refused.       *)
ApprovableUnlessDecided(o) == approval[o] \in {"NOT_REQUIRED", "PENDING_APPROVAL"}
ApprovableUnlessApproved(o) == approval[o] \in {"PENDING_APPROVAL", "REJECTED"}

(* assertApprovable: a plain read of the row, nothing is claimed.          *)
Approvable(o) == approval[o] = "PENDING_APPROVAL"

(* A decision while a request about the order is running.                  *)
Decide(o) == upset' = IF Quiet(o) THEN upset ELSE upset \cup {o}

(* Mutant of Approve: the row is marked before the order is sent.          *)
ApproveThenSend(r, o) ==
  /\ Approvable(o)
  /\ Open(r, "approve", o, "sending")
  /\ approval' = [approval EXCEPT ![o] = "APPROVED"]
  /\ Decide(o)
  /\ UNCHANGED <<status, portal>>

Approve(r, o) ==
  /\ Approvable(o)
  /\ Open(r, "approve", o, "sending")
  /\ Decide(o)
  /\ UNCHANGED <<status, approval, portal>>

Reject(r, o) ==
  /\ Approvable(o)
  /\ Open(r, "reject", o, "deciding")
  /\ Decide(o)
  /\ UNCHANGED <<status, approval, portal>>

-----------------------------------------------------------------------------
(* fulfillDraft, against the portal.                                       *)

(* Mutant of AfterThrow: the error of a background draft is only logged.   *)
ThrowAndForget(r) == "done"

(* Where an exception leads: a background draft is marked FAILED, any      *)
(* other request answers an error.                                         *)
AfterThrow(r) == IF req[r].op = "background" THEN "markFailed" ELSE "done"

(* Orders a call that ends in an error may have left at the portal: its    *)
(* answer can be lost after the portal has accepted.                       *)
LeftBehind == IF "lostReply" \in Faults THEN {0, 1} ELSE {0}

CallFails(o) ==
  \E n \in LeftBehind :
    /\ portal' = [portal EXCEPT ![o] = @ + n]
    /\ upset' = IF n = 0 THEN upset ELSE upset \cup {o}

(* Login, cart loading, assertPortalCartMatches or an uncaught confirm     *)
(* error: nothing is written.                                              *)
PortalThrows(r) ==
  /\ At(r, "sending")
  /\ CallFails(req[r].order)
  /\ Goto(r, AfterThrow(r))
  /\ UNCHANGED <<status, approval>>

(* The confirm call failed or came back without an order number.           *)
PortalDeclines(r) ==
  /\ At(r, "sending")
  /\ CallFails(req[r].order)
  /\ Goto(r, "declined")
  /\ UNCHANGED <<status, approval>>

PortalAccepts(r) ==
  /\ At(r, "sending")
  /\ portal' = [portal EXCEPT ![req[r].order] = @ + 1]
  /\ Goto(r, "sent")
  /\ UNCHANGED <<status, approval, upset>>

(* update by id, or create for a checkout that had no row: the column      *)
(* approvalStatus defaults to NOT_REQUIRED.                                *)
Save(r, s) ==
  /\ status' = [status EXCEPT ![req[r].order] = s]
  /\ approval' = [approval EXCEPT ![req[r].order] = IF @ = "NONE" THEN "NOT_REQUIRED" ELSE @]
  /\ UNCHANGED <<portal, upset>>

SaveFailed(r) ==
  /\ At(r, "declined")
  /\ Save(r, "FAILED")
  /\ Goto(r, AfterThrow(r))

(* Mutant of SaveCreated: the row is completed before the portal answers.  *)
SaveBeforeSending(r) ==
  /\ At(r, "sending")
  /\ Save(r, "CREATED")
  /\ Goto(r, "sent")

SaveCreated(r) ==
  /\ At(r, "sent")
  /\ Save(r, "CREATED")
  /\ Goto(r, IF req[r].op = "approve" THEN "recorded" ELSE "done")

(* The catch of runBackgroundDraft.                                        *)
MarkFailed(r) ==
  /\ At(r, "markFailed")
  /\ Save(r, "FAILED")
  /\ Goto(r, "done")

MarkApproved(r) ==
  /\ At(r, "recorded")
  /\ approval' = [approval EXCEPT ![req[r].order] = "APPROVED"]
  /\ Goto(r, "done")
  /\ UNCHANGED <<status, portal, upset>>

WriteRejection(r) ==
  /\ At(r, "deciding")
  /\ status' = [status EXCEPT ![req[r].order] = "REJECTED"]
  /\ approval' = [approval EXCEPT ![req[r].order] = "REJECTED"]
  /\ Goto(r, "done")
  /\ UNCHANGED <<portal, upset>>

-----------------------------------------------------------------------------
(* A write to the database throws.  markFailed swallows its own error.     *)
StoreThrows(r) ==
  /\ "store" \in Faults
  /\ \E step \in {"declined", "sent", "recorded", "markFailed", "deciding"} : At(r, step)
  /\ Goto(r, IF req[r].step \in {"declined", "sent"} THEN AfterThrow(r) ELSE "done")
  /\ upset' = upset \cup {req[r].order}
  /\ UNCHANGED <<status, approval, portal>>

(* The API process stops: every request in memory is gone, the rows and    *)
(* the portal stay.  Nothing resumes a PENDING row on start.               *)
Crash ==
  /\ "crash" \in Faults
  /\ \E r \in Requests : InFlight(r)
  /\ req' = [r \in Requests |-> IF InFlight(r) THEN [req[r] EXCEPT !.step = "lost"] ELSE req[r]]
  /\ upset' = upset \cup {o \in Orders : ~Quiet(o)}
  /\ UNCHANGED <<status, approval, portal>>

Start(r, o) == \/ SubmitDraft(r, o)
               \/ SubmitBackground(r, o)
               \/ Approve(r, o)
               \/ Reject(r, o)

Advance(r) == \/ PortalThrows(r)
              \/ PortalDeclines(r)
              \/ PortalAccepts(r)
              \/ SaveFailed(r)
              \/ SaveCreated(r)
              \/ MarkFailed(r)
              \/ MarkApproved(r)
              \/ WriteRejection(r)
              \/ StoreThrows(r)

Next == \/ \E o \in Orders : Hold(o)
        \/ \E r \in Requests, o \in Orders : Start(r, o)
        \/ \E r \in Requests : Advance(r)
        \/ Crash

Spec == Init /\ [][Next]_vars

(* Node runs what is ready and the portal clients have timeouts, so a      *)
(* request that is running takes its next step.                            *)
FairSpec == Spec /\ \A r \in Requests : WF_vars(Advance(r))

-----------------------------------------------------------------------------
TypeOK == /\ status \in [Orders -> Statuses]
          /\ approval \in [Orders -> Approvals]
          /\ portal \in [Orders -> Nat]
          /\ req \in [Requests -> Request \cup {Unused}]
          /\ upset \subseteq Orders

Held(o) == approval[o] \in {"PENDING_APPROVAL", "APPROVED", "REJECTED"}

(* A row that says CREATED, and a row that says APPROVED, always stand for *)
(* an order the portal really has, whatever fails or races: the recent     *)
(* orders list and the cart reconciliation rely on it.                     *)
RecordedWasSent ==
  \A o \in Orders : status[o] = "CREATED" \/ approval[o] = "APPROVED" => portal[o] > 0

(* An order held for approval reaches the portal only through a request of *)
(* someone who may approve (hold's message: "Hasta entonces no se manda al *)
(* proveedor").                                                            *)
HeldSentOnlyByApprover ==
  \A o \in Orders : Held(o) /\ portal[o] > 0 =>
    \E r \in Requests : req[r] # Unused /\ req[r].op = "approve" /\ req[r].order = o

(* A checkout that needed no approval is sent at most once, background     *)
(* retries, crashes and lost answers included, and nobody can approve or   *)
(* reject it later.                                                        *)
SubmittedAtMostOnce ==
  \A o \in Orders : ~Held(o) =>
    /\ portal[o] <= 1
    /\ \A r \in Requests : req[r] # Unused /\ req[r].order = o =>
         req[r].op \in {"checkout", "background"}

(* A PENDING row is being worked on, or a fault took its worker away: it   *)
(* is never left behind by the normal flow of the background draft.        *)
PendingHasWorker ==
  \A o \in Orders : status[o] = "PENDING" =>
    \E r \in Requests :
      /\ req[r] # Unused /\ req[r].op = "background" /\ req[r].order = o
      /\ InFlight(r) \/ o \in upset

(* Once an order is decided and no request about it is running, neither    *)
(* its row nor the portal moves again and no request about it can start.   *)
DecidedAndQuiet(o) == approval[o] \in {"APPROVED", "REJECTED"} /\ Quiet(o)
SettledStaysSettled ==
  [][\A o \in Orders : DecidedAndQuiet(o) =>
       /\ status'[o] = status[o]
       /\ approval'[o] = approval[o]
       /\ portal'[o] = portal[o]
       /\ Quiet(o)']_vars

(* An order that no fault touched and whose decisions were taken one at a  *)
(* time agrees with the portal whenever nothing runs about it, whatever    *)
(* happens to the others: rejected and waiting orders were not sent,       *)
(* approved ones were sent once, the rest as their status says.            *)
QuietRowsAgreeWithPortal ==
  \A o \in Orders \ upset : Quiet(o) =>
    CASE approval[o] = "APPROVED" -> status[o] = "CREATED" /\ portal[o] = 1
      [] approval[o] = "REJECTED" -> status[o] = "REJECTED" /\ portal[o] = 0
      [] approval[o] = "PENDING_APPROVAL" -> status[o] \in {"PENDING_APPROVAL", "FAILED"} /\ portal[o] = 0
      [] approval[o] = "NOT_REQUIRED" -> (status[o] = "CREATED" /\ portal[o] = 1)
                                         \/ (status[o] = "FAILED" /\ portal[o] = 0)
      [] OTHER -> portal[o] = 0

(* The result of a background draft appears in the history (the message    *)
(* of submitDraft): a PENDING row gets a final status, unless a fault took *)
(* its worker away.                                                        *)
PendingResolves == \A o \in Orders : status[o] = "PENDING" ~> status[o] # "PENDING" \/ o \in upset

(* docs/ARQUITECTURA_TENANTS.md: a rejected order is discarded, it is not  *)
(* at the distributor.  The code does not keep it: see the README.         *)
RejectedIsDiscarded == \A o \in Orders : approval[o] = "REJECTED" /\ Quiet(o) => portal[o] = 0
=============================================================================
