---------------------------- MODULE MCSmallParts ----------------------------
(* Three parts that share nothing and whose instances are small, for one   *)
(* run of TLC: the lock of the portal carts, the approval of orders and    *)
(* the subscription.  A behaviour is a behaviour of one of them; the       *)
(* variables of the other two stay at an initial value.                    *)
EXTENDS PortalCartLock, OrderApproval, Subscription

VARIABLE part

partsVars == <<part, lockVars, vars, subVars>>

OnlyFirst(S) == CHOOSE x \in S : TRUE

PartsInit ==
  /\ part \in {"lock", "approval", "subscription"}
  /\ LockInit /\ Init /\ SubInit
  /\ part = "lock" \/ account = [t \in Tasks |-> OnlyFirst(Accounts)]
  /\ part = "subscription" \/ row = NewTrial

PartsNext ==
  /\ UNCHANGED part
  /\ \/ part = "lock" /\ LockNext /\ UNCHANGED <<vars, subVars>>
     \/ part = "approval" /\ Next /\ UNCHANGED <<lockVars, subVars>>
     \/ part = "subscription" /\ SubNext /\ UNCHANGED <<lockVars, vars>>

(* The steps that the fairness of each part is about, as one: whatever     *)
(* goes on in a part, some step of it is taken.  It is less than what the  *)
(* part assumes, and enough.                                               *)
PartsWork ==
  /\ UNCHANGED part
  /\ \/ part = "lock" /\ (\E t \in Tasks : LockStep(t)) /\ UNCHANGED <<vars, subVars>>
     \/ part = "approval" /\ (\E r \in Requests : Advance(r)) /\ UNCHANGED <<lockVars, subVars>>
     \/ part = "subscription" /\ (\E j \in Replicas : JobStep(j)) /\ UNCHANGED <<lockVars, vars>>

PartsSpec == PartsInit /\ [][PartsNext]_partsVars /\ WF_partsVars(PartsWork)
=============================================================================
