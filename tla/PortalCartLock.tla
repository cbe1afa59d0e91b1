--------------------------- MODULE PortalCartLock ---------------------------
(***************************************************************************)
(* withPortalCartLock (providers/portal-cart-lock.ts): one task at a time  *)
(* on the cart of a portal account, as a chain of promises in memory.      *)
(*                                                                         *)
(* A task is one call of withPortalCartLock.  Microtasks may run in any    *)
(* order the promises allow: a settled task cleans the map and lets the    *)
(* next one begin in either order.                                         *)
(***************************************************************************)
EXTENDS Naturals, FiniteSets

CONSTANTS Tasks, Accounts, NoTask

ASSUME NoTaskAssumption == NoTask \notin Tasks

VARIABLES
  tails,     \* account -> the last task of its chain, or NoTask
  previous,  \* task -> the task it waits for, or NoTask
  account,   \* task -> its account, once called
  phase,     \* idle, waiting, running, settled, or cleaned
  calls,     \* account -> how many calls it has had (history)
  turn       \* task -> its place among the calls of its account (history)

lockVars == <<tails, previous, account, phase, calls, turn>>

Phases == {"idle", "waiting", "running", "settled", "cleaned"}
Called(t) == phase[t] # "idle"
Settled(t) == phase[t] \in {"settled", "cleaned"}

LockInit == /\ tails = [a \in Accounts |-> NoTask]
            /\ previous = [t \in Tasks |-> NoTask]
            /\ account \in [Tasks -> Accounts]
            /\ phase = [t \in Tasks |-> "idle"]
            /\ calls = [a \in Accounts |-> 0]
            /\ turn = [t \in Tasks |-> 0]

(* Mutant of Call: the entry is replaced before it is read.                *)
CallAfterItself(t) ==
  LET a == account[t] IN
  /\ phase[t] = "idle"
  /\ previous' = [previous EXCEPT ![t] = t]
  /\ tails' = [tails EXCEPT ![a] = t]
  /\ phase' = [phase EXCEPT ![t] = "waiting"]
  /\ calls' = [calls EXCEPT ![a] = @ + 1]
  /\ turn' = [turn EXCEPT ![t] = calls[a] + 1]
  /\ UNCHANGED account

(* previous = tails.get(key); tails.set(key, tail): one synchronous step.  *)
Call(t) ==
  LET a == account[t] IN
  /\ phase[t] = "idle"
  /\ previous' = [previous EXCEPT ![t] = tails[a]]
  /\ tails' = [tails EXCEPT ![a] = t]
  /\ phase' = [phase EXCEPT ![t] = "waiting"]
  /\ calls' = [calls EXCEPT ![a] = @ + 1]
  /\ turn' = [turn EXCEPT ![t] = calls[a] + 1]
  /\ UNCHANGED account

(* Mutant of Begin: nobody waits.                                          *)
BeginAtOnce(t) ==
  /\ phase[t] = "waiting"
  /\ phase' = [phase EXCEPT ![t] = "running"]
  /\ UNCHANGED <<tails, previous, account, calls, turn>>

(* previous.catch(...).then(task): the result of the previous task does    *)
(* not matter, that it settled does.                                       *)
Begin(t) ==
  /\ phase[t] = "waiting"
  /\ previous[t] # NoTask => Settled(previous[t])
  /\ phase' = [phase EXCEPT ![t] = "running"]
  /\ UNCHANGED <<tails, previous, account, calls, turn>>

(* The task resolves or rejects.                                           *)
Finish(t) ==
  /\ phase[t] = "running"
  /\ phase' = [phase EXCEPT ![t] = "settled"]
  /\ UNCHANGED <<tails, previous, account, calls, turn>>

(* Mutants of Cleanup: the entry is deleted whoever owns it; the entry is  *)
(* never deleted.                                                          *)
CleanupAlways(t) ==
  /\ phase[t] = "settled"
  /\ phase' = [phase EXCEPT ![t] = "cleaned"]
  /\ tails' = [tails EXCEPT ![account[t]] = NoTask]
  /\ UNCHANGED <<previous, account, calls, turn>>
CleanupNever(t) ==
  /\ phase[t] = "settled"
  /\ phase' = [phase EXCEPT ![t] = "cleaned"]
  /\ UNCHANGED <<tails, previous, account, calls, turn>>

(* tail.then: the entry is deleted if no later call has replaced it.       *)
Cleanup(t) ==
  /\ phase[t] = "settled"
  /\ phase' = [phase EXCEPT ![t] = "cleaned"]
  /\ tails' = [tails EXCEPT ![account[t]] = IF @ = t THEN NoTask ELSE @]
  /\ UNCHANGED <<previous, account, calls, turn>>

LockStep(t) == Begin(t) \/ Finish(t) \/ Cleanup(t)
LockNext == \E t \in Tasks : Call(t) \/ LockStep(t)

LockSpec == LockInit /\ [][LockNext]_lockVars

(* The event loop runs what is ready, and a task is a finite series of     *)
(* calls with timeouts.                                                    *)
FairLockSpec == LockSpec /\ \A t \in Tasks : WF_lockVars(LockStep(t))

-----------------------------------------------------------------------------
LockTypeOK ==
  /\ tails \in [Accounts -> Tasks \cup {NoTask}]
  /\ previous \in [Tasks -> Tasks \cup {NoTask}]
  /\ account \in [Tasks -> Accounts]
  /\ phase \in [Tasks -> Phases]
  /\ calls \in [Accounts -> Nat]
  /\ turn \in [Tasks -> Nat]

(* Two tasks of one account never run at once.                             *)
MutualExclusion ==
  \A t1, t2 \in Tasks :
    phase[t1] = "running" /\ phase[t2] = "running" /\ account[t1] = account[t2] => t1 = t2

(* Tasks of an account run in the order of the calls: one that has begun   *)
(* has every earlier one behind it.                                        *)
CallOrder ==
  \A t1, t2 \in Tasks :
    /\ Called(t1) /\ phase[t2] \notin {"idle", "waiting"}
    /\ account[t1] = account[t2] /\ turn[t1] < turn[t2]
    => Settled(t1)

(* The map does not leak: an account with no live task has no entry.       *)
NoLeak ==
  \A a \in Accounts :
    (\A t \in Tasks : account[t] = a => phase[t] \in {"idle", "cleaned"}) => tails[a] = NoTask

(* The chain of promises is a ticket lock: the number of a call is its     *)
(* place among the calls of its account.                                   *)
SettledOf(a) == {t \in Tasks : account[t] = a /\ Settled(t)}
RunningTurn(a) ==
  IF \E t \in Tasks : account[t] = a /\ phase[t] = "running"
    THEN turn[CHOOSE t \in Tasks : account[t] = a /\ phase[t] = "running"]
    ELSE 0
Ticket == INSTANCE TicketLock WITH
            taken <- calls,
            served <- [a \in Accounts |-> Cardinality(SettledOf(a))],
            holder <- [a \in Accounts |-> RunningTurn(a)]
IsTicketLock == Ticket!Spec

(* Every call gets its turn, whatever happened to those before it.         *)
EveryCallRuns == \A t \in Tasks : phase[t] = "waiting" ~> phase[t] = "cleaned"
=============================================================================
