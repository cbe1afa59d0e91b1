-------------------------- MODULE PortalCartProofs --------------------------
(* Proofs about PortalCartLock, PortalReconcile and PortalCart, for any    *)
(* tasks, accounts, products, quantities and faults.  Those about the      *)
(* tasks need that nobody changes the cart at the portal's web while one   *)
(* of them uses it.                                                        *)
EXTENDS MCPortalCart, FiniteSetTheorems, TLAPS

(* The lock.                                                               *)
(* The entry of an account is its last call, and without an entry the      *)
(* account has nothing left to wait for.                                   *)
TailsFit ==
  \A a \in Accounts :
    /\ tails[a] = NoTask => \A t \in Tasks : Called(t) /\ account[t] = a => Settled(t)
    /\ tails[a] # NoTask => /\ account[tails[a]] = a
                            /\ phase[tails[a]] \notin {"idle", "cleaned"}
                            /\ turn[tails[a]] = calls[a]

TurnsFit ==
  /\ \A t \in Tasks : Called(t) => turn[t] <= calls[account[t]]
  /\ \A t1, t2 \in Tasks :
       Called(t1) /\ Called(t2) /\ account[t1] = account[t2] /\ turn[t1] = turn[t2] => t1 = t2

(* A task waits for the call right before its own, or there was nobody     *)
(* left to wait for.                                                       *)
ChainFits ==
  \A t \in Tasks : Called(t) =>
    /\ previous[t] # NoTask => /\ account[previous[t]] = account[t]
                               /\ Called(previous[t])
                               /\ turn[t] = turn[previous[t]] + 1
    /\ previous[t] = NoTask =>
         \A u \in Tasks : Called(u) /\ account[u] = account[t] /\ turn[u] < turn[t] => Settled(u)

LInv == LockTypeOK /\ TailsFit /\ TurnsFit /\ ChainFits /\ CallOrder

(* The initial states satisfy the invariant.                               *)
LEMMA InitLInv == LockInit => LInv
BY NoTaskAssumption
   DEF LockInit, LInv, LockTypeOK, TailsFit, TurnsFit, ChainFits, CallOrder, Called, Settled, Phases

(* Every step keeps the invariant.                                         *)
LEMMA NextLInv == LInv /\ [LockNext]_lockVars => LInv'
<1> SUFFICES ASSUME LInv, [LockNext]_lockVars PROVE LInv'
  OBVIOUS
<1> USE NoTaskAssumption DEF LInv, LockTypeOK, Phases, Called, Settled
<1>1. ASSUME NEW t \in Tasks, Call(t) PROVE LInv'
  <2>1. LockTypeOK' BY <1>1 DEF Call
  <2>2. TailsFit' BY <1>1 DEF Call, TailsFit
  <2>3. TurnsFit' BY <1>1 DEF Call, TurnsFit
  <2>4. ChainFits' BY <1>1 DEF Call, TailsFit, TurnsFit, ChainFits
  <2>5. CallOrder' BY <1>1 DEF Call, TurnsFit, CallOrder
  <2> QED BY <2>1, <2>2, <2>3, <2>4, <2>5
<1>2. ASSUME NEW t \in Tasks, Begin(t) PROVE LInv'
  <2>1. LockTypeOK' BY <1>2 DEF Begin
  <2>2. TailsFit' BY <1>2 DEF Begin, TailsFit
  <2>3. TurnsFit' BY <1>2 DEF Begin, TurnsFit
  <2>4. ChainFits' BY <1>2 DEF Begin, ChainFits
  <2>5. \A u \in Tasks : Called(u) /\ account[u] = account[t] /\ turn[u] < turn[t] => Settled(u)
    <3>1. CASE previous[t] = NoTask
      BY <1>2, <3>1 DEF Begin, ChainFits
    <3>2. CASE previous[t] # NoTask
      <4>1. /\ previous[t] \in Tasks
            /\ Settled(previous[t])
            /\ account[previous[t]] = account[t]
            /\ turn[t] = turn[previous[t]] + 1
        BY <1>2, <3>2 DEF Begin, ChainFits
      <4>2. ASSUME NEW u \in Tasks, Called(u), account[u] = account[t], turn[u] < turn[t]
            PROVE Settled(u)
        <5>1. CASE turn[u] = turn[previous[t]]
          BY <4>1, <4>2, <5>1 DEF TurnsFit
        <5>2. CASE turn[u] < turn[previous[t]]
          BY <4>1, <4>2, <5>2 DEF CallOrder
        <5> QED BY <4>1, <4>2, <5>1, <5>2
      <4> QED BY <4>2
    <3> QED BY <3>1, <3>2
  <2>6. CallOrder' BY <1>2, <2>5 DEF Begin, CallOrder
  <2> QED BY <2>1, <2>2, <2>3, <2>4, <2>6
<1>3. ASSUME NEW t \in Tasks, Finish(t) PROVE LInv'
  <2>1. LockTypeOK' BY <1>3 DEF Finish
  <2>2. TailsFit' BY <1>3 DEF Finish, TailsFit
  <2>3. TurnsFit' BY <1>3 DEF Finish, TurnsFit
  <2>4. ChainFits' BY <1>3 DEF Finish, ChainFits
  <2>5. CallOrder' BY <1>3 DEF Finish, CallOrder
  <2> QED BY <2>1, <2>2, <2>3, <2>4, <2>5
<1>4. ASSUME NEW t \in Tasks, Cleanup(t) PROVE LInv'
  <2>1. LockTypeOK' BY <1>4 DEF Cleanup
  <2>2. ASSUME tails[account[t]] = t
        PROVE \A u \in Tasks : Called(u) /\ account[u] = account[t] => Settled(u)
    BY <1>4, <2>2 DEF Cleanup, TailsFit, TurnsFit, CallOrder
  <2>3. TailsFit' BY <1>4, <2>2 DEF Cleanup, TailsFit
  <2>4. TurnsFit' BY <1>4 DEF Cleanup, TurnsFit
  <2>5. ChainFits' BY <1>4 DEF Cleanup, ChainFits
  <2>6. CallOrder' BY <1>4 DEF Cleanup, CallOrder
  <2> QED BY <2>1, <2>3, <2>4, <2>5, <2>6
<1>5. CASE UNCHANGED lockVars
  BY <1>5 DEF lockVars, TailsFit, TurnsFit, ChainFits, CallOrder
<1> QED BY <1>1, <1>2, <1>3, <1>4, <1>5 DEF LockNext, LockStep

(* The invariant holds in every reachable state.                           *)
THEOREM LockInvariant == LockSpec => []LInv
BY InitLInv, NextLInv, PTL DEF LockSpec

(* Tasks of an account run in the order they were called.                  *)
THEOREM LockKeepsCallOrder == LockSpec => []CallOrder
<1>1. LInv => CallOrder BY DEF LInv
<1> QED BY LockInvariant, <1>1, PTL

(* Two tasks of an account never run at once.                              *)
THEOREM LockExcludes == LockSpec => []MutualExclusion
<1>1. LInv => MutualExclusion
  <2> SUFFICES ASSUME LInv, NEW t1 \in Tasks, NEW t2 \in Tasks,
                      phase[t1] = "running", phase[t2] = "running", account[t1] = account[t2]
               PROVE t1 = t2
    BY DEF MutualExclusion
  <2>1. CASE turn[t1] = turn[t2]
    BY <2>1 DEF LInv, TurnsFit, Called
  <2>2. CASE turn[t1] < turn[t2]
    BY <2>2 DEF LInv, CallOrder, Called, Settled
  <2>3. CASE turn[t2] < turn[t1]
    BY <2>3 DEF LInv, CallOrder, Called, Settled
  <2> QED BY <2>1, <2>2, <2>3 DEF LInv, LockTypeOK
<1> QED BY LockInvariant, <1>1, PTL

(* The map of tails does not leak.                                         *)
THEOREM LockDoesNotLeak == LockSpec => []NoLeak
<1>1. LInv => NoLeak
  BY NoTaskAssumption DEF LInv, LockTypeOK, TailsFit, NoLeak
<1> QED BY LockInvariant, <1>1, PTL

-----------------------------------------------------------------------------
(* How many calls of an account are behind.                                *)
Served(a) == Cardinality(SettledOf(a))

(* The settled calls of an account are the first ones, the one that runs   *)
(* is the next, and so is one that waits for nobody.                       *)
ServedInTurn ==
  \A a \in Accounts :
    /\ IsFiniteSet(SettledOf(a))
    /\ Served(a) <= calls[a]
    /\ tails[a] = NoTask => calls[a] = Served(a)
    /\ \A t \in Tasks : Called(t) /\ account[t] = a =>
         /\ Settled(t) <=> turn[t] <= Served(a)
         /\ phase[t] = "running" => turn[t] = Served(a) + 1
         /\ phase[t] = "waiting" /\ previous[t] = NoTask => turn[t] = Served(a) + 1

(* At first nobody is behind.                                              *)
LEMMA InitServed == LockInit => ServedInTurn
<1> SUFFICES ASSUME LockInit PROVE ServedInTurn
  OBVIOUS
<1>1. \A a \in Accounts : SettledOf(a) = {}
  BY DEF LockInit, SettledOf, Settled
<1> QED BY <1>1, FS_EmptySet DEF LockInit, ServedInTurn, Served, Called

(* Every step keeps the order.                                             *)
LEMMA NextServed == LInv /\ ServedInTurn /\ [LockNext]_lockVars => ServedInTurn'
<1> SUFFICES ASSUME LInv, ServedInTurn, [LockNext]_lockVars PROVE ServedInTurn'
  OBVIOUS
<1> USE NoTaskAssumption DEF LInv, LockTypeOK, Phases, Called, Settled
<1>n. \A a \in Accounts : Served(a) \in Nat
  BY FS_CardinalityType DEF ServedInTurn, Served
<1>1. ASSUME NEW t \in Tasks, Call(t) PROVE ServedInTurn'
  <2>1. \A a \in Accounts : SettledOf(a)' = SettledOf(a)
    BY <1>1 DEF Call, SettledOf
  <2>2. \A a \in Accounts : Served(a)' = Served(a)
    BY <2>1 DEF Served
  <2> QED BY <1>1, <1>n, <2>1, <2>2 DEF Call, ServedInTurn
<1>2. ASSUME NEW t \in Tasks, Begin(t) PROVE ServedInTurn'
  <2>1. \A a \in Accounts : SettledOf(a)' = SettledOf(a)
    BY <1>2 DEF Begin, SettledOf
  <2>2. \A a \in Accounts : Served(a)' = Served(a)
    BY <2>1 DEF Served
  <2>3. turn[t] = Served(account[t]) + 1
    <3>1. CASE previous[t] = NoTask
      BY <1>2, <3>1 DEF Begin, ServedInTurn
    <3>2. CASE previous[t] # NoTask
      BY <1>2, <1>n, <3>2 DEF Begin, ChainFits, ServedInTurn
    <3> QED BY <3>1, <3>2
  <2> QED BY <1>2, <1>n, <2>1, <2>2, <2>3 DEF Begin, ServedInTurn
<1>3. ASSUME NEW t \in Tasks, Finish(t) PROVE ServedInTurn'
  <2>0. PICK b \in Accounts : b = account[t]
    BY <1>3 DEF Finish
  <2>1. t \notin SettledOf(b) /\ turn[t] = Served(b) + 1
    BY <1>3, <2>0 DEF Finish, SettledOf, ServedInTurn
  <2>2. SettledOf(b)' = SettledOf(b) \cup {t}
    BY <1>3, <2>0 DEF Finish, SettledOf
  <2>3. \A a \in Accounts \ {b} : SettledOf(a)' = SettledOf(a)
    BY <1>3, <2>0 DEF Finish, SettledOf
  <2>4. IsFiniteSet(SettledOf(b)') /\ Served(b)' = Served(b) + 1
    BY <2>1, <2>2, FS_AddElement DEF ServedInTurn, Served
  <2>5. \A a \in Accounts \ {b} : Served(a)' = Served(a)
    BY <2>3 DEF Served
  <2>6. turn[t] <= calls[b] /\ tails[b] # NoTask
    BY <1>3, <2>0 DEF Finish, TurnsFit, TailsFit
  <2>7. \A u \in Tasks : Called(u) /\ account[u] = b /\ turn[u] = turn[t] => u = t
    BY <1>3, <2>0 DEF Finish, TurnsFit
  <2>8. \A u \in Tasks : Called(u) /\ account[u] = b /\ u # t =>
          /\ turn[u] # Served(b) + 1
          /\ phase[u] # "running"
          /\ phase[u] = "waiting" => previous[u] # NoTask
    BY <2>1, <2>7 DEF ServedInTurn
  <2>9. ASSUME NEW a \in Accounts, a # b
        PROVE  /\ IsFiniteSet(SettledOf(a)')
               /\ (Served(a) <= calls[a] /\ (tails[a] = NoTask => calls[a] = Served(a)))'
               /\ \A u \in Tasks : (Called(u) /\ account[u] = a =>
                     /\ Settled(u) <=> turn[u] <= Served(a)
                     /\ phase[u] = "running" => turn[u] = Served(a) + 1
                     /\ phase[u] = "waiting" /\ previous[u] = NoTask => turn[u] = Served(a) + 1)'
    BY <1>3, <2>3, <2>5, <2>9, <2>0 DEF Finish, ServedInTurn
  <2>10. /\ (Served(b) <= calls[b] /\ (tails[b] = NoTask => calls[b] = Served(b)))'
         /\ \A u \in Tasks : (Called(u) /\ account[u] = b =>
               /\ Settled(u) <=> turn[u] <= Served(b)
               /\ phase[u] = "running" => turn[u] = Served(b) + 1
               /\ phase[u] = "waiting" /\ previous[u] = NoTask => turn[u] = Served(b) + 1)'
    BY <1>3, <1>n, <2>1, <2>4, <2>6, <2>8, <2>0 DEF Finish, ServedInTurn
  <2> QED BY <2>1, <2>4, <2>9, <2>10 DEF ServedInTurn
<1>4. ASSUME NEW t \in Tasks, Cleanup(t) PROVE ServedInTurn'
  <2>1. \A a \in Accounts : SettledOf(a)' = SettledOf(a)
    BY <1>4 DEF Cleanup, SettledOf
  <2>2. \A a \in Accounts : Served(a)' = Served(a)
    BY <2>1 DEF Served
  <2>3. tails[account[t]] = t => calls[account[t]] = Served(account[t])
    BY <1>4, <1>n DEF Cleanup, TailsFit, ServedInTurn
  <2> QED BY <1>4, <1>n, <2>1, <2>2, <2>3 DEF Cleanup, ServedInTurn
<1>5. ASSUME UNCHANGED lockVars PROVE ServedInTurn'
  <2>1. \A a \in Accounts : SettledOf(a)' = SettledOf(a)
    BY <1>5 DEF lockVars, SettledOf
  <2>2. \A a \in Accounts : Served(a)' = Served(a)
    BY <2>1 DEF Served
  <2> QED BY <1>5, <2>1, <2>2 DEF lockVars, ServedInTurn
<1> QED BY <1>1, <1>2, <1>3, <1>4, <1>5 DEF LockNext, LockStep

(* Whoever runs holds the number after those that are behind.              *)
HolderIsNext ==
  \A a \in Accounts :
    RunningTurn(a) = IF \E t \in Tasks : account[t] = a /\ phase[t] = "running" THEN Served(a) + 1 ELSE 0

LEMMA ServedInTurnHolder == ServedInTurn => HolderIsNext
<1> SUFFICES ASSUME ServedInTurn, NEW a \in Accounts
             PROVE  RunningTurn(a) = IF \E t \in Tasks : account[t] = a /\ phase[t] = "running"
                                       THEN Served(a) + 1 ELSE 0
  BY DEF HolderIsNext
<1>1. CASE \E t \in Tasks : account[t] = a /\ phase[t] = "running"
  <2> DEFINE runs == CHOOSE t \in Tasks : account[t] = a /\ phase[t] = "running"
  <2>1. runs \in Tasks /\ account[runs] = a /\ phase[runs] = "running"
    BY <1>1
  <2>2. turn[runs] = Served(a) + 1
    BY <2>1 DEF ServedInTurn, Called
  <2> QED BY <1>1, <2>2 DEF RunningTurn
<1> QED BY <1>1 DEF RunningTurn

(* Each step of the chain is a step of the ticket lock, or changes nothing *)
(* that it sees.                                                           *)
LEMMA LockStepsAreTickets ==
  LInv /\ ServedInTurn /\ HolderIsNext /\ (LInv /\ ServedInTurn /\ HolderIsNext)' /\ [LockNext]_lockVars
    => [Ticket!Next]_(Ticket!ticketVars)
<1> SUFFICES ASSUME LInv, ServedInTurn, HolderIsNext, LInv', ServedInTurn', HolderIsNext', [LockNext]_lockVars
             PROVE  [Ticket!Next]_(Ticket!ticketVars)
  OBVIOUS
<1> USE DEF Ticket!Next, Ticket!ticketVars
<1>t. /\ account \in [Tasks -> Accounts] /\ phase \in [Tasks -> Phases] /\ calls \in [Accounts -> Nat]
      /\ phase' \in [Tasks -> Phases]
  BY DEF LInv, LockTypeOK
<1>n. \A a \in Accounts : Served(a) \in Nat
  BY FS_CardinalityType DEF ServedInTurn, Served
<1>h. \A a \in Accounts : RunningTurn(a) = IF \E t \in Tasks : account[t] = a /\ phase[t] = "running"
                                             THEN Served(a) + 1 ELSE 0
  BY DEF HolderIsNext
<1>i. \A a \in Accounts : RunningTurn(a)' = IF \E t \in Tasks : account'[t] = a /\ phase'[t] = "running"
                                              THEN Served(a)' + 1 ELSE 0
  BY DEF HolderIsNext
<1>1. ASSUME NEW t \in Tasks, Call(t) PROVE Ticket!Next
  <2>1. \A a \in Accounts : SettledOf(a)' = SettledOf(a) /\ Served(a)' = Served(a)
    BY <1>1, <1>t DEF Call, SettledOf, Settled, Served
  <2>2. \A a \in Accounts : RunningTurn(a)' = RunningTurn(a)
    BY <1>1, <1>t, <1>h, <1>i, <2>1 DEF Call
  <2>3. Ticket!Take(account[t])
    BY <1>1, <1>t, <2>1, <2>2 DEF Call, Ticket!Take, Served
  <2> QED BY <1>t, <2>3
<1>2. ASSUME NEW t \in Tasks, Begin(t) PROVE Ticket!Next
  <2>0. PICK a \in Accounts : a = account[t]
    BY <1>t
  <2>1. \A b \in Accounts : SettledOf(b)' = SettledOf(b) /\ Served(b)' = Served(b)
    BY <1>2, <1>t DEF Begin, SettledOf, Settled, Served
  <2>2. /\ account'[t] = a /\ phase'[t] = "running" /\ Called(t)'
        /\ turn'[t] = turn[t] /\ calls' = calls
    BY <1>2, <2>0, <1>t DEF Begin, Called
  <2>3. turn[t] = Served(a) + 1 /\ Served(a) < calls[a]
    <3>1. turn[t] = Served(a) + 1
      BY <2>1, <2>2 DEF ServedInTurn
    <3>2. turn[t] <= calls[a]
      BY <1>2, <2>0 DEF Begin, LInv, TurnsFit, Called
    <3> QED BY <3>1, <3>2, <1>n, <1>t
  <2>4. \A u \in Tasks : account[u] = a => phase[u] # "running"
    <3> SUFFICES ASSUME NEW u \in Tasks, account[u] = a, phase[u] = "running" PROVE FALSE
      OBVIOUS
    <3>1. turn[u] = turn[t]
      BY <2>3 DEF ServedInTurn, Called
    <3>2. u = t
      BY <3>1, <1>2, <2>0 DEF Begin, LInv, TurnsFit, Called
    <3> QED BY <3>2, <1>2 DEF Begin
  <2>5. RunningTurn(a) = 0 /\ RunningTurn(a)' = Served(a) + 1
    BY <1>h, <1>i, <2>1, <2>2, <2>4
  <2>6. \A b \in Accounts \ {a} : RunningTurn(b)' = RunningTurn(b)
    BY <1>2, <1>t, <2>0, <1>h, <1>i, <2>1 DEF Begin
  <2>7. Ticket!Enter(a)
    BY <2>1, <2>2, <2>3, <2>5, <2>6 DEF Ticket!Enter, Served
  <2> QED BY <2>7
<1>3. ASSUME NEW t \in Tasks, Finish(t) PROVE Ticket!Next
  <2>0. PICK a \in Accounts : a = account[t]
    BY <1>t
  <2>1. t \notin SettledOf(a) /\ SettledOf(a)' = SettledOf(a) \cup {t}
    BY <1>3, <1>t, <2>0 DEF Finish, SettledOf, Settled
  <2>2. Served(a)' = Served(a) + 1
    BY <2>1, FS_AddElement DEF ServedInTurn, Served
  <2>3. \A b \in Accounts \ {a} : SettledOf(b)' = SettledOf(b) /\ Served(b)' = Served(b)
    BY <1>3, <1>t, <2>0 DEF Finish, SettledOf, Settled, Served
  <2>4. \A u \in Tasks : account[u] = a => phase'[u] # "running"
    <3> SUFFICES ASSUME NEW u \in Tasks, account[u] = a, phase'[u] = "running" PROVE FALSE
      OBVIOUS
    <3>1. u # t /\ phase[u] = "running"
      BY <1>3, <1>t DEF Finish
    <3>2. turn[u] = turn[t]
      BY <1>3, <3>1, <2>0 DEF Finish, ServedInTurn, Called
    <3> QED BY <1>3, <3>1, <3>2, <2>0 DEF Finish, LInv, TurnsFit, Called
  <2>5. RunningTurn(a) = Served(a) + 1 /\ RunningTurn(a)' = 0
    BY <1>3, <2>0, <1>h, <1>i, <2>4 DEF Finish
  <2>6. \A b \in Accounts \ {a} : RunningTurn(b)' = RunningTurn(b)
    BY <1>3, <1>t, <2>0, <1>h, <1>i, <2>3 DEF Finish
  <2>7. [b \in Accounts |-> RunningTurn(b)]' = [[b \in Accounts |-> RunningTurn(b)] EXCEPT ![a] = 0]
    BY <2>5, <2>6
  <2>8. [b \in Accounts |-> Cardinality(SettledOf(b))]'
          = [[b \in Accounts |-> Cardinality(SettledOf(b))] EXCEPT ![a] = @ + 1]
    BY <2>2, <2>3 DEF Served
  <2>9. RunningTurn(a) # 0 /\ calls' = calls
    BY <1>3, <1>n, <2>5 DEF Finish
  <2>10. Ticket!Leave(a)
    BY <2>7, <2>8, <2>9 DEF Ticket!Leave
  <2> QED BY <2>10
<1>4. ASSUME (\E t \in Tasks : Cleanup(t)) \/ UNCHANGED lockVars PROVE UNCHANGED Ticket!ticketVars
  <2>1. calls' = calls /\ account' = account
    BY <1>4 DEF Cleanup, lockVars
  <2>2. \A u \in Tasks : (phase'[u] = "running" <=> phase[u] = "running") /\ (Settled(u)' <=> Settled(u))
    BY <1>4, <1>t DEF Cleanup, lockVars, Settled
  <2>3. \A a \in Accounts : SettledOf(a)' = SettledOf(a) /\ Served(a)' = Served(a)
    BY <2>1, <2>2 DEF SettledOf, Served
  <2>4. \A a \in Accounts : RunningTurn(a)' = RunningTurn(a)
    BY <1>h, <1>i, <2>1, <2>2, <2>3
  <2> QED BY <2>1, <2>3, <2>4 DEF Served
<1> QED BY <1>1, <1>2, <1>3, <1>4 DEF LockNext, LockStep

(* withPortalCartLock is a ticket lock: the tasks of an account are served *)
(* one at a time, in the order of the calls, and nobody is skipped.        *)
THEOREM LockIsTicketLock == LockSpec => IsTicketLock
<1>1. LockInit => Ticket!Init
  <2> SUFFICES ASSUME LockInit PROVE Ticket!Init
    OBVIOUS
  <2>1. \A a \in Accounts : SettledOf(a) = {} /\ RunningTurn(a) = 0
    BY DEF LockInit, SettledOf, Settled, RunningTurn
  <2> QED BY <2>1, FS_EmptySet DEF LockInit, Ticket!Init
<1>2. LockSpec => []ServedInTurn
  BY InitServed, NextServed, LockInvariant, PTL DEF LockSpec
<1> QED BY <1>1, <1>2, ServedInTurnHolder, LockStepsAreTickets, LockInvariant, PTL
        DEF LockSpec, IsTicketLock, Ticket!Spec

(* The reconciliation of carts.                                            *)
Snapshots == Carts \cup {NoSnapshot}

(* NODO's cart wins and is exactly the next snapshot.                      *)
THEOREM NodoAlwaysWins ==
  ASSUME NEW nodo \in Carts, NEW portal \in Carts, NEW last \in Snapshots, NEW opts \in Options
  PROVE  NodoWins(nodo, portal, last, opts)
BY DEF NodoWins, Merged, NextSnapshot, Without, LinesOf, AddedInPortal, Carts

(* A portal line vanishes only when dropped or deleted in NODO.            *)
THEOREM PortalLinesNeverVanish ==
  ASSUME NEW nodo \in Carts, NEW portal \in Carts, NEW last \in Snapshots, NEW opts \in Options
  PROVE  NothingVanishes(nodo, portal, last, opts)
BY DEF NothingVanishes, Merged, Without, LinesOf, AddedInPortal, Carts

(* A second verification with nothing changed is quiet.                    *)
THEOREM SecondVerificationQuiet ==
  ASSUME NEW nodo \in Carts, NEW portal \in Carts, NEW last \in Snapshots, NEW opts \in Options
  PROVE  SecondVerificationIsQuiet(nodo, portal, last, opts)
<1> DEFINE added == AddedInPortal(nodo, portal, last, opts)
           loaded == Merged(nodo, portal, last, opts)
           saved == NextSnapshot(loaded, added)
           again == [opts EXCEPT !.drop = {}]
<1>1. saved = nodo
  <2>1. NodoWins(nodo, portal, last, opts)
    BY NodoAlwaysWins
  <2> QED BY <2>1 DEF NodoWins
<1>2. /\ loaded \in Carts
      /\ LinesOf(loaded) = LinesOf(nodo) \cup added
      /\ LinesOf(nodo) \cap added = {}
      /\ \A c \in LinesOf(nodo) : loaded[c] = nodo[c]
  <2>1. \A c \in added : c \in Codes /\ portal[c] > 0 /\ nodo[c] = 0
    BY DEF AddedInPortal, LinesOf, Without, Carts
  <2>2. loaded = [c \in Codes |-> IF nodo[c] > 0 THEN nodo[c]
                                  ELSE IF c \in added THEN portal[c] ELSE 0]
    BY DEF Merged
  <2> HIDE DEF added, loaded
  <2>3. /\ loaded \in Carts
        /\ \A c \in LinesOf(nodo) : loaded[c] = nodo[c]
    BY <2>2 DEF LinesOf, Carts
  <2>4. LinesOf(nodo) \cap added = {}
    BY <2>1 DEF LinesOf, Carts
  <2>5. LinesOf(loaded) = LinesOf(nodo) \cup added
    <3>1. ASSUME NEW c \in Codes
          PROVE  loaded[c] > 0 <=> (nodo[c] > 0 \/ c \in added)
      <4>1. nodo[c] \in Nat /\ portal[c] \in Nat
        BY DEF Carts
      <4>2. loaded[c] = IF nodo[c] > 0 THEN nodo[c]
                        ELSE IF c \in added THEN portal[c] ELSE 0
        BY <2>2
      <4>3. c \in added => portal[c] > 0
        BY <2>1
      <4> QED BY <4>1, <4>2, <4>3
    <3>2. LinesOf(nodo) \cup added \subseteq Codes
      BY <2>1 DEF LinesOf
    <3> QED BY <3>1, <3>2 DEF LinesOf
  <2> QED BY <2>3, <2>4, <2>5
<1>3. /\ again.drop = {}
      /\ Without(loaded, again.drop) = loaded
  BY <1>2 DEF Options, Without, Carts
<1>4. \A c \in Codes : InSnapshot(saved, c) <=> nodo[c] > 0
  BY <1>1, NoSnapshotAssumption DEF InSnapshot, Carts
<1> HIDE DEF added, loaded, saved, again
<1>5. AddedInPortal(nodo, loaded, saved, again) = added
  BY <1>2, <1>3, <1>4 DEF AddedInPortal, LinesOf
<1>6. Merged(nodo, loaded, saved, again) = loaded
  BY <1>2, <1>5 DEF Merged, LinesOf, Carts
<1>7. KeptNodoQty(nodo, loaded, saved, again) = {}
  BY <1>2, <1>3 DEF KeptNodoQty
<1>8. RestoredInPortal(nodo, loaded, saved, again) = {}
  BY <1>2, <1>3 DEF RestoredInPortal
<1> QED BY <1>5, <1>6, <1>7, <1>8
        DEF SecondVerificationIsQuiet, added, loaded, saved, again

(* The carts of the tasks are carts.                                       *)
LEMMA SmallCartsAreCarts == SmallCarts \subseteq Carts
BY PortalCartAssumption DEF SmallCarts, Carts

(* For the carts of the runs too.                                          *)
THEOREM RunsLoseNoLine == Spec => []NeverVanishes
<1>1. NeverVanishes
  BY SmallCartsAreCarts, PortalLinesNeverVanish DEF NeverVanishes, ForEverySmallInput, Snapshots
<1> QED BY <1>1, PTL

(* And so is a second verification.                                        *)
THEOREM RunsAreQuietAgain == Spec => []AlwaysQuietAgain
<1>1. AlwaysQuietAgain
  BY SmallCartsAreCarts, SecondVerificationQuiet DEF AlwaysQuietAgain, ForEverySmallInput, Snapshots
<1> QED BY <1>1, PTL

-----------------------------------------------------------------------------
Origins == {"nobody", "nodo", "merchant"}
Steps == {"read", "load", "clear", "add", "save", "check", "process", "forget", "done"}
Jobs ==
  {j \in [op : {"verify", "quote", "fulfill"}, nodo : SmallCarts, drop : SUBSET Codes,
          warehouse : Warehouses \cup {NoWarehouse}, step : Steps, target : SmallCarts, seen : SmallCarts,
          rows : SUBSET (Codes \X Warehouses), whose : [Codes -> Origins], added : SUBSET Codes,
          todo : SUBSET Codes, missing : SUBSET Codes, pass : {1, 2}, saved : BOOLEAN] :
     /\ j.op = "fulfill" => j.warehouse \in Warehouses
     /\ j.op # "verify" => j.target = j.nodo}

(* The carts of the portal, the codes they hold and the rows they have.    *)
PortalCarts == [Codes -> [Warehouses -> 0..MaxQty]]
Held(loaded) == {c \in Codes : loaded[c] # Nowhere}
RowsOf(loaded) == {r \in Codes \X Warehouses : loaded[r[1]][r[2]] > 0}

(* The units of a line that was asked for once; and the line if it is      *)
(* whole in one warehouse.                                                 *)
Fits(units, asked) ==
  /\ \A w \in Warehouses : units[w] <= asked
  /\ \A w, v \in Warehouses : w # v => units[w] + units[v] <= asked
Whole(units, asked) ==
  /\ \A w \in Warehouses : units[w] \in {0, asked}
  /\ \A w, v \in Warehouses : w # v => units[w] = 0 \/ units[v] = 0

(* A task has a job from its call to its end, and has done nothing before  *)
(* it runs.                                                                *)
Untried(j) == j.step = "read" /\ j.pass = 1 /\ j.added = {} /\ j.missing = {} /\ ~j.saved
JobsFit ==
  /\ job \in [Tasks -> Jobs \cup {NoJob}]
  /\ \A t \in Tasks :
       /\ phase[t] = "running" => job[t] \in Jobs
       /\ phase[t] = "waiting" => job[t] \in Jobs /\ Untried(job[t])
       /\ phase[t] \in {"idle", "settled", "cleaned"} => job[t] = NoJob

(* What the task that runs knows of the account's cart at each step; what  *)
(* it ordered is all there was, unless some of it stayed.                  *)
Known(j, loaded, by, loose) ==
  /\ j.step \in {"read", "load", "clear"} => j.missing = {}
  /\ j.step = "read" /\ j.pass = 1 => j.added = {}
  /\ j.pass = 2 \/ j.step \in {"check", "process"} => j.op = "fulfill"
  /\ j.step = "load" => /\ LinesOf(j.seen) = Held(loaded)
                        /\ j.rows = RowsOf(loaded) /\ j.whose = by /\ j.op = "verify"
  /\ j.step = "clear" => j.rows = RowsOf(loaded)
  /\ j.step = "add" => /\ j.todo \subseteq LinesOf(j.target) /\ j.missing \subseteq LinesOf(j.target)
                       /\ j.todo \cap j.missing = {}
                       /\ Held(loaded) = LinesOf(j.target) \ (j.todo \cup j.missing)
  /\ j.step = "save" => Held(loaded) = LinesOf(j.target) \ j.missing
  /\ j.step = "check" => Held(loaded) = LinesOf(j.target)
  /\ j.step \in {"add", "save", "check"} =>
       \A c \in Held(loaded) : /\ Fits(loaded[c], j.target[c])
                               /\ by[c] = IF c \in j.added THEN "merchant" ELSE "nodo"
  /\ j.step = "process" => /\ Held(loaded) = LinesOf(j.nodo)
                           /\ \A c \in Codes : Whole(loaded[c], j.nodo[c])
  /\ j.step = "forget" => loose \/ Held(loaded) = {}
  /\ j.saved => j.step = "done"
RunnerKnows == \A t \in Tasks : Running(t) => Known(job[t], cart, origin, unsaved)

(* Between tasks that wrote the snapshot, a line of the cart that NODO put *)
(* there is in the snapshot.                                               *)
Untouched(j) == (j.step = "read" /\ j.pass = 1) \/ j.step = "load" \/ j.saved
Remembers(saved, loaded, by) == \A c \in Held(loaded) : by[c] = "nodo" => InSnapshot(saved, c)
SnapshotKnows ==
  ~unsaved /\ (\A t \in Tasks : Running(t) => Untouched(job[t])) => Remembers(snapshot, cart, origin)

LinesHaveOrigin == \A c \in Codes : c \in Held(cart) <=> origin[c] # "nobody"

TypeOK == CartTypeOK /\ JobsFit
CInv == TypeOK /\ RunnerKnows /\ SnapshotKnows /\ LinesHaveOrigin /\ SentIsRequested /\ AddedWasAdded

-----------------------------------------------------------------------------
(* The operators keep their types.                                         *)
LEMMA CartOperators ==
  ASSUME NEW nodo \in SmallCarts, NEW seen \in SmallCarts, NEW saved \in SmallCarts \cup {NoSnapshot},
         NEW opts \in Options, NEW drop \in SUBSET Codes
  PROVE  /\ SmallCarts \subseteq Carts /\ Empty \in SmallCarts
         /\ Merged(nodo, seen, saved, opts) \in SmallCarts
         /\ AddedInPortal(nodo, seen, saved, opts) \in SUBSET Codes
         /\ Without(nodo, drop) \in SmallCarts
         /\ LinesOf(nodo) \in SUBSET Codes
<1>1. SmallCarts \subseteq Carts /\ Empty \in SmallCarts
  BY PortalCartAssumption DEF SmallCarts, Carts, Empty
<1>2. AddedInPortal(nodo, seen, saved, opts) \in SUBSET Codes /\ LinesOf(nodo) \in SUBSET Codes
  BY DEF AddedInPortal, LinesOf
<1>3. Merged(nodo, seen, saved, opts) \in SmallCarts
  BY PortalCartAssumption DEF Merged, SmallCarts
<1>4. Without(nodo, drop) \in SmallCarts
  BY PortalCartAssumption DEF Without, SmallCarts
<1> QED BY <1>1, <1>2, <1>3, <1>4

(* A code is held when it has a row.                                       *)
LEMMA HeldHasRow ==
  ASSUME NEW loaded \in PortalCarts
  PROVE  /\ \A c \in Codes : c \in Held(loaded) <=> \E w \in Warehouses : loaded[c][w] > 0
         /\ \A c \in Codes, w \in Warehouses : c \notin Held(loaded) => loaded[c][w] = 0
         /\ RowsOf(loaded) = {} => Held(loaded) = {}
<1>1. \A c \in Codes : loaded[c] \in [Warehouses -> 0..MaxQty]
  BY DEF PortalCarts
<1>2. ASSUME NEW c \in Codes PROVE loaded[c] # Nowhere <=> \E w \in Warehouses : loaded[c][w] > 0
  <2>1. (\A w \in Warehouses : loaded[c][w] = 0) => loaded[c] = Nowhere
    BY <1>1 DEF Nowhere
  <2>2. \A w \in Warehouses : loaded[c][w] \in 0..MaxQty
    BY <1>1
  <2>3. loaded[c] = Nowhere => \A w \in Warehouses : loaded[c][w] = 0
    BY DEF Nowhere
  <2> QED BY <2>1, <2>2, <2>3, PortalCartAssumption
<1>3. \A c \in Codes : c \in Held(loaded) <=> \E w \in Warehouses : loaded[c][w] > 0
  BY <1>2 DEF Held
<1>4. \A c \in Codes, w \in Warehouses : c \notin Held(loaded) => loaded[c][w] = 0
  BY DEF Held, Nowhere
<1>5. RowsOf(loaded) = {} => Held(loaded) = {}
  <2> SUFFICES ASSUME RowsOf(loaded) = {}, NEW c \in Codes, c \in Held(loaded) PROVE FALSE
    BY DEF Held
  <2>1. PICK w \in Warehouses : loaded[c][w] > 0
    BY <1>3
  <2>2. <<c, w>> \in RowsOf(loaded)
    BY <2>1 DEF RowsOf
  <2> QED BY <2>2
<1> QED BY <1>3, <1>4, <1>5

(* A reading tells the codes that the portal holds.                        *)
LEMMA ReadingsTellHeld ==
  ASSUME cart \in PortalCarts, NEW lines \in Readings
  PROVE  lines \in SmallCarts /\ LinesOf(lines) = Held(cart)
<1>1. lines \in SmallCarts
  BY DEF Readings
<1>2. ASSUME NEW c \in Codes PROVE lines[c] > 0 <=> cart[c] # Nowhere
  <2>1. CASE cart[c] = Nowhere
    BY <2>1 DEF Readings
  <2>2. CASE cart[c] # Nowhere
    <3>1. PICK w \in Warehouses : cart[c][w] > 0 /\ lines[c] = cart[c][w]
      BY <2>2 DEF Readings
    <3> QED BY <2>2, <3>1
  <2> QED BY <2>1, <2>2
<1> QED BY <1>1, <1>2 DEF LinesOf, Held

LEMMA ClearingIsJob ==
  ASSUME NEW j \in Jobs, NEW rows \in SUBSET (Codes \X Warehouses)
  PROVE  /\ Clearing(j, rows) \in Jobs
         /\ IF rows = {} THEN Clearing(j, rows).step = "add" /\ Clearing(j, rows).todo = LinesOf(j.target)
                         ELSE Clearing(j, rows).step = "clear" /\ Clearing(j, rows).rows = rows
         /\ Clearing(j, rows).added = j.added /\ Clearing(j, rows).whose = j.whose
         /\ Clearing(j, rows).missing = j.missing /\ Clearing(j, rows).saved = j.saved
         /\ Clearing(j, rows).target = j.target /\ Clearing(j, rows).pass = j.pass
         /\ Clearing(j, rows).op = j.op /\ Clearing(j, rows).nodo = j.nodo
<1>1. LinesOf(j.target) \in SUBSET Codes
  BY DEF LinesOf
<1>2. CASE rows = {}
  BY <1>1, <1>2 DEF Clearing, Jobs, Steps
<1>3. CASE rows # {}
  BY <1>3 DEF Clearing, Jobs, Steps
<1> QED BY <1>2, <1>3

(* A running task is the only one that runs.                               *)
LEMMA RunsAlone ==
  ASSUME TypeOK, MutualExclusion, NEW t \in Tasks, Running(t)
  PROVE  \A u \in Tasks \ {t} : ~Running(u)
BY OneAccountAssumption DEF TypeOK, CartTypeOK, LockTypeOK, MutualExclusion, Running

(* A step of the task that runs: what it knows afterwards is all there is  *)
(* to show.                                                                *)
LEMMA RunnerSteps ==
  ASSUME CInv, MutualExclusion, NEW t \in Tasks, Running(t), NEW j \in Jobs,
         UNCHANGED lockVars, unsaved => unsaved', job' = [job EXCEPT ![t] = j],
         Known(j, cart', origin', unsaved'),
         ~unsaved => \A c \in j.added : j.whose[c] = "merchant",
         ~unsaved' /\ Untouched(j) => Remembers(snapshot', cart', origin')
  PROVE  JobsFit' /\ RunnerKnows' /\ SnapshotKnows' /\ AddedWasAdded'
<1> USE DEF CInv, TypeOK
<1>1. \A u \in Tasks \ {t} : ~Running(u)
  BY RunsAlone
<1>2. job'[t] = j /\ \A u \in Tasks \ {t} : job'[u] = job[u]
  BY DEF JobsFit
<1>3. phase' = phase
  BY DEF lockVars
<1>4. JobsFit'
  BY <1>2, <1>3 DEF JobsFit, Running
<1>5. RunnerKnows'
  BY <1>1, <1>2, <1>3 DEF RunnerKnows, Running
<1>6. SnapshotKnows'
  BY <1>2, <1>3 DEF SnapshotKnows, Running
<1>7. AddedWasAdded'
  BY <1>2 DEF AddedWasAdded
<1> QED BY <1>4, <1>5, <1>6, <1>7

(* The same for a step that leaves the cart and the snapshot alone.        *)
LEMMA RunnerThinks ==
  ASSUME CInv, MutualExclusion, NEW t \in Tasks, Running(t), NEW j \in Jobs,
         Doing(t, j), UNCHANGED cartVars,
         Known(j, cart, origin, unsaved),
         ~unsaved => \A c \in j.added : j.whose[c] = "merchant",
         Untouched(j) => Untouched(job[t])
  PROVE  CInv'
<1> USE DEF cartVars, Doing
<1>1. Known(j, cart', origin', unsaved')
  OBVIOUS
<1>2. ~unsaved' /\ Untouched(j) => Remembers(snapshot', cart', origin')
  BY RunsAlone DEF CInv, SnapshotKnows
<1>3. JobsFit' /\ RunnerKnows' /\ SnapshotKnows' /\ AddedWasAdded'
  BY <1>1, <1>2, RunnerSteps
<1>4. CartTypeOK' /\ LinesHaveOrigin' /\ SentIsRequested'
  BY DEF CInv, TypeOK, CartTypeOK, LockTypeOK, lockVars, LinesHaveOrigin, SentIsRequested
<1> QED BY <1>3, <1>4 DEF CInv, TypeOK

(* What is known of the job of the task that runs.                         *)
LEMMA RunnerHasJob ==
  ASSUME CInv, NEW t \in Tasks, Running(t)
  PROVE  /\ job[t] \in Jobs /\ job[t] # NoJob
         /\ Known(job[t], cart, origin, unsaved)
         /\ ~unsaved => \A c \in job[t].added : job[t].whose[c] = "merchant"
         /\ cart \in PortalCarts /\ origin \in [Codes -> Origins]
BY DEF CInv, TypeOK, CartTypeOK, JobsFit, RunnerKnows, AddedWasAdded, Running, Jobs, NoJob, PortalCarts, Origins

(* After the cart is read, the task knows what it is about to clear.       *)
LEMMA ClearingKnows ==
  ASSUME NEW j \in Jobs, NEW loaded \in PortalCarts, NEW by \in [Codes -> Origins], NEW loose \in BOOLEAN,
         j.missing = {}, ~j.saved, j.pass = 2 => j.op = "fulfill"
  PROVE  /\ Known(Clearing(j, RowsOf(loaded)), loaded, by, loose)
         /\ ~Untouched(Clearing(j, RowsOf(loaded)))
<1> DEFINE k == Clearing(j, RowsOf(loaded))
<1>0. RowsOf(loaded) \in SUBSET (Codes \X Warehouses)
  BY DEF RowsOf
<1>1. /\ IF RowsOf(loaded) = {} THEN k.step = "add" /\ k.todo = LinesOf(j.target)
                                ELSE k.step = "clear" /\ k.rows = RowsOf(loaded)
      /\ k.missing = {} /\ ~k.saved /\ k.target = j.target /\ k.pass = j.pass /\ k.op = j.op
  BY <1>0, ClearingIsJob
<1>2. RowsOf(loaded) = {} => Held(loaded) = {}
  BY HeldHasRow
<1> HIDE DEF k
<1>3. Known(k, loaded, by, loose) /\ ~Untouched(k)
  BY <1>1, <1>2 DEF Known, Untouched
<1> QED BY <1>3 DEF k

LEMMA ReadCartKeeps == ASSUME CInv, MutualExclusion, NEW t \in Tasks, ReadCart(t) PROVE CInv'
<1> DEFINE j == job[t]
<1>1. /\ Running(t) /\ j \in Jobs /\ j.step = "read" /\ Known(j, cart, origin, unsaved)
      /\ ~unsaved => \A c \in j.added : j.whose[c] = "merchant"
      /\ cart \in PortalCarts /\ origin \in [Codes -> Origins]
  BY RunnerHasJob DEF ReadCart, At, Running
<1>2. j.missing = {} /\ ~j.saved /\ (j.pass = 2 => j.op = "fulfill") /\ (j.pass = 1 => j.added = {})
  BY <1>1 DEF Known
<1>3. CASE j.op = "verify"
  <2>0. PICK lines \in Readings :
          Doing(t, [j EXCEPT !.step = "load", !.seen = lines, !.rows = Rows, !.whose = origin])
    BY <1>3 DEF ReadCart
  <2> DEFINE k == [j EXCEPT !.step = "load", !.seen = lines, !.rows = Rows, !.whose = origin]
  <2>5. lines \in SmallCarts /\ LinesOf(lines) = Held(cart)
    BY <1>1, ReadingsTellHeld
  <2>6. Rows \in SUBSET (Codes \X Warehouses) /\ Rows = RowsOf(cart)
    BY DEF Rows, RowsOf
  <2>1. k \in Jobs /\ Doing(t, k)
    BY <1>1, <1>3, <2>0, <2>5, <2>6 DEF Jobs, Steps
  <2>2. k.step = "load" /\ k.seen = lines /\ k.rows = RowsOf(cart) /\ k.whose = origin /\ k.op = j.op
        /\ k.added = j.added /\ k.missing = j.missing /\ k.pass = j.pass /\ k.saved = j.saved
    BY <1>1, <2>6 DEF Jobs
  <2>3. j.pass = 1 /\ Untouched(j) /\ k.added = {}
    BY <1>1, <1>2, <1>3, <2>2 DEF Jobs, Untouched
  <2> HIDE DEF k
  <2>4. Known(k, cart, origin, unsaved)
    BY <1>2, <1>3, <2>2, <2>3, <2>5 DEF Known
  <2> QED BY <1>1, <2>1, <2>3, <2>4, RunnerThinks DEF ReadCart
<1>4. CASE j.op # "verify"
  <2> DEFINE k == Clearing(j, RowsOf(cart))
  <2>1. k \in Jobs /\ k.added = j.added /\ k.whose = j.whose
    BY <1>1, ClearingIsJob DEF RowsOf
  <2>2. unsaved \in BOOLEAN
    BY DEF CInv, TypeOK, CartTypeOK
  <2>3. Known(k, cart, origin, unsaved) /\ ~Untouched(k)
    BY <1>1, <1>2, <2>2, ClearingKnows
  <2>4. Doing(t, k)
    BY <1>4 DEF ReadCart, Rows, RowsOf
  <2> HIDE DEF k
  <2> QED BY <1>1, <2>1, <2>3, <2>4, RunnerThinks DEF ReadCart
<1> QED BY <1>3, <1>4

LEMMA LoadSnapshotKeeps == ASSUME CInv, MutualExclusion, NEW t \in Tasks, LoadSnapshot(t) PROVE CInv'
<1> DEFINE j == job[t]
           opts == Elit(j.drop)
           added == AddedInPortal(j.nodo, j.seen, snapshot, opts)
           plan == [j EXCEPT !.target = Merged(j.nodo, j.seen, snapshot, opts), !.added = added]
<1>1. /\ Running(t) /\ j \in Jobs /\ j.step = "load" /\ Known(j, cart, origin, unsaved)
      /\ ~unsaved => \A c \in j.added : j.whose[c] = "merchant"
      /\ cart \in PortalCarts /\ origin \in [Codes -> Origins]
  BY RunnerHasJob DEF LoadSnapshot, At, Running
<1>2. LinesOf(j.seen) = Held(cart) /\ j.rows = RowsOf(cart) /\ j.whose = origin /\ j.op = "verify"
      /\ j.missing = {} /\ ~j.saved /\ (j.pass = 2 => j.op = "fulfill")
  BY <1>1 DEF Known
<1>3. plan \in Jobs
  <2>1. j.nodo \in SmallCarts /\ j.seen \in SmallCarts /\ j.drop \in SUBSET Codes
        /\ snapshot \in SmallCarts \cup {NoSnapshot}
    BY <1>1 DEF Jobs, CInv, TypeOK, CartTypeOK
  <2>3. opts \in Options
    BY <2>1 DEF Elit, Options
  <2>2. Merged(j.nodo, j.seen, snapshot, opts) \in SmallCarts /\ added \in SUBSET Codes
    BY <2>1, <2>3, CartOperators
  <2> HIDE DEF added
  <2> QED BY <1>1, <1>2, <2>2 DEF Jobs
<1>4. ~unsaved => \A c \in added : origin[c] = "merchant"
  <2> SUFFICES ASSUME ~unsaved, NEW c \in added PROVE origin[c] = "merchant"
    OBVIOUS
  <2>1. c \in Held(cart) /\ c \in Codes /\ ~InSnapshot(snapshot, c)
    <3>1. c \in LinesOf(j.seen) /\ ~InSnapshot(snapshot, c)
      BY <1>1 DEF AddedInPortal, SessionMiss, Elit, LinesOf, Without
    <3> QED BY <1>2, <3>1 DEF LinesOf
  <2>2. Remembers(snapshot, cart, origin)
    BY <1>1, RunsAlone DEF CInv, SnapshotKnows, Untouched
  <2> QED BY <1>1, <2>1, <2>2 DEF Remembers, CInv, LinesHaveOrigin, Origins
<1>5. /\ plan.missing = {} /\ ~plan.saved /\ plan.pass = j.pass /\ plan.op = j.op
      /\ plan.added = added /\ plan.whose = origin
  BY <1>1, <1>2 DEF Jobs
<1> DEFINE k == Clearing(plan, RowsOf(cart))
<1>8. Doing(t, k) /\ UNCHANGED cartVars
  BY <1>2 DEF LoadSnapshot
<1> HIDE DEF added, plan
<1>9. unsaved \in BOOLEAN
  BY DEF CInv, TypeOK, CartTypeOK
<1>6. k \in Jobs /\ k.added = added /\ k.whose = origin
  BY <1>1, <1>3, <1>5, ClearingIsJob DEF RowsOf
<1>7. Known(k, cart, origin, unsaved) /\ ~Untouched(k)
  BY <1>1, <1>2, <1>3, <1>5, <1>9, ClearingKnows
<1> HIDE DEF k
<1> QED BY <1>1, <1>4, <1>6, <1>7, <1>8, RunnerThinks

LEMMA ClearLineKeeps ==
  ASSUME CInv, MutualExclusion, NEW t \in Tasks, NEW c \in Codes, NEW w \in Warehouses, ClearLine(t, c, w)
  PROVE  CInv'
<1> DEFINE j == job[t]
           k == Clearing(j, RowsOf(cart'))
<1>1. /\ Running(t) /\ j \in Jobs /\ j.step = "clear" /\ Known(j, cart, origin, unsaved)
      /\ ~unsaved => \A d \in j.added : j.whose[d] = "merchant"
      /\ cart \in PortalCarts /\ origin \in [Codes -> Origins]
  BY RunnerHasJob DEF ClearLine, At, Running
<1>2. j.missing = {} /\ ~j.saved /\ (j.pass = 2 => j.op = "fulfill") /\ j.rows = RowsOf(cart)
  BY <1>1 DEF Known
<1>3. /\ cart' = [cart EXCEPT ![c][w] = 0]
      /\ origin' = [origin EXCEPT ![c] = IF cart'[c] = Nowhere THEN "nobody" ELSE @]
      /\ UNCHANGED <<lockVars, snapshot, sent, unsaved, edits>>
      /\ job' = [job EXCEPT ![t] = Clearing(j, j.rows \ {<<c, w>>})]
  BY DEF ClearLine, Doing
<1>4. /\ cart' \in PortalCarts /\ origin' \in [Codes -> Origins]
      /\ \A d \in Codes, v \in Warehouses : cart'[d][v] = IF d = c /\ v = w THEN 0 ELSE cart[d][v]
  BY <1>1, <1>3, PortalCartAssumption DEF PortalCarts, Origins
<1>5. RowsOf(cart') = j.rows \ {<<c, w>>}
  <2>1. ASSUME NEW d \in Codes, NEW v \in Warehouses
        PROVE  <<d, v>> \in RowsOf(cart') <=> <<d, v>> \in RowsOf(cart) /\ <<d, v>> # <<c, w>>
    BY <1>4 DEF RowsOf
  <2>2. RowsOf(cart') \subseteq Codes \X Warehouses /\ RowsOf(cart) \subseteq Codes \X Warehouses
    BY DEF RowsOf
  <2> QED BY <1>2, <2>1, <2>2
<1>6. k \in Jobs /\ k.added = j.added /\ k.whose = j.whose
  BY <1>1, ClearingIsJob DEF RowsOf
<1>7. Known(k, cart', origin', unsaved') /\ ~Untouched(k)
  <2>1. unsaved' \in BOOLEAN
    BY <1>3 DEF CInv, TypeOK, CartTypeOK
  <2> QED BY <1>1, <1>2, <1>4, <2>1, ClearingKnows
<1>8. job' = [job EXCEPT ![t] = k]
  BY <1>3, <1>5
<1> HIDE DEF k
<1>9. JobsFit' /\ RunnerKnows' /\ SnapshotKnows' /\ AddedWasAdded'
  <2>1. UNCHANGED lockVars /\ (unsaved => unsaved') /\ Running(t)
    BY <1>1, <1>3
  <2>2. ~unsaved => \A d \in k.added : k.whose[d] = "merchant"
    BY <1>1, <1>6
  <2>3. ~unsaved' /\ Untouched(k) => Remembers(snapshot', cart', origin')
    BY <1>7
  <2> QED BY <1>6, <1>7, <1>8, <2>1, <2>2, <2>3, RunnerSteps
<1>10. CartTypeOK' /\ LinesHaveOrigin' /\ SentIsRequested'
  <2>1. CartTypeOK' /\ SentIsRequested'
    BY <1>3, <1>4 DEF CInv, TypeOK, CartTypeOK, LockTypeOK, lockVars, SentIsRequested, Origins, PortalCarts
  <2>2. ASSUME NEW d \in Codes PROVE d \in Held(cart') <=> origin'[d] # "nobody"
    <3>1. d # c => cart'[d] = cart[d] /\ origin'[d] = origin[d]
      BY <1>1, <1>3
    <3>2. c \in Held(cart)
      <4>1. cart[c][w] > 0
        BY <1>2 DEF ClearLine, RowsOf
      <4> QED BY <1>1, <4>1, HeldHasRow
    <3>3. origin'[c] = IF cart'[c] = Nowhere THEN "nobody" ELSE origin[c]
      BY <1>1, <1>3
    <3> QED BY <3>1, <3>2, <3>3 DEF CInv, LinesHaveOrigin, Held
  <2>3. LinesHaveOrigin'
    BY <2>2 DEF LinesHaveOrigin
  <2> QED BY <2>1, <2>3
<1> QED BY <1>9, <1>10 DEF CInv, TypeOK

(* The job after a line was added, or skipped because there is no stock.   *)
AfterLine(j, c, missing) ==
  LET k == [j EXCEPT !.todo = @ \ {c}, !.missing = missing] IN
  IF k.todo # {} THEN k
  ELSE [k EXCEPT !.step = AfterAdding(k), !.pass = IF AfterAdding(k) = "read" THEN 2 ELSE @]

LEMMA AddingKnows ==
  ASSUME NEW j \in Jobs, j.step = "add", ~j.saved, j.pass = 2 => j.op = "fulfill",
         NEW c \in j.todo, NEW missing \in SUBSET LinesOf(j.target),
         NEW loaded \in PortalCarts, NEW by \in [Codes -> Origins], NEW loose \in BOOLEAN,
         j.todo \subseteq LinesOf(j.target), (j.todo \ {c}) \cap missing = {},
         Held(loaded) = LinesOf(j.target) \ ((j.todo \ {c}) \cup missing),
         \A d \in Held(loaded) :
           Fits(loaded[d], j.target[d]) /\ by[d] = IF d \in j.added THEN "merchant" ELSE "nodo"
  PROVE  /\ AfterLine(j, c, missing) \in Jobs
         /\ AfterLine(j, c, missing).added = j.added /\ AfterLine(j, c, missing).whose = j.whose
         /\ Known(AfterLine(j, c, missing), loaded, by, loose) /\ ~Untouched(AfterLine(j, c, missing))
<1> DEFINE k1 == [j EXCEPT !.todo = @ \ {c}, !.missing = missing]
           k == AfterLine(j, c, missing)
<1>1. /\ k1 \in Jobs /\ k1.todo = j.todo \ {c} /\ k1.missing = missing /\ k1.step = "add" /\ ~k1.saved
      /\ k1.op = j.op /\ k1.target = j.target /\ k1.pass = j.pass /\ k1.added = j.added /\ k1.whose = j.whose
  BY DEF Jobs, LinesOf
<1>2. k = IF k1.todo # {} THEN k1
          ELSE [k1 EXCEPT !.step = AfterAdding(k1), !.pass = IF AfterAdding(k1) = "read" THEN 2 ELSE @]
  BY DEF AfterLine
<1> HIDE DEF k1, k
<1> SUFFICES k \in Jobs /\ k.added = j.added /\ k.whose = j.whose /\ Known(k, loaded, by, loose) /\ ~Untouched(k)
  BY DEF k
<1>3. CASE k1.todo # {}
  BY <1>1, <1>2, <1>3 DEF Known, Untouched
<1>4. CASE k1.todo = {}
  <2>1. /\ AfterAdding(k1) \in {"done", "save", "read", "check"}
        /\ AfterAdding(k1) \in {"read", "check"} => missing = {} /\ k1.op = "fulfill"
    <3>1. k1.op \in {"verify", "quote", "fulfill"} /\ k1.pass \in {1, 2}
      BY <1>1 DEF Jobs
    <3> QED BY <1>1, <3>1 DEF AfterAdding
  <2>2. /\ k \in Jobs /\ k.step = AfterAdding(k1) /\ k.pass = (IF AfterAdding(k1) = "read" THEN 2 ELSE k1.pass)
        /\ k.todo = {} /\ k.missing = missing /\ ~k.saved /\ k.op = j.op /\ k.target = j.target
        /\ k.added = j.added /\ k.whose = j.whose
    <3> DEFINE step == AfterAdding(k1)
               pass == IF AfterAdding(k1) = "read" THEN 2 ELSE k1.pass
    <3>1. k = [k1 EXCEPT !.step = step, !.pass = pass]
      BY <1>1, <1>2, <1>4 DEF Jobs
    <3>2. step \in Steps /\ pass \in {1, 2}
      BY <1>1, <2>1 DEF Jobs, Steps
    <3> HIDE DEF step, pass
    <3>3. /\ k \in Jobs /\ k.step = step /\ k.pass = pass /\ k.todo = k1.todo /\ k.missing = k1.missing
          /\ k.saved = k1.saved /\ k.op = k1.op /\ k.target = k1.target
          /\ k.added = k1.added /\ k.whose = k1.whose
      BY <1>1, <3>1, <3>2 DEF Jobs
    <3> QED BY <1>1, <1>4, <3>3 DEF step, pass
  <2>3. Held(loaded) = LinesOf(k.target) \ k.missing
    BY <1>1, <1>4, <2>2
  <2> QED BY <1>1, <2>1, <2>2, <2>3 DEF Known, Untouched
<1> QED BY <1>3, <1>4

LEMMA AddLineKeeps ==
  ASSUME CInv, MutualExclusion, NEW t \in Tasks, NEW c \in Codes, AddLine(t, c) PROVE CInv'
<1> DEFINE j == job[t]
           k == AfterLine(j, c, j.missing)
<1>1. /\ Running(t) /\ j \in Jobs /\ j.step = "add" /\ Known(j, cart, origin, unsaved) /\ c \in j.todo
      /\ ~unsaved => \A d \in j.added : j.whose[d] = "merchant"
      /\ cart \in PortalCarts /\ origin \in [Codes -> Origins]
  BY RunnerHasJob DEF AddLine, At, Running
<1>2. /\ ~j.saved /\ (j.pass = 2 => j.op = "fulfill")
      /\ j.todo \subseteq LinesOf(j.target) /\ j.missing \subseteq LinesOf(j.target)
      /\ j.todo \cap j.missing = {}
      /\ Held(cart) = LinesOf(j.target) \ (j.todo \cup j.missing)
      /\ \A d \in Held(cart) : Fits(cart[d], j.target[d]) /\ origin[d] = IF d \in j.added THEN "merchant" ELSE "nodo"
  BY <1>1 DEF Known
<1>3. PICK got \in Placements(j.target[c]) : cart' = [cart EXCEPT ![c] = got]
  BY DEF AddLine
<1>4. /\ origin' = [origin EXCEPT ![c] = IF c \in j.added THEN "merchant" ELSE "nodo"]
      /\ UNCHANGED <<lockVars, snapshot, sent, unsaved, edits>>
      /\ job' = [job EXCEPT ![t] = k]
  BY DEF AddLine, Added, Doing, AfterLine
<1>5. got \in [Warehouses -> 0..MaxQty] /\ got # Nowhere /\ Fits(got, j.target[c])
  <2>1. j.target[c] \in 0..MaxQty
    BY <1>1 DEF Jobs, SmallCarts
  <2>2. got \in [Warehouses -> 0..j.target[c]] /\ got # Nowhere
    BY DEF Placements
  <2>3. \A w \in Warehouses : got[w] \in 0..j.target[c]
    BY <2>2
  <2>4. Fits(got, j.target[c])
    BY <2>1, <2>3, PortalCartAssumption DEF Placements, Fits
  <2>5. got \in [Warehouses -> 0..MaxQty]
    BY <2>1, <2>2, PortalCartAssumption
  <2> QED BY <2>2, <2>4, <2>5
<1>6. /\ cart' \in PortalCarts /\ origin' \in [Codes -> Origins]
      /\ Held(cart') = Held(cart) \cup {c}
      /\ \A d \in Codes \ {c} : cart'[d] = cart[d] /\ origin'[d] = origin[d]
      /\ cart'[c] = got /\ origin'[c] = IF c \in j.added THEN "merchant" ELSE "nodo"
  BY <1>1, <1>3, <1>4, <1>5 DEF PortalCarts, Held, Origins
<1>7. /\ Held(cart') = LinesOf(j.target) \ ((j.todo \ {c}) \cup j.missing)
      /\ \A d \in Held(cart') :
           Fits(cart'[d], j.target[d]) /\ origin'[d] = IF d \in j.added THEN "merchant" ELSE "nodo"
  <2>1. Held(cart') = LinesOf(j.target) \ ((j.todo \ {c}) \cup j.missing)
    BY <1>1, <1>2, <1>6
  <2>2. ASSUME NEW d \in Held(cart')
        PROVE  Fits(cart'[d], j.target[d]) /\ origin'[d] = IF d \in j.added THEN "merchant" ELSE "nodo"
    <3>1. CASE d = c
      BY <1>5, <1>6, <3>1
    <3>2. CASE d # c
      <4>1. d \in Held(cart) /\ d \in Codes
        BY <1>6, <2>2, <3>2 DEF Held
      <4> QED BY <1>2, <1>6, <3>2, <4>1
    <3> QED BY <3>1, <3>2
  <2> QED BY <2>1, <2>2
<1>8. k \in Jobs /\ k.added = j.added /\ k.whose = j.whose /\ Known(k, cart', origin', unsaved') /\ ~Untouched(k)
  <2>1. (j.todo \ {c}) \cap j.missing = {} /\ unsaved' \in BOOLEAN
    BY <1>2, <1>4 DEF CInv, TypeOK, CartTypeOK
  <2> QED BY <1>1, <1>2, <1>6, <1>7, <2>1, AddingKnows
<1> HIDE DEF k
<1>9. JobsFit' /\ RunnerKnows' /\ SnapshotKnows' /\ AddedWasAdded'
  BY <1>1, <1>4, <1>8, RunnerSteps
<1>10. CartTypeOK' /\ SentIsRequested'
  BY <1>4, <1>6 DEF CInv, TypeOK, CartTypeOK, LockTypeOK, lockVars, SentIsRequested, Origins, PortalCarts
<1>11. LinesHaveOrigin'
  <2>1. ASSUME NEW d \in Codes PROVE d \in Held(cart') <=> origin'[d] # "nobody"
    BY <1>6 DEF CInv, LinesHaveOrigin
  <2> QED BY <2>1 DEF LinesHaveOrigin
<1> QED BY <1>9, <1>10, <1>11 DEF CInv, TypeOK

LEMMA LineWithoutStockKeeps ==
  ASSUME CInv, MutualExclusion, NEW t \in Tasks, NEW c \in Codes, LineWithoutStock(t, c) PROVE CInv'
<1> DEFINE j == job[t]
           k == AfterLine(j, c, j.missing \cup {c})
<1>1. /\ Running(t) /\ j \in Jobs /\ j.step = "add" /\ Known(j, cart, origin, unsaved) /\ c \in j.todo
      /\ ~unsaved => \A d \in j.added : j.whose[d] = "merchant"
      /\ cart \in PortalCarts /\ origin \in [Codes -> Origins]
  BY RunnerHasJob DEF LineWithoutStock, At, Running
<1>2. /\ ~j.saved /\ (j.pass = 2 => j.op = "fulfill")
      /\ j.todo \subseteq LinesOf(j.target) /\ j.missing \subseteq LinesOf(j.target)
      /\ j.todo \cap j.missing = {}
      /\ Held(cart) = LinesOf(j.target) \ (j.todo \cup j.missing)
      /\ \A d \in Held(cart) : Fits(cart[d], j.target[d]) /\ origin[d] = IF d \in j.added THEN "merchant" ELSE "nodo"
  BY <1>1 DEF Known
<1>3. /\ j.missing \cup {c} \in SUBSET LinesOf(j.target) /\ unsaved \in BOOLEAN
      /\ (j.todo \ {c}) \cap (j.missing \cup {c}) = {}
      /\ Held(cart) = LinesOf(j.target) \ ((j.todo \ {c}) \cup (j.missing \cup {c}))
  BY <1>1, <1>2 DEF CInv, TypeOK, CartTypeOK
<1>4. k \in Jobs /\ k.added = j.added /\ k.whose = j.whose /\ Known(k, cart, origin, unsaved) /\ ~Untouched(k)
  BY <1>1, <1>2, <1>3, AddingKnows
<1>5. Doing(t, k) /\ UNCHANGED cartVars
  BY DEF LineWithoutStock, Added, AfterLine, Doing
<1> HIDE DEF k
<1> QED BY <1>1, <1>4, <1>5, RunnerThinks

(* The ways of going on or giving up without touching anything.            *)
LEMMA StepsOn ==
  ASSUME CInv, MutualExclusion, NEW t \in Tasks, Running(t), job[t].step # "load", ~job[t].saved,
         NEW step \in {"process", "done"},
         step = "process" => /\ job[t].op = "fulfill" /\ Held(cart) = LinesOf(job[t].nodo)
                             /\ \A c \in Codes : Whole(cart[c], job[t].nodo[c]),
         Doing(t, [job[t] EXCEPT !.step = step]), UNCHANGED cartVars
  PROVE  CInv'
<1> DEFINE j == job[t]
           k == [j EXCEPT !.step = step]
<1>1. /\ j \in Jobs /\ Known(j, cart, origin, unsaved)
      /\ ~unsaved => \A d \in j.added : j.whose[d] = "merchant"
  BY RunnerHasJob
<1>2. /\ k \in Jobs /\ k.step = step /\ k.pass = j.pass /\ k.op = j.op /\ k.added = j.added /\ k.whose = j.whose
      /\ ~k.saved /\ k.nodo = j.nodo
  BY <1>1 DEF Jobs, Steps
<1>4. Doing(t, k)
  OBVIOUS
<1> HIDE DEF k
<1>3. Known(k, cart, origin, unsaved) /\ ~Untouched(k)
  BY <1>1, <1>2 DEF Known, Untouched
<1> QED BY <1>1, <1>2, <1>3, <1>4, RunnerThinks

LEMMA SaveSnapshotKeeps ==
  ASSUME CInv, MutualExclusion, NEW t \in Tasks, SaveSnapshot(t) PROVE CInv'
<1> DEFINE j == job[t]
<1>1. /\ Running(t) /\ j \in Jobs /\ j.step = "save" /\ Known(j, cart, origin, unsaved)
      /\ ~unsaved => \A d \in j.added : j.whose[d] = "merchant"
  BY RunnerHasJob DEF SaveSnapshot, At, Running
<1>2. /\ ~j.saved /\ (j.pass = 2 => j.op = "fulfill") /\ Held(cart) \subseteq LinesOf(j.target)
      /\ \A d \in Held(cart) : origin[d] = IF d \in j.added THEN "merchant" ELSE "nodo"
  BY <1>1 DEF Known
<1>3. CartTypeOK' /\ LinesHaveOrigin' /\ SentIsRequested'
  <2>1. NextSnapshot(j.target, j.added) \in SmallCarts
    <3>1. j.target \in SmallCarts /\ j.added \in SUBSET Codes
      BY <1>1 DEF Jobs
    <3> QED BY <3>1, PortalCartAssumption DEF NextSnapshot, Without, SmallCarts
  <2>2. snapshot' \in SmallCarts \cup {NoSnapshot}
    BY <2>1 DEF SaveSnapshot, CInv, TypeOK, CartTypeOK
  <2> QED BY <2>2 DEF SaveSnapshot, Doing, CInv, TypeOK, CartTypeOK, LockTypeOK, lockVars, LinesHaveOrigin, SentIsRequested
<1>4. CASE snapshot' = NextSnapshot(j.target, j.added) /\ Doing(t, [j EXCEPT !.step = "done", !.saved = TRUE])
  <2> DEFINE k == [j EXCEPT !.step = "done", !.saved = TRUE]
  <2>1. k \in Jobs /\ k.step = "done" /\ k.pass = j.pass /\ k.op = j.op /\ k.added = j.added /\ k.whose = j.whose
    BY <1>1 DEF Jobs, Steps
  <2> HIDE DEF k
  <2>2. Known(k, cart', origin', unsaved')
    BY <1>2, <2>1 DEF Known
  <2>3. Remembers(snapshot', cart', origin')
    <3> SUFFICES ASSUME NEW c \in Held(cart), origin[c] = "nodo" PROVE InSnapshot(snapshot', c)
      BY DEF SaveSnapshot, Remembers
    <3>1. c \in LinesOf(j.target) /\ c \notin j.added
      BY <1>2
    <3>2. j.target \in SmallCarts /\ j.added \in SUBSET Codes /\ snapshot' \in SmallCarts
      BY <1>1, <1>4, PortalCartAssumption DEF Jobs, NextSnapshot, Without, SmallCarts
    <3>3. snapshot' # NoSnapshot
      BY <3>2, CartOperators, NoSnapshotAssumption, PortalCartAssumption DEF SmallCarts, Carts
    <3>4. snapshot'[c] > 0
      BY <3>1, <3>2, <1>4 DEF NextSnapshot, Without, LinesOf
    <3> QED BY <3>3, <3>4 DEF InSnapshot
  <2>4. JobsFit' /\ RunnerKnows' /\ SnapshotKnows' /\ AddedWasAdded'
    <3>1. UNCHANGED <<lockVars, unsaved>> /\ job' = [job EXCEPT ![t] = k]
      BY <1>4 DEF SaveSnapshot, Doing, k
    <3> QED BY <1>1, <2>1, <2>2, <2>3, <3>1, RunnerSteps
  <2> QED BY <1>3, <2>4 DEF CInv, TypeOK
<1>5. CASE UNCHANGED snapshot /\ Doing(t, [j EXCEPT !.step = "done"])
  <2>1. UNCHANGED cartVars
    BY <1>5 DEF SaveSnapshot, cartVars
  <2> QED BY <1>1, <1>2, <1>5, <2>1, StepsOn
<1> QED BY <1>4, <1>5 DEF SaveSnapshot

LEMMA CheckCartKeeps == ASSUME CInv, MutualExclusion, NEW t \in Tasks, CheckCart(t) PROVE CInv'
<1> DEFINE j == job[t]
<1>1. /\ Running(t) /\ j.step = "check" /\ j \in Jobs /\ Known(j, cart, origin, unsaved)
      /\ cart \in PortalCarts
  BY RunnerHasJob DEF CheckCart, At, Running
<1>2. /\ ~j.saved /\ j.op = "fulfill" /\ Held(cart) = LinesOf(j.target) /\ j.target = j.nodo
      /\ \A c \in Held(cart) : Fits(cart[c], j.target[c])
  BY <1>1 DEF Known, Jobs
<1>3. PICK lines \in Readings :
        Doing(t, [j EXCEPT !.step = IF CartMatches(j.nodo, lines, FALSE) THEN "process" ELSE "done"])
  BY DEF CheckCart
<1> DEFINE step == IF CartMatches(j.nodo, lines, FALSE) THEN "process" ELSE "done"
<1>4. ASSUME step = "process", NEW c \in Codes PROVE Whole(cart[c], j.nodo[c])
  <2>1. lines[c] = j.nodo[c] /\ j.nodo[c] \in 0..MaxQty /\ cart[c] \in [Warehouses -> 0..MaxQty]
    BY <1>1, <1>4 DEF CartMatches, Jobs, SmallCarts, PortalCarts
  <2>2. CASE c \notin Held(cart)
    BY <1>1, <2>2, HeldHasRow DEF Whole
  <2>3. CASE c \in Held(cart)
    <3>1. PICK w \in Warehouses : cart[c][w] > 0 /\ lines[c] = cart[c][w]
      BY <2>3 DEF Readings, Held
    <3>2. \A v \in Warehouses : cart[c][v] \in 0..MaxQty
      BY <2>1
    <3>3. ASSUME NEW v \in Warehouses, v # w PROVE cart[c][v] = 0
      <4>1. Fits(cart[c], j.nodo[c])
        BY <1>2, <2>3
      <4>2. cart[c][w] + cart[c][v] <= cart[c][w]
        BY <2>1, <3>1, <3>3, <4>1 DEF Fits
      <4> QED BY <3>2, <4>2, PortalCartAssumption
    <3> QED BY <2>1, <3>1, <3>3 DEF Whole
  <2> QED BY <2>2, <2>3
<1>5. Doing(t, [job[t] EXCEPT !.step = step]) /\ UNCHANGED cartVars /\ step \in {"process", "done"}
  BY <1>3 DEF CheckCart
<1> HIDE DEF step
<1>6. step = "process" => /\ j.op = "fulfill" /\ Held(cart) = LinesOf(j.nodo)
                          /\ \A c \in Codes : Whole(cart[c], j.nodo[c])
  BY <1>2, <1>4
<1> QED BY <1>1, <1>2, <1>5, <1>6, StepsOn

LEMMA ProcessFailsKeeps ==
  ASSUME CInv, MutualExclusion, NEW t \in Tasks, ProcessFails(t) \/ CallFails(t) PROVE CInv'
<1>1. Running(t) /\ job[t].step \in {"process", "read", "clear", "add", "check"} /\ Known(job[t], cart, origin, unsaved)
  BY RunnerHasJob DEF ProcessFails, CallFails, At, Running
<1>2. ~job[t].saved
  BY <1>1 DEF Known
<1>3. Doing(t, [job[t] EXCEPT !.step = "done"]) /\ UNCHANGED cartVars
  BY DEF ProcessFails, CallFails
<1> QED BY <1>1, <1>2, <1>3, StepsOn

LEMMA ProcessKeeps == ASSUME CInv, MutualExclusion, NEW t \in Tasks, Process(t) PROVE CInv'
<1> DEFINE j == job[t]
           w == j.warehouse
           left == UNION {In(Codes, v) : v \in Warehouses \ {w}}
           k == [j EXCEPT !.step = "forget"]
           order == [asked |-> j.nodo, content |-> [c \in Codes |-> cart[c][w]], left |-> left]
<1>1. /\ Running(t) /\ j \in Jobs /\ j.step = "process" /\ Known(j, cart, origin, unsaved)
      /\ ~unsaved => \A d \in j.added : j.whose[d] = "merchant"
      /\ cart \in PortalCarts /\ origin \in [Codes -> Origins]
  BY RunnerHasJob DEF Process, At, Running
<1>2. /\ ~j.saved /\ j.op = "fulfill" /\ Held(cart) = LinesOf(j.nodo) /\ w \in Warehouses
      /\ \A c \in Codes : Whole(cart[c], j.nodo[c])
  BY <1>1 DEF Known, Jobs
<1>3. /\ k \in Jobs /\ k.step = "forget" /\ k.pass = j.pass /\ k.op = j.op /\ k.added = j.added /\ k.whose = j.whose
      /\ ~k.saved
  BY <1>1, <1>2 DEF Jobs, Steps
<1>4. /\ UNCHANGED lockVars /\ job' = [job EXCEPT ![t] = k] /\ unsaved' = (unsaved \/ left # {})
      /\ cart' = [c \in Codes |-> [cart[c] EXCEPT ![w] = 0]]
      /\ origin' = [c \in Codes |-> IF c \in left THEN origin[c] ELSE "nobody"]
      /\ sent' = sent \cup {order} /\ UNCHANGED <<snapshot, edits>>
  BY DEF Process, Doing
<1>5. \A c \in Codes : c \in left <=> \E v \in Warehouses \ {w} : cart[c][v] > 0
  BY DEF In
<1>6. /\ cart' \in PortalCarts /\ origin' \in [Codes -> Origins] /\ left \in SUBSET Codes
      /\ \A c \in Codes, v \in Warehouses : cart'[c][v] = IF v = w THEN 0 ELSE cart[c][v]
  <2>1. left \in SUBSET Codes
    BY DEF In
  <2>2. cart' \in PortalCarts /\ \A c \in Codes, v \in Warehouses : cart'[c][v] = IF v = w THEN 0 ELSE cart[c][v]
    BY <1>1, <1>2, <1>4, PortalCartAssumption DEF PortalCarts
  <2> HIDE DEF left
  <2>3. origin' \in [Codes -> Origins]
    BY <1>1, <1>4 DEF Origins
  <2> QED BY <2>1, <2>2, <2>3
<1> HIDE DEF left, k, w
<1>7. Held(cart') = left
  <2>1. ASSUME NEW c \in Codes PROVE c \in Held(cart') <=> c \in left
    <3>1. c \in Held(cart') <=> \E v \in Warehouses : cart'[c][v] > 0
      BY <1>6, HeldHasRow
    <3> QED BY <1>5, <1>6, <3>1
  <2> QED BY <1>6, <2>1 DEF Held
<1>8. Known(k, cart', origin', unsaved') /\ ~Untouched(k)
  BY <1>2, <1>3, <1>4, <1>7 DEF Known, Untouched
<1>9. JobsFit' /\ RunnerKnows' /\ SnapshotKnows' /\ AddedWasAdded'
  BY <1>1, <1>3, <1>4, <1>8, RunnerSteps
<1>10. /\ order \in [asked : SmallCarts, content : SmallCarts, left : SUBSET Codes]
       /\ \A c \in Codes : order.content[c] = IF c \in left THEN 0 ELSE order.asked[c]
  <2>1. j.nodo \in SmallCarts /\ [c \in Codes |-> cart[c][w]] \in SmallCarts
    BY <1>1, <1>2 DEF Jobs, SmallCarts, PortalCarts
  <2>2. ASSUME NEW c \in Codes PROVE cart[c][w] = IF c \in left THEN 0 ELSE j.nodo[c]
    <3>1. /\ j.nodo[c] \in 0..MaxQty /\ \A v \in Warehouses : cart[c][v] \in 0..MaxQty
      BY <1>1 DEF Jobs, SmallCarts, PortalCarts
    <3>2. CASE c \in left
      <4>1. PICK v \in Warehouses \ {w} : cart[c][v] > 0
        BY <1>5, <3>2
      <4> QED BY <1>2, <3>2, <4>1 DEF Whole
    <3>3. CASE c \notin left /\ c \in Held(cart)
      <4>1. cart[c][w] > 0
        BY <1>1, <1>5, <3>3, HeldHasRow
      <4> QED BY <1>2, <3>3, <4>1 DEF Whole
    <3>4. CASE c \notin left /\ c \notin Held(cart)
      <4>1. cart[c][w] = 0 /\ c \notin LinesOf(j.nodo)
        BY <1>1, <1>2, <3>4, HeldHasRow
      <4>2. j.nodo[c] = 0
        BY <3>1, <4>1, PortalCartAssumption DEF LinesOf
      <4> QED BY <3>4, <4>1, <4>2
    <3> QED BY <3>2, <3>3, <3>4
  <2> QED BY <1>6, <2>1, <2>2
<1>11. CartTypeOK' /\ SentIsRequested'
  <2> HIDE DEF order
  <2>1. SentIsRequested'
    <3>1. order.left = left
      BY DEF order
    <3> QED BY <1>4, <1>10, <3>1 DEF CInv, SentIsRequested
  <2>2. LockTypeOK'
    BY <1>4 DEF CInv, TypeOK, CartTypeOK, LockTypeOK, lockVars
  <2>3. CartTypeOK'
    BY <1>4, <1>6, <1>10, <2>2 DEF CInv, TypeOK, CartTypeOK, PortalCarts, Origins
  <2> QED BY <2>1, <2>3
<1>12. LinesHaveOrigin'
  <2>1. ASSUME NEW c \in Codes PROVE c \in Held(cart') <=> origin'[c] # "nobody"
    <3>1. c \in left => c \in Held(cart)
      BY <1>1, <1>5, HeldHasRow
    <3> QED BY <1>4, <1>7, <3>1 DEF CInv, LinesHaveOrigin
  <2> QED BY <2>1 DEF LinesHaveOrigin
<1> QED BY <1>9, <1>11, <1>12 DEF CInv, TypeOK

LEMMA ClearSnapshotKeeps ==
  ASSUME CInv, MutualExclusion, NEW t \in Tasks, ClearSnapshot(t) PROVE CInv'
<1> DEFINE j == job[t]
<1>1. /\ Running(t) /\ j \in Jobs /\ j.step = "forget" /\ Known(j, cart, origin, unsaved)
      /\ ~unsaved => \A d \in j.added : j.whose[d] = "merchant"
  BY RunnerHasJob DEF ClearSnapshot, At, Running
<1>2. ~j.saved /\ (j.pass = 2 => j.op = "fulfill") /\ (unsaved \/ Held(cart) = {})
  BY <1>1 DEF Known
<1>3. CASE snapshot' = NoSnapshot /\ Doing(t, [j EXCEPT !.step = "done", !.saved = TRUE])
  <2> DEFINE k == [j EXCEPT !.step = "done", !.saved = TRUE]
  <2>1. k \in Jobs /\ k.step = "done" /\ k.pass = j.pass /\ k.op = j.op /\ k.added = j.added /\ k.whose = j.whose
    BY <1>1 DEF Jobs, Steps
  <2>4. UNCHANGED <<lockVars, unsaved>> /\ job' = [job EXCEPT ![t] = k]
    BY <1>3 DEF ClearSnapshot, Doing
  <2> HIDE DEF k
  <2>2. Known(k, cart', origin', unsaved')
    BY <1>2, <2>1 DEF Known
  <2>3. ~unsaved' => Remembers(snapshot', cart', origin')
    BY <1>2 DEF ClearSnapshot, Remembers
  <2>5. JobsFit' /\ RunnerKnows' /\ SnapshotKnows' /\ AddedWasAdded'
    BY <1>1, <2>1, <2>2, <2>3, <2>4, RunnerSteps
  <2>6. CartTypeOK' /\ LinesHaveOrigin' /\ SentIsRequested'
    BY <1>3 DEF ClearSnapshot, Doing, CInv, TypeOK, CartTypeOK, LockTypeOK, lockVars, LinesHaveOrigin, SentIsRequested
  <2> QED BY <2>5, <2>6 DEF CInv, TypeOK
<1>4. CASE UNCHANGED snapshot /\ Doing(t, [j EXCEPT !.step = "done"])
  <2>1. UNCHANGED cartVars
    BY <1>4 DEF ClearSnapshot, cartVars
  <2> QED BY <1>1, <1>2, <1>4, <2>1, StepsOn
<1> QED BY <1>3, <1>4 DEF ClearSnapshot


-----------------------------------------------------------------------------
(* Steps of the lock and of the people at the portal's web.                *)
LEMMA RequestKeeps ==
  ASSUME CInv, LockTypeOK', NEW t \in Tasks, NEW op \in {"verify", "quote", "fulfill"},
         NEW nodo \in SmallCarts, NEW drop \in SUBSET Codes, NEW w \in Warehouses \cup {NoWarehouse},
         op = "fulfill" => w \in Warehouses, Request(t, op, nodo, drop, w)
  PROVE  CInv'
<1> DEFINE j == [op |-> op, nodo |-> nodo, drop |-> drop, warehouse |-> w, step |-> "read", target |-> nodo, seen |-> Empty,
                 rows |-> {}, whose |-> [c \in Codes |-> "nobody"], added |-> {}, todo |-> {}, missing |-> {}, pass |-> 1,
                 saved |-> FALSE]
<1> USE DEF CInv, TypeOK
<1>1. j \in Jobs /\ Untried(j)
  BY PortalCartAssumption DEF Jobs, Steps, Origins, SmallCarts, Empty, Untried
<1>2. j.added = {}
  OBVIOUS
<1>3. /\ phase' = [phase EXCEPT ![t] = "waiting"] /\ phase[t] = "idle"
      /\ job' = [job EXCEPT ![t] = j] /\ UNCHANGED cartVars
  BY DEF Request, Call
<1> HIDE DEF j
<1>4. /\ phase'[t] = "waiting" /\ job'[t] = j
      /\ \A u \in Tasks \ {t} : phase'[u] = phase[u] /\ job'[u] = job[u]
  BY <1>3 DEF CartTypeOK, LockTypeOK, JobsFit
<1>5. JobsFit'
  BY <1>1, <1>3, <1>4 DEF JobsFit
<1>6. RunnerKnows' /\ SnapshotKnows'
  BY <1>3, <1>4 DEF RunnerKnows, SnapshotKnows, Running, cartVars
<1>7. AddedWasAdded'
  BY <1>2, <1>3, <1>4 DEF AddedWasAdded, cartVars
<1>8. CartTypeOK' /\ LinesHaveOrigin' /\ SentIsRequested'
  BY <1>3 DEF CartTypeOK, cartVars, LinesHaveOrigin, SentIsRequested
<1> QED BY <1>5, <1>6, <1>7, <1>8

LEMMA BeginKeeps ==
  ASSUME CInv, LockTypeOK', NEW t \in Tasks, Begin(t), UNCHANGED <<cartVars, job>> PROVE CInv'
<1> USE DEF CInv, TypeOK, cartVars
<1>1. /\ phase[t] = "waiting" /\ phase'[t] = "running"
      /\ \A u \in Tasks \ {t} : phase'[u] = phase[u]
  BY DEF Begin, CartTypeOK, LockTypeOK
<1>2. JobsFit'
  BY <1>1 DEF JobsFit
<1>3. job[t] \in Jobs /\ Untried(job[t])
  BY <1>1 DEF JobsFit
<1>4. Known(job[t], cart, origin, unsaved)
  BY <1>3 DEF Known, Untried
<1>5. RunnerKnows'
  BY <1>1, <1>4 DEF RunnerKnows, Running
<1>6. SnapshotKnows'
  BY <1>1 DEF SnapshotKnows, Running
<1>7. CartTypeOK' /\ LinesHaveOrigin' /\ SentIsRequested' /\ AddedWasAdded'
  BY DEF CartTypeOK, LinesHaveOrigin, SentIsRequested, AddedWasAdded
<1> QED BY <1>2, <1>5, <1>6, <1>7

LEMMA LeaveKeeps == ASSUME CInv, MutualExclusion, LockTypeOK', NEW t \in Tasks, Leave(t) PROVE CInv'
<1> USE DEF CInv, TypeOK
<1>1. /\ phase[t] = "running" /\ phase'[t] = "settled" /\ job'[t] = NoJob
      /\ \A u \in Tasks \ {t} : phase'[u] = phase[u] /\ job'[u] = job[u]
      /\ UNCHANGED <<cart, origin, snapshot, sent, edits>> /\ unsaved' = (unsaved \/ ~job[t].saved)
      /\ job' \in [Tasks -> Jobs \cup {NoJob}]
  BY DEF Leave, Finish, CartTypeOK, LockTypeOK, JobsFit
<1>2. job[t] \in Jobs
  BY <1>1 DEF JobsFit
<1>3. JobsFit'
  BY <1>1 DEF JobsFit
<1>4. RunnerKnows'
  BY <1>1, RunsAlone DEF RunnerKnows, Running
<1>5. SnapshotKnows'
  BY <1>1 DEF SnapshotKnows, Running, Untouched
<1>6. AddedWasAdded'
  BY <1>1, ZenonT(60) DEF AddedWasAdded
<1>7. CartTypeOK'
  BY <1>1, <1>2 DEF CartTypeOK, Jobs
<1>8. LinesHaveOrigin' /\ SentIsRequested'
  BY <1>1 DEF LinesHaveOrigin, SentIsRequested
<1> QED BY <1>3, <1>4, <1>5, <1>6, <1>7, <1>8

LEMMA CleanupKeeps ==
  ASSUME CInv, LockTypeOK', NEW t \in Tasks, Cleanup(t), UNCHANGED <<cartVars, job>> PROVE CInv'
<1> USE DEF CInv, TypeOK, cartVars
<1>1. /\ phase[t] = "settled" /\ phase'[t] = "cleaned"
      /\ \A u \in Tasks \ {t} : phase'[u] = phase[u]
  BY DEF Cleanup, CartTypeOK, LockTypeOK
<1>2. JobsFit' /\ RunnerKnows' /\ SnapshotKnows'
  BY <1>1 DEF JobsFit, RunnerKnows, SnapshotKnows, Running
<1>3. CartTypeOK' /\ LinesHaveOrigin' /\ SentIsRequested' /\ AddedWasAdded'
  BY DEF CartTypeOK, LinesHaveOrigin, SentIsRequested, AddedWasAdded
<1> QED BY <1>2, <1>3

LEMMA EditPortalKeeps ==
  ASSUME CInv, Edits = "betweenTasks", NEW c \in Codes, NEW w \in Warehouses, NEW qty \in 0..MaxQty,
         EditPortal(c, w, qty)
  PROVE  CInv'
<1> USE PortalCartAssumption DEF CInv, TypeOK, CartTypeOK
<1>1. /\ \A t \in Tasks : ~Running(t)
      /\ cart' = [cart EXCEPT ![c][w] = qty]
      /\ origin' = [origin EXCEPT ![c] = IF cart'[c] = Nowhere THEN "nobody"
                                        ELSE IF @ = "nobody" THEN "merchant" ELSE @]
      /\ edits < MaxEdits /\ edits' = edits + 1
      /\ UNCHANGED <<lockVars, job, snapshot, sent, unsaved>>
  BY DEF EditPortal, Running
<1>2. /\ cart' \in PortalCarts /\ origin' \in [Codes -> Origins] /\ edits' \in 0..MaxEdits
      /\ \A d \in Codes \ {c} : cart'[d] = cart[d] /\ origin'[d] = origin[d]
  BY <1>1 DEF PortalCarts, Origins
<1>3. CartTypeOK'
  BY <1>1, <1>2 DEF LockTypeOK, lockVars, PortalCarts, Origins
<1>4. ASSUME NEW d \in Held(cart')
      PROVE  origin'[d] = "merchant" \/ (d \in Held(cart) /\ origin'[d] = origin[d])
  <2>1. d \in Codes /\ cart'[d] # Nowhere
    BY DEF Held
  <2>2. CASE d # c
    BY <1>2, <2>1, <2>2 DEF Held
  <2>3. CASE d = c
    BY <1>1, <2>1, <2>3 DEF LinesHaveOrigin
  <2> QED BY <2>2, <2>3
<1>5. LinesHaveOrigin'
  <2>1. ASSUME NEW d \in Codes PROVE d \in Held(cart') <=> origin'[d] # "nobody"
    BY <1>1, <1>2 DEF LinesHaveOrigin, Held
  <2> QED BY <2>1 DEF LinesHaveOrigin
<1>6. JobsFit' /\ RunnerKnows' /\ SentIsRequested' /\ AddedWasAdded'
  BY <1>1 DEF JobsFit, RunnerKnows, Running, lockVars, SentIsRequested, AddedWasAdded
<1>7. SnapshotKnows'
  BY <1>1, <1>4 DEF SnapshotKnows, Remembers
<1> QED BY <1>3, <1>5, <1>6, <1>7

(* The initial states satisfy the invariant.                               *)
LEMMA InitCInv == Init => CInv
<1> SUFFICES ASSUME Init PROVE CInv
  OBVIOUS
<1>1. LockTypeOK
  BY InitLInv DEF Init, LInv
<1>2. CartTypeOK
  <2>1. cart \in [Codes -> [Warehouses -> 0..MaxQty]] /\ 0 \in 0..MaxEdits
    BY PortalCartAssumption DEF Init, Nowhere
  <2>2. origin \in [Codes -> {"nobody", "nodo", "merchant"}] /\ sent = {}
    BY DEF Init
  <2> QED BY <1>1, <2>1, <2>2 DEF Init, CartTypeOK
<1>3. JobsFit /\ RunnerKnows /\ AddedWasAdded /\ SentIsRequested
  BY DEF Init, LockInit, JobsFit, RunnerKnows, Running, AddedWasAdded, SentIsRequested
<1>4. SnapshotKnows /\ LinesHaveOrigin
  BY DEF Init, SnapshotKnows, Remembers, LinesHaveOrigin, Held
<1> QED BY <1>2, <1>3, <1>4 DEF CInv, TypeOK

(* Every step keeps the invariant, as the lock lets one task in at a time. *)
LEMMA NextCInv ==
  CInv /\ MutualExclusion /\ LInv' /\ Edits = "betweenTasks" /\ [Next]_vars => CInv'
<1> SUFFICES ASSUME CInv, MutualExclusion, LInv', Edits = "betweenTasks", [Next]_vars PROVE CInv'
  OBVIOUS
<1>0. LockTypeOK'
  BY DEF LInv
<1>1. ASSUME NEW t \in Tasks, Arrive(t) PROVE CInv'
  <2>1. PICK nodo \in SmallCarts, op \in {"verify", "quote", "fulfill"}, drop \in SUBSET Codes,
             w \in Warehouses \cup {NoWarehouse} :
          (op = "fulfill" => w \in Warehouses) /\ Request(t, op, nodo, drop, w)
    BY <1>1 DEF Arrive
  <2> QED BY <1>0, <2>1, RequestKeeps
<1>2. ASSUME NEW t \in Tasks, Work(t) PROVE CInv'
  <2>1. CASE \E c \in Codes : AddLine(t, c) \/ LineWithoutStock(t, c)
    BY <2>1, AddLineKeeps, LineWithoutStockKeeps
  <2>7. CASE \E c \in Codes, w \in Warehouses : ClearLine(t, c, w)
    BY <2>7, ClearLineKeeps
  <2>2. CASE (Begin(t) \/ Cleanup(t)) /\ UNCHANGED <<cartVars, job>>
    BY <1>0, <2>2, BeginKeeps, CleanupKeeps
  <2>3. CASE ReadCart(t) \/ LoadSnapshot(t)
    BY <2>3, ReadCartKeeps, LoadSnapshotKeeps
  <2>4. CASE SaveSnapshot(t) \/ CheckCart(t)
    BY <2>4, SaveSnapshotKeeps, CheckCartKeeps
  <2>5. CASE Process(t) \/ ProcessFails(t) \/ ClearSnapshot(t) \/ CallFails(t)
    BY <2>5, ProcessKeeps, ProcessFailsKeeps, ClearSnapshotKeeps
  <2>6. CASE Leave(t)
    BY <1>0, <2>6, LeaveKeeps
  <2> QED BY <1>2, <2>1, <2>2, <2>3, <2>4, <2>5, <2>6, <2>7 DEF Work
<1>3. ASSUME NEW c \in Codes, NEW w \in Warehouses, NEW qty \in 0..MaxQty, EditPortal(c, w, qty) PROVE CInv'
  BY <1>3, EditPortalKeeps
<1>4. ASSUME UNCHANGED vars PROVE CInv'
  BY <1>4 DEF vars, cartVars, lockVars, CInv, TypeOK, CartTypeOK, LockTypeOK, JobsFit, RunnerKnows, Running,
              SnapshotKnows, LinesHaveOrigin, SentIsRequested, AddedWasAdded
<1> QED BY <1>1, <1>2, <1>3, <1>4 DEF Next

(* What the tasks do with the lock is what the lock allows.                *)
LEMMA TasksUseTheLock == [Next]_vars => [LockNext]_lockVars
<1> SUFFICES ASSUME [Next]_vars PROVE [LockNext]_lockVars
  OBVIOUS
<1>1. ASSUME NEW t \in Tasks, Arrive(t) PROVE LockNext
  BY <1>1 DEF Arrive, Request, LockNext
<1>2. ASSUME NEW t \in Tasks, Work(t) PROVE [LockNext]_lockVars
  BY <1>2 DEF Work, ReadCart, LoadSnapshot, ClearLine, AddLine, LineWithoutStock, SaveSnapshot, CheckCart,
              Process, ProcessFails, ClearSnapshot, CallFails, Leave, Added, Doing, LockNext, LockStep
<1>3. ASSUME NEW c \in Codes, NEW w \in Warehouses, NEW qty \in 0..MaxQty, EditPortal(c, w, qty) PROVE UNCHANGED lockVars
  BY <1>3 DEF EditPortal
<1> QED BY <1>1, <1>2, <1>3 DEF Next, vars

(* The invariant holds in every reachable state.                           *)
THEOREM CartInvariant == ASSUME Edits = "betweenTasks" PROVE Spec => [](CInv /\ MutualExclusion)
<1>1. Spec => LockSpec
  BY TasksUseTheLock, PTL DEF Spec, LockSpec, Init
<1>2. Spec => []MutualExclusion /\ []LInv
  BY <1>1, LockExcludes, LockInvariant, PTL
<1>3. CInv /\ MutualExclusion /\ LInv' /\ [Next]_vars => CInv'
  BY NextCInv
<1> QED BY InitCInv, <1>2, <1>3, PTL DEF Spec

(* Every variable has its type.                                            *)
THEOREM CartTypes == ASSUME Edits = "betweenTasks" PROVE Spec => []CartTypeOK
<1>1. CInv => CartTypeOK
  BY DEF CInv, TypeOK
<1> QED BY CartInvariant, <1>1, PTL

(* A line that the distributor receives is one that NODO was asked to      *)
(* send, with its quantity, whatever the portal accepts of each line, in   *)
(* whichever warehouses it puts it and whichever call fails; a line that   *)
(* is missing is whole in another warehouse.                               *)
THEOREM OnlyTheRequestIsSent == ASSUME Edits = "betweenTasks" PROVE Spec => []SentIsRequested
<1>1. CInv => SentIsRequested
  BY DEF CInv
<1> QED BY CartInvariant, <1>1, PTL

(* A verification leaves in the portal what it reconciled and had stock.   *)
THEOREM VerificationLeavesTheMerge == ASSUME Edits = "betweenTasks" PROVE Spec => []VerifyLeavesWhatItMerged
<1>1. CInv => VerifyLeavesWhatItMerged
  <2> SUFFICES ASSUME CInv, NEW t \in Tasks, Running(t), job[t].step = "save"
               PROVE  /\ UNION {In(Codes, w) : w \in Warehouses} = LinesOf(job[t].target) \ job[t].missing
                      /\ \A c \in Codes, w \in Warehouses : cart[c][w] <= job[t].target[c]
    BY DEF VerifyLeavesWhatItMerged
  <2>1. job[t] \in Jobs /\ Known(job[t], cart, origin, unsaved) /\ cart \in PortalCarts
    BY RunnerHasJob
  <2>2. /\ Held(cart) = LinesOf(job[t].target) \ job[t].missing
        /\ \A c \in Held(cart) : Fits(cart[c], job[t].target[c])
    BY <2>1 DEF Known
  <2>3. UNION {In(Codes, w) : w \in Warehouses} = Held(cart)
    <3>1. ASSUME NEW c \in Codes PROVE c \in Held(cart) <=> \E w \in Warehouses : c \in In(Codes, w)
      BY <2>1, HeldHasRow DEF In
    <3> QED BY <3>1 DEF Held, In
  <2>4. ASSUME NEW c \in Codes, NEW w \in Warehouses PROVE cart[c][w] <= job[t].target[c]
    <3>1. job[t].target[c] \in 0..MaxQty
      BY <2>1 DEF Jobs, SmallCarts
    <3>2. c \notin Held(cart) => cart[c][w] = 0
      BY <2>1, HeldHasRow
    <3> QED BY <2>2, <3>1, <3>2, PortalCartAssumption DEF Fits
  <2> QED BY <2>2, <2>3, <2>4
<1> QED BY CartInvariant, <1>1, PTL

(* While every task saves its snapshot, a line reported as loaded at the   *)
(* portal was put there by somebody there.                                 *)
THEOREM ReportedLinesAreTheMerchants == ASSUME Edits = "betweenTasks" PROVE Spec => []AddedWasAdded
<1>1. CInv => AddedWasAdded
  BY DEF CInv
<1> QED BY CartInvariant, <1>1, PTL
=============================================================================
