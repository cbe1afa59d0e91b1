----------------------------- MODULE TicketLock -----------------------------
(* What a lock by account promises: callers take numbers and are served    *)
(* one at a time in that order.                                            *)
EXTENDS Naturals

CONSTANT Accounts

VARIABLES
  taken,   \* account -> numbers handed out
  served,  \* account -> numbers whose holder has left
  holder   \* account -> the number inside, or 0

ticketVars == <<taken, served, holder>>

Init == /\ taken = [a \in Accounts |-> 0]
        /\ served = [a \in Accounts |-> 0]
        /\ holder = [a \in Accounts |-> 0]

Take(a) == /\ taken' = [taken EXCEPT ![a] = @ + 1]
           /\ UNCHANGED <<served, holder>>

Enter(a) == /\ holder[a] = 0
            /\ served[a] < taken[a]
            /\ holder' = [holder EXCEPT ![a] = served[a] + 1]
            /\ UNCHANGED <<taken, served>>

Leave(a) == /\ holder[a] # 0
            /\ holder' = [holder EXCEPT ![a] = 0]
            /\ served' = [served EXCEPT ![a] = @ + 1]
            /\ UNCHANGED taken

Next == \E a \in Accounts : Take(a) \/ Enter(a) \/ Leave(a)

Spec == Init /\ [][Next]_ticketVars
=============================================================================
