-------------------------- MODULE SharedCartProofs --------------------------
(* Proofs about CartMerge, for any lines and quantities, and about         *)
(* SharedCart, for any lines and edits and any finite sets of tabs and     *)
(* orders, as long as no answer is lost or overtaken: what is gone stays   *)
(* gone, also when saves are lost and pages loaded again; and who alone    *)
(* edits a line has the last word on it, while no page is loaded again.    *)
EXTENDS SharedCart, FiniteLemmas, FiniteSetTheorems, TLAPS

(* Joining carts gives a cart: no line with nothing in it.                 *)
THEOREM MergeIsACart ==
  ASSUME NEW old \in Carts, NEW ours \in Carts, NEW theirs \in Carts
  PROVE  Merge(old, ours, theirs) \in Carts
<1> DEFINE Entry == {line \in Line : IsThere(line)} \cup {Absent}
<1>1. ASSUME NEW b \in Entry, NEW l \in Entry, NEW r \in Entry
      PROVE  MergedLine(b, l, r) \in Entry
  BY DEF MergedLine, Line, IsThere, Absent
<1>2. \A x \in Lines : old[x] \in Entry /\ ours[x] \in Entry /\ theirs[x] \in Entry
  BY DEF Carts
<1> QED BY <1>1, <1>2 DEF Merge, Carts

(* What only one side changed is taken from that side (the header of       *)
(* cartSync.ts).                                                           *)
THEOREM OnlyChangeWins ==
  ASSUME NEW old, NEW ours, NEW theirs
  PROVE  /\ ours = old => MergedLine(old, ours, theirs) = theirs
         /\ theirs = old => MergedLine(old, ours, theirs) = ours
BY DEF MergedLine

(* Joining never makes units up: a line has at most what the server had    *)
(* and what this tab added to its base.                                    *)
THEOREM MergeAddsOnlyWhatWasAdded ==
  ASSUME NEW old \in Carts, NEW ours \in Carts, NEW theirs \in Carts, NEW x \in Lines
  PROVE  LET mine == ours[x].qty - old[x].qty
         IN  Merge(old, ours, theirs)[x].qty <= theirs[x].qty + (IF mine > 0 THEN mine ELSE 0)
<1>1. /\ old[x].qty \in Nat /\ ours[x].qty \in Nat /\ theirs[x].qty \in Nat
      /\ theirs[x] \in Line \cup {Absent}
      /\ ~IsThere(ours[x]) => ours[x].qty = 0
  BY DEF Carts, Line, Absent, IsThere
<1>2. MergedLine(old[x], ours[x], theirs[x]).qty <=
        theirs[x].qty + (IF ours[x].qty - old[x].qty > 0 THEN ours[x].qty - old[x].qty ELSE 0)
  BY <1>1 DEF MergedLine, IsThere, Absent, Line, Carts
<1> QED BY <1>2 DEF Merge

(* When both sides changed an existing line to different quantities, the   *)
(* units that each one added are summed.                                   *)
THEOREM DifferentAdditionsAreSummed ==
  ASSUME NEW old \in Carts, NEW ours \in Carts, NEW theirs \in Carts, NEW x \in Lines,
         IsThere(old[x]), ours[x].qty > old[x].qty, theirs[x].qty > old[x].qty,
         ours[x].qty # theirs[x].qty
  PROVE  Merge(old, ours, theirs)[x].qty =
           old[x].qty + (ours[x].qty - old[x].qty) + (theirs[x].qty - old[x].qty)
<1>1. /\ old[x].qty \in Nat /\ ours[x].qty \in Nat /\ theirs[x].qty \in Nat
      /\ theirs[x] \in Line \cup {Absent}
  BY DEF Carts, Line, Absent
<1>2. MergedLine(old[x], ours[x], theirs[x]).qty = theirs[x].qty + ours[x].qty - old[x].qty
  BY <1>1 DEF MergedLine, IsThere, Absent, Line
<1> QED BY <1>1, <1>2 DEF Merge

-----------------------------------------------------------------------------
(* Before the first order.                                                 *)
Quiet == \A o \in Orders : orders[o] = NoOrder

(* A worker has found only orders that somebody made.                      *)
OrdersFit ==
  /\ DOMAIN orders = Orders /\ DOMAIN found = Workers
  /\ \A w \in Workers : \A o \in found[w] : o \in Orders /\ orders[o] # NoOrder

Saves == {NoSave} \cup [stage : {"sent"}, cart : Carts, version : Nat] \cup [stage : {"saved", "conflict"}, version : Nat]
TabsTypeOK ==
  /\ versions \in Seq(Carts) /\ Latest > 0
  /\ base \in [Tabs -> 1..Latest]
  /\ local \in [Tabs -> Carts]
  /\ saving \in [Tabs -> Saves]
  /\ inbox \in [Tabs -> SUBSET (1..Latest)]
  /\ edits \in Nat
  /\ editors \in [Lines -> SUBSET Tabs] /\ (\A x \in Lines : IsFiniteSet(editors[x]))
  /\ wanted \in [Lines -> Nat]

(* A save was made over a version the tab has left behind or still has,    *)
(* and the tab takes no other version until it is answered.                *)
SavesFit ==
  \A t \in Tabs :
    /\ saving[t] # NoSave => saving[t].version \in 1..Latest
    /\ saving[t].stage = "sent" => saving[t].version <= base[t]
    /\ saving[t].stage = "saved" => base[t] = saving[t].version - 1

(* A line that nobody has changed is the same in every version.            *)
UntouchedLine(x) ==
  \A v \in 1..Latest : versions[v][x] = versions[1][x] /\ versions[v][x].qty = wanted[x]

(* A tab that has not changed a line shows it and saves it as it came.     *)
FollowsLine(t, x) ==
  /\ local[t][x] = versions[base[t]][x]
  /\ saving[t].stage = "sent" => saving[t].cart[x] = versions[saving[t].version][x]
  /\ saving[t].stage = "saved" => versions[saving[t].version][x] = versions[base[t]][x]

(* The only tab that has changed a line shows what was wanted, and the     *)
(* versions it has not taken yet bring nothing new about the line.         *)
OwnsLine(e, x) ==
  /\ local[e][x].qty = wanted[x]
  /\ saving[e].stage # "saved" =>
       \A v \in base[e]..Latest : versions[v][x] = versions[base[e]][x]
  /\ saving[e].stage = "saved" =>
       \A v \in saving[e].version..Latest : versions[v][x] = versions[saving[e].version][x]

OneEditor(x) == \A t, u \in editors[x] : t = u
LineFits(x) ==
  OneEditor(x) =>
    /\ editors[x] = {} => UntouchedLine(x)
    /\ \A t \in Tabs \ editors[x] : FollowsLine(t, x)
    /\ \A e \in editors[x] : OwnsLine(e, x)
LinesFit == \A x \in Lines : LineFits(x)

SInv == OrdersFit /\ (Quiet => TabsTypeOK /\ SavesFit /\ LinesFit)

(* A step that leaves the history alone keeps what is known of the lines   *)
(* when it keeps what is known of each tab.                                *)
LEMMA LinesStayFit ==
  ASSUME LinesFit, UNCHANGED <<editors, wanted>>,
         \A x \in Lines : UntouchedLine(x) /\ editors[x] = {} /\ (\A t \in Tabs : FollowsLine(t, x)) => UntouchedLine(x)',
         \A x \in Lines : \A t \in Tabs \ editors[x] : LineFits(x) /\ OneEditor(x) /\ FollowsLine(t, x) => FollowsLine(t, x)',
         \A x \in Lines : \A t \in editors[x] : LineFits(x) /\ OneEditor(x) /\ OwnsLine(t, x) => OwnsLine(t, x)'
  PROVE  LinesFit'
<1> SUFFICES ASSUME NEW x \in Lines, OneEditor(x)' PROVE  (editors[x] = {} => UntouchedLine(x))'
                                                      /\ (\A t \in Tabs \ editors[x] : FollowsLine(t, x))'
                                                      /\ (\A e \in editors[x] : OwnsLine(e, x))'
  BY DEF LinesFit, LineFits
<1>1. OneEditor(x) /\ LineFits(x) /\ editors' = editors
  BY DEF LinesFit, OneEditor
<1>2. /\ editors[x] = {} => UntouchedLine(x)
      /\ \A t \in Tabs \ editors[x] : FollowsLine(t, x)
      /\ \A e \in editors[x] : OwnsLine(e, x)
  BY <1>1 DEF LineFits
<1> QED BY <1>1, <1>2

(* A step of one tab that writes no version disturbs no other tab.         *)
LEMMA OthersStayFit ==
  ASSUME TabsTypeOK, LinesFit, UNCHANGED <<versions, editors, wanted>>, NEW t \in Tabs,
         \A u \in Tabs \ {t} : base'[u] = base[u] /\ local'[u] = local[u] /\ saving'[u] = saving[u],
         \A x \in Lines : t \notin editors[x] /\ FollowsLine(t, x) => FollowsLine(t, x)',
         \A x \in Lines : t \in editors[x] /\ OwnsLine(t, x) => OwnsLine(t, x)'
  PROVE  LinesFit'
<1>1. \A x \in Lines : UntouchedLine(x) => UntouchedLine(x)'
  BY DEF UntouchedLine, Latest
<1>2. \A x \in Lines, u \in Tabs \ {t} : FollowsLine(u, x) => FollowsLine(u, x)'
  BY DEF FollowsLine
<1>3. \A x \in Lines, u \in Tabs \ {t} : OwnsLine(u, x) => OwnsLine(u, x)'
  BY DEF OwnsLine, Latest
<1>4. \A x \in Lines : editors[x] \subseteq Tabs
  BY DEF TabsTypeOK
<1> QED BY <1>1, <1>2, <1>3, <1>4, LinesStayFit

(* A tab that takes another version.                                       *)
LEMMA TakesVersion ==
  ASSUME TabsTypeOK, NEW t \in Tabs, NEW v \in 1..Latest, ApplyRemote(t, v), UNCHANGED versions
  PROVE  /\ base' \in [Tabs -> 1..Latest] /\ local' \in [Tabs -> Carts]
         /\ base'[t] = (IF v > base[t] THEN v ELSE base[t])
         /\ \A u \in Tabs \ {t} : base'[u] = base[u] /\ local'[u] = local[u]
         /\ v <= base[t] => base'[t] = base[t] /\ local'[t] = local[t]
         /\ v > base[t] => \A x \in Lines :
              local'[t][x] = MergedLine(versions[base[t]][x], local[t][x], versions[v][x])
<1> USE DEF TabsTypeOK, Latest
<1>1. base' = [base EXCEPT ![t] = IF v > @ THEN v ELSE @] /\ base[t] \in 1..Latest
  BY DEF ApplyRemote, SetBase
<1>2. /\ base' \in [Tabs -> 1..Latest] /\ base'[t] = (IF v > base[t] THEN v ELSE base[t])
      /\ \A u \in Tabs \ {t} : base'[u] = base[u]
  BY <1>1
<1>3. CASE v <= base[t]
  <2>1. ~(v > base[t]) /\ local' = local
    BY <1>1, <1>3 DEF ApplyRemote
  <2> QED BY <1>2, <1>3, <2>1
<1>4. CASE v > base[t]
  <2>1. local' = [local EXCEPT ![t] = Merge(versions[base[t]], local[t], versions[v])]
    BY <1>1, <1>4 DEF ApplyRemote
  <2>2. Merge(versions[base[t]], local[t], versions[v]) \in Carts
    BY <1>1, MergeIsACart
  <2> QED BY <1>1, <1>2, <1>4, <2>1, <2>2 DEF Merge
<1> QED BY <1>1, <1>3, <1>4

(* What a version brings to a line that the tab follows, or owns.          *)
LEMMA TakesLine ==
  ASSUME TabsTypeOK, NEW t \in Tabs, NEW v \in 1..Latest, ApplyRemote(t, v), UNCHANGED versions, NEW x \in Lines
  PROVE  /\ FollowsLine(t, x) => local'[t][x] = versions[base'[t]][x]
         /\ (\A i \in base[t]..Latest : versions[i][x] = versions[base[t]][x]) =>
               /\ local'[t][x] = local[t][x]
               /\ \A i \in base'[t]..Latest : versions[i][x] = versions[base'[t]][x]
<1>1. base[t] \in 1..Latest /\ Latest \in Nat
  BY DEF TabsTypeOK, Latest
<1>2. CASE v <= base[t]
  BY <1>1, <1>2, TakesVersion DEF FollowsLine
<1>3. CASE v > base[t]
  <2>1. /\ base'[t] = v /\ v \in base[t]..Latest
        /\ local'[t][x] = MergedLine(versions[base[t]][x], local[t][x], versions[v][x])
    BY <1>1, <1>3, TakesVersion
  <2>2. FollowsLine(t, x) => local'[t][x] = versions[base'[t]][x]
    BY <2>1, OnlyChangeWins DEF FollowsLine
  <2>3. ASSUME \A i \in base[t]..Latest : versions[i][x] = versions[base[t]][x]
        PROVE  /\ local'[t][x] = local[t][x]
               /\ \A i \in base'[t]..Latest : versions[i][x] = versions[base'[t]][x]
    <3>1. versions[v][x] = versions[base[t]][x]
      BY <2>1, <2>3
    <3>2. \A i \in v..Latest : i \in base[t]..Latest
      BY <1>1, <1>3
    <3> QED BY <2>1, <2>3, <3>1, <3>2, OnlyChangeWins
  <2> QED BY <2>2, <2>3
<1> QED BY <1>1, <1>2, <1>3

TabsFit == TabsTypeOK /\ SavesFit /\ LinesFit

LEMMA PushKeeps == ASSUME TabsFit, NEW t \in Tabs, Push(t) PROVE TabsFit'
<1> USE DEF TabsFit, Latest
<1> DEFINE save == [stage |-> "sent", cart |-> local[t], version |-> base[t]]
<1>1. /\ saving' = [saving EXCEPT ![t] = save] /\ saving[t] = NoSave
      /\ UNCHANGED <<versions, base, local, inbox, edits, editors, wanted>>
  BY DEF Push, serverVars, history
<1>2. save \in Saves /\ base[t] \in 1..Latest
  BY DEF TabsTypeOK, Saves
<1>3. /\ saving'[t] = save /\ \A u \in Tabs \ {t} : saving'[u] = saving[u]
      /\ saving' \in [Tabs -> Saves]
  BY <1>1, <1>2 DEF TabsTypeOK
<1>4. TabsTypeOK'
  BY <1>1, <1>3 DEF TabsTypeOK
<1>5. SavesFit'
  BY <1>1, <1>2, <1>3 DEF SavesFit
<1>6. ASSUME NEW x \in Lines, FollowsLine(t, x) PROVE FollowsLine(t, x)'
  BY <1>1, <1>3, <1>6 DEF FollowsLine
<1>7. ASSUME NEW x \in Lines, OwnsLine(t, x) PROVE OwnsLine(t, x)'
  BY <1>1, <1>3, <1>7 DEF OwnsLine, NoSave
<1>8. LinesFit'
  BY <1>1, <1>3, <1>6, <1>7, OthersStayFit
<1> QED BY <1>4, <1>5, <1>8

LEMMA LoseSaveKeeps ==
  ASSUME TabsFit, NEW t \in Tabs, "lostReply" \notin Faults, LoseSave(t) PROVE TabsFit'
<1> USE DEF TabsFit, Latest
<1>1. /\ saving' = [saving EXCEPT ![t] = NoSave] /\ saving[t].stage = "sent"
      /\ UNCHANGED <<versions, base, local, inbox, edits, editors, wanted>>
  BY DEF LoseSave, serverVars, history
<1>2. /\ saving'[t] = NoSave /\ \A u \in Tabs \ {t} : saving'[u] = saving[u]
      /\ saving' \in [Tabs -> Saves]
  BY <1>1 DEF TabsTypeOK, Saves
<1>3. TabsTypeOK' /\ SavesFit'
  BY <1>1, <1>2 DEF TabsTypeOK, SavesFit, NoSave
<1>4. ASSUME NEW x \in Lines PROVE (FollowsLine(t, x) => FollowsLine(t, x)') /\ (OwnsLine(t, x) => OwnsLine(t, x)')
  BY <1>1, <1>2 DEF FollowsLine, OwnsLine, NoSave
<1>5. LinesFit'
  BY <1>1, <1>2, <1>4, OthersStayFit
<1> QED BY <1>3, <1>5

LEMMA PullKeeps == ASSUME TabsFit, NEW t \in Tabs, Pull(t) PROVE TabsFit'
<1> USE DEF TabsFit, Latest
<1>1. /\ inbox' = [inbox EXCEPT ![t] = @ \cup {Latest}]
      /\ UNCHANGED <<versions, base, local, saving, edits, editors, wanted>>
  BY DEF Pull, serverVars, history
<1>2. TabsTypeOK' /\ SavesFit'
  BY <1>1 DEF TabsTypeOK, SavesFit
<1>3. LinesFit'
  BY <1>1 DEF LinesFit, LineFits, OneEditor, UntouchedLine, FollowsLine, OwnsLine
<1> QED BY <1>2, <1>3

LEMMA DeliverKeeps ==
  ASSUME TabsFit, NEW t \in Tabs, NEW v \in inbox[t], "overtake" \notin Faults, Deliver(t, v) PROVE TabsFit'
<1> USE DEF TabsFit
<1>1. /\ inbox' = [inbox EXCEPT ![t] = @ \ {v}] /\ ApplyRemote(t, v)
      /\ UNCHANGED <<versions, saving, edits, editors, wanted>>
      /\ saving[t].stage = "saved" => v < saving[t].version
  BY DEF Deliver, serverVars, history
<1>2. v \in 1..Latest /\ Latest \in Nat /\ base[t] \in 1..Latest
  BY DEF TabsTypeOK, Latest
<1>3. saving[t].stage = "saved" => v <= base[t]
  <2> SUFFICES ASSUME saving[t].stage = "saved" PROVE v <= base[t]
    OBVIOUS
  <2>1. saving[t] # NoSave /\ saving[t].version \in 1..Latest /\ base[t] = saving[t].version - 1
    BY DEF SavesFit, NoSave
  <2> QED BY <1>1, <1>2, <2>1
<1>4. /\ base' \in [Tabs -> 1..Latest] /\ local' \in [Tabs -> Carts]
      /\ base'[t] = (IF v > base[t] THEN v ELSE base[t])
      /\ \A u \in Tabs \ {t} : base'[u] = base[u] /\ local'[u] = local[u]
      /\ v <= base[t] => base'[t] = base[t] /\ local'[t] = local[t]
  BY <1>1, <1>2, TakesVersion
<1>5. TabsTypeOK'
  BY <1>1, <1>4 DEF TabsTypeOK, Latest
<1>6. SavesFit'
  <2>1. \A u \in Tabs : saving[u] # NoSave => saving[u].version \in 1..Latest
    BY DEF SavesFit
  <2>2. base'[t] >= base[t] /\ base'[t] \in Nat
    BY <1>2, <1>4
  <2>3. saving[t].stage = "sent" => saving[t].version <= base'[t]
    BY <1>2, <2>1, <2>2 DEF SavesFit, NoSave
  <2> QED BY <1>1, <1>3, <1>4, <2>1, <2>3 DEF SavesFit, Latest
<1>7. ASSUME NEW x \in Lines, FollowsLine(t, x) PROVE FollowsLine(t, x)'
  <2>1. local'[t][x] = versions[base'[t]][x]
    BY <1>1, <1>2, <1>7, TakesLine
  <2> QED BY <1>1, <1>3, <1>4, <1>7, <2>1 DEF FollowsLine
<1>8. ASSUME NEW x \in Lines, OwnsLine(t, x) PROVE OwnsLine(t, x)'
  <2>1. CASE saving[t].stage = "saved"
    BY <1>1, <1>3, <1>4, <1>8, <2>1 DEF OwnsLine, Latest
  <2>2. CASE saving[t].stage # "saved"
    <3>1. /\ local'[t][x] = local[t][x]
          /\ \A i \in base'[t]..Latest : versions[i][x] = versions[base'[t]][x]
      BY <1>1, <1>2, <1>8, <2>2, TakesLine DEF OwnsLine
    <3> QED BY <1>1, <1>8, <2>2, <3>1 DEF OwnsLine, Latest
  <2> QED BY <2>1, <2>2
<1>9. LinesFit'
  BY <1>1, <1>4, <1>7, <1>8, OthersStayFit
<1> QED BY <1>5, <1>6, <1>9

LEMMA ReplyKeeps == ASSUME TabsFit, NEW t \in Tabs, Reply(t) PROVE TabsFit'
<1> USE DEF TabsFit
<1> DEFINE v == saving[t].version
<1>1. /\ saving' = [saving EXCEPT ![t] = NoSave] /\ saving[t] # NoSave /\ v \in 1..Latest
      /\ UNCHANGED <<versions, inbox, edits, editors, wanted>>
      /\ Latest \in Nat /\ base[t] \in 1..Latest
  BY DEF Reply, serverVars, history, NoSave, SavesFit, TabsTypeOK, Latest
<1>2. /\ saving'[t] = NoSave /\ NoSave.stage = "none" /\ \A u \in Tabs \ {t} : saving'[u] = saving[u]
      /\ saving' \in [Tabs -> Saves]
  BY <1>1 DEF TabsTypeOK, Saves, NoSave
<1>3. ASSUME base' \in [Tabs -> 1..Latest], local' \in [Tabs -> Carts],
             \A u \in Tabs \ {t} : base'[u] = base[u] /\ local'[u] = local[u]
      PROVE  TabsTypeOK' /\ SavesFit'
  BY <1>1, <1>2, <1>3 DEF TabsTypeOK, SavesFit, Latest
<1>4. CASE saving[t].stage = "saved" /\ SetBase(t, v) /\ UNCHANGED local
  <2>1. base[t] = v - 1
    BY <1>4 DEF SavesFit
  <2>2. base' = [base EXCEPT ![t] = v]
    <3>1. v > base[t]
      BY <1>1, <2>1
    <3> QED BY <1>4, <3>1 DEF SetBase
  <2>3. /\ base' \in [Tabs -> 1..Latest] /\ base'[t] = v
        /\ \A u \in Tabs \ {t} : base'[u] = base[u] /\ local'[u] = local[u]
        /\ local' \in [Tabs -> Carts]
    BY <1>1, <1>4, <2>2 DEF TabsTypeOK
  <2>4. \A x \in Lines : FollowsLine(t, x) => FollowsLine(t, x)'
    BY <1>1, <1>2, <1>4, <2>3 DEF FollowsLine
  <2>5. \A x \in Lines : OwnsLine(t, x) => OwnsLine(t, x)'
    BY <1>1, <1>2, <1>4, <2>3 DEF OwnsLine, Latest
  <2>6. LinesFit'
    BY <1>1, <1>2, <2>3, <2>4, <2>5, OthersStayFit
  <2> QED BY <1>3, <2>3, <2>6
<1>5. CASE saving[t].stage = "conflict" /\ ApplyRemote(t, v)
  <2>1. /\ base' \in [Tabs -> 1..Latest] /\ local' \in [Tabs -> Carts]
        /\ \A u \in Tabs \ {t} : base'[u] = base[u] /\ local'[u] = local[u]
    BY <1>1, <1>5, TakesVersion
  <2>2. ASSUME NEW x \in Lines, FollowsLine(t, x) PROVE FollowsLine(t, x)'
    <3>1. local'[t][x] = versions[base'[t]][x]
      BY <1>1, <1>5, <2>2, TakesLine
    <3> QED BY <1>1, <1>2, <3>1 DEF FollowsLine
  <2>3. ASSUME NEW x \in Lines, OwnsLine(t, x) PROVE OwnsLine(t, x)'
    <3>1. /\ local'[t][x] = local[t][x]
          /\ \A i \in base'[t]..Latest : versions[i][x] = versions[base'[t]][x]
      BY <1>1, <1>5, <2>3, TakesLine DEF OwnsLine
    <3> QED BY <1>1, <1>2, <2>3, <3>1 DEF OwnsLine, Latest
  <2>4. LinesFit'
    BY <1>1, <1>2, <2>1, <2>2, <2>3, OthersStayFit
  <2> QED BY <1>3, <2>1, <2>4
<1> QED BY <1>4, <1>5 DEF Reply

LEMMA PutKeeps == ASSUME TabsFit, NEW t \in Tabs, Put(t) PROVE TabsFit'
<1> USE DEF TabsFit
<1> DEFINE s == saving[t]
<1>1. /\ s.stage = "sent" /\ s # NoSave /\ s \in [stage : {"sent"}, cart : Carts, version : Nat]
      /\ UNCHANGED <<base, local, edits, editors, wanted>>
      /\ Latest \in Nat /\ base[t] \in 1..Latest /\ Latest > 0
      /\ s.version <= base[t] /\ s.version \in 1..Latest
  <2>1. s.stage = "sent" /\ UNCHANGED <<base, local, edits, editors, wanted>>
    BY DEF Put, history
  <2>2. s # NoSave /\ s \in Saves
    BY <2>1 DEF NoSave, TabsTypeOK
  <2>3. s \in [stage : {"sent"}, cart : Carts, version : Nat]
    BY <2>1, <2>2 DEF Saves
  <2>4. Latest \in Nat /\ base[t] \in 1..Latest /\ Latest > 0
    BY DEF TabsTypeOK, Latest
  <2>5. s.version <= base[t] /\ s.version \in 1..Latest
    BY <2>1, <2>2 DEF SavesFit
  <2> QED BY <2>1, <2>2, <2>3, <2>4, <2>5
<1>2. CASE s.version # Latest /\ saving' = [saving EXCEPT ![t] = [stage |-> "conflict", version |-> Latest]]
           /\ UNCHANGED <<versions, inbox>>
  <2> DEFINE k == [stage |-> "conflict", version |-> Latest]
  <2>1. /\ saving'[t] = k /\ k.stage = "conflict" /\ k.version = Latest /\ \A u \in Tabs \ {t} : saving'[u] = saving[u]
        /\ saving' \in [Tabs -> Saves]
    BY <1>1, <1>2 DEF TabsTypeOK, Saves
  <2>2. TabsTypeOK'
    BY <1>1, <1>2, <2>1 DEF TabsTypeOK, Latest
  <2>3. SavesFit'
    BY <1>1, <1>2, <2>1 DEF SavesFit, Latest
  <2>4. \A x \in Lines : (FollowsLine(t, x) => FollowsLine(t, x)') /\ (OwnsLine(t, x) => OwnsLine(t, x)')
    BY <1>1, <1>2, <2>1 DEF FollowsLine, OwnsLine, Latest
  <2>5. LinesFit'
    BY <1>1, <1>2, <2>1, <2>4, OthersStayFit
  <2> QED BY <2>2, <2>3, <2>5
<1>3. CASE s.version = Latest /\ versions' = Append(versions, s.cart)
           /\ saving' = [saving EXCEPT ![t] = [stage |-> "saved", version |-> Latest + 1]]
           /\ Notify(Tabs \ {t})
  <2> DEFINE k == [stage |-> "saved", version |-> Latest + 1]
  <2>1. /\ saving'[t] = k /\ k.stage = "saved" /\ k.version = Latest + 1 /\ \A u \in Tabs \ {t} : saving'[u] = saving[u]
        /\ saving' \in [Tabs -> Saves] /\ base[t] = Latest
    BY <1>1, <1>3 DEF TabsTypeOK, Saves
  <2>2. /\ versions' \in Seq(Carts) /\ Latest' = Latest + 1 /\ versions'[Latest + 1] = s.cart
        /\ \A v \in 1..Latest : versions'[v] = versions[v]
    BY <1>1, <1>3 DEF TabsTypeOK, Latest
  <2>3. inbox' \in [Tabs -> SUBSET (1..Latest')]
    <3>1. \A u \in Tabs : inbox[u] \subseteq 1..Latest'
      BY <1>1, <2>2 DEF TabsTypeOK
    <3>2. Len(versions') \in 1..Latest'
      BY <1>1, <2>2 DEF Latest
    <3> QED BY <1>3, <3>1, <3>2 DEF Notify
  <2>4. TabsTypeOK'
    <3>1. base' \in [Tabs -> 1..Latest']
      BY <1>1, <2>2 DEF TabsTypeOK
    <3> QED BY <1>1, <2>1, <2>2, <2>3, <3>1 DEF TabsTypeOK
  <2>5. SavesFit'
    <3>1. ASSUME NEW u \in Tabs, saving'[u] # NoSave PROVE saving'[u].version \in 1..Latest'
      BY <1>1, <2>1, <2>2, <3>1 DEF SavesFit
    <3> QED BY <1>1, <2>1, <2>2, <3>1, SMTT(30) DEF SavesFit
  <2>6. ASSUME NEW x \in Lines, LineFits(x), OneEditor(x), \E u \in Tabs : u \in editors[x] \/ editors[x] = {}
        PROVE  /\ t \notin editors[x] => versions'[Latest + 1][x] = versions[Latest][x]
               /\ \A u \in editors[x] \ {t} : t \notin editors[x]
    <3>1. t \notin editors[x] => FollowsLine(t, x)
      BY <2>6 DEF LineFits
    <3> QED BY <1>1, <1>3, <2>2, <2>6, <3>1 DEF FollowsLine, OneEditor
  <2>7. ASSUME NEW x \in Lines, UntouchedLine(x), editors[x] = {}, FollowsLine(t, x) PROVE UntouchedLine(x)'
    <3>1. versions'[Latest + 1][x] = versions[Latest][x]
      BY <1>1, <1>3, <2>2, <2>7 DEF FollowsLine
    <3> QED BY <1>1, <2>2, <2>7, <3>1 DEF UntouchedLine
  <2>8. ASSUME NEW x \in Lines, NEW u \in Tabs \ editors[x], LineFits(x), OneEditor(x), FollowsLine(u, x)
        PROVE  FollowsLine(u, x)'
    <3>1. base[u] \in 1..Latest /\ (saving[u] # NoSave => saving[u].version \in 1..Latest)
      BY DEF TabsTypeOK, SavesFit
    <3>2. CASE u = t
      <4>1. s.cart[x] = versions[Latest][x] /\ local[t][x] = versions[Latest][x]
        BY <1>1, <1>3, <2>1, <2>8, <3>2 DEF FollowsLine
      <4>2. versions'[base[t]] = versions[Latest]
        BY <1>1, <2>1, <2>2
      <4>3. /\ saving'[t].stage = "saved" /\ saving'[t].version = Latest + 1
            /\ base' = base /\ local' = local
        BY <1>1, <2>1
      <4> HIDE DEF s, k, Latest
      <4>4. FollowsLine(t, x)'
        BY <2>2, <4>1, <4>2, <4>3 DEF FollowsLine
      <4> QED BY <3>2, <4>4
    <3>3. CASE u # t
      BY <1>1, <2>1, <2>2, <2>8, <3>1, <3>3 DEF FollowsLine, NoSave
    <3> QED BY <3>2, <3>3
  <2>9. ASSUME NEW x \in Lines, NEW u \in editors[x], LineFits(x), OneEditor(x), OwnsLine(u, x)
        PROVE  OwnsLine(u, x)'
    <3>0. u \in Tabs
      BY <2>9 DEF TabsTypeOK
    <3>1. base[u] \in 1..Latest /\ (saving[u] # NoSave => saving[u].version \in 1..Latest)
      BY <3>0 DEF TabsTypeOK, SavesFit
    <3>2. CASE u = t
      <4>1. \A v \in (Latest + 1)..Latest' : v = Latest + 1
        BY <1>1, <2>2
      <4>2. /\ saving'[t].stage = "saved" /\ saving'[t].version = Latest + 1
            /\ local'[t][x].qty = wanted'[x]
        BY <1>1, <2>1, <2>9, <3>2 DEF OwnsLine
      <4>3. \A v \in saving'[t].version..Latest' : versions'[v][x] = versions'[saving'[t].version][x]
        BY <4>1, <4>2
      <4> HIDE DEF s, k, Latest
      <4>4. OwnsLine(t, x)'
        BY <4>2, <4>3 DEF OwnsLine
      <4> QED BY <3>2, <4>4
    <3>3. CASE u # t
      <4>1. versions'[Latest + 1][x] = versions[Latest][x]
        BY <2>6, <2>9, <3>0, <3>3
      <4>2. \A v \in 1..Latest' : v \in 1..Latest \/ v = Latest + 1
        BY <1>1, <2>2
      <4>3. CASE saving[u].stage = "saved"
        <5>1. saving[u].version \in 1..Latest /\ saving'[u] = saving[u]
          BY <2>1, <3>0, <3>1, <3>3, <4>3 DEF NoSave
        <5>2. Latest \in saving[u].version..Latest
          BY <1>1, <5>1
        <5>3. ASSUME NEW v \in saving[u].version..Latest'
              PROVE  versions'[v][x] = versions'[saving[u].version][x]
          <6>1. \A i \in saving[u].version..Latest : versions[i][x] = versions[saving[u].version][x]
            BY <2>9, <4>3 DEF OwnsLine
          <6>2. saving[u].version \in 1..Latest /\ versions'[saving[u].version] = versions[saving[u].version]
            BY <2>2, <5>1
          <6>3. v \in saving[u].version..Latest \/ v = Latest + 1
            BY <1>1, <2>2, <5>3, <6>2
          <6> HIDE DEF s, k, Latest
          <6>4. CASE v \in saving[u].version..Latest
            <7>1. v \in 1..Latest
              BY <1>1, <6>2, <6>4
            <7> QED BY <2>2, <6>1, <6>2, <6>4, <7>1
          <6>5. CASE v = Latest + 1
            BY <4>1, <5>2, <6>1, <6>2, <6>5
          <6> QED BY <6>3, <6>4, <6>5
        <5>4. local'[u][x].qty = wanted'[x] /\ saving'[u].stage = "saved"
          BY <1>1, <2>9, <4>3, <5>1 DEF OwnsLine
        <5> HIDE DEF s, k, Latest
        <5> QED BY <5>1, <5>3, <5>4 DEF OwnsLine
      <4>4. CASE saving[u].stage # "saved"
        <5>1. saving'[u] = saving[u] /\ base'[u] = base[u] /\ Latest \in base[u]..Latest
          BY <1>1, <2>1, <3>0, <3>1, <3>3
        <5>2. ASSUME NEW v \in base[u]..Latest'
              PROVE  versions'[v][x] = versions'[base[u]][x]
          BY <1>1, <2>2, <2>9, <3>1, <4>1, <4>2, <4>4, <5>1, <5>2, SMTT(30) DEF OwnsLine
        <5> QED BY <1>1, <2>9, <4>4, <5>1, <5>2 DEF OwnsLine
      <4> QED BY <4>3, <4>4
    <3> QED BY <3>2, <3>3
  <2>10. LinesFit'
    BY <1>1, <2>7, <2>8, <2>9, LinesStayFit
  <2> QED BY <2>4, <2>5, <2>10
<1> QED BY <1>2, <1>3 DEF Put

LEMMA EditKeeps ==
  ASSUME TabsFit, NEW t \in Tabs, NEW x \in Lines, NEW qty \in 0..MaxQty, Edit(t, x, qty)
  PROVE  TabsFit'
<1> USE DEF TabsFit
<1> DEFINE old == local[t][x]
           new == IF qty = 0 THEN Absent
                  ELSE IF IsThere(old) THEN [old EXCEPT !.qty = qty]
                  ELSE [qty |-> qty, made |-> edits + 1]
<1>1. /\ local' = [local EXCEPT ![t][x] = new] /\ edits' = edits + 1
      /\ editors' = [editors EXCEPT ![x] = @ \cup {t}] /\ wanted' = [wanted EXCEPT ![x] = qty]
      /\ UNCHANGED <<versions, base, saving, inbox>>
  BY DEF Edit, serverVars
<1>2. /\ new \in {line \in Line : IsThere(line)} \cup {Absent} /\ new.qty = qty
      /\ qty \in Nat
  <2>1. old \in {line \in Line : IsThere(line)} \cup {Absent} /\ edits \in Nat
    BY DEF TabsTypeOK, Carts
  <2>2. qty \in Nat
    BY SharedCartAssumption
  <2> QED BY <2>1, <2>2 DEF Line, IsThere, Absent
<1> HIDE DEF new
<1>3. /\ local' \in [Tabs -> Carts] /\ local'[t][x] = new
      /\ \A u \in Tabs, y \in Lines : u # t \/ y # x => local'[u][y] = local[u][y]
  <2>1. local[t] \in Carts /\ [local[t] EXCEPT ![x] = new] \in Carts
    BY <1>2 DEF TabsTypeOK, Carts
  <2>2. local' = [local EXCEPT ![t] = [local[t] EXCEPT ![x] = new]]
    BY <1>1
  <2>3. local' \in [Tabs -> Carts] /\ local'[t] = [local[t] EXCEPT ![x] = new] /\ \A u \in Tabs \ {t} : local'[u] = local[u]
    BY <2>1, <2>2 DEF TabsTypeOK
  <2>4. \A y \in Lines : [local[t] EXCEPT ![x] = new][y] = IF y = x THEN new ELSE local[t][y]
    BY <2>1 DEF Carts
  <2> QED BY <2>3, <2>4
<1>4. /\ editors' \in [Lines -> SUBSET Tabs] /\ editors'[x] = editors[x] \cup {t}
      /\ wanted' \in [Lines -> Nat] /\ wanted'[x] = qty
      /\ \A y \in Lines \ {x} : editors'[y] = editors[y] /\ wanted'[y] = wanted[y]
      /\ \A y \in Lines : IsFiniteSet(editors'[y])
  <2>1. IsFiniteSet(editors[x] \cup {t})
    BY FS_AddElement DEF TabsTypeOK
  <2> QED BY <1>1, <1>2, <2>1 DEF TabsTypeOK
<1>5. TabsTypeOK' /\ SavesFit'
  <2>1. edits' \in Nat /\ Latest' = Latest
    BY <1>1 DEF TabsTypeOK, Latest
  <2>2. TabsTypeOK'
    BY <1>1, <1>3, <1>4, <2>1 DEF TabsTypeOK
  <2>3. SavesFit'
    BY <1>1, <2>1 DEF SavesFit
  <2> QED BY <2>2, <2>3
<1>6. ASSUME NEW y \in Lines \ {x} PROVE LineFits(y)'
  <2>1. LineFits(y) /\ y \in Lines /\ editors[y] \subseteq Tabs
    BY DEF LinesFit, TabsTypeOK
  <2>2. UntouchedLine(y) => UntouchedLine(y)'
    BY <1>1, <1>4 DEF UntouchedLine, Latest
  <2>3. \A u \in Tabs : FollowsLine(u, y) => FollowsLine(u, y)'
    BY <1>1, <1>3 DEF FollowsLine
  <2>4. \A u \in Tabs : OwnsLine(u, y) => OwnsLine(u, y)'
    BY <1>1, <1>3, <1>4 DEF OwnsLine, Latest
  <2> QED BY <1>4, <2>1, <2>2, <2>3, <2>4 DEF LineFits, OneEditor
<1>7. ASSUME OneEditor(x)' PROVE LineFits(x)'
  <2>1. LineFits(x) /\ editors[x] \subseteq {t} /\ OneEditor(x) /\ editors'[x] = {t}
    BY <1>4, <1>7 DEF OneEditor, LinesFit
  <2>2. \A u \in Tabs \ {t} : FollowsLine(u, x) => FollowsLine(u, x)'
    BY <1>1, <1>3 DEF FollowsLine
  <2>3. \A u \in Tabs \ {t} : FollowsLine(u, x)
    BY <2>1 DEF LineFits
  <2>4. base[t] \in 1..Latest /\ Latest \in Nat /\ (saving[t].stage = "saved" => saving[t].version \in 1..Latest)
    BY DEF TabsTypeOK, SavesFit, NoSave, Latest
  <2>5. /\ saving[t].stage # "saved" =>
             \A v \in base[t]..Latest : versions[v][x] = versions[base[t]][x]
        /\ saving[t].stage = "saved" =>
             \A v \in saving[t].version..Latest : versions[v][x] = versions[saving[t].version][x]
    <3>1. CASE editors[x] = {}
      <4>1. \A v, w \in 1..Latest : versions[v][x] = versions[w][x]
        BY <2>1, <3>1 DEF LineFits, UntouchedLine
      <4>2. \A a \in 1..Latest : \A v \in a..Latest : v \in 1..Latest
        BY <2>4
      <4> QED BY <2>4, <4>1, <4>2
    <3>2. CASE t \in editors[x]
      BY <2>1, <3>2 DEF LineFits, OwnsLine
    <3> QED BY <2>1, <3>1, <3>2
  <2>6. OwnsLine(t, x)'
    BY <1>1, <1>2, <1>3, <1>4, <2>5 DEF OwnsLine, Latest
  <2> QED BY <2>1, <2>2, <2>3, <2>6 DEF LineFits
<1>8. LinesFit'
  <2>1. LineFits(x)'
    BY <1>7 DEF LineFits
  <2> QED BY <1>6, <2>1 DEF LinesFit
<1> QED BY <1>5, <1>8

(* The initial states satisfy the invariant.                               *)
LEMMA InitSInv == Init => SInv
<1> SUFFICES ASSUME Init PROVE SInv
  OBVIOUS
<1>0. PICK present \in SUBSET Lines : LET start == [x \in Lines |-> IF x \in present THEN [qty |-> 1, made |-> 0] ELSE Absent] IN
        /\ versions = <<start>> /\ base = [t \in Tabs |-> 1] /\ local = [t \in Tabs |-> start]
        /\ saving = [t \in Tabs |-> NoSave] /\ inbox = [t \in Tabs |-> {}]
        /\ orders = [o \in Orders |-> NoOrder] /\ found = [w \in Workers |-> {}] /\ edits = 0
        /\ editors = [x \in Lines |-> {}] /\ wanted = Quantities(start)
  BY DEF Init
<1> DEFINE start == [x \in Lines |-> IF x \in present THEN [qty |-> 1, made |-> 0] ELSE Absent]
<1>1. start \in Carts /\ \A x \in Lines : start[x].qty \in Nat
  BY DEF Carts, Line, IsThere, Absent
<1> HIDE DEF start
<1>2. /\ versions = <<start>> /\ base = [t \in Tabs |-> 1] /\ local = [t \in Tabs |-> start]
      /\ saving = [t \in Tabs |-> NoSave] /\ inbox = [t \in Tabs |-> {}]
      /\ orders = [o \in Orders |-> NoOrder] /\ found = [w \in Workers |-> {}] /\ edits = 0
      /\ editors = [x \in Lines |-> {}] /\ wanted = [x \in Lines |-> start[x].qty]
  BY <1>0 DEF start, Quantities
<1>3. versions \in Seq(Carts) /\ Latest = 1 /\ versions[1] = start
  BY <1>1, <1>2 DEF Latest
<1>4. TabsTypeOK
  <2>1. \A x \in Lines : IsFiniteSet(editors[x])
    BY <1>2, FS_EmptySet
  <2> QED BY <1>1, <1>2, <1>3, <2>1 DEF TabsTypeOK, Saves
<1>5. SavesFit /\ OrdersFit
  BY <1>2 DEF SavesFit, OrdersFit, NoSave
<1>6. LinesFit
  BY <1>2, <1>3 DEF LinesFit, LineFits, UntouchedLine, FollowsLine, OwnsLine, NoSave
<1> QED BY <1>4, <1>5, <1>6 DEF SInv

(* Once somebody orders it is not quiet again, and nothing is settled      *)
(* before.                                                                 *)
LEMMA OrdersStayFit == OrdersFit /\ [Next]_vars => OrdersFit' /\ (Quiet' => Quiet)
<1> SUFFICES ASSUME OrdersFit, [Next]_vars PROVE OrdersFit' /\ (Quiet' => Quiet)
  OBVIOUS
<1>1. CASE UNCHANGED <<orders, found>>
  BY <1>1 DEF OrdersFit, Quiet
<1>2. ASSUME NEW t \in Tabs, NEW o \in Orders, Submit(t, o) PROVE OrdersFit' /\ (Quiet' => Quiet)
  BY <1>2 DEF Submit, OrdersFit, Quiet, NoOrder
<1>3. ASSUME NEW o \in Orders, Created(o) \/ Told(o) PROVE OrdersFit' /\ (Quiet' => Quiet)
  <2>1. orders[o].stage \in {"sending", "created", "settled"}
    BY <1>3 DEF Created, Told
  <2>2. orders[o] # NoOrder
    BY <2>1 DEF NoOrder
  <2>3. /\ found' = found /\ DOMAIN orders' = Orders /\ (\A p \in Orders \ {o} : orders'[p] = orders[p])
        /\ orders'[o] = [orders[o] EXCEPT !.stage = "created"] \/ orders'[o] = [orders[o] EXCEPT !.told = TRUE]
    BY <1>3 DEF Created, Told, OrdersFit
  <2>4. orders'[o] # NoOrder
    BY <2>1, <2>3 DEF NoOrder
  <2> QED BY <2>2, <2>3, <2>4 DEF OrdersFit, Quiet
<1>4. ASSUME NEW w \in Workers, Find(w) PROVE OrdersFit' /\ (Quiet' => Quiet)
  BY <1>4 DEF Find, OrdersFit, Quiet, NoOrder
<1>5. ASSUME NEW w \in Workers, Settle(w) PROVE OrdersFit' /\ (Quiet' => Quiet)
  BY <1>5 DEF Settle, OrdersFit, Quiet, NoOrder
<1> QED BY <1>1, <1>2, <1>3, <1>4, <1>5
        DEF Next, TabStep, Push, Put, Reply, Pull, Deliver, LoseSave, Reload, Edit, vars, serverVars

(* What a tab may do when no answer is lost or overtaken and no page is    *)
(* loaded again.                                                           *)
Calm == Faults \cap {"overtake", "lostReply", "reload"} = {}

(* Every step keeps the invariant.                                         *)
LEMMA NextSInv == ASSUME Calm PROVE SInv /\ [Next]_vars => SInv'
<1> SUFFICES ASSUME SInv, [Next]_vars, Quiet' PROVE TabsFit'
  BY OrdersStayFit DEF SInv, TabsFit
<1>1. OrdersFit /\ Quiet /\ TabsFit
  BY OrdersStayFit DEF SInv, TabsFit
<1>2. ASSUME UNCHANGED <<versions, base, local, saving, inbox, edits, editors, wanted>> PROVE TabsFit'
  <2>1. TabsTypeOK' /\ SavesFit'
    BY <1>1, <1>2 DEF TabsFit, TabsTypeOK, SavesFit, Latest
  <2>2. LinesFit'
    BY <1>1, <1>2 DEF TabsFit, Latest, LinesFit, LineFits, OneEditor, UntouchedLine, FollowsLine, OwnsLine
  <2> QED BY <2>1, <2>2 DEF TabsFit
<1>3. ASSUME NEW t \in Tabs, TabStep(t) PROVE TabsFit'
  BY <1>1, <1>3, PushKeeps, PutKeeps, ReplyKeeps, PullKeeps, DeliverKeeps DEF TabStep, Calm
<1>4. ASSUME NEW t \in Tabs, LoseSave(t) \/ Reload(t) PROVE TabsFit'
  BY <1>1, <1>4, LoseSaveKeeps DEF Calm, Reload
<1>5. ASSUME NEW t \in Tabs, NEW x \in Lines, NEW qty \in 0..MaxQty, Edit(t, x, qty) PROVE TabsFit'
  BY <1>1, <1>5, EditKeeps
<1>6. ASSUME NEW t \in Tabs, NEW o \in Orders, Submit(t, o) PROVE FALSE
  BY <1>1, <1>6 DEF Submit, Quiet, OrdersFit, NoOrder
<1>7. ASSUME NEW o \in Orders, Created(o) \/ Told(o) PROVE FALSE
  BY <1>1, <1>7 DEF Created, Told, Quiet, NoOrder
<1>8. ASSUME NEW w \in Workers, Find(w) PROVE TabsFit'
  BY <1>2, <1>8 DEF Find, tabVars, history
<1>9. ASSUME NEW w \in Workers, Settle(w) PROVE FALSE
  BY <1>1, <1>9 DEF Settle, OrdersFit, Quiet
<1>10. ASSUME UNCHANGED vars PROVE TabsFit'
  BY <1>2, <1>10 DEF vars, serverVars, tabVars, history
<1> QED BY <1>3, <1>4, <1>5, <1>6, <1>7, <1>8, <1>9, <1>10 DEF Next

(* A line that one tab at most has changed ends as that tab left it, for   *)
(* any tabs, lines and edits, though requests get lost.                    *)
THEOREM SoleEditorAlwaysWins == ASSUME Calm PROVE Spec => []SoleEditorWins
<1>1. SInv => SoleEditorWins
  <2> SUFFICES ASSUME SInv, AllInSync, NEW x \in Lines, Cardinality(editors[x]) <= 1, Quiet
               PROVE  Current[x].qty = wanted[x]
    BY DEF SoleEditorWins, Quiet
  <2>1. TabsTypeOK /\ LineFits(x) /\ Latest \in 1..Latest
    BY DEF SInv, LinesFit, TabsTypeOK, Latest
  <2>2. OneEditor(x)
    <3> SUFFICES ASSUME NEW t \in editors[x], NEW u \in editors[x], t # u PROVE FALSE
      BY DEF OneEditor
    <3>1. IsFiniteSet(editors[x]) /\ {t, u} \subseteq editors[x]
      BY <2>1 DEF TabsTypeOK
    <3>2. Cardinality({t, u}) <= Cardinality(editors[x]) /\ Cardinality(editors[x]) \in Nat
      BY <3>1, FS_Subset, FS_CardinalityType
    <3>3. Cardinality({t, u}) = 2
      <4>1. IsFiniteSet({t}) /\ Cardinality({t}) = 1
        BY FS_Singleton
      <4>2. {t, u} = {t} \cup {u} /\ u \notin {t}
        OBVIOUS
      <4> QED BY <4>1, <4>2, FS_AddElement
    <3> QED BY <3>2, <3>3
  <2>3. CASE editors[x] = {}
    BY <2>1, <2>2, <2>3 DEF LineFits, UntouchedLine, Current
  <2>4. ASSUME NEW e \in editors[x] PROVE Current[x].qty = wanted[x]
    <3>1. e \in Tabs /\ OwnsLine(e, x)
      BY <2>1, <2>2 DEF TabsTypeOK, LineFits
    <3>2. base[e] = Latest /\ local[e] = versions[base[e]]
      BY <3>1 DEF AllInSync, InSync, Dirty
    <3> QED BY <3>1, <3>2 DEF OwnsLine, Current
  <2> QED BY <2>3, <2>4
<1> QED BY <1>1, InitSInv, NextSInv, PTL DEF Spec

-----------------------------------------------------------------------------
(* What comes back.  Extra(m, n) is what m has over n.  Of a line, a tab   *)
(* holds what it shows over the version it works on, and so may still      *)
(* bring into the cart: a save that will be written brings what it says,   *)
(* and what was added after it was sent comes with the next.               *)
Extra(m, n) == IF m > n THEN m - n ELSE 0

HeldOf(vs, b, shown, save, x) ==
  IF save.stage = "sent" /\ save.version = Len(vs)
    THEN Extra(save.cart[x].qty, vs[Len(vs)][x].qty) + Extra(shown[x].qty, save.cart[x].qty)
  ELSE Extra(shown[x].qty, vs[IF save.stage = "saved" THEN save.version ELSE b][x].qty)

TabFits(vs, b, shown, save) ==
  /\ b \in 1..Len(vs) /\ shown \in Carts /\ save \in Saves
  /\ save # NoSave => save.version \in 1..Len(vs)
  /\ save.stage = "sent" => save.version <= b
  /\ save.stage = "saved" => b = save.version - 1

LEMMA CartQuantities == \A cart \in Carts, x \in Lines : cart[x].qty \in Nat
BY DEF Carts, Line, Absent

LEMMA StagesAre ==
  ASSUME NEW save \in Saves
  PROVE  /\ save = NoSave \/ save.stage \in {"sent", "saved", "conflict"}
         /\ save.stage = "sent" => save # NoSave /\ save.cart \in Carts
         /\ save.stage = "saved" => save # NoSave
         /\ NoSave \in Saves /\ NoSave.stage = "none"
BY DEF Saves, NoSave

LEMMA VersionsAre ==
  ASSUME NEW vs \in Seq(Carts), NEW v \in 1..Len(vs), NEW x \in Lines
  PROVE  vs[v] \in Carts /\ vs[v][x].qty \in Nat
BY CartQuantities

(* The version over which a tab's work is counted.                         *)
LEMMA HeldIs ==
  ASSUME NEW vs \in Seq(Carts), NEW b, NEW shown, NEW save, TabFits(vs, b, shown, save), NEW x \in Lines
  PROVE  /\ HeldOf(vs, b, shown, save, x) \in Nat
         /\ shown[x].qty \in Nat /\ vs[b][x].qty \in Nat /\ vs[Len(vs)][x].qty \in Nat
         /\ save.stage = "sent" => save.cart[x].qty \in Nat
         /\ save.stage = "sent" /\ save.version = Len(vs) =>
              /\ b = Len(vs)
              /\ HeldOf(vs, b, shown, save, x) =
                   Extra(save.cart[x].qty, vs[b][x].qty) + Extra(shown[x].qty, save.cart[x].qty)
         /\ save.stage = "saved" =>
              /\ save.version \in 1..Len(vs) /\ vs[save.version][x].qty \in Nat
              /\ HeldOf(vs, b, shown, save, x) = Extra(shown[x].qty, vs[save.version][x].qty)
         /\ ~(save.stage = "sent" /\ save.version = Len(vs)) /\ save.stage # "saved" =>
              HeldOf(vs, b, shown, save, x) = Extra(shown[x].qty, vs[b][x].qty)
<1>1. /\ b \in 1..Len(vs) /\ shown \in Carts /\ save \in Saves /\ Len(vs) \in Nat
      /\ save # NoSave => save.version \in 1..Len(vs)
      /\ save.stage = "sent" => save.version <= b
  BY DEF TabFits
<1>2. /\ save.stage = "sent" => save # NoSave /\ save.cart \in Carts
      /\ save.stage = "saved" => save # NoSave
  BY <1>1, StagesAre
<1>3. shown[x].qty \in Nat /\ vs[b][x].qty \in Nat
  BY <1>1, CartQuantities, VersionsAre
<1>4. Len(vs) \in 1..Len(vs)
  BY <1>1
<1>5. vs[Len(vs)][x].qty \in Nat
  BY <1>4, VersionsAre
<1>6. save.stage = "sent" => save.cart[x].qty \in Nat
  BY <1>2, CartQuantities
<1>7. save.stage = "saved" => save.version \in 1..Len(vs) /\ vs[save.version][x].qty \in Nat
  BY <1>1, <1>2, VersionsAre
<1>8. save.stage = "sent" /\ save.version = Len(vs) => b = Len(vs)
  BY <1>1
<1>9. \A m, n \in Nat : Extra(m, n) \in Nat
  BY DEF Extra
<1>10. CASE save.stage = "sent" /\ save.version = Len(vs)
  <2>1. HeldOf(vs, b, shown, save, x) =
          Extra(save.cart[x].qty, vs[b][x].qty) + Extra(shown[x].qty, save.cart[x].qty)
    BY <1>8, <1>10 DEF HeldOf
  <2>2. Extra(save.cart[x].qty, vs[b][x].qty) \in Nat /\ Extra(shown[x].qty, save.cart[x].qty) \in Nat
    BY <1>3, <1>6, <1>9, <1>10
  <2>3. HeldOf(vs, b, shown, save, x) \in Nat
    BY <2>1, <2>2
  <2> QED BY <1>3, <1>5, <1>6, <1>8, <1>10, <2>1, <2>3
<1>11. CASE save.stage = "saved"
  <2>1. HeldOf(vs, b, shown, save, x) = Extra(shown[x].qty, vs[save.version][x].qty)
    BY <1>11 DEF HeldOf
  <2> QED BY <1>3, <1>5, <1>7, <1>9, <1>11, <2>1
<1>12. CASE ~(save.stage = "sent" /\ save.version = Len(vs)) /\ save.stage # "saved"
  <2>1. HeldOf(vs, b, shown, save, x) = Extra(shown[x].qty, vs[b][x].qty)
    BY <1>12 DEF HeldOf
  <2> QED BY <1>3, <1>5, <1>6, <1>9, <1>12, <2>1
<1> QED BY <1>10, <1>11, <1>12

(* Nothing more is held: after a new version of the server, after taking   *)
(* one, without a save that was not written, and by showing less.  Extra   *)
(* over two steps is at least Extra over both.                             *)
LEMMA ExtraTwice == \A m, n, k \in Nat : Extra(m, k) <= Extra(n, k) + Extra(m, n)
BY DEF Extra

LEMMA HeldAfterVersion ==
  ASSUME NEW vs \in Seq(Carts), NEW b, NEW shown, NEW save, TabFits(vs, b, shown, save), NEW c \in Carts
  PROVE  /\ TabFits(Append(vs, c), b, shown, save)
         /\ \A x \in Lines : HeldOf(Append(vs, c), b, shown, save, x) <= HeldOf(vs, b, shown, save, x)
<1> DEFINE ws == Append(vs, c)
<1>1. ws \in Seq(Carts) /\ Len(vs) \in Nat /\ Len(ws) = Len(vs) + 1 /\ \A v \in 1..Len(vs) : ws[v] = vs[v]
  OBVIOUS
<1>2. b \in 1..Len(vs) /\ (save # NoSave => save.version \in 1..Len(vs)) /\ save \in Saves
  BY DEF TabFits
<1> HIDE DEF ws
<1>3. TabFits(ws, b, shown, save)
  BY <1>1 DEF TabFits
<1>4. ASSUME NEW x \in Lines PROVE HeldOf(ws, b, shown, save, x) <= HeldOf(vs, b, shown, save, x)
  <2>1. shown[x].qty \in Nat /\ vs[b][x].qty \in Nat /\ ws[b] = vs[b] /\ HeldOf(vs, b, shown, save, x) \in Nat
    BY <1>1, <1>2, HeldIs
  <2>2. ~(save.stage = "sent" /\ save.version = Len(ws))
    BY <1>1, <1>2, StagesAre
  <2>3. CASE save.stage = "saved"
    <3>1. save.version \in 1..Len(vs) /\ HeldOf(vs, b, shown, save, x) = Extra(shown[x].qty, vs[save.version][x].qty)
      BY <2>3, HeldIs
    <3>2. HeldOf(ws, b, shown, save, x) = Extra(shown[x].qty, ws[save.version][x].qty)
      BY <1>1, <1>3, <2>3, HeldIs
    <3>3. HeldOf(ws, b, shown, save, x) = HeldOf(vs, b, shown, save, x)
      BY <1>1, <3>1, <3>2
    <3> QED BY <2>1, <3>3
  <2>4. CASE save.stage # "saved"
    <3>1. HeldOf(ws, b, shown, save, x) = Extra(shown[x].qty, vs[b][x].qty)
      BY <1>1, <1>3, <2>1, <2>2, <2>4, HeldIs
    <3>2. CASE save.stage = "sent" /\ save.version = Len(vs)
      <4>1. /\ save.cart[x].qty \in Nat
            /\ HeldOf(vs, b, shown, save, x) =
                 Extra(save.cart[x].qty, vs[b][x].qty) + Extra(shown[x].qty, save.cart[x].qty)
        BY <3>2, HeldIs
      <4> QED BY <2>1, <3>1, <4>1, ExtraTwice
    <3>3. CASE ~(save.stage = "sent" /\ save.version = Len(vs))
      <4>1. HeldOf(vs, b, shown, save, x) = Extra(shown[x].qty, vs[b][x].qty)
        BY <2>4, <3>3, HeldIs
      <4> QED BY <2>1, <3>1, <4>1
    <3> QED BY <3>2, <3>3
  <2> QED BY <2>3, <2>4
<1> QED BY <1>3, <1>4 DEF ws

LEMMA HeldWithoutSave ==
  ASSUME NEW vs \in Seq(Carts), NEW b, NEW shown, NEW save, TabFits(vs, b, shown, save), save.stage # "saved"
  PROVE  /\ TabFits(vs, b, shown, NoSave)
         /\ \A x \in Lines : HeldOf(vs, b, shown, NoSave, x) <= HeldOf(vs, b, shown, save, x)
<1>1. TabFits(vs, b, shown, NoSave)
  BY DEF TabFits, Saves, NoSave
<1>2. ASSUME NEW x \in Lines PROVE HeldOf(vs, b, shown, NoSave, x) <= HeldOf(vs, b, shown, save, x)
  <2>1. shown[x].qty \in Nat /\ vs[b][x].qty \in Nat /\ HeldOf(vs, b, shown, save, x) \in Nat
    BY HeldIs
  <2>2. HeldOf(vs, b, shown, NoSave, x) = Extra(shown[x].qty, vs[b][x].qty)
    BY DEF HeldOf, NoSave
  <2>3. CASE save.stage = "sent" /\ save.version = Len(vs)
    <3>1. /\ save.cart[x].qty \in Nat
          /\ HeldOf(vs, b, shown, save, x) =
               Extra(save.cart[x].qty, vs[b][x].qty) + Extra(shown[x].qty, save.cart[x].qty)
      BY <2>3, HeldIs
    <3> QED BY <2>1, <2>2, <3>1, ExtraTwice
  <2>4. CASE ~(save.stage = "sent" /\ save.version = Len(vs))
    <3>1. HeldOf(vs, b, shown, save, x) = Extra(shown[x].qty, vs[b][x].qty)
      BY <2>4, HeldIs
    <3> QED BY <2>1, <2>2, <3>1
  <2> QED BY <2>3, <2>4
<1> QED BY <1>1, <1>2

LEMMA HeldByShowing ==
  ASSUME NEW vs \in Seq(Carts), NEW b, NEW shown, NEW save, TabFits(vs, b, shown, save), NEW now \in Carts
  PROVE  /\ TabFits(vs, b, now, save)
         /\ \A x \in Lines :
              HeldOf(vs, b, now, save, x) <= HeldOf(vs, b, shown, save, x) + Extra(now[x].qty, shown[x].qty)
<1>1. TabFits(vs, b, now, save)
  BY DEF TabFits
<1>2. ASSUME NEW x \in Lines
      PROVE  HeldOf(vs, b, now, save, x) <= HeldOf(vs, b, shown, save, x) + Extra(now[x].qty, shown[x].qty)
  <2> DEFINE m == now[x].qty
             n == shown[x].qty
  <2>1. m \in Nat /\ n \in Nat /\ vs[b][x].qty \in Nat
    BY <1>1, HeldIs
  <2> HIDE DEF m, n
  <2>2. \A k \in Nat : Extra(m, k) <= Extra(n, k) + Extra(m, n) /\ Extra(m, k) \in Nat /\ Extra(n, k) \in Nat
    BY <2>1, ExtraTwice DEF Extra
  <2>3. Extra(m, n) \in Nat
    BY <2>1 DEF Extra
  <2>4. CASE save.stage = "sent" /\ save.version = Len(vs)
    <3> DEFINE k == save.cart[x].qty
               e == Extra(k, vs[b][x].qty)
    <3>1. k \in Nat /\ HeldOf(vs, b, shown, save, x) = e + Extra(n, k) /\ HeldOf(vs, b, now, save, x) = e + Extra(m, k)
      BY <1>1, <2>4, HeldIs DEF m, n
    <3>2. e \in Nat
      BY <2>1, <3>1 DEF Extra
    <3> HIDE DEF e, k
    <3>3. HeldOf(vs, b, now, save, x) <= HeldOf(vs, b, shown, save, x) + Extra(m, n)
      BY <2>2, <2>3, <3>1, <3>2
    <3> QED BY <3>3 DEF m, n
  <2>5. CASE save.stage = "saved"
    <3> DEFINE k == vs[save.version][x].qty
    <3>1. k \in Nat /\ HeldOf(vs, b, shown, save, x) = Extra(n, k) /\ HeldOf(vs, b, now, save, x) = Extra(m, k)
      BY <1>1, <2>5, HeldIs DEF m, n
    <3> HIDE DEF k
    <3>2. HeldOf(vs, b, now, save, x) <= HeldOf(vs, b, shown, save, x) + Extra(m, n)
      BY <2>2, <2>3, <3>1
    <3> QED BY <3>2 DEF m, n
  <2>6. CASE ~(save.stage = "sent" /\ save.version = Len(vs)) /\ save.stage # "saved"
    <3> DEFINE k == vs[b][x].qty
    <3>1. k \in Nat /\ HeldOf(vs, b, shown, save, x) = Extra(n, k) /\ HeldOf(vs, b, now, save, x) = Extra(m, k)
      BY <1>1, <2>1, <2>6, HeldIs DEF m, n
    <3> HIDE DEF k
    <3>2. HeldOf(vs, b, now, save, x) <= HeldOf(vs, b, shown, save, x) + Extra(m, n)
      BY <2>2, <2>3, <3>1
    <3> QED BY <3>2 DEF m, n
  <2> QED BY <2>4, <2>5, <2>6
<1> QED BY <1>1, <1>2

LEMMA HeldAfterTaking ==
  ASSUME NEW vs \in Seq(Carts), NEW b, NEW shown, NEW save, TabFits(vs, b, shown, save), save.stage # "saved",
         NEW v \in 1..Len(vs), v > b
  PROVE  /\ TabFits(vs, v, Merge(vs[b], shown, vs[v]), save)
         /\ \A x \in Lines : HeldOf(vs, v, Merge(vs[b], shown, vs[v]), save, x) <= HeldOf(vs, b, shown, save, x)
<1> DEFINE now == Merge(vs[b], shown, vs[v])
<1>1. b \in 1..Len(vs) /\ Len(vs) \in Nat /\ shown \in Carts /\ vs[b] \in Carts /\ vs[v] \in Carts
  BY DEF TabFits
<1>2. now \in Carts
  BY <1>1, MergeIsACart
<1>3. \A x \in Lines : now[x].qty <= vs[v][x].qty + Extra(shown[x].qty, vs[b][x].qty)
  <2> TAKE x \in Lines
  <2>1. LET mine == shown[x].qty - vs[b][x].qty
        IN  now[x].qty <= vs[v][x].qty + (IF mine > 0 THEN mine ELSE 0)
    BY <1>1, MergeAddsOnlyWhatWasAdded
  <2>2. shown[x].qty \in Nat /\ vs[b][x].qty \in Nat
    BY <1>1, CartQuantities
  <2>3. Extra(shown[x].qty, vs[b][x].qty) =
          IF shown[x].qty - vs[b][x].qty > 0 THEN shown[x].qty - vs[b][x].qty ELSE 0
    BY <2>2 DEF Extra
  <2> HIDE DEF now
  <2> QED BY <2>1, <2>3
<1> HIDE DEF now
<1>4. ~(save.stage = "sent" /\ save.version = Len(vs))
  BY <1>1 DEF TabFits
<1>5. TabFits(vs, v, now, save)
  <2>1. save.stage = "sent" => save.version \in Nat
    BY <1>1, StagesAre DEF TabFits
  <2> QED BY <1>1, <1>2, <2>1 DEF TabFits
<1>6. ASSUME NEW x \in Lines PROVE HeldOf(vs, v, now, save, x) <= HeldOf(vs, b, shown, save, x)
  <2>1. HeldOf(vs, b, shown, save, x) = Extra(shown[x].qty, vs[b][x].qty) /\ HeldOf(vs, b, shown, save, x) \in Nat
    BY <1>4, HeldIs
  <2>2. HeldOf(vs, v, now, save, x) = Extra(now[x].qty, vs[v][x].qty) /\ now[x].qty \in Nat /\ vs[v][x].qty \in Nat
    BY <1>4, <1>5, HeldIs
  <2>3. now[x].qty <= vs[v][x].qty + HeldOf(vs, b, shown, save, x)
    BY <1>3, <2>1
  <2> QED BY <2>1, <2>2, <2>3 DEF Extra
<1> QED BY <1>5, <1>6 DEF now

(* What orders are, and what a worker has read of them.                    *)
Requests == [stage : {"sending", "created", "settled"}, items : [Lines -> Nat], tab : Tabs, told : BOOLEAN]

RowsFit ==
  /\ orders \in [Orders -> {NoOrder} \cup Requests] /\ found \in [Workers -> SUBSET Orders]
  /\ \A w \in Workers : \A o \in found[w] : orders[o] \in Requests

CartFits ==
  /\ versions \in Seq(Carts) /\ Latest > 0
  /\ base \in [Tabs -> Nat] /\ local \in [Tabs -> Carts] /\ saving \in [Tabs -> Saves]
  /\ inbox \in [Tabs -> SUBSET (1..Latest)]
  /\ \A t \in Tabs : TabFits(versions, base[t], local[t], saving[t])
  /\ edits \in Nat /\ added \in [Lines -> Nat] /\ taken \in [Lines -> Nat]

(* With what the tabs hold, a line still has no more than was put in it.   *)
Held(x) == [t \in Tabs |-> HeldOf(versions, base[t], local[t], saving[t], x)]
NothingSpare == \A x \in Lines : Current[x].qty + taken[x] + Total(Held(x), Tabs) <= added[x]

LEMMA SpareTypes ==
  ASSUME CartFits
  PROVE  /\ Latest \in 1..Latest /\ Current \in Carts
         /\ \A x \in Lines : /\ Current[x].qty \in Nat /\ taken[x] \in Nat /\ added[x] \in Nat
                             /\ Total(Held(x), Tabs) \in Nat /\ \A t \in Tabs : Held(x)[t] \in Nat
<1>1. Latest \in 1..Latest /\ Current \in Carts
  BY DEF CartFits, Latest, Current
<1>2. ASSUME NEW x \in Lines PROVE Total(Held(x), Tabs) \in Nat /\ \A t \in Tabs : Held(x)[t] \in Nat
  <2>1. \A t \in Tabs : Held(x)[t] \in Nat
    BY HeldIs DEF CartFits, Held
  <2> QED BY <2>1, SharedCartAssumption, TotalIsNat
<1> QED BY <1>1, <1>2, CartQuantities DEF CartFits

(* A step of one tab: the others hold no more, whether there is a new      *)
(* version or not, and so it is enough to count what this tab holds.       *)
Onwards(vs, ws) == ws = vs \/ \E c \in Carts : ws = Append(vs, c)

LEMMA TabMoves ==
  ASSUME CartFits, NothingSpare, NEW t \in Tabs, NEW ws, NEW b \in Nat, NEW shown, NEW save,
         Onwards(versions, ws), TabFits(ws, b, shown, save),
         versions' = ws,
         base' = [base EXCEPT ![t] = b], local' = [local EXCEPT ![t] = shown], saving' = [saving EXCEPT ![t] = save],
         inbox' \in [Tabs -> SUBSET (1..Len(ws))], edits' \in Nat, added' \in [Lines -> Nat], taken' = taken,
         \A x \in Lines : ws[Len(ws)][x].qty + HeldOf(ws, b, shown, save, x) + added[x] <=
                          Current[x].qty + Held(x)[t] + added'[x]
  PROVE  CartFits' /\ NothingSpare'
<1>1. versions \in Seq(Carts) /\ Len(versions) > 0 /\ shown \in Carts /\ save \in Saves
  BY DEF CartFits, Latest, TabFits
<1>2. ws \in Seq(Carts) /\ Len(ws) > 0
  <2>1. CASE ws = versions
    BY <1>1, <2>1
  <2>2. ASSUME NEW c \in Carts, ws = Append(versions, c) PROVE ws \in Seq(Carts) /\ Len(ws) > 0
    <3>1. Append(versions, c) \in Seq(Carts) /\ Len(Append(versions, c)) = Len(versions) + 1 /\ Len(versions) \in Nat
      BY <1>1
    <3> QED BY <2>2, <3>1
  <2> QED BY <2>1, <2>2 DEF Onwards
<1>3. /\ base'[t] = b /\ local'[t] = shown /\ saving'[t] = save
      /\ \A u \in Tabs \ {t} : base'[u] = base[u] /\ local'[u] = local[u] /\ saving'[u] = saving[u]
      /\ base' \in [Tabs -> Nat] /\ local' \in [Tabs -> Carts] /\ saving' \in [Tabs -> Saves]
  BY <1>1 DEF CartFits
<1>4. ASSUME NEW u \in Tabs \ {t}
      PROVE  /\ TabFits(ws, base[u], local[u], saving[u])
             /\ \A x \in Lines : HeldOf(ws, base[u], local[u], saving[u], x) <= Held(x)[u]
  <2>1. TabFits(versions, base[u], local[u], saving[u])
    BY DEF CartFits
  <2>2. \A x \in Lines : Held(x)[u] = HeldOf(versions, base[u], local[u], saving[u], x) /\ Held(x)[u] \in Nat
    BY SpareTypes DEF Held
  <2>3. CASE ws = versions
    BY <2>1, <2>2, <2>3
  <2>4. ASSUME NEW c \in Carts, ws = Append(versions, c)
        PROVE  /\ TabFits(ws, base[u], local[u], saving[u])
               /\ \A x \in Lines : HeldOf(ws, base[u], local[u], saving[u], x) <= Held(x)[u]
    BY <1>1, <2>1, <2>2, <2>4, HeldAfterVersion
  <2> QED BY <2>3, <2>4 DEF Onwards
<1>5. CartFits'
  <2>1. \A u \in Tabs : TabFits(versions', base'[u], local'[u], saving'[u])
    BY <1>3, <1>4
  <2> QED BY <1>2, <1>3, <2>1 DEF CartFits, Latest
<1>6. NothingSpare'
  <2> SUFFICES ASSUME NEW x \in Lines
               PROVE  ws[Len(ws)][x].qty + taken[x] + Total(Held(x)', Tabs) <= added'[x]
    BY DEF NothingSpare, Current, Latest
  <2> DEFINE f == Held(x)
             h == Held(x)'
  <2>1. \A u \in Tabs : f[u] \in Nat /\ h[u] = HeldOf(ws, base'[u], local'[u], saving'[u], x)
    BY SpareTypes DEF Held
  <2>2. \A u \in Tabs : h[u] \in Nat
    <3>1. \A u \in Tabs : TabFits(ws, base'[u], local'[u], saving'[u])
      BY <1>3, <1>4
    <3> QED BY <1>2, <2>1, <3>1, HeldIs
  <2>3. h[t] = HeldOf(ws, b, shown, save, x) /\ \A u \in Tabs \ {t} : h[u] <= f[u]
    BY <1>3, <1>4, <2>1
  <2>4. ws[Len(ws)][x].qty + h[t] + added[x] <= Current[x].qty + f[t] + added'[x]
    BY <2>3
  <2>5. ws[Len(ws)][x].qty \in Nat /\ Current[x].qty \in Nat /\ taken[x] \in Nat /\ added[x] \in Nat /\ added'[x] \in Nat
    <3>1. Len(ws) \in 1..Len(ws)
      BY <1>2
    <3>2. ws[Len(ws)][x].qty \in Nat
      BY <1>2, <3>1, VersionsAre
    <3> QED BY <3>2, SpareTypes
  <2>6. Current[x].qty + taken[x] + Total(f, Tabs) <= added[x] /\ Total(f, Tabs) \in Nat
    BY SpareTypes DEF NothingSpare
  <2> HIDE DEF f, h
  <2>7. Total(h, Tabs) <= Total(f, Tabs) - f[t] + h[t] /\ Total(h, Tabs) \in Nat
    <3>1. IsFiniteSet(Tabs)
      BY SharedCartAssumption
    <3>2. Total(h, Tabs) \in Nat
      BY <2>2, <3>1, TotalIsNat
    <3>3. \A u \in Tabs : f[u] \in Int /\ h[u] \in Int
      BY <2>1, <2>2
    <3> QED BY <2>3, <3>1, <3>2, <3>3, TotalOfOneMoving
  <2>8. f[t] \in Nat /\ h[t] \in Nat
    BY <2>1, <2>2
  <2>9. ws[Len(ws)][x].qty + taken[x] + Total(h, Tabs) <= added'[x]
    <3> DEFINE is == ws[Len(ws)][x].qty
               was == Current[x].qty
               out == taken[x]
               all == added[x]
               most == added'[x]
               sum == Total(f, Tabs)
               then == Total(h, Tabs)
               f0 == f[t]
               h0 == h[t]
    <3>1. is + h0 + all <= was + f0 + most /\ was + out + sum <= all /\ then <= sum - f0 + h0
      BY <2>4, <2>6, <2>7
    <3>2. /\ is \in Nat /\ was \in Nat /\ out \in Nat /\ all \in Nat /\ most \in Nat
          /\ sum \in Nat /\ then \in Nat /\ f0 \in Nat /\ h0 \in Nat
      BY <2>5, <2>6, <2>7, <2>8
    <3> HIDE DEF is, was, out, all, most, sum, then, f0, h0
    <3>3. is + out + then <= most
      BY <3>1, <3>2
    <3> QED BY <3>3 DEF is, out, then, most
  <2> QED BY <2>9 DEF h
<1> QED BY <1>5, <1>6

(* One tab, before it moves.                                               *)
LEMMA TabBefore ==
  ASSUME CartFits, NEW t \in Tabs
  PROVE  /\ versions \in Seq(Carts) /\ Len(versions) > 0 /\ TabFits(versions, base[t], local[t], saving[t])
         /\ Onwards(versions, versions) /\ base[t] \in Nat /\ base[t] \in 1..Len(versions)
         /\ base = [base EXCEPT ![t] = base[t]] /\ local = [local EXCEPT ![t] = local[t]]
         /\ saving = [saving EXCEPT ![t] = saving[t]]
         /\ inbox \in [Tabs -> SUBSET (1..Len(versions))] /\ edits \in Nat
         /\ added \in [Lines -> Nat] /\ taken \in [Lines -> Nat]
         /\ Len(versions) \in 1..Len(versions) /\ Current = versions[Len(versions)]
         /\ \A x \in Lines : /\ Held(x)[t] = HeldOf(versions, base[t], local[t], saving[t], x)
                             /\ Held(x)[t] \in Nat /\ Current[x].qty \in Nat /\ added[x] \in Nat
<1>1. /\ versions \in Seq(Carts) /\ Len(versions) > 0 /\ TabFits(versions, base[t], local[t], saving[t])
      /\ Onwards(versions, versions) /\ base[t] \in Nat /\ base[t] \in 1..Len(versions)
      /\ inbox \in [Tabs -> SUBSET (1..Len(versions))] /\ edits \in Nat
      /\ added \in [Lines -> Nat] /\ taken \in [Lines -> Nat]
  BY DEF CartFits, Onwards, Latest, TabFits
<1>2. /\ base = [base EXCEPT ![t] = base[t]] /\ local = [local EXCEPT ![t] = local[t]]
      /\ saving = [saving EXCEPT ![t] = saving[t]]
  BY DEF CartFits
<1>3. Len(versions) \in 1..Len(versions) /\ Current = versions[Len(versions)]
  BY <1>1 DEF Current, Latest
<1>4. \A x \in Lines : /\ Held(x)[t] = HeldOf(versions, base[t], local[t], saving[t], x)
                       /\ Held(x)[t] \in Nat /\ Current[x].qty \in Nat /\ added[x] \in Nat
  BY SpareTypes DEF Held
<1> QED BY <1>1, <1>2, <1>3, <1>4

SpareFits == CartFits /\ NothingSpare

(* A tab that does nothing but change what it works on.                    *)
LEMMA TabTurns ==
  ASSUME SpareFits, NEW t \in Tabs, NEW b \in Nat, NEW shown, NEW save,
         TabFits(versions, b, shown, save),
         \A x \in Lines : HeldOf(versions, b, shown, save, x) <= Held(x)[t],
         UNCHANGED <<versions, edits, added, taken>>, inbox' \in [Tabs -> SUBSET (1..Latest)],
         base' = [base EXCEPT ![t] = b], local' = [local EXCEPT ![t] = shown], saving' = [saving EXCEPT ![t] = save]
  PROVE  SpareFits'
<1>1. /\ Onwards(versions, versions) /\ versions' = versions /\ edits' \in Nat /\ added' \in [Lines -> Nat]
      /\ taken' = taken /\ inbox' \in [Tabs -> SUBSET (1..Len(versions))]
  BY TabBefore DEF SpareFits, Latest
<1>2. \A x \in Lines : versions[Len(versions)][x].qty + HeldOf(versions, b, shown, save, x) + added[x] <=
                       Current[x].qty + Held(x)[t] + added'[x]
  <2> TAKE x \in Lines
  <2>1. /\ Held(x)[t] \in Nat /\ Current[x].qty \in Nat /\ added[x] \in Nat
        /\ Current = versions[Len(versions)] /\ versions \in Seq(Carts)
    BY TabBefore DEF SpareFits
  <2>2. HeldOf(versions, b, shown, save, x) \in Nat /\ HeldOf(versions, b, shown, save, x) <= Held(x)[t]
    BY <2>1, HeldIs
  <2> QED BY <2>1, <2>2
<1>3. CartFits /\ NothingSpare
  BY DEF SpareFits
<1>4. CartFits' /\ NothingSpare'
  BY <1>1, <1>2, <1>3, TabMoves
<1> QED BY <1>4 DEF SpareFits

LEMMA PushSpares == ASSUME SpareFits, NEW t \in Tabs, Push(t) PROVE SpareFits'
<1> DEFINE save == [stage |-> "sent", cart |-> local[t], version |-> base[t]]
<1>1. /\ saving[t] = NoSave /\ saving' = [saving EXCEPT ![t] = save]
      /\ UNCHANGED <<versions, base, local, inbox, edits, added, taken>>
  BY DEF Push, serverVars, history
<1>2. TabFits(versions, base[t], local[t], saving[t]) /\ versions \in Seq(Carts) /\ base[t] \in Nat
  BY TabBefore DEF SpareFits
<1>3. TabFits(versions, base[t], local[t], save)
  BY <1>2 DEF TabFits, Saves, NoSave
<1>4. ASSUME NEW x \in Lines PROVE HeldOf(versions, base[t], local[t], save, x) <= Held(x)[t]
  <2>1. /\ local[t][x].qty \in Nat /\ versions[base[t]][x].qty \in Nat /\ Held(x)[t] \in Nat
        /\ Held(x)[t] = Extra(local[t][x].qty, versions[base[t]][x].qty)
    <3>1. /\ local[t][x].qty \in Nat /\ versions[base[t]][x].qty \in Nat
          /\ HeldOf(versions, base[t], local[t], saving[t], x) \in Nat
      BY <1>2, HeldIs
    <3>2. HeldOf(versions, base[t], local[t], NoSave, x) = Extra(local[t][x].qty, versions[base[t]][x].qty)
      BY DEF HeldOf, NoSave
    <3>3. Held(x)[t] = HeldOf(versions, base[t], local[t], saving[t], x)
      BY TabBefore DEF SpareFits
    <3> QED BY <1>1, <3>1, <3>2, <3>3
  <2>2. \/ HeldOf(versions, base[t], local[t], save, x) =
             Extra(local[t][x].qty, versions[base[t]][x].qty) + Extra(local[t][x].qty, local[t][x].qty)
        \/ HeldOf(versions, base[t], local[t], save, x) = Extra(local[t][x].qty, versions[base[t]][x].qty)
    BY DEF HeldOf
  <2>3. Extra(local[t][x].qty, local[t][x].qty) = 0
    BY <2>1 DEF Extra
  <2> QED BY <2>1, <2>2, <2>3
<1> HIDE DEF save
<1>5. /\ base' = [base EXCEPT ![t] = base[t]] /\ local' = [local EXCEPT ![t] = local[t]]
      /\ inbox' \in [Tabs -> SUBSET (1..Latest)]
  BY <1>1, TabBefore DEF SpareFits, CartFits
<1> QED BY <1>1, <1>2, <1>3, <1>4, <1>5, TabTurns

LEMMA LoseSaveSpares ==
  ASSUME SpareFits, "lostReply" \notin Faults, NEW t \in Tabs, LoseSave(t) PROVE SpareFits'
<1>1. /\ saving[t].stage = "sent" /\ saving' = [saving EXCEPT ![t] = NoSave]
      /\ UNCHANGED <<versions, base, local, inbox, edits, added, taken>>
  BY DEF LoseSave, serverVars, history
<1>2. TabFits(versions, base[t], local[t], saving[t]) /\ versions \in Seq(Carts) /\ base[t] \in Nat
  BY TabBefore DEF SpareFits
<1>3. /\ TabFits(versions, base[t], local[t], NoSave)
      /\ \A x \in Lines : HeldOf(versions, base[t], local[t], NoSave, x) <= HeldOf(versions, base[t], local[t], saving[t], x)
  BY <1>1, <1>2, HeldWithoutSave
<1>4. \A x \in Lines : HeldOf(versions, base[t], local[t], NoSave, x) <= Held(x)[t]
  BY <1>3, TabBefore DEF SpareFits
<1>5. /\ base' = [base EXCEPT ![t] = base[t]] /\ local' = [local EXCEPT ![t] = local[t]]
      /\ inbox' \in [Tabs -> SUBSET (1..Latest)]
  BY <1>1, TabBefore DEF SpareFits, CartFits
<1> QED BY <1>1, <1>2, <1>3, <1>4, <1>5, TabTurns

LEMMA PullSpares == ASSUME SpareFits, NEW t \in Tabs, Pull(t) PROVE SpareFits'
<1>1. /\ inbox' = [inbox EXCEPT ![t] = @ \cup {Latest}]
      /\ UNCHANGED <<versions, base, local, saving, edits, added, taken>>
  BY DEF Pull, serverVars, history
<1>2. inbox' \in [Tabs -> SUBSET (1..Latest)]
  BY <1>1, SpareTypes DEF SpareFits, CartFits
<1>3. CartFits'
  BY <1>1, <1>2 DEF SpareFits, CartFits, Latest
<1>4. NothingSpare'
  BY <1>1 DEF SpareFits, NothingSpare, Held, Current, Latest
<1> QED BY <1>3, <1>4 DEF SpareFits

(* A version is taken when it is newer.                                    *)
LEMMA TakenIfNewer ==
  ASSUME CartFits, NEW t \in Tabs, NEW v \in Nat, ApplyRemote(t, v)
  PROVE  /\ v <= base[t] => base' = [base EXCEPT ![t] = base[t]] /\ local' = [local EXCEPT ![t] = local[t]]
         /\ v > base[t] => /\ base' = [base EXCEPT ![t] = v]
                           /\ local' = [local EXCEPT ![t] = Merge(versions[base[t]], local[t], versions[v])]
<1> DEFINE newer == IF v > base[t] THEN v ELSE base[t]
<1>1. base' = [base EXCEPT ![t] = newer]
  BY DEF ApplyRemote, SetBase
<1>2. base[t] \in Nat /\ local = [local EXCEPT ![t] = local[t]]
  BY TabBefore
<1>3. v <= base[t] => newer = base[t] /\ local' = local
  BY <1>2 DEF ApplyRemote
<1>4. v > base[t] =>
        newer = v /\ local' = [local EXCEPT ![t] = Merge(versions[base[t]], local[t], versions[v])]
  BY <1>2 DEF ApplyRemote
<1> HIDE DEF newer
<1> QED BY <1>1, <1>2, <1>3, <1>4

LEMMA DeliverSpares ==
  ASSUME SpareFits, "overtake" \notin Faults, NEW t \in Tabs, NEW v \in inbox[t], Deliver(t, v) PROVE SpareFits'
<1>1. /\ v \in 1..Len(versions) /\ inbox' = [inbox EXCEPT ![t] = @ \ {v}]
      /\ inbox' \in [Tabs -> SUBSET (1..Latest)] /\ UNCHANGED <<versions, saving, edits, added, taken>>
  BY DEF Deliver, serverVars, history, SpareFits, CartFits, Latest
<1>2. TabFits(versions, base[t], local[t], saving[t]) /\ versions \in Seq(Carts) /\ base[t] \in Nat
  BY TabBefore DEF SpareFits
<1>3. ApplyRemote(t, v) /\ (saving[t].stage = "saved" => v < saving[t].version)
  BY DEF Deliver
<1>4. saving' = [saving EXCEPT ![t] = saving[t]]
  BY <1>1, TabBefore DEF SpareFits
<1>5. CASE v <= base[t]
  <2>1. base' = [base EXCEPT ![t] = base[t]] /\ local' = [local EXCEPT ![t] = local[t]]
    BY <1>1, <1>3, <1>5, TakenIfNewer DEF SpareFits
  <2>2. \A x \in Lines : HeldOf(versions, base[t], local[t], saving[t], x) <= Held(x)[t]
    BY TabBefore DEF SpareFits
  <2> QED BY <1>1, <1>2, <1>4, <2>1, <2>2, TabTurns
<1>6. CASE v > base[t]
  <2> DEFINE now == Merge(versions[base[t]], local[t], versions[v])
  <2>1. saving[t].stage # "saved"
    <3>1. saving[t].stage = "saved" => saving[t].version \in Nat /\ base[t] = saving[t].version - 1
      BY <1>2, StagesAre DEF TabFits
    <3> QED BY <1>1, <1>2, <1>3, <1>6, <3>1
  <2>2. base' = [base EXCEPT ![t] = v] /\ local' = [local EXCEPT ![t] = now] /\ v \in Nat
    BY <1>1, <1>3, <1>6, TakenIfNewer DEF SpareFits
  <2>3. /\ TabFits(versions, v, now, saving[t])
        /\ \A x \in Lines : HeldOf(versions, v, now, saving[t], x) <= HeldOf(versions, base[t], local[t], saving[t], x)
    BY <1>1, <1>2, <1>6, <2>1, HeldAfterTaking
  <2> HIDE DEF now
  <2>4. \A x \in Lines : HeldOf(versions, v, now, saving[t], x) <= Held(x)[t]
    BY <2>3, TabBefore DEF SpareFits
  <2> QED BY <1>1, <1>4, <2>2, <2>3, <2>4, TabTurns
<1> QED BY <1>1, <1>2, <1>5, <1>6

LEMMA ReplySpares == ASSUME SpareFits, NEW t \in Tabs, Reply(t) PROVE SpareFits'
<1>1. /\ saving' = [saving EXCEPT ![t] = NoSave] /\ UNCHANGED <<versions, inbox, edits, added, taken>>
      /\ inbox' \in [Tabs -> SUBSET (1..Latest)]
  BY DEF Reply, serverVars, history, SpareFits, CartFits
<1>2. /\ TabFits(versions, base[t], local[t], saving[t]) /\ versions \in Seq(Carts) /\ base[t] \in Nat
      /\ \A x \in Lines : Held(x)[t] = HeldOf(versions, base[t], local[t], saving[t], x) /\ Held(x)[t] \in Nat
      /\ base = [base EXCEPT ![t] = base[t]] /\ local = [local EXCEPT ![t] = local[t]]
  BY TabBefore DEF SpareFits
<1> DEFINE v == saving[t].version
<1>3. v \in 1..Len(versions) /\ v \in Nat
  BY <1>2 DEF Reply, TabFits, NoSave
<1>4. CASE saving[t].stage = "saved"
  <2>1. base[t] = v - 1
    BY <1>2, <1>4 DEF TabFits
  <2>2. base' = [base EXCEPT ![t] = v] /\ local' = [local EXCEPT ![t] = local[t]]
    BY <1>2, <1>3, <1>4, <2>1 DEF Reply, SetBase
  <2>3. TabFits(versions, v, local[t], NoSave)
    BY <1>2, <1>3 DEF TabFits, Saves, NoSave
  <2>4. ASSUME NEW x \in Lines PROVE HeldOf(versions, v, local[t], NoSave, x) <= Held(x)[t]
    <3>1. HeldOf(versions, base[t], local[t], saving[t], x) = Extra(local[t][x].qty, versions[v][x].qty)
      BY <1>2, <1>4, HeldIs
    <3>2. HeldOf(versions, v, local[t], NoSave, x) = Extra(local[t][x].qty, versions[v][x].qty)
      BY DEF HeldOf, NoSave
    <3> QED BY <1>2, <3>1, <3>2
  <2> HIDE DEF v
  <2> QED BY <1>1, <1>3, <2>2, <2>3, <2>4, TabTurns
<1>5. CASE saving[t].stage = "conflict"
  <2>1. ApplyRemote(t, v) /\ CartFits
    BY <1>5 DEF Reply, SpareFits
  <2>2. /\ TabFits(versions, base[t], local[t], NoSave)
        /\ \A x \in Lines : HeldOf(versions, base[t], local[t], NoSave, x) <= HeldOf(versions, base[t], local[t], saving[t], x)
    BY <1>2, <1>5, HeldWithoutSave
  <2> HIDE DEF v
  <2>3. CASE v <= base[t]
    <3>1. base' = [base EXCEPT ![t] = base[t]] /\ local' = [local EXCEPT ![t] = local[t]]
      BY <1>3, <2>1, <2>3, TakenIfNewer
    <3>2. \A x \in Lines : HeldOf(versions, base[t], local[t], NoSave, x) <= Held(x)[t]
      BY <1>2, <2>2
    <3> QED BY <1>1, <1>2, <2>2, <3>1, <3>2, TabTurns
  <2>4. CASE v > base[t]
    <3> DEFINE now == Merge(versions[base[t]], local[t], versions[v])
    <3>1. base' = [base EXCEPT ![t] = v] /\ local' = [local EXCEPT ![t] = now]
      BY <1>3, <2>1, <2>4, TakenIfNewer
    <3>2. NoSave.stage # "saved"
      BY DEF NoSave
    <3>3. /\ TabFits(versions, v, now, NoSave)
          /\ \A x \in Lines : HeldOf(versions, v, now, NoSave, x) <= HeldOf(versions, base[t], local[t], NoSave, x)
      BY <1>2, <1>3, <2>2, <2>4, <3>2, HeldAfterTaking
    <3> HIDE DEF now
    <3>4. \A x \in Lines : HeldOf(versions, v, now, NoSave, x) <= Held(x)[t]
      <4> TAKE x \in Lines
      <4>1. /\ HeldOf(versions, v, now, NoSave, x) \in Nat
            /\ HeldOf(versions, base[t], local[t], NoSave, x) \in Nat
        BY <1>2, <2>2, <3>3, HeldIs
      <4>2. /\ HeldOf(versions, v, now, NoSave, x) <= HeldOf(versions, base[t], local[t], NoSave, x)
            /\ HeldOf(versions, base[t], local[t], NoSave, x) <= Held(x)[t] /\ Held(x)[t] \in Nat
        BY <1>2, <2>2, <3>3
      <4> QED BY <4>1, <4>2
    <3> QED BY <1>1, <1>3, <3>1, <3>3, <3>4, TabTurns
  <2> QED BY <1>2, <1>3, <2>3, <2>4
<1> QED BY <1>4, <1>5 DEF Reply

LEMMA ReloadSpares == ASSUME SpareFits, NEW t \in Tabs, Reload(t) PROVE SpareFits'
<1> DEFINE now == IF Current = EmptyCart /\ base[t] = Latest THEN local[t] ELSE Current
<1>1. /\ base' = [base EXCEPT ![t] = Latest] /\ local' = [local EXCEPT ![t] = now]
      /\ saving' = [saving EXCEPT ![t] = NoSave] /\ UNCHANGED <<versions, edits, added, taken>>
      /\ inbox' = [inbox EXCEPT ![t] = {}] /\ inbox' \in [Tabs -> SUBSET (1..Latest)]
  BY DEF Reload, serverVars, history, SpareFits, CartFits
<1>2. /\ TabFits(versions, base[t], local[t], saving[t]) /\ versions \in Seq(Carts)
      /\ Latest = Len(versions) /\ Latest \in 1..Len(versions) /\ Latest \in Nat /\ Current = versions[Latest] /\ Current \in Carts
      /\ \A x \in Lines : /\ Held(x)[t] = HeldOf(versions, base[t], local[t], saving[t], x) /\ Held(x)[t] \in Nat
                          /\ Current[x].qty \in Nat
  BY TabBefore, SpareTypes DEF SpareFits, Latest
<1>3. TabFits(versions, Latest, now, NoSave) /\ \A x \in Lines : HeldOf(versions, Latest, now, NoSave, x) <= Held(x)[t]
  <2>1. CASE now = local[t] /\ base[t] = Latest
    <3>1. saving[t].stage # "saved"
      BY <1>2, <2>1, StagesAre DEF TabFits
    <3>2. /\ TabFits(versions, base[t], local[t], NoSave)
          /\ \A x \in Lines : HeldOf(versions, base[t], local[t], NoSave, x) <= HeldOf(versions, base[t], local[t], saving[t], x)
      BY <1>2, <3>1, HeldWithoutSave
    <3> QED BY <1>2, <2>1, <3>2
  <2>2. CASE now = Current
    <3>1. TabFits(versions, Latest, Current, NoSave)
      BY <1>2 DEF TabFits, Saves, NoSave
    <3>2. \A x \in Lines : HeldOf(versions, Latest, Current, NoSave, x) = Extra(Current[x].qty, Current[x].qty)
      BY <1>2 DEF HeldOf, NoSave
    <3>3. \A n \in Nat : Extra(n, n) = 0
      BY DEF Extra
    <3> QED BY <1>2, <2>2, <3>1, <3>2, <3>3
  <2> QED BY <2>1, <2>2
<1> HIDE DEF now
<1> QED BY <1>1, <1>2, <1>3, TabTurns

LEMMA NotifyFits ==
  ASSUME CartFits, NEW tabs \in SUBSET Tabs, Notify(tabs), NEW c, versions' = Append(versions, c)
  PROVE  inbox' \in [Tabs -> SUBSET (1..Len(versions'))]
<1>1. versions \in Seq(Carts) /\ Len(versions') = Len(versions) + 1 /\ Len(versions) \in Nat
  BY DEF CartFits
<1>2. \A t \in Tabs : inbox[t] \subseteq 1..Len(versions')
  BY <1>1 DEF CartFits, Latest
<1>3. Len(versions') \in 1..Len(versions')
  BY <1>1
<1> QED BY <1>2, <1>3 DEF Notify

LEMMA PutSpares == ASSUME SpareFits, NEW t \in Tabs, Put(t) PROVE SpareFits'
<1>1. saving[t].stage = "sent" /\ UNCHANGED <<base, local, edits, added, taken>>
  BY DEF Put, history
<1>2. /\ versions \in Seq(Carts) /\ Len(versions) \in Nat /\ Latest = Len(versions) /\ base[t] \in Nat
      /\ TabFits(versions, base[t], local[t], saving[t])
      /\ base' = [base EXCEPT ![t] = base[t]] /\ local' = [local EXCEPT ![t] = local[t]]
      /\ inbox \in [Tabs -> SUBSET (1..Latest)] /\ edits' \in Nat /\ added' \in [Lines -> Nat]
      /\ \A x \in Lines : /\ Held(x)[t] = HeldOf(versions, base[t], local[t], saving[t], x) /\ Held(x)[t] \in Nat
                          /\ Current[x].qty \in Nat /\ added[x] \in Nat
  BY <1>1, TabBefore DEF SpareFits, Latest
<1>3. CASE saving[t].version = Latest
  <2> DEFINE cart == saving[t].cart
             ws == Append(versions, cart)
             save == [stage |-> "saved", version |-> Latest + 1]
  <2>1. versions' = ws /\ saving' = [saving EXCEPT ![t] = save] /\ Notify(Tabs \ {t})
    BY <1>3 DEF Put
  <2>2. cart \in Carts /\ base[t] = Latest /\ save \in Saves /\ local[t] \in Carts
    <3>1. cart \in Carts
      BY <1>1, <1>2, StagesAre DEF TabFits
    <3>2. base[t] \in 1..Latest /\ saving[t].version <= base[t] /\ local[t] \in Carts
      BY <1>1, <1>2 DEF TabFits
    <3> QED BY <1>2, <1>3, <3>1, <3>2 DEF Saves
  <2>3. /\ ws \in Seq(Carts) /\ Len(ws) = Latest + 1 /\ ws[Len(ws)] = cart
        /\ Len(ws) \in 1..Len(ws) /\ base[t] \in 1..Len(ws) /\ base[t] = Len(ws) - 1
    <3>1. Latest \in 1..Latest
      BY SpareTypes DEF SpareFits
    <3> QED BY <1>2, <2>2, <3>1
  <2>4. save.stage = "saved" /\ save.version = Len(ws)
    BY <2>3
  <2>5. Onwards(versions, ws) /\ inbox' \in [Tabs -> SUBSET (1..Len(ws))]
    BY <2>1, <2>2, NotifyFits DEF Onwards, SpareFits
  <2> HIDE DEF ws, save, cart
  <2>6. TabFits(ws, base[t], local[t], save)
    BY <2>2, <2>3, <2>4 DEF TabFits
  <2>7. \A x \in Lines : ws[Len(ws)][x].qty + HeldOf(ws, base[t], local[t], save, x) + added[x] <=
                         Current[x].qty + Held(x)[t] + added'[x]
    <3> TAKE x \in Lines
    <3>1. HeldOf(ws, base[t], local[t], save, x) = Extra(local[t][x].qty, cart[x].qty)
      BY <2>3, <2>4, <2>6, HeldIs
    <3>2. Held(x)[t] = Extra(cart[x].qty, versions[base[t]][x].qty) + Extra(local[t][x].qty, cart[x].qty)
      BY <1>1, <1>2, <1>3, HeldIs DEF cart
    <3>3. cart[x].qty \in Nat /\ local[t][x].qty \in Nat /\ versions[base[t]] = Current /\ added' = added
      BY <1>1, <2>2, CartQuantities DEF Current
    <3> DEFINE c == cart[x].qty
               n == Current[x].qty
               m == local[t][x].qty
    <3>4. c \in Nat /\ n \in Nat /\ m \in Nat /\ added[x] \in Nat
      BY <1>2, <3>3
    <3> HIDE DEF c, n, m
    <3>5. c + Extra(m, c) + added[x] <= n + (Extra(c, n) + Extra(m, c)) + added[x]
      BY <3>4 DEF Extra
    <3> QED BY <2>3, <3>1, <3>2, <3>3, <3>5 DEF c, n, m
  <2>8. CartFits' /\ NothingSpare'
    BY <1>1, <1>2, <2>1, <2>5, <2>6, <2>7, TabMoves DEF SpareFits
  <2> QED BY <2>8 DEF SpareFits
<1>4. CASE saving[t].version # Latest
  <2> DEFINE save == [stage |-> "conflict", version |-> Latest]
  <2>1. saving' = [saving EXCEPT ![t] = save] /\ UNCHANGED <<versions, inbox>> /\ Latest \in 1..Len(versions)
    BY <1>2, <1>4, SpareTypes DEF Put, SpareFits
  <2>2. save.stage = "conflict" /\ save.version = Latest /\ save \in Saves
    BY <1>2 DEF Saves
  <2> HIDE DEF save
  <2>3. TabFits(versions, base[t], local[t], save)
    BY <1>2, <2>1, <2>2 DEF TabFits
  <2>4. ASSUME NEW x \in Lines PROVE HeldOf(versions, base[t], local[t], save, x) <= Held(x)[t]
    <3>1. HeldOf(versions, base[t], local[t], save, x) = Extra(local[t][x].qty, versions[base[t]][x].qty)
      BY <1>2, <2>2, <2>3, HeldIs
    <3>2. Held(x)[t] = Extra(local[t][x].qty, versions[base[t]][x].qty)
      BY <1>1, <1>2, <1>4, HeldIs
    <3> QED BY <1>2, <3>1, <3>2
  <2> QED BY <1>1, <1>2, <2>1, <2>3, <2>4, TabTurns
<1> QED BY <1>3, <1>4

LEMMA EditSpares ==
  ASSUME SpareFits, NEW t \in Tabs, NEW x \in Lines, NEW qty \in 0..MaxQty, Edit(t, x, qty) PROVE SpareFits'
<1> DEFINE old == local[t][x]
           new == IF qty = 0 THEN Absent
                  ELSE IF IsThere(old) THEN [old EXCEPT !.qty = qty]
                  ELSE [qty |-> qty, made |-> edits + 1]
           shown == [local[t] EXCEPT ![x] = new]
<1>1. /\ local' = [local EXCEPT ![t] = shown] /\ edits' = edits + 1
      /\ IF qty > old.qty THEN added' = [added EXCEPT ![x] = @ + qty - old.qty] ELSE added' = added
      /\ UNCHANGED <<versions, base, saving, inbox, taken>>
  BY DEF Edit, serverVars
<1>2. /\ versions \in Seq(Carts) /\ Latest = Len(versions) /\ base[t] \in Nat /\ saving[t] \in Saves
      /\ TabFits(versions, base[t], local[t], saving[t]) /\ local[t] \in Carts /\ Onwards(versions, versions)
      /\ base' = [base EXCEPT ![t] = base[t]] /\ saving' = [saving EXCEPT ![t] = saving[t]]
      /\ inbox' \in [Tabs -> SUBSET (1..Len(versions))] /\ edits \in Nat /\ added \in [Lines -> Nat]
      /\ Current = versions[Len(versions)]
      /\ \A y \in Lines : /\ Held(y)[t] = HeldOf(versions, base[t], local[t], saving[t], y) /\ Held(y)[t] \in Nat
                          /\ Current[y].qty \in Nat
  BY <1>1, TabBefore DEF SpareFits, Latest, TabFits
<1>3. qty \in Nat /\ old.qty \in Nat /\ new \in {line \in Line : IsThere(line)} \cup {Absent} /\ new.qty = qty
  <2>1. old \in {line \in Line : IsThere(line)} \cup {Absent}
    BY <1>2 DEF Carts
  <2>2. qty \in Nat /\ edits \in Nat
    BY <1>2, SharedCartAssumption
  <2> HIDE DEF old
  <2> QED BY <2>1, <2>2 DEF Line, IsThere, Absent
<1> HIDE DEF new
<1>4. shown \in Carts /\ shown[x].qty = qty /\ \A y \in Lines \ {x} : shown[y] = local[t][y]
  BY <1>2, <1>3 DEF Carts
<1> HIDE DEF shown
<1>5. /\ TabFits(versions, base[t], shown, saving[t])
      /\ \A y \in Lines : HeldOf(versions, base[t], shown, saving[t], y) <=
                          HeldOf(versions, base[t], local[t], saving[t], y) + Extra(shown[y].qty, local[t][y].qty)
  BY <1>2, <1>4, HeldByShowing
<1>6. /\ added' \in [Lines -> Nat]
      /\ \A y \in Lines : added'[y] = added[y] + Extra(shown[y].qty, local[t][y].qty)
  <2>1. \A n \in Nat : Extra(n, n) = 0
    BY DEF Extra
  <2>2. \A y \in Lines : local[t][y].qty \in Nat
    BY <1>2, CartQuantities
  <2>3. Extra(shown[x].qty, local[t][x].qty) = IF qty > old.qty THEN qty - old.qty ELSE 0
    BY <1>4 DEF Extra
  <2>4. \A y \in Lines \ {x} : Extra(shown[y].qty, local[t][y].qty) = 0
    BY <1>4, <2>1, <2>2
  <2>5. CASE qty > old.qty
    <3>1. added' = [added EXCEPT ![x] = added[x] + qty - old.qty] /\ added \in [Lines -> Nat]
      BY <1>1, <1>2, <2>5
    <3>2. added[x] + qty - old.qty \in Nat /\ added[x] + qty - old.qty = added[x] + (qty - old.qty)
      BY <1>2, <1>3, <2>5
    <3>3. added' \in [Lines -> Nat] /\ added'[x] = added[x] + qty - old.qty /\ \A y \in Lines \ {x} : added'[y] = added[y]
      BY <3>1, <3>2
    <3>4. \A y \in Lines \ {x} : added'[y] = added[y] + Extra(shown[y].qty, local[t][y].qty)
      BY <2>4, <3>1, <3>3
    <3> QED BY <2>3, <2>5, <3>2, <3>3, <3>4
  <2>6. CASE ~(qty > old.qty)
    <3>1. added' = added /\ added \in [Lines -> Nat] /\ Extra(shown[x].qty, local[t][x].qty) = 0
      BY <1>1, <1>2, <2>3, <2>6
    <3> QED BY <2>4, <3>1
  <2> QED BY <2>5, <2>6
<1>7. \A y \in Lines : versions[Len(versions)][y].qty + HeldOf(versions, base[t], shown, saving[t], y) + added[y] <=
                       Current[y].qty + Held(y)[t] + added'[y]
  <2> TAKE y \in Lines
  <2> DEFINE e == Extra(shown[y].qty, local[t][y].qty)
             now == HeldOf(versions, base[t], shown, saving[t], y)
  <2>1. e \in Nat /\ added[y] \in Nat /\ added'[y] = added[y] + e
    <3>1. shown[y].qty \in Nat /\ local[t][y].qty \in Nat
      BY <1>2, <1>4, CartQuantities
    <3> QED BY <1>2, <1>6, <3>1 DEF Extra
  <2>2. now \in Nat /\ now <= Held(y)[t] + e
    BY <1>2, <1>5, HeldIs
  <2> HIDE DEF e, now
  <2>3. Current[y].qty + now + added[y] <= Current[y].qty + Held(y)[t] + added'[y]
    BY <1>2, <2>1, <2>2
  <2> QED BY <1>2, <2>3 DEF now
<1>8. versions' = versions /\ edits' \in Nat /\ taken' = taken /\ CartFits /\ NothingSpare
  BY <1>1, <1>2 DEF SpareFits
<1>9. CartFits' /\ NothingSpare'
  BY <1>1, <1>2, <1>5, <1>6, <1>7, <1>8, TabMoves
<1> QED BY <1>9 DEF SpareFits

LEMMA ToldSpares == ASSUME SpareFits, RowsFit, NEW o \in Orders, Told(o) PROVE SpareFits'
<1> DEFINE t == orders[o].tab
<1>1. t \in Tabs /\ local' = [local EXCEPT ![t] = EmptyCart]
      /\ UNCHANGED <<versions, base, saving, inbox, edits, added, taken>>
  BY DEF Told, RowsFit, Requests, NoOrder, history
<1> HIDE DEF t
<1>2. /\ versions \in Seq(Carts) /\ base[t] \in Nat /\ TabFits(versions, base[t], local[t], saving[t])
      /\ base' = [base EXCEPT ![t] = base[t]] /\ saving' = [saving EXCEPT ![t] = saving[t]]
      /\ inbox' \in [Tabs -> SUBSET (1..Latest)] /\ local[t] \in Carts
      /\ \A x \in Lines : Held(x)[t] = HeldOf(versions, base[t], local[t], saving[t], x) /\ Held(x)[t] \in Nat
  BY <1>1, TabBefore DEF SpareFits, Latest, TabFits
<1>3. EmptyCart \in Carts /\ \A x \in Lines : EmptyCart[x].qty = 0
  BY DEF EmptyCart, Carts, Absent
<1>4. /\ TabFits(versions, base[t], EmptyCart, saving[t])
      /\ \A x \in Lines : HeldOf(versions, base[t], EmptyCart, saving[t], x) <=
                          HeldOf(versions, base[t], local[t], saving[t], x) + Extra(EmptyCart[x].qty, local[t][x].qty)
  BY <1>2, <1>3, HeldByShowing
<1>5. \A x \in Lines : Extra(EmptyCart[x].qty, local[t][x].qty) = 0
  <2>1. \A n \in Nat : Extra(0, n) = 0
    BY DEF Extra
  <2> QED BY <1>2, <1>3, <2>1, CartQuantities
<1>6. \A x \in Lines : HeldOf(versions, base[t], EmptyCart, saving[t], x) <= Held(x)[t]
  BY <1>2, <1>4, <1>5
<1> QED BY <1>1, <1>2, <1>4, <1>6, TabTurns

(* What orders ask for is a number of units.                               *)
Asked(set, x, g) ==
  [s \in SUBSET set |-> IF s = {} THEN 0 ELSE orders[OneOf(s)].items[x] + g[s \ {OneOf(s)}]]

LEMMA OrderedIsNat ==
  ASSUME RowsFit, NEW set \in SUBSET Orders, \A o \in set : orders[o] \in Requests, NEW x \in Lines
  PROVE  Ordered(set, x) \in Nat
<1> DEFINE f == [o \in set |-> orders[o].items[x]]
           Sums(g) == [s \in SUBSET set |-> IF s = {} THEN 0 ELSE f[OneOf(s)] + g[s \ {OneOf(s)}]]
<1>1. \A o \in set : f[o] \in Nat
  BY DEF Requests
<1>2. \A s \in SUBSET set : s # {} => f[OneOf(s)] = orders[OneOf(s)].items[x]
  BY DEF OneOf
<1>3. ASSUME NEW g PROVE Asked(set, x, g) = Sums(g)
  BY <1>2 DEF Asked
<1>4. (CHOOSE g : g = Asked(set, x, g)) = (CHOOSE g : g = Sums(g))
  <2> HIDE DEF Sums
  <2> QED BY <1>3
<1>5. Ordered(set, x) = (CHOOSE g : g = Asked(set, x, g))[set]
  BY DEF Ordered, MapThenSumSet, MapThenFoldSet, Asked, OneOf
<1>6. Total(f, set) = (CHOOSE g : g = Sums(g))[set]
  BY DEF Total, SumsOf
<1> HIDE DEF f, Sums
<1>7. Ordered(set, x) = Total(f, set)
  BY <1>4, <1>5, <1>6
<1>8. IsFiniteSet(set)
  BY SharedCartAssumption, FS_Subset
<1> QED BY <1>1, <1>7, <1>8, TotalIsNat

(* reconcileOrders: what it takes out of the cart is gone from the cart.   *)
LEMMA SettleSpares == ASSUME SpareFits, RowsFit, NEW w \in Workers, Settle(w) PROVE SpareFits'
<1> DEFINE left == [x \in Lines |-> LET n == Current[x].qty - Taken(found[w], x) IN
                      IF n = 0 THEN Absent ELSE [Current[x] EXCEPT !.qty = n]]
<1>1. /\ \/ versions' = Append(versions, left) /\ Notify(Tabs)
         \/ left = Current /\ UNCHANGED <<versions, inbox>>
      /\ taken' = [x \in Lines |-> taken[x] + Taken(found[w], x)]
      /\ UNCHANGED <<base, local, saving, edits, added>>
  BY DEF Settle
<1>2. /\ versions \in Seq(Carts) /\ Len(versions) > 0 /\ Current \in Carts /\ Latest = Len(versions)
      /\ \A x \in Lines : /\ Current[x].qty \in Nat /\ taken[x] \in Nat /\ added[x] \in Nat
                          /\ Total(Held(x), Tabs) \in Nat /\ \A t \in Tabs : Held(x)[t] \in Nat
  BY SpareTypes DEF SpareFits, CartFits, Latest
<1>3. \A x \in Lines : Taken(found[w], x) \in Nat /\ Taken(found[w], x) <= Current[x].qty
  <2> TAKE x \in Lines
  <2>1. found[w] \in SUBSET Orders /\ \A o \in found[w] : orders[o] \in Requests
    BY DEF RowsFit
  <2>2. Ordered(found[w], x) \in Nat
    BY <2>1, OrderedIsNat
  <2> QED BY <1>2, <2>2 DEF Taken
<1>4. left \in Carts /\ \A x \in Lines : left[x].qty = Current[x].qty - Taken(found[w], x)
  <2> SUFFICES ASSUME NEW x \in Lines
               PROVE  /\ left[x] \in {line \in Line : IsThere(line)} \cup {Absent}
                      /\ left[x].qty = Current[x].qty - Taken(found[w], x)
    BY DEF Carts
  <2>1. Current[x] \in {line \in Line : IsThere(line)} \cup {Absent}
    BY <1>2 DEF Carts
  <2> DEFINE n == Current[x].qty - Taken(found[w], x)
  <2>2. n \in Nat /\ (Current[x] = Absent => n = 0)
    BY <1>2, <1>3 DEF Absent
  <2>3. left[x] = IF n = 0 THEN Absent ELSE [Current[x] EXCEPT !.qty = n]
    OBVIOUS
  <2> HIDE DEF n, left
  <2>4. /\ left[x] \in {line \in Line : IsThere(line)} \cup {Absent} /\ left[x].qty = n
    BY <2>1, <2>2, <2>3 DEF Line, IsThere, Absent
  <2> QED BY <2>4 DEF n
<1> HIDE DEF left
<1>5. Current' = left /\ versions' \in Seq(Carts) /\ Len(versions') > 0 /\ inbox' \in [Tabs -> SUBSET (1..Latest')]
  <2>1. CASE versions' = Append(versions, left) /\ Notify(Tabs)
    <3>1. inbox' \in [Tabs -> SUBSET (1..Latest')]
      BY <2>1, NotifyFits DEF SpareFits, Latest
    <3> QED BY <1>2, <1>4, <2>1, <3>1 DEF Current, Latest
  <2>2. CASE left = Current /\ UNCHANGED <<versions, inbox>>
    BY <1>2, <2>2 DEF Current, Latest, SpareFits, CartFits
  <2> QED BY <1>1, <2>1, <2>2
<1>6. ASSUME NEW t \in Tabs
      PROVE  /\ TabFits(versions', base[t], local[t], saving[t])
             /\ \A x \in Lines : HeldOf(versions', base[t], local[t], saving[t], x) <= Held(x)[t]
  <2>1. TabFits(versions, base[t], local[t], saving[t])
    BY DEF SpareFits, CartFits
  <2>2. \A x \in Lines : Held(x)[t] = HeldOf(versions, base[t], local[t], saving[t], x) /\ Held(x)[t] \in Nat
    BY <1>2 DEF Held
  <2>3. CASE versions' = versions
    BY <2>1, <2>2, <2>3
  <2>4. CASE versions' = Append(versions, left)
    BY <1>2, <1>4, <2>1, <2>2, <2>4, HeldAfterVersion
  <2> QED BY <1>1, <2>3, <2>4
<1>7. CartFits'
  <2>1. taken' \in [Lines -> Nat]
    BY <1>1, <1>2, <1>3
  <2> QED BY <1>1, <1>5, <1>6, <2>1 DEF SpareFits, CartFits, Latest
<1>8. NothingSpare'
  <2> SUFFICES ASSUME NEW x \in Lines
               PROVE  left[x].qty + taken'[x] + Total(Held(x)', Tabs) <= added[x]
    BY <1>1, <1>5 DEF NothingSpare
  <2> DEFINE f == Held(x)
             h == Held(x)'
  <2>1. \A t \in Tabs : f[t] \in Nat /\ h[t] = HeldOf(versions', base[t], local[t], saving[t], x)
    BY <1>1, <1>2 DEF Held
  <2>2. \A t \in Tabs : h[t] \in Nat /\ h[t] <= f[t]
    BY <1>5, <1>6, <2>1, HeldIs
  <2>3. Current[x].qty + taken[x] + Total(f, Tabs) <= added[x] /\ Total(f, Tabs) \in Nat
    BY <1>2 DEF SpareFits, NothingSpare
  <2> HIDE DEF f, h
  <2>4. Total(h, Tabs) <= Total(f, Tabs) /\ Total(h, Tabs) \in Nat
    BY <2>1, <2>2, SharedCartAssumption, TotalOfMore, TotalIsNat
  <2>5. left[x].qty + taken'[x] = Current[x].qty + taken[x]
    BY <1>1, <1>2, <1>3, <1>4
  <2>6. left[x].qty + taken'[x] + Total(h, Tabs) <= added[x]
    BY <1>2, <2>3, <2>4, <2>5
  <2> QED BY <2>6 DEF h
<1> QED BY <1>7, <1>8 DEF SpareFits

LEMMA RowsStayFit == SpareFits /\ RowsFit /\ [Next]_vars => RowsFit'
<1> SUFFICES ASSUME SpareFits, RowsFit, [Next]_vars PROVE RowsFit'
  OBVIOUS
<1>1. CASE UNCHANGED <<orders, found>>
  BY <1>1 DEF RowsFit
<1>2. ASSUME NEW t \in Tabs, NEW o \in Orders, Submit(t, o) PROVE RowsFit'
  <2> DEFINE row == [stage |-> "sending", items |-> Quantities(local[t]), tab |-> t, told |-> FALSE]
  <2>1. row \in Requests
    <3>1. Quantities(local[t]) \in [Lines -> Nat]
      BY CartQuantities DEF Quantities, SpareFits, CartFits
    <3> QED BY <3>1 DEF Requests
  <2>2. orders' = [orders EXCEPT ![o] = row] /\ found' = found
    BY <1>2 DEF Submit
  <2> HIDE DEF row
  <2> QED BY <2>1, <2>2 DEF RowsFit
<1>3. ASSUME NEW o \in Orders, Created(o) \/ Told(o) PROVE RowsFit'
  <2>1. orders[o] \in Requests
    BY <1>3 DEF Created, Told, RowsFit, NoOrder
  <2>2. \E row \in Requests : orders' = [orders EXCEPT ![o] = row]
    <3>1. CASE Created(o)
      <4>1. orders' = [orders EXCEPT ![o] = [orders[o] EXCEPT !.stage = "created"]]
        BY <3>1 DEF Created
      <4>2. [orders[o] EXCEPT !.stage = "created"] \in Requests
        BY <2>1 DEF Requests
      <4> QED BY <4>1, <4>2
    <3>2. CASE Told(o)
      <4>1. orders' = [orders EXCEPT ![o] = [orders[o] EXCEPT !.told = TRUE]]
        BY <3>2 DEF Told
      <4>2. [orders[o] EXCEPT !.told = TRUE] \in Requests
        BY <2>1 DEF Requests
      <4> QED BY <4>1, <4>2
    <3> QED BY <1>3, <3>1, <3>2
  <2>3. found' = found
    BY <1>3 DEF Created, Told
  <2> QED BY <2>2, <2>3 DEF RowsFit
<1>4. ASSUME NEW w \in Workers, Find(w) PROVE RowsFit'
  <2>1. orders' = orders /\ found' = [found EXCEPT ![w] = {o \in Orders : orders[o].stage = "created"}]
    BY <1>4 DEF Find
  <2>2. \A o \in Orders : orders[o].stage = "created" => orders[o] \in Requests
    BY DEF RowsFit, NoOrder
  <2> QED BY <2>1, <2>2 DEF RowsFit
<1>5. ASSUME NEW w \in Workers, Settle(w) PROVE RowsFit'
  <2>1. /\ orders' = [o \in Orders |-> IF o \in found[w] THEN [orders[o] EXCEPT !.stage = "settled"] ELSE orders[o]]
        /\ found' = [found EXCEPT ![w] = {}]
    BY <1>5 DEF Settle
  <2>2. \A o \in found[w] : orders[o] \in Requests /\ [orders[o] EXCEPT !.stage = "settled"] \in Requests
    BY DEF RowsFit, Requests
  <2>3. \A o \in Orders : /\ orders'[o] \in {NoOrder} \cup Requests
                          /\ orders[o] \in Requests => orders'[o] \in Requests
    BY <2>1, <2>2 DEF RowsFit
  <2>4. orders' \in [Orders -> {NoOrder} \cup Requests] /\ found' \in [Workers -> SUBSET Orders]
        /\ \A u \in Workers : found'[u] \subseteq found[u]
    BY <2>1, <2>3 DEF RowsFit
  <2> QED BY <2>3, <2>4 DEF RowsFit
<1> QED BY <1>1, <1>2, <1>3, <1>4, <1>5
        DEF Next, TabStep, Push, Put, Reply, Pull, Deliver, LoseSave, Reload, Edit, vars, serverVars

(* No answer is lost, and none is overtaken.                               *)
Answered == Faults \cap {"overtake", "lostReply"} = {}

SpareInv == RowsFit /\ SpareFits

LEMMA SpareInitially == Init => SpareInv
<1> SUFFICES ASSUME Init PROVE SpareInv
  OBVIOUS
<1>0. PICK present \in SUBSET Lines : LET start == [x \in Lines |-> IF x \in present THEN [qty |-> 1, made |-> 0] ELSE Absent] IN
        /\ versions = <<start>> /\ base = [t \in Tabs |-> 1] /\ local = [t \in Tabs |-> start]
        /\ saving = [t \in Tabs |-> NoSave] /\ inbox = [t \in Tabs |-> {}]
        /\ orders = [o \in Orders |-> NoOrder] /\ found = [w \in Workers |-> {}] /\ edits = 0
        /\ added = Quantities(start) /\ taken = [x \in Lines |-> 0]
  BY DEF Init
<1> DEFINE start == [x \in Lines |-> IF x \in present THEN [qty |-> 1, made |-> 0] ELSE Absent]
<1>1. start \in Carts /\ \A x \in Lines : start[x].qty \in Nat
  BY DEF Carts, Line, IsThere, Absent
<1> HIDE DEF start
<1>2. /\ versions = <<start>> /\ base = [t \in Tabs |-> 1] /\ local = [t \in Tabs |-> start]
      /\ saving = [t \in Tabs |-> NoSave] /\ inbox = [t \in Tabs |-> {}]
      /\ orders = [o \in Orders |-> NoOrder] /\ found = [w \in Workers |-> {}] /\ edits = 0
      /\ added = [x \in Lines |-> start[x].qty] /\ taken = [x \in Lines |-> 0]
  BY <1>0 DEF start, Quantities
<1>3. versions \in Seq(Carts) /\ Len(versions) = 1 /\ Latest = 1 /\ versions[1] = start /\ Current = start
  BY <1>1, <1>2 DEF Latest, Current
<1>4. TabFits(versions, 1, start, NoSave)
  BY <1>1, <1>3 DEF TabFits, Saves, NoSave
<1>5. CartFits
  <2>1. \A t \in Tabs : TabFits(versions, base[t], local[t], saving[t])
    BY <1>2, <1>4
  <2> QED BY <1>1, <1>2, <1>3, <2>1 DEF CartFits, Saves
<1>6. NothingSpare
  <2> SUFFICES ASSUME NEW x \in Lines PROVE Current[x].qty + taken[x] + Total(Held(x), Tabs) <= added[x]
    BY DEF NothingSpare
  <2>1. \A t \in Tabs : Held(x)[t] = 0
    <3>1. HeldOf(versions, 1, start, NoSave, x) = Extra(start[x].qty, start[x].qty)
      BY <1>3 DEF HeldOf, NoSave
    <3>2. Extra(start[x].qty, start[x].qty) = 0
      BY <1>1 DEF Extra
    <3> QED BY <1>2, <3>1, <3>2 DEF Held
  <2>2. Total(Held(x), Tabs) = 0
    BY <2>1, SharedCartAssumption, TotalOfZeros
  <2> QED BY <1>1, <1>2, <1>3, <2>2
<1>7. RowsFit
  BY <1>2 DEF RowsFit
<1> QED BY <1>5, <1>6, <1>7 DEF SpareInv, SpareFits

LEMMA NextSpares == ASSUME Answered PROVE SpareInv /\ [Next]_vars => SpareInv'
<1> SUFFICES ASSUME SpareInv, [Next]_vars PROVE SpareFits'
  BY RowsStayFit DEF SpareInv
<1>1. SpareFits /\ RowsFit
  BY DEF SpareInv
<1>2. ASSUME UNCHANGED <<versions, base, local, saving, inbox, edits, added, taken>> PROVE SpareFits'
  BY <1>1, <1>2 DEF SpareFits, CartFits, NothingSpare, Held, Current, Latest
<1>3. ASSUME NEW t \in Tabs, TabStep(t) \/ LoseSave(t) \/ Reload(t) PROVE SpareFits'
  BY <1>1, <1>3, PushSpares, PutSpares, ReplySpares, PullSpares, DeliverSpares, LoseSaveSpares, ReloadSpares
     DEF TabStep, Answered
<1>4. ASSUME NEW t \in Tabs, NEW x \in Lines, NEW qty \in 0..MaxQty, Edit(t, x, qty) PROVE SpareFits'
  BY <1>1, <1>4, EditSpares
<1>5. ASSUME NEW t \in Tabs, NEW o \in Orders, Submit(t, o) PROVE SpareFits'
  BY <1>2, <1>5 DEF Submit, tabVars, history
<1>6. ASSUME NEW o \in Orders, Created(o) PROVE SpareFits'
  BY <1>2, <1>6 DEF Created, tabVars, history
<1>7. ASSUME NEW o \in Orders, Told(o) PROVE SpareFits'
  BY <1>1, <1>7, ToldSpares
<1>8. ASSUME NEW w \in Workers, Find(w) PROVE SpareFits'
  BY <1>2, <1>8 DEF Find, tabVars, history
<1>9. ASSUME NEW w \in Workers, Settle(w) PROVE SpareFits'
  BY <1>1, <1>9, SettleSpares
<1>10. ASSUME UNCHANGED vars PROVE SpareFits'
  BY <1>2, <1>10 DEF vars, serverVars, tabVars, history
<1> QED BY <1>3, <1>4, <1>5, <1>6, <1>7, <1>8, <1>9, <1>10 DEF Next

(* Nothing that was ordered or removed comes back, for any tabs, lines,    *)
(* orders and edits, though saves get lost and pages are loaded again.     *)
THEOREM WhatIsGoneStaysGone == ASSUME Answered PROVE Spec => []NothingComesBack
<1>1. SpareInv => NothingComesBack
  <2> SUFFICES ASSUME SpareInv, NEW x \in Lines PROVE Current[x].qty + taken[x] <= added[x]
    BY DEF NothingComesBack
  <2>1. /\ Current[x].qty \in Nat /\ taken[x] \in Nat /\ added[x] \in Nat /\ Total(Held(x), Tabs) \in Nat
        /\ Current[x].qty + taken[x] + Total(Held(x), Tabs) <= added[x]
    BY SpareTypes DEF SpareInv, SpareFits, NothingSpare
  <2> QED BY <2>1
<1> QED BY <1>1, SpareInitially, NextSpares, PTL DEF Spec

=============================================================================
