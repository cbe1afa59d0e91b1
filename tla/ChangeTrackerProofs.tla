------------------------ MODULE ChangeTrackerProofs ------------------------
(***************************************************************************)
(* That no difference is left behind the cursors of the tracker, and that  *)
(* the tracker implements the feed, for any number of replicas at work,    *)
(* any offers, batches and lags and passes cut by restarts.                *)
(***************************************************************************)
EXTENDS ChangeTracker, FiniteLemmas

PictureSteps == {"baseline", "photographed"}
ScanSteps == {"touched", "offers", "sheets"}
TailSteps == {"deleted", "pauses", "paused"}
PictureJobs == [step : PictureSteps, now : Nat, id : Int, last : Int]
SavingJobs == [step : {"saving"}, now : Nat, last : Int, paused : BOOLEAN]
ScanJobs == [step : ScanSteps, now : Nat, mark : Int, id : Int, seen : Nat, caughtUp : BOOLEAN, sheets : Int,
             touched : SUBSET Offers, full : BOOLEAN, due : BOOLEAN, paused : BOOLEAN]
TailJobs == [step : TailSteps, now : Nat, paused : BOOLEAN]
Jobs == {Idle} \cup PictureJobs \cup SavingJobs \cup ScanJobs \cup TailJobs
Views == Prices \X {0, 1}
Contents == {Hidden} \cup Views
States == {NoState} \cup Contents
Batches == [step : {"rows", "states"}, rows : SUBSET Offers, order : SUBSET (Offers \X Offers),
            after : [Offers -> Contents], before : [Offers -> States]]

TypeOK ==
  /\ clock \in Nat
  /\ terms \in [Offers -> {"gone", "off"} \cup Prices]
  /\ dated \in [Offers -> Nat] /\ sheeted \in [Offers -> Nat]
  /\ sheet \in [Offers -> {0, 1}] /\ stopped \in BOOLEAN
  /\ cut \in BOOLEAN /\ hurried \in BOOLEAN /\ apart \in BOOLEAN
  /\ recorded \in [Offers -> States]
  /\ tracker \in [baseline : BOOLEAN, offers : Int, sheets : Int, scan : Int, paused : BOOLEAN]
  /\ job \in [Replicas -> Jobs] /\ batch \in [Replicas -> Batches \cup {NoBatch}]
  /\ \A w \in writing : w.rows \subseteq Offers /\ w.terms \in Prices \cup {"off"} /\ w.date \in Nat

(* Which part of the job a replica runs, and which rows it may have read.  *)
StrictOrder(R) == StrictlyOrders(R, Offers)
JobFits(r) ==
  /\ job[r].step \in ScanSteps \cup TailSteps => tracker.baseline
  /\ job[r] # Idle => job[r].now <= clock
  /\ job[r].step \in ScanSteps => job[r].sheets <= job[r].now - Lag
  /\ batch[r] # NoBatch => job[r].step \in PictureSteps \cup {"offers", "sheets", "deleted"} /\ StrictOrder(batch[r].order)
  /\ batch[r] # NoBatch /\ job[r].step = "deleted" =>
       batch[r].step = "states" /\ \A o \in Offers : batch[r].after[o] = Hidden

(* No cursor is nearer than the lag: what is being written has a later     *)
(* date, and so has what was written since any of the passes that run      *)
(* began, which as long as they are not apart began at one time.           *)
CursorsLag ==
  /\ \A w \in writing : w.date > clock - Lag
  /\ tracker.baseline => tracker.sheets <= clock - Lag
  /\ tracker.baseline /\ ~hurried => tracker.offers <= clock - Lag
Clean == ~cut /\ ~hurried /\ ~apart
Together(r) ==
  Clean /\ job[r] # Idle =>
    /\ \A q \in Replicas : job[q] # Idle => job[q].now = job[r].now
    /\ tracker.baseline => tracker.sheets <= job[r].now - Lag /\ tracker.offers <= job[r].now - Lag

Known(o) == Seen(o) = View(o)
Fresh(r, o) == dated[o] > job[r].now - Lag \/ sheeted[o] > job[r].now - Lag

(* What the pass still has to read or to write, or leaves to the next one. *)
Ahead(r, o) == dated[o] > job[r].mark \/ (dated[o] = job[r].mark /\ o > job[r].id)
Pending(r, o) == batch[r] # NoBatch /\ o \in batch[r].rows
ToCome(r, o) ==
  \/ Fresh(r, o)
  \/ Pending(r, o)
  \/ job[r].step = "baseline" /\ o > job[r].id
  \/ job[r].step = "touched" /\ sheeted[o] > job[r].sheets
  \/ job[r].step \in {"offers", "sheets"} /\ (o \in job[r].touched \/ (job[r].full /\ sheeted[o] > job[r].sheets))
  \/ job[r].step \in ScanSteps /\ (job[r].step # "sheets" \/ ~job[r].caughtUp) /\ Ahead(r, o)

PassFits(r) ==
  Clean /\ job[r].step \in PictureSteps \cup {"saving"} \cup ScanSteps =>
    \A o \in Rows : Known(o) \/ ToCome(r, o)

(* What it has read of a row is so, or the row is written since; and when  *)
(* it found the state of a row right, the state is right or the row is     *)
(* written since.                                                          *)
BatchFits(r) ==
  Clean /\ batch[r] # NoBatch =>
    \A o \in batch[r].rows \cap Rows :
      /\ batch[r].after[o] = View(o) \/ Fresh(r, o)
      /\ batch[r].step = "states" /\ batch[r].before[o] = batch[r].after[o] => Known(o) \/ Fresh(r, o)

(* While a picture is taken, what has a state is known.                    *)
PictureFits(r) ==
  Clean /\ job[r].step \in PictureSteps =>
    \A o \in Rows : recorded[o] # NoState => Known(o) \/ Fresh(r, o)
NothingYet ==
  Clean /\ ~tracker.baseline /\ (\A r \in Replicas : job[r] = Idle) => \A o \in Offers : recorded[o] = NoState

ReplicaFits(r) == PassFits(r) /\ BatchFits(r) /\ PictureFits(r)

IInv == /\ TypeOK /\ CursorsLag /\ NothingYet /\ NothingBehindCursor
        /\ \A r \in Replicas : JobFits(r) /\ Together(r) /\ ReplicaFits(r)

-----------------------------------------------------------------------------
(* The orders of the queries, and what they put first and last.            *)
(* There are finitely many offers.                                         *)
LEMMA Subsets == ASSUME NEW S \in SUBSET Offers PROVE IsFiniteSet(S) /\ Cardinality(S) \in Nat
BY TrackerAssumption, FS_Subset, FS_CardinalityType

(* The last row is the last.                                               *)
LEMMA LastOfIs ==
  ASSUME NEW R, StrictOrder(R), NEW S \in SUBSET Offers, S # {}
  PROVE  LastOf(S, R) \in S /\ \A x \in S \ {LastOf(S, R)} : <<x, LastOf(S, R)>> \in R
<1>1. \E o \in S : \A x \in S \ {o} : <<x, o>> \in R
  BY Subsets, LastExists DEF StrictOrder
<1> QED BY <1>1 DEF LastOf

(* Rows in order are in order.                                             *)
LEMMA InOrderIs ==
  ASSUME NEW R, StrictOrder(R), NEW S \in SUBSET Offers
  PROVE  Sorted(InOrder(S, R), S, R)
BY Subsets, SortedChosen DEF StrictOrder, InOrder

(* A query with a limit takes the first rows, all of them unless it took   *)
(* as many as the limit.                                                   *)
LEMMA TakenIs ==
  ASSUME NEW R, StrictOrder(R), NEW S \in SUBSET Offers
  PROVE  /\ Taken(S, R) \in SUBSET S
         /\ \A a \in Taken(S, R), b \in S \ Taken(S, R) : <<a, b>> \in R
         /\ Cardinality(Taken(S, R)) \in Nat /\ Cardinality(Taken(S, R)) <= Batch
         /\ Cardinality(Taken(S, R)) # Batch => Taken(S, R) = S
         /\ Taken(S, R) = {} => S = {}
<1> DEFINE n == Cardinality(S)
           k == Min({n, Batch})
           t == InOrder(S, R)
           took == Taken(S, R)
<1>1. n \in Nat /\ Batch \in Nat \ {0} /\ k \in {n, Batch} /\ k <= n /\ k <= Batch /\ k \in Nat
  <2>1. n \in Nat /\ Batch \in Nat \ {0}
    BY Subsets, TrackerAssumption
  <2> HIDE DEF n
  <2>2. k \in {n, Batch} /\ k <= n /\ k <= Batch
    BY <2>1, MinIs
  <2> QED BY <2>1, <2>2
<1>2. /\ t \in [1..n -> S] /\ \A o \in S : \E i \in 1..n : t[i] = o
      /\ \A i, j \in 1..n : i < j => <<t[i], t[j]>> \in R
  BY InOrderIs DEF Sorted
<1>3. took = {t[i] : i \in 1..k}
  BY DEF Taken
<1> HIDE DEF n, k, t, took
<1>4. took \in SUBSET S
  BY <1>1, <1>2, <1>3
<1>5. ASSUME NEW a \in took, NEW b \in S \ took PROVE <<a, b>> \in R
  <2>1. PICK i \in 1..k : t[i] = a
    BY <1>3
  <2>2. PICK j \in 1..n : t[j] = b
    BY <1>2
  <2>3. i < j /\ i \in 1..n
    BY <1>1, <1>3, <2>2
  <2> QED BY <1>2, <2>1, <2>2, <2>3
<1>6. \A i, j \in 1..n : i # j => t[i] # t[j]
  <2>1. \A i, j \in 1..n : i < j => t[i] # t[j]
    BY <1>2 DEF StrictOrder, StrictlyOrders
  <2> QED BY <1>1, <2>1
<1>7. Cardinality(took) = k
  <2> DEFINE f == [i \in 1..k |-> t[i]]
  <2>1. f \in Injection(1..k, took)
    BY <1>1, <1>3, <1>6 DEF Injection, IsInjective
  <2>2. f \in Surjection(1..k, took)
    BY <1>3 DEF Surjection
  <2>3. Cardinality(1..k) = k
    BY <1>1, FS_Interval
  <2>4. IsFiniteSet(took)
    BY <1>4, Subsets
  <2> HIDE DEF f
  <2> QED BY <2>1, <2>2, <2>3, <2>4, FS_Injection
<1>8. Cardinality(took) # Batch => took = S
  BY <1>1, <1>2, <1>3, <1>4, <1>7
<1>9. took = {} => S = {}
  BY <1>1, <1>2, <1>3, <1>7, <1>8, FS_EmptySet
<1> QED BY <1>1, <1>4, <1>5, <1>7, <1>8, <1>9 DEF took

LEMMA IdsAreOrdered == StrictOrder(ById)
BY TrackerAssumption DEF StrictOrder, StrictlyOrders, ById

LEMMA OrderedByKey ==
  ASSUME NEW g \in [Offers -> Nat], NEW R,
         \A x, y \in Offers : <<x, y>> \in R <=> (g[x] < g[y] \/ (g[x] = g[y] /\ x < y))
  PROVE  StrictOrder(R)
<1> SUFFICES ASSUME NEW a \in Offers, NEW b \in Offers, NEW c \in Offers
             PROVE  /\ a # b => <<a, b>> \in R \/ <<b, a>> \in R
                    /\ ~(<<a, b>> \in R /\ <<b, a>> \in R)
                    /\ <<a, b>> \in R /\ <<b, c>> \in R => <<a, c>> \in R
  BY DEF StrictOrder, StrictlyOrders
<1>1. {a, b, c} \subseteq Nat /\ g[a] \in Nat /\ g[b] \in Nat /\ g[c] \in Nat
  BY TrackerAssumption
<1>2. /\ <<a, b>> \in R <=> (g[a] < g[b] \/ (g[a] = g[b] /\ a < b))
      /\ <<b, a>> \in R <=> (g[b] < g[a] \/ (g[b] = g[a] /\ b < a))
      /\ <<b, c>> \in R <=> (g[b] < g[c] \/ (g[b] = g[c] /\ b < c))
      /\ <<a, c>> \in R <=> (g[a] < g[c] \/ (g[a] = g[c] /\ a < c))
  OBVIOUS
<1> QED BY <1>1, <1>2

LEMMA DatesAreOrdered ==
  ASSUME dated \in [Offers -> Nat]
  PROVE  /\ StrictOrder(ByDate)
         /\ \A a, b \in Offers : <<a, b>> \in ByDate <=> (dated[a] < dated[b] \/ (dated[a] = dated[b] /\ a < b))
<1>1. \A a, b \in Offers : <<a, b>> \in ByDate <=> (dated[a] < dated[b] \/ (dated[a] = dated[b] /\ a < b))
  BY DEF ByDate
<1> QED BY <1>1, OrderedByKey

(* The greatest of a few numbers.                                          *)
LEMMA MaxIs ==
  ASSUME NEW S \in SUBSET Offers, NEW f \in [S -> Nat], NEW a \in Int
  PROVE  Max({a} \cup {f[o] : o \in S}) \in Int
<1> DEFINE T == {a} \cup {f[o] : o \in S}
<1>1. \E m \in T : \A x \in T : m >= x
  <2>1. CASE S = {}
    BY <2>1
  <2>2. CASE S # {}
    <3> DEFINE g == [o \in Offers |-> IF o \in S THEN f[o] ELSE 0]
    <3> DEFINE G == {p \in Offers \X Offers : g[p[1]] < g[p[2]] \/ (g[p[1]] = g[p[2]] /\ p[1] < p[2])}
    <3>1. \A o \in Offers : o \in Nat /\ g[o] \in Nat
      BY TrackerAssumption
    <3>2. \A o \in S : g[o] = f[o]
      OBVIOUS
    <3> HIDE DEF g
    <3>3. \A x, y \in Offers : <<x, y>> \in G <=> (g[x] < g[y] \/ (g[x] = g[y] /\ x < y))
      OBVIOUS
    <3> HIDE DEF G
    <3>4. StrictOrder(G)
      <4>1. g \in [Offers -> Nat]
        BY DEF g
      <4> QED BY <3>3, <4>1, OrderedByKey
    <3>5. PICK m \in S : \A x \in S \ {m} : <<x, m>> \in G
      <4>1. LastOf(S, G) \in S /\ \A x \in S \ {LastOf(S, G)} : <<x, LastOf(S, G)>> \in G
        BY <2>2, <3>4, LastOfIs
      <4> QED BY <4>1
    <3>6. \A x \in S : f[x] <= f[m]
      <4> SUFFICES ASSUME NEW x \in S \ {m} PROVE f[x] <= f[m]
        OBVIOUS
      <4>0. x \in Offers /\ m \in Offers /\ <<x, m>> \in G
        BY <3>5
      <4>1. g[x] <= g[m]
        BY <3>1, <3>3, <4>0
      <4> QED BY <3>2, <4>1
    <3>7. f[m] \in Nat /\ f[m] \in T
      OBVIOUS
    <3> QED BY <3>6, <3>7
  <2> QED BY <2>1, <2>2
<1>2. T \subseteq Int
  OBVIOUS
<1> QED BY <1>1, <1>2 DEF Max

-----------------------------------------------------------------------------
(* What the invariant says of one state.                                   *)
LEMMA ViewIs ==
  ASSUME TypeOK, NEW o \in Offers
  PROVE  /\ View(o) \in Contents /\ View(o) # NoState
         /\ Seen(o) \in Contents
         /\ recorded[o] = View(o) => Known(o)
         /\ recorded[o] = NoState => Seen(o) = Hidden
         /\ recorded[o] # NoState => Seen(o) = recorded[o]
         /\ NoState \notin Contents
BY TrackerAssumption DEF TypeOK, View, Known, Seen, Shown, Hidden, NoState, Contents, States, Views

LEMMA JobIs ==
  ASSUME TypeOK, NEW r \in Replicas
  PROVE  /\ job[r].step \in PictureSteps => job[r] \in PictureJobs /\ job[r] # Idle
         /\ job[r].step = "saving" => job[r] \in SavingJobs /\ job[r] # Idle
         /\ job[r].step \in ScanSteps => job[r] \in ScanJobs /\ job[r] # Idle
         /\ job[r].step \in TailSteps => job[r] \in TailJobs /\ job[r] # Idle
         /\ job[r] # Idle => job[r].now \in Nat /\ job[r].step \in PictureSteps \cup {"saving"} \cup ScanSteps \cup TailSteps
         /\ job[r] = Idle => job[r].step = "idle"
<1>1. job[r] \in Jobs
  BY DEF TypeOK
<1> QED BY <1>1 DEF Jobs, PictureJobs, SavingJobs, ScanJobs, TailJobs, Idle, PictureSteps, ScanSteps, TailSteps

LEMMA BatchIs ==
  ASSUME TypeOK, NEW r \in Replicas, batch[r] # NoBatch
  PROVE  batch[r] \in Batches
BY DEF TypeOK

LEMMA Numbers ==
  ASSUME TypeOK
  PROVE  /\ clock \in Nat /\ Lag \in Nat \ {0}
         /\ tracker.offers \in Int /\ tracker.sheets \in Int
         /\ \A o \in Offers : o \in Nat /\ dated[o] \in Nat /\ sheeted[o] \in Nat
         /\ Rows \subseteq Offers
BY TrackerAssumption DEF TypeOK, Rows

(* A step that changes the pass of one replica.                            *)
LEMMA TypeFrame ==
  ASSUME TypeOK, NEW r \in Replicas, UNCHANGED <<clock, terms, dated, sheet, sheeted, writing, stopped>>,
         cut' \in BOOLEAN, hurried' \in BOOLEAN, apart' \in BOOLEAN,
         NEW j \in Jobs, job' = [job EXCEPT ![r] = j],
         NEW b \in Batches \cup {NoBatch}, batch' = [batch EXCEPT ![r] = b],
         recorded' \in [Offers -> States],
         tracker' \in [baseline : BOOLEAN, offers : Int, sheets : Int, scan : Int, paused : BOOLEAN]
  PROVE  /\ TypeOK' /\ job'[r] = j /\ batch'[r] = b
         /\ \A q \in Replicas \ {r} : job'[q] = job[q] /\ batch'[q] = batch[q]
BY DEF TypeOK

(* The passes of the others stay right when what a step writes of a row is *)
(* what the row says, or the row is written since.                         *)
LEMMA OthersKeep ==
  ASSUME IInv, TypeOK', NEW r \in Replicas, NEW q \in Replicas, job'[q] = job[q], batch'[q] = batch[q],
         UNCHANGED <<terms, dated, sheet, sheeted>>, Clean' => Clean,
         Clean => \A o \in Rows : recorded'[o] = recorded[o] \/ (job[r] # Idle /\ (Known(o)' \/ Fresh(r, o)))
  PROVE  ReplicaFits(q)'
<1> USE DEF IInv
<1>1. Rows' = Rows /\ Rows \subseteq Offers /\ \A o \in Offers : View(o)' = View(o)
  BY DEF Rows, View
<1>2. ASSUME Clean, job[q] # Idle, NEW o \in Rows
      PROVE  /\ recorded'[o] = recorded[o] \/ Known(o)' \/ Fresh(q, o)'
             /\ Known(o) => Known(o)' \/ Fresh(q, o)'
             /\ Fresh(q, o)' <=> Fresh(q, o)
  <2>1. job[r] # Idle => job[q].now = job[r].now
    BY <1>2 DEF Together
  <2>2. recorded'[o] = recorded[o] => (Known(o)' <=> Known(o))
    BY <1>1 DEF Known, Seen
  <2>3. job[r] # Idle /\ Fresh(r, o) => Fresh(q, o)'
    BY <2>1 DEF Fresh
  <2>4. Fresh(q, o)' <=> Fresh(q, o)
    BY DEF Fresh
  <2> QED BY <1>2, <2>2, <2>3, <2>4
<1>3. \A o \in Rows : (ToCome(q, o)' <=> Fresh(q, o)' \/ ToCome(q, o))
  BY DEF ToCome, Pending, Ahead, Fresh
<1>4. PassFits(q)'
  <2> SUFFICES ASSUME Clean, job[q].step \in PictureSteps \cup {"saving"} \cup ScanSteps, NEW o \in Rows
               PROVE  Known(o)' \/ ToCome(q, o)'
    BY <1>1 DEF PassFits
  <2>1. job[q] # Idle
    BY JobIs DEF PictureSteps, ScanSteps
  <2>2. Known(o) \/ ToCome(q, o)
    BY DEF PassFits, ReplicaFits
  <2> QED BY <1>2, <1>3, <2>1, <2>2
<1>5. BatchFits(q)'
  <2> SUFFICES ASSUME Clean, batch[q] # NoBatch, NEW o \in batch[q].rows \cap Rows
               PROVE  /\ batch[q].after[o] = View(o) \/ Fresh(q, o)'
                      /\ batch[q].step = "states" /\ batch[q].before[o] = batch[q].after[o] => Known(o)' \/ Fresh(q, o)'
    BY <1>1 DEF BatchFits
  <2>1. job[q] # Idle
    BY JobIs DEF JobFits, PictureSteps
  <2>2. /\ batch[q].after[o] = View(o) \/ Fresh(q, o)
        /\ batch[q].step = "states" /\ batch[q].before[o] = batch[q].after[o] => Known(o) \/ Fresh(q, o)
    BY DEF BatchFits, ReplicaFits
  <2> QED BY <1>2, <2>1, <2>2
<1>6. PictureFits(q)'
  <2> SUFFICES ASSUME Clean, job[q].step \in PictureSteps, NEW o \in Rows, recorded'[o] # NoState
               PROVE  Known(o)' \/ Fresh(q, o)'
    BY <1>1 DEF PictureFits
  <2>1. job[q] # Idle
    BY JobIs
  <2>2. recorded[o] # NoState => Known(o) \/ Fresh(q, o)
    BY DEF PictureFits, ReplicaFits
  <2> QED BY <1>2, <2>1, <2>2
<1> QED BY <1>4, <1>5, <1>6 DEF ReplicaFits

(* The rest of the invariant, for a step of a pass that leaves the cursors.*)
LEMMA StepFrame ==
  ASSUME IInv, TypeOK', NEW r \in Replicas, job[r] # Idle,
         UNCHANGED <<clock, terms, dated, sheet, sheeted, writing, cut, hurried, apart>>,
         tracker'.baseline = tracker.baseline, tracker'.offers = tracker.offers, tracker'.sheets = tracker.sheets,
         \A q \in Replicas \ {r} : job'[q] = job[q] /\ batch'[q] = batch[q],
         job'[r] # Idle => job'[r].now = job[r].now, job'[r] = Idle => tracker.baseline,
         Clean => \A o \in Rows : recorded'[o] = recorded[o] \/ Known(o)' \/ Fresh(r, o),
         JobFits(r)', ReplicaFits(r)'
  PROVE  IInv'
<1> USE DEF IInv
<1>1. Clean' <=> Clean
  BY DEF Clean
<1>2. Rows' = Rows /\ \A o \in Offers : View(o)' = View(o)
  BY DEF Rows, View
<1>3. CursorsLag'
  BY DEF CursorsLag
<1>4. NothingYet'
  BY DEF NothingYet
<1>5. NothingBehindCursor'
  <2> SUFFICES ASSUME tracker.baseline, Clean, NEW o \in Rows
               PROVE  Known(o)' \/ dated[o] > tracker.offers \/ sheeted[o] > tracker.sheets
    BY <1>1, <1>2 DEF NothingBehindCursor, Clean, Known
  <2>1. recorded'[o] = recorded[o] => (Known(o)' <=> Known(o))
    BY <1>2, Numbers DEF Known, Seen
  <2>2. Known(o) \/ dated[o] > tracker.offers \/ sheeted[o] > tracker.sheets
    BY DEF NothingBehindCursor, Clean, Known
  <2>3. Fresh(r, o) => dated[o] > tracker.offers \/ sheeted[o] > tracker.sheets
    <3>1. tracker.sheets <= job[r].now - Lag /\ tracker.offers <= job[r].now - Lag /\ job[r].now \in Nat
      BY JobIs DEF Together
    <3> QED BY <3>1, Numbers DEF Fresh
  <2> QED BY <2>1, <2>2, <2>3
<1>6. ASSUME NEW q \in Replicas PROVE JobFits(q)' /\ ReplicaFits(q)'
  <2>1. CASE q = r
    BY <2>1
  <2>2. CASE q # r
    <3>1. job'[q] = job[q] /\ batch'[q] = batch[q]
      BY <2>2
    <3>2. ReplicaFits(q)'
      BY <1>1, <3>1, OthersKeep
    <3>3. JobFits(q)'
      BY <3>1 DEF JobFits
    <3> QED BY <3>2, <3>3
  <2> QED BY <2>1, <2>2
<1>7. ASSUME NEW q \in Replicas PROVE Together(q)'
  <2> SUFFICES ASSUME Clean, job'[q] # Idle
               PROVE  /\ \A p \in Replicas : job'[p] # Idle => job'[p].now = job'[q].now
                      /\ tracker.baseline => tracker.sheets <= job'[q].now - Lag /\ tracker.offers <= job'[q].now - Lag
    BY <1>1 DEF Together
  <2>1. \A p \in Replicas : job'[p] # Idle => job[p] # Idle /\ job'[p].now = job[p].now
    OBVIOUS
  <2> QED BY <2>1 DEF Together
<1> QED BY <1>3, <1>4, <1>5, <1>6, <1>7

-----------------------------------------------------------------------------
(* The tracker keeps the invariant.                                        *)
LEMMA Start == Init => IInv
<1> SUFFICES ASSUME Init PROVE IInv
  OBVIOUS
<1>1. TypeOK
  <2>1. tracker \in [baseline : BOOLEAN, offers : Int, sheets : Int, scan : Int, paused : BOOLEAN]
    BY DEF Init
  <2>2. stopped \in BOOLEAN /\ clock \in Nat /\ cut \in BOOLEAN /\ hurried \in BOOLEAN /\ apart \in BOOLEAN
    BY DEF Init
  <2>3. /\ terms \in [Offers -> {"gone", "off"} \cup Prices]
        /\ dated \in [Offers -> Nat] /\ sheeted \in [Offers -> Nat] /\ sheet \in [Offers -> {0, 1}]
        /\ recorded \in [Offers -> States] /\ writing = {}
    BY DEF Init, States
  <2>4. job \in [Replicas -> Jobs] /\ batch \in [Replicas -> Batches \cup {NoBatch}]
    BY DEF Init, Jobs
  <2> QED BY <2>1, <2>2, <2>3, <2>4 DEF TypeOK
<1>2. \A r \in Replicas : job[r] = Idle /\ batch[r] = NoBatch
  BY DEF Init
<1>3. \A r \in Replicas : JobFits(r) /\ Together(r) /\ ReplicaFits(r)
  BY <1>2 DEF JobFits, Together, ReplicaFits, PassFits, BatchFits, PictureFits, Idle, PictureSteps, ScanSteps, TailSteps
<1>4. CursorsLag /\ NothingYet /\ NothingBehindCursor
  BY DEF Init, CursorsLag, NothingYet, NothingBehindCursor
<1> QED BY <1>1, <1>3, <1>4 DEF IInv

(* What changes in the catalogue has a date that no cursor has passed.     *)
LEMMA CatalogueFrame ==
  ASSUME IInv, TypeOK', CursorsLag', clock' >= clock,
         UNCHANGED <<recorded, tracker, job, batch, cut, hurried, apart>>,
         \A o \in Rows' :
           \/ o \in Rows /\ View(o)' = View(o) /\ dated'[o] = dated[o] /\ sheeted'[o] = sheeted[o]
           \/ dated'[o] > clock - Lag \/ sheeted'[o] > clock - Lag
  PROVE  IInv'
<1> USE DEF IInv
<1> DEFINE Same(o) == o \in Rows /\ View(o)' = View(o) /\ dated'[o] = dated[o] /\ sheeted'[o] = sheeted[o]
<1>1. \A o \in Offers : Seen(o)' = Seen(o)
  BY DEF Seen
<1>2. Rows \subseteq Offers /\ Rows' \subseteq Offers /\ (Clean' <=> Clean)
  BY DEF Rows, Clean
<1>3. /\ clock \in Nat /\ clock' \in Nat /\ Lag \in Nat /\ tracker.offers \in Int /\ tracker.sheets \in Int
      /\ \A o \in Offers : dated'[o] \in Nat /\ sheeted'[o] \in Nat
  BY TrackerAssumption DEF TypeOK
<1>4. ASSUME NEW r \in Replicas PROVE JobFits(r)' /\ Together(r)'
  <2>1. Together(r)'
    BY <1>2 DEF Together
  <2>2. job[r] # Idle => job[r].now \in Nat
    BY JobIs
  <2> QED BY <1>3, <2>1, <2>2 DEF JobFits
<1>5. ASSUME NEW r \in Replicas, job[r] # Idle, NEW o \in Rows' PROVE Same(o) \/ Fresh(r, o)'
  <2>1. job[r].now \in Nat /\ job[r].now <= clock
    BY <1>5, JobIs DEF JobFits
  <2> QED BY <1>2, <1>3, <1>5, <2>1 DEF Fresh
<1>6. ASSUME NEW r \in Replicas, NEW o \in Offers, Same(o)
      PROVE  (Known(o)' <=> Known(o)) /\ (Fresh(r, o)' <=> Fresh(r, o)) /\ (ToCome(r, o)' <=> ToCome(r, o))
  BY <1>1, <1>6 DEF Known, Fresh, ToCome, Pending, Ahead
<1>7. ASSUME NEW r \in Replicas PROVE ReplicaFits(r)'
  <2>1. PassFits(r)'
    <3> SUFFICES ASSUME Clean, job[r].step \in PictureSteps \cup {"saving"} \cup ScanSteps, NEW o \in Rows'
                 PROVE  Known(o)' \/ ToCome(r, o)'
      BY <1>2 DEF PassFits
    <3>1. job[r] # Idle
      BY JobIs DEF PictureSteps, ScanSteps
    <3>2. Same(o) => Known(o) \/ ToCome(r, o)
      BY DEF PassFits, ReplicaFits
    <3>3. Fresh(r, o)' => ToCome(r, o)'
      BY DEF ToCome
    <3> QED BY <1>2, <1>5, <1>6, <3>1, <3>2, <3>3
  <2>2. BatchFits(r)'
    <3> SUFFICES ASSUME Clean, batch[r] # NoBatch, NEW o \in batch[r].rows \cap Rows'
                 PROVE  /\ batch[r].after[o] = View(o)' \/ Fresh(r, o)'
                        /\ batch[r].step = "states" /\ batch[r].before[o] = batch[r].after[o] => Known(o)' \/ Fresh(r, o)'
      BY <1>2 DEF BatchFits
    <3>1. job[r] # Idle
      BY JobIs DEF JobFits, PictureSteps
    <3>2. Same(o) => /\ batch[r].after[o] = View(o) \/ Fresh(r, o)
                     /\ batch[r].step = "states" /\ batch[r].before[o] = batch[r].after[o] => Known(o) \/ Fresh(r, o)
      BY DEF BatchFits, ReplicaFits
    <3> QED BY <1>2, <1>5, <1>6, <3>1, <3>2
  <2>3. PictureFits(r)'
    <3> SUFFICES ASSUME Clean, job[r].step \in PictureSteps, NEW o \in Rows', recorded[o] # NoState
                 PROVE  Known(o)' \/ Fresh(r, o)'
      BY <1>2 DEF PictureFits
    <3>1. job[r] # Idle
      BY JobIs
    <3>2. Same(o) => Known(o) \/ Fresh(r, o)
      BY DEF PictureFits, ReplicaFits
    <3> QED BY <1>2, <1>5, <1>6, <3>1, <3>2
  <2> QED BY <2>1, <2>2, <2>3 DEF ReplicaFits
<1>8. NothingYet'
  BY <1>2 DEF NothingYet
<1>9. NothingBehindCursor'
  <2> SUFFICES ASSUME tracker.baseline, ~cut, ~hurried, ~apart, NEW o \in Rows'
               PROVE  (Seen(o) = View(o) \/ dated[o] > tracker.offers \/ sheeted[o] > tracker.sheets)'
    BY DEF NothingBehindCursor
  <2>1. CASE Same(o)
    BY <1>1, <1>2, <2>1 DEF NothingBehindCursor
  <2>2. CASE ~Same(o)
    <3>1. dated'[o] > clock - Lag \/ sheeted'[o] > clock - Lag
      BY <2>2
    <3> QED BY <1>2, <1>3, <3>1 DEF CursorsLag
  <2> QED BY <2>1, <2>2
<1> QED BY <1>4, <1>7, <1>8, <1>9

(* Time passes while what is being written stays within the lag.           *)
LEMMA TickKeeps == IInv /\ Tick => IInv'
<1> SUFFICES ASSUME IInv, Tick PROVE IInv'
  OBVIOUS
<1> USE DEF IInv
<1>1. /\ clock' = clock + 1 /\ \A w \in writing : clock + 1 < w.date + Lag
      /\ UNCHANGED <<terms, dated, sheet, sheeted, writing, stopped, recorded, events, tracker, job, batch, cut, hurried, apart>>
  BY DEF Tick, catalogVars, feed, history
<1>2. clock \in Nat /\ Lag \in Nat /\ (\A w \in writing : w.date \in Nat) /\ tracker.offers \in Int /\ tracker.sheets \in Int
  BY Numbers DEF TypeOK
<1>3. TypeOK'
  BY <1>1 DEF TypeOK
<1>4. CursorsLag' /\ clock' >= clock
  BY <1>1, <1>2 DEF CursorsLag
<1>5. Rows' = Rows /\ \A o \in Rows : View(o)' = View(o)
  BY <1>1 DEF Rows, View
<1> QED BY <1>1, <1>3, <1>4, <1>5, CatalogueFrame

LEMMA CatalogueKeeps == IInv /\ (Catalogue \/ \E w \in writing : Commit(w)) => IInv'
<1> SUFFICES ASSUME IInv PROVE Catalogue \/ (\E w \in writing : Commit(w)) => IInv'
  OBVIOUS
<1> USE DEF IInv
<1>1. clock \in Nat /\ Lag \in Nat \ {0}
  BY Numbers
<1>2. ASSUME NEW rows \in SUBSET Offers, NEW new \in Prices \cup {"off"}, Stamp(rows, new) PROVE IInv'
  <2>1. /\ writing' = writing \cup {[rows |-> rows, terms |-> new, date |-> clock]}
        /\ UNCHANGED <<clock, terms, dated, sheet, sheeted, stopped, recorded, events, tracker, job, batch, cut, hurried, apart>>
    BY <1>2 DEF Stamp, feed, history
  <2>2. TypeOK' /\ CursorsLag'
    BY <1>1, <2>1 DEF TypeOK, CursorsLag
  <2>3. Rows' = Rows /\ \A o \in Rows : View(o)' = View(o)
    BY <2>1 DEF Rows, View
  <2> QED BY <1>1, <2>1, <2>2, <2>3, CatalogueFrame
<1>3. ASSUME NEW w \in writing, Commit(w) PROVE IInv'
  <2>1. /\ terms' = [o \in Offers |-> IF o \in w.rows THEN w.terms ELSE terms[o]]
        /\ dated' = [o \in Offers |-> IF o \in w.rows THEN w.date ELSE dated[o]]
        /\ writing' = writing \ {w}
        /\ UNCHANGED <<clock, sheet, sheeted, stopped, recorded, events, tracker, job, batch, cut, hurried, apart>>
    BY <1>3 DEF Commit, feed, history
  <2>2. TypeOK'
    BY <2>1 DEF TypeOK
  <2>3. CursorsLag'
    BY <2>1 DEF CursorsLag
  <2>4. ASSUME NEW o \in Rows'
        PROVE  \/ o \in Rows /\ View(o)' = View(o) /\ dated'[o] = dated[o] /\ sheeted'[o] = sheeted[o]
               \/ dated'[o] > clock - Lag
    BY <2>1 DEF Rows, View, CursorsLag
  <2> QED BY <1>1, <2>1, <2>2, <2>3, <2>4, CatalogueFrame
<1>4. ASSUME NEW o \in Offers, Delete(o) PROVE IInv'
  <2>1. /\ terms' = [terms EXCEPT ![o] = "gone"]
        /\ UNCHANGED <<clock, dated, sheet, sheeted, writing, stopped, recorded, events, tracker, job, batch, cut, hurried, apart>>
    BY <1>4 DEF Delete, feed, history
  <2>2. TypeOK' /\ CursorsLag'
    BY <2>1 DEF TypeOK, CursorsLag
  <2>3. \A x \in Rows' : x \in Rows /\ View(x)' = View(x)
    BY <2>1 DEF Rows, View, TypeOK
  <2> QED BY <1>1, <2>1, <2>2, <2>3, CatalogueFrame
<1>5. ASSUME NEW o \in Offers, WriteSheet(o) PROVE IInv'
  <2>1. /\ sheet' = [sheet EXCEPT ![o] = 1 - @]
        /\ sheeted' = [sheeted EXCEPT ![o] = clock]
        /\ UNCHANGED <<clock, terms, dated, writing, stopped, recorded, events, tracker, job, batch, cut, hurried, apart>>
    BY <1>5 DEF WriteSheet, feed, history
  <2>2. TypeOK' /\ CursorsLag'
    BY <1>1, <2>1 DEF TypeOK, CursorsLag
  <2>3. ASSUME NEW x \in Rows'
        PROVE  \/ x \in Rows /\ View(x)' = View(x) /\ dated'[x] = dated[x] /\ sheeted'[x] = sheeted[x]
               \/ sheeted'[x] > clock - Lag
    BY <1>1, <2>1 DEF Rows, View, TypeOK
  <2> QED BY <1>1, <2>1, <2>2, <2>3, CatalogueFrame
<1>6. ASSUME PauseOrResume PROVE IInv'
  <2>1. stopped' = ~stopped
        /\ UNCHANGED <<clock, terms, dated, sheet, sheeted, writing, recorded, events, tracker, job, batch, cut, hurried, apart>>
    BY <1>6 DEF PauseOrResume, feed, history
  <2>2. TypeOK' /\ CursorsLag'
    BY <2>1 DEF TypeOK, CursorsLag
  <2>3. Rows' = Rows /\ \A o \in Rows : View(o)' = View(o)
    BY <2>1 DEF Rows, View
  <2> QED BY <1>1, <2>1, <2>2, <2>3, CatalogueFrame
<1> QED BY <1>2, <1>3, <1>4, <1>5, <1>6 DEF Catalogue

(* A pass begins where the cursors are, with nothing read.                 *)
LEMMA BeginKeeps ==
  ASSUME IInv, NEW r \in Replicas, NEW first \in Jobs \ {Idle}, first.now = clock, Begin(r, first),
         UNCHANGED <<events>>, JobFits(r)', PassFits(r)', PictureFits(r)'
  PROVE  IInv'
<1> USE DEF IInv
<1>1. /\ job[r] = Idle /\ job' = [job EXCEPT ![r] = first]
      /\ apart' = (apart \/ \E q \in {p \in Replicas : job[p] # Idle} : job[q].now # clock)
      /\ UNCHANGED <<clock, terms, dated, sheet, sheeted, writing, stopped, recorded, tracker, batch, cut, hurried>>
  BY DEF Begin, catalogVars, feed
<1>2. batch[r] = NoBatch
  BY <1>1 DEF JobFits, Idle, PictureSteps
<1>3. /\ TypeOK' /\ job'[r] = first
      /\ \A q \in Replicas \ {r} : job'[q] = job[q] /\ batch'[q] = batch[q]
  BY <1>1 DEF TypeOK
<1>4. Clean' => Clean /\ \A q \in Replicas : job[q] # Idle => job[q].now = clock
  BY <1>1 DEF Clean
<1>5. Rows' = Rows /\ \A o \in Offers : View(o)' = View(o) /\ Seen(o)' = Seen(o)
  BY <1>1 DEF Rows, View, Seen
<1>6. CursorsLag'
  BY <1>1 DEF CursorsLag
<1>7. NothingYet' /\ NothingBehindCursor'
  BY <1>1, <1>3, <1>4, <1>5, Numbers DEF NothingYet, NothingBehindCursor, Clean
<1>8. ASSUME NEW q \in Replicas PROVE JobFits(q)' /\ ReplicaFits(q)'
  <2>1. CASE q = r
    <3>1. BatchFits(q)'
      BY <1>1, <1>2, <2>1 DEF BatchFits
    <3> QED BY <2>1, <3>1 DEF ReplicaFits
  <2>2. CASE q # r
    <3>1. job'[q] = job[q] /\ batch'[q] = batch[q]
      BY <1>3, <2>2
    <3>2. ReplicaFits(q)'
      BY <1>1, <1>3, <1>4, <3>1, OthersKeep
    <3>3. JobFits(q)'
      BY <1>1, <3>1 DEF JobFits
    <3> QED BY <3>2, <3>3
  <2> QED BY <2>1, <2>2
<1>9. ASSUME NEW q \in Replicas PROVE Together(q)'
  <2> SUFFICES ASSUME Clean', job'[q] # Idle
               PROVE  /\ \A p \in Replicas : job'[p] # Idle => job'[p].now = job'[q].now
                      /\ tracker.baseline => tracker.sheets <= job'[q].now - Lag /\ tracker.offers <= job'[q].now - Lag
    BY <1>1 DEF Together
  <2>1. \A p \in Replicas : job'[p] # Idle => job'[p].now = clock
    BY <1>3, <1>4
  <2>2. ~hurried
    BY <1>4 DEF Clean
  <2> QED BY <2>1, <2>2 DEF CursorsLag
<1> QED BY <1>3, <1>6, <1>7, <1>8, <1>9

LEMMA StartBaselineKeeps == ASSUME IInv, NEW r \in Replicas, StartBaseline(r) PROVE IInv'
<1> USE DEF IInv
<1> DEFINE first == [step |-> "baseline", now |-> clock, id |-> -1, last |-> -1]
<1>1. /\ ~tracker.baseline /\ Begin(r, first) /\ job[r] = Idle /\ job' = [job EXCEPT ![r] = first]
      /\ UNCHANGED <<clock, terms, dated, sheet, sheeted, recorded, events, tracker, batch, cut, hurried>>
      /\ apart' = (apart \/ \E q \in {p \in Replicas : job[p] # Idle} : job[q].now # clock)
  BY DEF StartBaseline, Begin, catalogVars, feed
<1>2. first \in Jobs \ {Idle} /\ first.now = clock /\ first.step = "baseline" /\ first.id = -1
  BY Numbers DEF Jobs, PictureJobs, PictureSteps, Idle
<1> HIDE DEF first
<1>3. job'[r] = first /\ batch'[r] = NoBatch
  BY <1>1 DEF TypeOK, JobFits, Idle, PictureSteps
<1>4. JobFits(r)'
  BY <1>1, <1>2, <1>3, Numbers DEF JobFits, ScanSteps, TailSteps
<1>5. PassFits(r)'
  <2>1. \A o \in Rows' : o > -1
    BY Numbers DEF Rows
  <2> QED BY <1>2, <1>3, <2>1 DEF PassFits, ToCome
<1>6. PictureFits(r)'
  <2> SUFFICES ASSUME Clean', NEW o \in Rows', recorded[o] # NoState PROVE (Known(o) \/ Fresh(r, o))'
    BY <1>1 DEF PictureFits
  <2>1. Clean /\ \A q \in Replicas : job[q] # Idle => job[q].now = clock
    BY <1>1 DEF Clean
  <2>2. o \in Rows /\ o \in Offers /\ (Known(o)' <=> Known(o))
    BY <1>1 DEF Rows, Known, Seen, View
  <2>3. PICK q \in Replicas : job[q] # Idle
    BY <1>1, <2>1, <2>2 DEF NothingYet
  <2>4. job[q].now = clock /\ job[q].step \in PictureSteps \cup {"saving"}
    BY <1>1, <2>1, <2>3, JobIs DEF JobFits
  <2>5. (Fresh(r, o)' <=> Fresh(q, o))
    BY <1>1, <1>2, <1>3, <2>4 DEF Fresh
  <2>6. CASE job[q].step \in PictureSteps
    BY <2>1, <2>2, <2>5, <2>6 DEF ReplicaFits, PictureFits
  <2>7. CASE job[q].step = "saving"
    <3>1. batch[q] = NoBatch
      BY <2>7 DEF JobFits, PictureSteps
    <3>2. Known(o) \/ ToCome(q, o)
      BY <2>1, <2>2, <2>7 DEF ReplicaFits, PassFits
    <3> QED BY <2>2, <2>5, <2>7, <3>1, <3>2 DEF ToCome, Pending, ScanSteps
  <2> QED BY <2>4, <2>6, <2>7
<1> QED BY <1>1, <1>2, <1>4, <1>5, <1>6, BeginKeeps

LEMMA StartPassKeeps == ASSUME IInv, NEW r \in Replicas, StartPass(r) PROVE IInv'
<1> USE DEF IInv
<1> DEFINE first == [step |-> "touched", now |-> clock, mark |-> tracker.offers, id |-> -1, seen |-> 0,
                     caughtUp |-> TRUE, sheets |-> tracker.sheets, touched |-> {}, full |-> FALSE,
                     due |-> tracker.scan = 0, paused |-> tracker.paused]
<1>1. /\ tracker.baseline /\ Begin(r, first) /\ job[r] = Idle /\ job' = [job EXCEPT ![r] = first]
      /\ UNCHANGED <<clock, terms, dated, sheet, sheeted, recorded, events, tracker, batch, cut, hurried>>
      /\ apart' = (apart \/ \E q \in {p \in Replicas : job[p] # Idle} : job[q].now # clock)
  BY DEF StartPass, Begin, catalogVars, feed
<1>2. /\ first \in Jobs \ {Idle} /\ first.now = clock /\ first.step = "touched" /\ first.id = -1
      /\ first.mark = tracker.offers /\ first.sheets = tracker.sheets
  <2>1. (tracker.scan = 0) \in BOOLEAN /\ tracker.paused \in BOOLEAN
    BY DEF TypeOK
  <2> QED BY <2>1, Numbers DEF Jobs, ScanJobs, ScanSteps, Idle
<1> HIDE DEF first
<1>3. job'[r] = first /\ batch'[r] = NoBatch
  BY <1>1 DEF TypeOK, JobFits, Idle, PictureSteps
<1>4. JobFits(r)'
  BY <1>1, <1>2, <1>3, Numbers DEF JobFits, ScanSteps, TailSteps, CursorsLag
<1>5. PassFits(r)'
  <2> SUFFICES ASSUME Clean', NEW o \in Rows' PROVE (Known(o) \/ ToCome(r, o))'
    BY DEF PassFits
  <2>1. o \in Rows /\ o \in Offers /\ (Known(o)' <=> Known(o)) /\ Clean
    BY <1>1 DEF Rows, Known, Seen, View, Clean
  <2>2. dated[o] > tracker.offers => Ahead(r, o)'
    BY <1>1, <1>2, <1>3 DEF Ahead
  <2> QED BY <1>1, <1>2, <1>3, <2>1, <2>2 DEF NothingBehindCursor, Known, Clean, ToCome, ScanSteps
<1>6. PictureFits(r)'
  BY <1>2, <1>3 DEF PictureFits, PictureSteps
<1> QED BY <1>1, <1>2, <1>4, <1>5, <1>6, BeginKeeps

(* A query gives the rows with what they say now.                          *)
LEMMA ReadsIs ==
  ASSUME TypeOK, NEW r \in Replicas, NEW rows \in SUBSET Offers, NEW order \in SUBSET (Offers \X Offers), Reads(r, rows, order)
  PROVE  \E b \in Batches \cup {NoBatch} :
           /\ batch' = [batch EXCEPT ![r] = b]
           /\ (b = NoBatch) <=> (rows = {})
           /\ b # NoBatch => /\ b.step = "rows" /\ b.rows = rows /\ b.order = order
                             /\ \A o \in rows : b.after[o] = View(o)
<1> DEFINE new == [step |-> "rows", rows |-> rows, order |-> order,
                   after |-> [o \in Offers |-> IF o \in rows THEN View(o) ELSE Hidden],
                   before |-> [o \in Offers |-> NoState]]
           b == IF rows = {} THEN NoBatch ELSE new
<1>1. new \in Batches /\ new # NoBatch
  <2>1. [o \in Offers |-> IF o \in rows THEN View(o) ELSE Hidden] \in [Offers -> Contents]
    BY ViewIs DEF Contents
  <2>2. [o \in Offers |-> NoState] \in [Offers -> States]
    BY DEF States
  <2> QED BY <2>1, <2>2 DEF Batches, NoBatch
<1>2. batch' = [batch EXCEPT ![r] = b]
  BY DEF Reads
<1>3. /\ b \in Batches \cup {NoBatch} /\ (b = NoBatch <=> rows = {})
      /\ b # NoBatch => /\ b.step = "rows" /\ b.rows = rows /\ b.order = order
                        /\ \A o \in rows : b.after[o] = View(o)
  BY <1>1
<1> HIDE DEF b
<1> QED BY <1>2, <1>3

(* A batch of the picture: what comes after it has a greater id.           *)
LEMMA ReadPictureKeeps == ASSUME IInv, NEW r \in Replicas, ReadPicture(r) PROVE IInv'
<1> USE DEF IInv
<1> DEFINE rest == {o \in Rows : o > job[r].id}
           took == Taken(rest, ById)
           step == IF Cardinality(took) < Batch THEN "photographed" ELSE "baseline"
           id == IF took = {} THEN job[r].id ELSE LastOf(took, ById)
           last == Max({job[r].last} \cup {dated[o] : o \in took})
           j == [job[r] EXCEPT !.step = step, !.id = id, !.last = last]
<1>1. /\ job[r].step = "baseline" /\ batch[r] = NoBatch /\ Reads(r, took, ById)
      /\ job' = [job EXCEPT ![r] = j]
      /\ UNCHANGED <<clock, terms, dated, sheet, sheeted, writing, stopped, recorded, tracker, cut, hurried, apart>>
  BY DEF ReadPicture, At, Goes, catalogVars, feed, history
<1>2. job[r] \in PictureJobs /\ job[r] # Idle
  BY <1>1, JobIs DEF PictureSteps
<1>3. rest \in SUBSET Offers /\ took \in SUBSET rest /\ took \in SUBSET Offers
      /\ (\A a \in took, b \in rest \ took : <<a, b>> \in ById)
      /\ Cardinality(took) \in Nat /\ Cardinality(took) <= Batch /\ Batch \in Nat
      /\ (Cardinality(took) # Batch => took = rest)
  <2>1. rest \in SUBSET Offers
    BY DEF Rows
  <2> HIDE DEF rest
  <2>2. Batch \in Nat
    BY TrackerAssumption
  <2> QED BY <2>1, <2>2, TakenIs, IdsAreOrdered
<1>4. id \in Int /\ last \in Int
  <2>1. took # {} => LastOf(took, ById) \in took
    BY <1>3, LastOfIs, IdsAreOrdered
  <2>2. id \in Int
    <3> HIDE DEF rest, took
    <3>1. job[r].id \in Int
      BY <1>2 DEF PictureJobs
    <3>2. \A o \in took : o \in Int
      BY <1>3, TrackerAssumption
    <3>3. took # {} => LastOf(took, ById) \in Int
      BY <2>1, <3>2, Zenon
    <3> QED BY <3>1, <3>3
  <2>3. last \in Int
    <3> HIDE DEF took
    <3> DEFINE f == [o \in took |-> dated[o]]
    <3>1. f \in [took -> Nat] /\ job[r].last \in Int
      BY <1>2, <1>3 DEF TypeOK, PictureJobs
    <3>2. {dated[o] : o \in took} = {f[o] : o \in took}
      OBVIOUS
    <3> HIDE DEF f
    <3> QED BY <1>3, <3>1, <3>2, MaxIs
  <2> QED BY <2>2, <2>3
<1>5. \A a \in took, b \in rest \ took : b > id
  <2>1. \A x \in took, y \in rest \ took : x < y
    BY <1>3 DEF ById
  <2>2. took # {} => LastOf(took, ById) \in took
    BY <1>3, LastOfIs, IdsAreOrdered
  <2> QED BY <1>4, <2>1, <2>2, <1>3, TrackerAssumption
<1> HIDE DEF rest, took, id, last
<1>6. j \in Jobs /\ j # Idle /\ j.now = job[r].now /\ j.step = step /\ j.id = id /\ step \in PictureSteps
  BY <1>2, <1>4 DEF Jobs, PictureJobs, PictureSteps, Idle
<1> HIDE DEF step, j
<1>7. PICK b \in Batches \cup {NoBatch} :
        /\ batch' = [batch EXCEPT ![r] = b]
        /\ (b = NoBatch) <=> (took = {})
        /\ b # NoBatch => /\ b.step = "rows" /\ b.rows = took /\ b.order = ById /\ \A o \in took : b.after[o] = View(o)
  <2>1. ById \in SUBSET (Offers \X Offers)
    BY DEF ById
  <2> QED BY <1>1, <1>3, <2>1, ReadsIs
<1>8. TypeOK' /\ job'[r] = j /\ batch'[r] = b /\ \A q \in Replicas \ {r} : job'[q] = job[q] /\ batch'[q] = batch[q]
  BY <1>1, <1>6, <1>7, TypeFrame DEF TypeOK
<1>9. JobFits(r)'
  BY <1>1, <1>2, <1>6, <1>7, <1>8, IdsAreOrdered DEF JobFits, PictureSteps, ScanSteps, TailSteps, StrictOrder
<1>10. Rows' = Rows /\ Rows \subseteq Offers /\ (Clean' <=> Clean)
       /\ \A o \in Offers : View(o)' = View(o) /\ (Known(o)' <=> Known(o)) /\ (Fresh(r, o)' <=> Fresh(r, o))
  BY <1>1, <1>6, <1>8 DEF Rows, Clean, View, Known, Seen, Fresh
<1>11. PassFits(r)'
  <2> SUFFICES ASSUME Clean, NEW o \in Rows PROVE (Known(o) \/ ToCome(r, o))'
    BY <1>10 DEF PassFits
  <2>1. Known(o) \/ Fresh(r, o) \/ o > job[r].id
    BY <1>1 DEF ReplicaFits, PassFits, ToCome, Pending, PictureSteps, ScanSteps
  <2>2. CASE o \in took
    BY <1>7, <1>8, <2>2 DEF ToCome, Pending
  <2>3. CASE o > job[r].id /\ o \notin took
    <3>1. o \in rest \ took
      BY <2>3 DEF rest
    <3>2. Cardinality(took) = Batch /\ step = "baseline"
      BY <1>3, <3>1 DEF step
    <3>3. took # {}
      <4>1. Batch # 0
        BY TrackerAssumption
      <4> QED BY <3>2, <4>1, FS_EmptySet
    <3>4. o > id
      BY <1>5, <3>1, <3>3
    <3> QED BY <1>6, <1>8, <3>2, <3>4 DEF ToCome
  <2>4. CASE Known(o) \/ Fresh(r, o)
    BY <1>10, <2>4 DEF ToCome
  <2> QED BY <2>1, <2>2, <2>3, <2>4
<1>12. BatchFits(r)'
  BY <1>3, <1>7, <1>8, <1>10 DEF BatchFits
<1>13. PictureFits(r)'
  BY <1>1, <1>10 DEF ReplicaFits, PictureFits, PictureSteps
<1> QED BY <1>1, <1>2, <1>6, <1>8, <1>9, <1>11, <1>12, <1>13, StepFrame DEF ReplicaFits

(* A state that is written is what was read; one that was there is known.  *)
LEMMA PhotographKeeps == ASSUME IInv, NEW r \in Replicas, Photograph(r) PROVE IInv'
<1> USE DEF IInv
<1> DEFINE b == batch[r]
<1>1. /\ job[r].step \in PictureSteps /\ b # NoBatch
      /\ recorded' = [o \in Offers |-> IF o \in b.rows /\ recorded[o] = NoState THEN b.after[o] ELSE recorded[o]]
      /\ job' = [job EXCEPT ![r] = job[r]] /\ batch' = [batch EXCEPT ![r] = NoBatch]
      /\ UNCHANGED <<clock, terms, dated, sheet, sheeted, writing, stopped, tracker, cut, hurried, apart>>
  BY DEF Photograph, catalogVars, feed, history, PictureSteps, TypeOK
<1>2. b \in Batches /\ b.after \in [Offers -> Contents] /\ b.rows \subseteq Offers /\ job[r] # Idle /\ job[r] \in Jobs
  BY <1>1, BatchIs, JobIs DEF Batches, TypeOK
<1>3. recorded' \in [Offers -> States]
  BY <1>1, <1>2 DEF TypeOK, States
<1>4. TypeOK' /\ job'[r] = job[r] /\ batch'[r] = NoBatch
      /\ \A q \in Replicas \ {r} : job'[q] = job[q] /\ batch'[q] = batch[q]
  BY <1>1, <1>2, <1>3, TypeFrame DEF TypeOK
<1>5. JobFits(r)'
  BY <1>1, <1>4 DEF JobFits
<1>6. Rows' = Rows /\ Rows \subseteq Offers /\ (Clean' <=> Clean)
      /\ \A o \in Offers : View(o)' = View(o) /\ (Fresh(r, o)' <=> Fresh(r, o))
  BY <1>1, <1>4 DEF Rows, Clean, View, Fresh
<1>7. \A o \in Offers : recorded'[o] = recorded[o] => (Known(o)' <=> Known(o))
  BY <1>6 DEF Known, Seen
<1>8. ASSUME NEW o \in Rows, recorded'[o] # recorded[o], Clean PROVE Known(o)' \/ Fresh(r, o)
  <2>1. o \in b.rows \cap Rows /\ recorded'[o] = b.after[o]
    BY <1>1, <1>6, <1>8
  <2>2. b.after[o] = View(o) \/ Fresh(r, o)
    BY <1>1, <1>8, <2>1 DEF ReplicaFits, BatchFits
  <2>3. recorded'[o] = View(o) => Known(o)'
    BY <1>6, ViewIs DEF Known, Seen, Shown
  <2> QED BY <1>6, <2>1, <2>2, <2>3
<1>9. PassFits(r)'
  <2> SUFFICES ASSUME Clean, NEW o \in Rows PROVE (Known(o) \/ ToCome(r, o))'
    BY <1>6 DEF PassFits
  <2>1. Known(o) \/ ToCome(r, o)
    BY <1>1 DEF ReplicaFits, PassFits
  <2>2. CASE recorded'[o] # recorded[o]
    BY <1>6, <1>8, <2>2 DEF ToCome
  <2>3. CASE recorded'[o] = recorded[o] /\ o \in b.rows
    <3>1. recorded[o] # NoState
      BY <1>1, <1>2, <1>6, <2>3, ViewIs
    <3>2. Known(o) \/ Fresh(r, o)
      BY <1>1, <3>1 DEF ReplicaFits, PictureFits
    <3> QED BY <1>6, <1>7, <2>3, <3>2 DEF ToCome
  <2>4. CASE recorded'[o] = recorded[o] /\ o \notin b.rows
    <3>1. ToCome(r, o) => ToCome(r, o)'
      BY <1>1, <1>4, <1>6, <2>4 DEF ToCome, Pending, Ahead, PictureSteps, ScanSteps
    <3> QED BY <1>6, <1>7, <2>1, <2>4, <3>1
  <2> QED BY <2>2, <2>3, <2>4
<1>10. BatchFits(r)'
  BY <1>4 DEF BatchFits
<1>11. PictureFits(r)'
  <2> SUFFICES ASSUME Clean, NEW o \in Rows, recorded'[o] # NoState PROVE (Known(o) \/ Fresh(r, o))'
    BY <1>6 DEF PictureFits
  <2>1. recorded[o] # NoState => Known(o) \/ Fresh(r, o)
    BY <1>1 DEF ReplicaFits, PictureFits
  <2> QED BY <1>6, <1>7, <1>8, <2>1
<1> QED BY <1>1, <1>2, <1>4, <1>5, <1>8, <1>9, <1>10, <1>11, StepFrame DEF ReplicaFits

LEMMA EndPictureKeeps == ASSUME IInv, NEW r \in Replicas, EndPicture(r) PROVE IInv'
<1> USE DEF IInv
<1> DEFINE j == [step |-> "saving", now |-> job[r].now, last |-> job[r].last, paused |-> stopped]
<1>1. /\ job[r].step = "photographed" /\ batch[r] = NoBatch
      /\ job' = [job EXCEPT ![r] = j] /\ batch' = [batch EXCEPT ![r] = NoBatch]
      /\ UNCHANGED <<clock, terms, dated, sheet, sheeted, writing, stopped, recorded, tracker, cut, hurried, apart>>
  BY DEF EndPicture, At, Goes, catalogVars, feed, history, TypeOK
<1>2. j \in Jobs /\ j # Idle /\ j.now = job[r].now /\ j.step = "saving" /\ job[r] # Idle
  <2>1. job[r] \in PictureJobs /\ job[r] # Idle
    BY <1>1, JobIs DEF PictureSteps
  <2> QED BY <2>1 DEF TypeOK, Jobs, PictureJobs, SavingJobs, Idle
<1> HIDE DEF j
<1>3. TypeOK' /\ job'[r] = j /\ batch'[r] = NoBatch
      /\ \A q \in Replicas \ {r} : job'[q] = job[q] /\ batch'[q] = batch[q]
  BY <1>1, <1>2, TypeFrame DEF TypeOK
<1>4. JobFits(r)' /\ BatchFits(r)' /\ PictureFits(r)'
  BY <1>1, <1>2, <1>3 DEF JobFits, BatchFits, PictureFits, PictureSteps, ScanSteps, TailSteps
<1>5. PassFits(r)'
  <2> SUFFICES ASSUME Clean, NEW o \in Rows PROVE (Known(o) \/ Fresh(r, o))'
    BY <1>1 DEF PassFits, Clean, Rows, ToCome
  <2>1. Known(o) \/ Fresh(r, o)
    BY <1>1 DEF ReplicaFits, PassFits, ToCome, Pending, PictureSteps, ScanSteps
  <2> QED BY <1>1, <1>2, <1>3, <2>1 DEF Known, Seen, View, Fresh
<1> QED BY <1>1, <1>2, <1>3, <1>4, <1>5, StepFrame DEF ReplicaFits

(* The picture's cursors leave before them what it holds or what is newer. *)
LEMMA SaveBaselineKeeps == ASSUME IInv, NEW r \in Replicas, SaveBaseline(r) PROVE IInv'
<1> USE DEF IInv
<1> DEFINE a == IF job[r].last < 0 THEN job[r].now ELSE job[r].last
           b == job[r].now - Lag
           m == Min({a, b})
<1>1. /\ job[r].step = "saving" /\ job' = [job EXCEPT ![r] = Idle]
      /\ batch' = [batch EXCEPT ![r] = batch[r]]
      /\ tracker' = [baseline |-> TRUE, offers |-> m, sheets |-> b, scan |-> ScanEvery, paused |-> job[r].paused]
      /\ UNCHANGED <<clock, terms, dated, sheet, sheeted, writing, stopped, recorded, cut, hurried, apart>>
  BY DEF SaveBaseline, Goes, catalogVars, feed, history, TypeOK
<1>2. job[r] \in SavingJobs /\ job[r] # Idle /\ job[r].now <= clock /\ batch[r] = NoBatch
  BY <1>1, JobIs DEF JobFits, PictureSteps
<1>3. a \in Int /\ b \in Int /\ b <= clock - Lag /\ clock \in Nat /\ Lag \in Nat /\ ScanEvery \in Nat
  BY <1>2, TrackerAssumption DEF SavingJobs, TypeOK
<1>4. m \in Int /\ m <= b
  <2> HIDE DEF a, b
  <2> QED BY <1>3, MinIs
<1> HIDE DEF m, a
<1>5. tracker'.baseline /\ tracker'.offers = m /\ tracker'.sheets = b
      /\ tracker' \in [baseline : BOOLEAN, offers : Int, sheets : Int, scan : Int, paused : BOOLEAN]
  BY <1>1, <1>2, <1>3, <1>4 DEF SavingJobs
<1>6. TypeOK' /\ job'[r] = Idle /\ batch'[r] = NoBatch
      /\ \A q \in Replicas \ {r} : job'[q] = job[q] /\ batch'[q] = batch[q]
  <2>1. Idle \in Jobs /\ batch[r] \in Batches \cup {NoBatch} /\ recorded' \in [Offers -> States]
    BY <1>1, <1>2 DEF Jobs, TypeOK
  <2>2. cut' \in BOOLEAN /\ hurried' \in BOOLEAN /\ apart' \in BOOLEAN
    BY <1>1 DEF TypeOK
  <2>3. /\ UNCHANGED <<clock, terms, dated, sheet, sheeted, writing, stopped>>
        /\ job' = [job EXCEPT ![r] = Idle] /\ batch' = [batch EXCEPT ![r] = batch[r]]
    BY <1>1
  <2> HIDE DEF b
  <2> QED BY <1>2, <1>5, <2>1, <2>2, <2>3, TypeFrame
<1>7. Rows' = Rows /\ (Clean' <=> Clean) /\ \A o \in Rows : View(o)' = View(o) /\ Seen(o)' = Seen(o)
  BY <1>1 DEF Rows, View, Seen, Clean
<1>8. CursorsLag' /\ NothingYet'
  BY <1>1, <1>3, <1>4, <1>5 DEF CursorsLag, NothingYet
<1>9. NothingBehindCursor'
  <2> SUFFICES ASSUME Clean, NEW o \in Rows PROVE Known(o) \/ dated[o] > m \/ sheeted[o] > b
    BY <1>5, <1>7, <1>1 DEF NothingBehindCursor, Clean, Known
  <2>1. Known(o) \/ dated[o] > b \/ sheeted[o] > b
    BY <1>1, <1>2 DEF ReplicaFits, PassFits, ToCome, Pending, Fresh, ScanSteps
  <2> QED BY <1>3, <1>4, <2>1, Numbers
<1>10. ASSUME NEW q \in Replicas PROVE JobFits(q)' /\ Together(q)' /\ ReplicaFits(q)'
  <2>1. CASE q = r
    BY <1>6, <2>1 DEF JobFits, Together, ReplicaFits, PassFits, BatchFits, PictureFits, Idle, PictureSteps, ScanSteps, TailSteps
  <2>2. CASE q # r
    <3>1. job'[q] = job[q] /\ batch'[q] = batch[q]
      BY <1>6, <2>2
    <3>2. ReplicaFits(q)'
      BY <1>1, <1>6, <1>7, <3>1, OthersKeep
    <3>3. JobFits(q)'
      BY <1>1, <1>5, <3>1 DEF JobFits
    <3>4. Together(q)'
      <4> SUFFICES ASSUME Clean, job[q] # Idle
                   PROVE  /\ \A p \in Replicas : job'[p] # Idle => job'[p].now = job[q].now
                          /\ b <= job[q].now - Lag /\ m <= job[q].now - Lag
        BY <1>5, <1>7, <3>1 DEF Together
      <4>1. \A p \in Replicas : job'[p] # Idle => job'[p] = job[p] /\ job[p] # Idle
        BY <1>6
      <4>2. job[q].now = job[r].now
        BY <1>2 DEF Together
      <4> QED BY <1>3, <1>4, <4>1, <4>2 DEF Together
    <3> QED BY <3>2, <3>3, <3>4
  <2> QED BY <2>1, <2>2
<1> QED BY <1>6, <1>8, <1>9, <1>10

LEMMA ReadTouchedKeeps == ASSUME IInv, NEW r \in Replicas, ReadTouched(r) PROVE IInv'
<1> USE DEF IInv
<1> DEFINE touched == {o \in Rows : sheeted[o] > job[r].sheets /\ sheeted[o] <= job[r].now}
<1>1. PICK some \in SUBSET touched :
        /\ Cardinality(some) = Min({Cardinality(touched), MaxPerTick})
        /\ job' = [job EXCEPT ![r] = [job[r] EXCEPT !.step = "offers", !.touched = some,
                                                    !.full = Cardinality(some) = MaxPerTick]]
  BY DEF ReadTouched, Goes
<1> DEFINE full == Cardinality(some) = MaxPerTick
           j == [job[r] EXCEPT !.step = "offers", !.touched = some, !.full = full]
<1>2. /\ job[r].step = "touched" /\ batch' = [batch EXCEPT ![r] = batch[r]]
      /\ UNCHANGED <<clock, terms, dated, sheet, sheeted, writing, stopped, recorded, tracker, cut, hurried, apart>>
  BY DEF ReadTouched, catalogVars, feed, history, TypeOK
<1>3. job[r] \in ScanJobs /\ job[r] # Idle /\ batch[r] = NoBatch
  BY <1>2, JobIs DEF JobFits, ScanSteps, PictureSteps
<1>4. touched \in SUBSET Offers /\ some \in SUBSET Offers
  BY DEF Rows
<1> HIDE DEF touched
<1>5. ~full => some = touched
  <2>1. Cardinality(touched) \in Nat /\ IsFiniteSet(touched) /\ MaxPerTick \in Nat
    BY <1>4, Subsets, TrackerAssumption
  <2>2. Cardinality(some) \in {Cardinality(touched), MaxPerTick}
    <3> DEFINE m == Cardinality(touched)
    <3> HIDE DEF m
    <3>1. m \in Int /\ MaxPerTick \in Int
      BY <2>1 DEF m
    <3>2. Min({m, MaxPerTick}) \in {m, MaxPerTick}
      BY <3>1, MinIs
    <3> QED BY <1>1, <3>2 DEF m
  <2> QED BY <2>1, <2>2, FS_Subset
<1>6. full \in BOOLEAN
  OBVIOUS
<1> HIDE DEF full
<1>7. /\ j \in Jobs /\ j # Idle /\ j.step = "offers" /\ j.now = job[r].now /\ j.mark = job[r].mark /\ j.id = job[r].id
      /\ j.sheets = job[r].sheets /\ j.touched = some /\ j.full = full
  BY <1>3, <1>4, <1>6 DEF Jobs, ScanJobs, ScanSteps, Idle
<1>8. job' = [job EXCEPT ![r] = j]
  BY <1>1 DEF full
<1> HIDE DEF j
<1>9. TypeOK' /\ job'[r] = j /\ batch'[r] = NoBatch
      /\ \A q \in Replicas \ {r} : job'[q] = job[q] /\ batch'[q] = batch[q]
  <2>1. batch[r] \in Batches \cup {NoBatch}
    BY <1>3
  <2> QED BY <1>2, <1>3, <1>7, <1>8, <2>1, TypeFrame DEF TypeOK
<1>10. JobFits(r)' /\ BatchFits(r)' /\ PictureFits(r)'
  BY <1>2, <1>3, <1>7, <1>9 DEF JobFits, BatchFits, PictureFits, PictureSteps, ScanSteps, TailSteps
<1>11. PassFits(r)'
  <2> SUFFICES ASSUME Clean', NEW o \in Rows' PROVE (Known(o) \/ ToCome(r, o))'
    BY DEF PassFits
  <2>1. Clean /\ o \in Rows /\ o \in Offers /\ (Known(o)' <=> Known(o))
    BY <1>2 DEF Rows, Known, Seen, View, Clean
  <2>2. Known(o) \/ Fresh(r, o) \/ sheeted[o] > job[r].sheets \/ Ahead(r, o)
    BY <1>2, <1>3, <2>1 DEF ReplicaFits, PassFits, ToCome, Pending, ScanSteps, PictureSteps
  <2>3. /\ Fresh(r, o)' <=> Fresh(r, o)
        /\ Ahead(r, o)' <=> Ahead(r, o)
    BY <1>2, <1>7, <1>9 DEF Fresh, Ahead
  <2>4. sheeted[o] > job[r].sheets => Fresh(r, o) \/ o \in touched
    <3>1. job[r].now \in Nat /\ job[r].sheets \in Int
      BY <1>3 DEF ScanJobs
    <3> QED BY <2>1, <3>1, Numbers DEF touched, Fresh
  <2>5. o \in touched /\ sheeted[o] > job[r].sheets => ToCome(r, o)'
    BY <1>2, <1>5, <1>7, <1>9 DEF ToCome
  <2>6. Ahead(r, o)' => ToCome(r, o)'
    BY <1>7, <1>9 DEF ToCome, ScanSteps
  <2> QED BY <2>1, <2>2, <2>3, <2>4, <2>5, <2>6 DEF ToCome
<1> QED BY <1>2, <1>3, <1>7, <1>9, <1>10, <1>11, StepFrame DEF ReplicaFits

(* What is left after a batch comes after it.                              *)
LEMMA PassOffersKeeps == ASSUME IInv, NEW r \in Replicas, PassOffers(r) PROVE IInv'
<1> USE DEF IInv
<1> DEFINE ahead == {o \in Rows : dated[o] > job[r].mark \/ (dated[o] = job[r].mark /\ o > job[r].id)}
           took == Taken(ahead, ByDate)
           last == LastOf(took, ByDate)
           n == job[r].seen + Cardinality(took)
           more == Cardinality(took) = Batch
           next == [job[r] EXCEPT !.step = IF more /\ n < MaxPerTick THEN @ ELSE "sheets",
                                  !.mark = dated[last], !.id = last, !.seen = n,
                                  !.caughtUp = ~more \/ n < MaxPerTick]
           j == IF took = {} THEN [job[r] EXCEPT !.step = "sheets"] ELSE next
<1>1. /\ job[r].step = "offers" /\ batch[r] = NoBatch /\ Reads(r, took, ByDate)
      /\ job' = [job EXCEPT ![r] = j]
      /\ UNCHANGED <<clock, terms, dated, sheet, sheeted, writing, stopped, recorded, tracker, cut, hurried, apart>>
  BY DEF PassOffers, PassOffersFrom, At, Goes, catalogVars, feed, history
<1>2. job[r] \in ScanJobs /\ job[r] # Idle
  BY <1>1, JobIs DEF ScanSteps
<1>3. ahead \in SUBSET Offers /\ took \in SUBSET ahead /\ took \in SUBSET Offers
      /\ (\A a \in took, b \in ahead \ took : <<a, b>> \in ByDate)
      /\ Cardinality(took) \in Nat /\ (Cardinality(took) # Batch => took = ahead)
      /\ (took = {} => ahead = {})
  <2>1. ahead \in SUBSET Offers
    BY DEF Rows
  <2>2. StrictOrder(ByDate)
    BY DatesAreOrdered DEF TypeOK
  <2> HIDE DEF ahead
  <2> QED BY <2>1, <2>2, TakenIs
<1>4. took # {} => last \in took
  <2>1. StrictOrder(ByDate)
    BY DatesAreOrdered DEF TypeOK
  <2> HIDE DEF took
  <2> QED BY <1>3, <2>1, LastOfIs
<1>5. /\ \A o \in Offers : o \in Nat /\ dated[o] \in Nat
      /\ \A a, b \in Offers : <<a, b>> \in ByDate <=> (dated[a] < dated[b] \/ (dated[a] = dated[b] /\ a < b))
      /\ StrictOrder(ByDate) /\ ByDate \in SUBSET (Offers \X Offers)
  BY DatesAreOrdered, TrackerAssumption DEF TypeOK, ByDate
<1> HIDE DEF took, last
<1>6. /\ j \in Jobs /\ j.step \in {"offers", "sheets"} /\ j # Idle /\ j.now = job[r].now /\ j.touched = job[r].touched
      /\ j.full = job[r].full /\ j.sheets = job[r].sheets
  <2>1. CASE took = {}
    BY <1>1, <1>2, <2>1 DEF Jobs, ScanJobs, ScanSteps, Idle
  <2>2. CASE took # {}
    <3>1. last \in Int /\ dated[last] \in Int /\ n \in Nat
      BY <1>2, <1>3, <1>4, <1>5, <2>2 DEF ScanJobs
    <3>2. (~more \/ n < MaxPerTick) \in BOOLEAN
      OBVIOUS
    <3>3. (IF more /\ n < MaxPerTick THEN job[r].step ELSE "sheets") \in {"offers", "sheets"}
      BY <1>1
    <3> HIDE DEF n, more
    <3> QED BY <1>1, <1>2, <2>2, <3>1, <3>2, <3>3 DEF Jobs, ScanJobs, ScanSteps, Idle
  <2> QED BY <2>1, <2>2
<1>7. PICK b \in Batches \cup {NoBatch} :
        /\ batch' = [batch EXCEPT ![r] = b]
        /\ (b = NoBatch) <=> (took = {})
        /\ b # NoBatch => /\ b.step = "rows" /\ b.rows = took /\ b.order = ByDate /\ \A o \in took : b.after[o] = View(o)
  BY <1>1, <1>3, <1>5, ReadsIs
<1>8. TypeOK' /\ job'[r] = j /\ batch'[r] = b /\ \A q \in Replicas \ {r} : job'[q] = job[q] /\ batch'[q] = batch[q]
  <2> HIDE DEF j
  <2> QED BY <1>1, <1>6, <1>7, TypeFrame DEF TypeOK
<1>9. JobFits(r)'
  <2> HIDE DEF j
  <2> QED BY <1>1, <1>2, <1>5, <1>6, <1>7, <1>8 DEF JobFits, PictureSteps, ScanSteps, TailSteps, StrictOrder
<1>10. Rows' = Rows /\ Rows \subseteq Offers /\ (Clean' <=> Clean)
       /\ \A o \in Offers : View(o)' = View(o) /\ (Known(o)' <=> Known(o)) /\ (Fresh(r, o)' <=> Fresh(r, o))
  <2> HIDE DEF j
  <2> QED BY <1>1, <1>6, <1>8 DEF Rows, Clean, View, Known, Seen, Fresh
<1>11. ASSUME NEW o \in Rows, Ahead(r, o), o \notin took
       PROVE  (j.step = "offers" \/ ~j.caughtUp) /\ Ahead(r, o)'
  <2>1. o \in ahead \ took
    BY <1>11 DEF Ahead
  <2>2. took # {} /\ more
    BY <1>3, <2>1
  <2>3. <<last, o>> \in ByDate /\ last \in Offers /\ o \in Offers
    BY <1>3, <1>4, <2>1, <2>2
  <2>4. dated[last] < dated[o] \/ (dated[last] = dated[o] /\ last < o)
    BY <1>5, <2>3
  <2>5. j.mark = dated[last] /\ j.id = last
    BY <1>1, <1>2, <2>2 DEF ScanJobs
  <2>6. Ahead(r, o)'
    <3> HIDE DEF j
    <3> QED BY <1>1, <1>5, <1>8, <2>3, <2>4, <2>5 DEF Ahead
  <2>7. j.step = "offers" \/ ~j.caughtUp
    <3>1. j = next
      BY <1>1, <2>2
    <3>2. CASE n < MaxPerTick
      BY <1>1, <1>2, <2>2, <3>1, <3>2 DEF ScanJobs
    <3>3. CASE ~(n < MaxPerTick)
      BY <1>1, <1>2, <2>2, <3>1, <3>3 DEF ScanJobs
    <3> QED BY <3>2, <3>3
  <2> QED BY <2>6, <2>7
<1> HIDE DEF j
<1>12. PassFits(r)'
  <2> SUFFICES ASSUME Clean, NEW o \in Rows PROVE (Known(o) \/ ToCome(r, o))'
    BY <1>10 DEF PassFits
  <2>1. Known(o) \/ ToCome(r, o)
    BY <1>1 DEF ReplicaFits, PassFits, ScanSteps
  <2>2. CASE Known(o) \/ Fresh(r, o)
    BY <1>10, <2>2 DEF ToCome
  <2>3. CASE o \in took
    BY <1>7, <1>8, <2>3 DEF ToCome, Pending
  <2>4. CASE o \in job[r].touched \/ (job[r].full /\ sheeted[o] > job[r].sheets)
    BY <1>1, <1>6, <1>8, <2>4 DEF ToCome
  <2>5. CASE Ahead(r, o) /\ o \notin took
    BY <1>6, <1>8, <1>11, <2>5 DEF ToCome, ScanSteps
  <2> QED BY <1>1, <2>1, <2>2, <2>3, <2>4, <2>5 DEF ToCome, Pending
<1>13. BatchFits(r)'
  BY <1>3, <1>7, <1>8, <1>10 DEF BatchFits
<1>14. PictureFits(r)'
  BY <1>6, <1>8 DEF PictureFits, PictureSteps
<1> QED BY <1>1, <1>2, <1>6, <1>8, <1>9, <1>12, <1>13, <1>14, StepFrame DEF ReplicaFits

LEMMA PassSheetsKeeps == ASSUME IInv, NEW r \in Replicas, PassSheets(r) PROVE IInv'
<1> USE DEF IInv
<1> DEFINE slice == Taken(job[r].touched, ById)
           read == slice \cap Rows
           j == [job[r] EXCEPT !.touched = @ \ slice]
<1>1. /\ job[r].step = "sheets" /\ batch[r] = NoBatch /\ Reads(r, read, ById)
      /\ job' = [job EXCEPT ![r] = j]
      /\ UNCHANGED <<clock, terms, dated, sheet, sheeted, writing, stopped, recorded, tracker, cut, hurried, apart>>
  BY DEF PassSheets, At, Goes, catalogVars, feed, history
<1> HIDE DEF slice
<1>2. job[r] \in ScanJobs /\ job[r] # Idle
  BY <1>1, JobIs DEF ScanSteps
<1>3. /\ j \in Jobs /\ j # Idle /\ j.touched = job[r].touched \ slice /\ j.step = "sheets" /\ j.now = job[r].now
      /\ j.full = job[r].full /\ j.caughtUp = job[r].caughtUp /\ j.mark = job[r].mark /\ j.id = job[r].id
      /\ j.sheets = job[r].sheets
  BY <1>1, <1>2 DEF Jobs, ScanJobs, ScanSteps, Idle
<1> HIDE DEF j
<1>4. read \in SUBSET Offers /\ ById \in SUBSET (Offers \X Offers)
  BY DEF Rows, ById
<1>5. PICK b \in Batches \cup {NoBatch} :
        /\ batch' = [batch EXCEPT ![r] = b]
        /\ (b = NoBatch) <=> (read = {})
        /\ b # NoBatch => /\ b.step = "rows" /\ b.rows = read /\ b.order = ById /\ \A o \in read : b.after[o] = View(o)
  <2> HIDE DEF read
  <2> QED BY <1>1, <1>4, ReadsIs
<1>6. TypeOK' /\ job'[r] = j /\ batch'[r] = b /\ \A q \in Replicas \ {r} : job'[q] = job[q] /\ batch'[q] = batch[q]
  BY <1>1, <1>3, <1>5, TypeFrame DEF TypeOK
<1>7. JobFits(r)'
  BY <1>1, <1>2, <1>3, <1>5, <1>6, IdsAreOrdered DEF JobFits, PictureSteps, ScanSteps, TailSteps, StrictOrder
<1>8. Rows' = Rows /\ Rows \subseteq Offers /\ (Clean' <=> Clean)
      /\ \A o \in Offers : View(o)' = View(o) /\ (Known(o)' <=> Known(o)) /\ (Fresh(r, o)' <=> Fresh(r, o))
                           /\ (Ahead(r, o)' <=> Ahead(r, o))
  BY <1>1, <1>3, <1>6 DEF Rows, Clean, View, Known, Seen, Fresh, Ahead
<1>9. PassFits(r)'
  <2> SUFFICES ASSUME Clean, NEW o \in Rows PROVE (Known(o) \/ ToCome(r, o))'
    BY <1>8 DEF PassFits
  <2>1. Known(o) \/ ToCome(r, o)
    BY <1>1 DEF ReplicaFits, PassFits, ScanSteps
  <2>2. o \in slice => Pending(r, o)'
    BY <1>5, <1>6 DEF Pending
  <2> QED BY <1>1, <1>3, <1>6, <1>8, <2>1, <2>2 DEF ToCome, Pending, ScanSteps
<1>10. BatchFits(r)'
  BY <1>5, <1>6, <1>8 DEF BatchFits
<1>11. PictureFits(r)'
  BY <1>3, <1>6 DEF PictureFits, PictureSteps
<1> QED BY <1>1, <1>2, <1>3, <1>6, <1>7, <1>9, <1>10, <1>11, StepFrame DEF ReplicaFits

(* A state that says what was read of its row is right, or the row is      *)
(* written since.                                                          *)
LEMMA ReadStatesKeeps == ASSUME IInv, NEW r \in Replicas, ReadStates(r) PROVE IInv'
<1> USE DEF IInv
<1> DEFINE before == [o \in Offers |-> IF o \in batch[r].rows THEN recorded[o] ELSE NoState]
           b == [batch[r] EXCEPT !.step = "states", !.before = before]
<1>1. /\ job[r].step \in {"offers", "sheets"} /\ batch[r].step = "rows"
      /\ job' = [job EXCEPT ![r] = job[r]] /\ batch' = [batch EXCEPT ![r].step = "states", ![r].before = before]
      /\ UNCHANGED <<clock, terms, dated, sheet, sheeted, writing, stopped, recorded, tracker, cut, hurried, apart>>
  BY DEF ReadStates, catalogVars, feed, history, TypeOK
<1>2. job[r] \in Jobs /\ job[r] # Idle /\ batch[r] \in Batches /\ batch[r] # NoBatch
  BY <1>1, JobIs DEF ScanSteps, TypeOK, NoBatch
<1>3. batch' = [batch EXCEPT ![r] = b]
  BY <1>1 DEF TypeOK
<1>4. before \in [Offers -> States]
  BY DEF TypeOK, States
<1>5. /\ b \in Batches /\ b # NoBatch /\ b.step = "states" /\ b.before = before /\ b.rows = batch[r].rows
      /\ b.after = batch[r].after /\ b.order = batch[r].order
  <2> HIDE DEF before
  <2> QED BY <1>2, <1>4 DEF Batches, NoBatch
<1> HIDE DEF b
<1>6. TypeOK' /\ job'[r] = job[r] /\ batch'[r] = b /\ \A q \in Replicas \ {r} : job'[q] = job[q] /\ batch'[q] = batch[q]
  <2> HIDE DEF before
  <2>1. /\ UNCHANGED <<clock, terms, dated, sheet, sheeted, writing, stopped, recorded, tracker, cut, hurried, apart>>
        /\ job' = [job EXCEPT ![r] = job[r]]
    BY <1>1
  <2> QED BY <1>2, <1>3, <1>5, <2>1, TypeFrame DEF TypeOK
<1>7. JobFits(r)'
  BY <1>1, <1>2, <1>5, <1>6 DEF JobFits
<1>8. Rows' = Rows /\ Rows \subseteq Offers /\ (Clean' <=> Clean)
      /\ \A o \in Offers : View(o)' = View(o) /\ (Known(o)' <=> Known(o)) /\ (Fresh(r, o)' <=> Fresh(r, o))
                           /\ (ToCome(r, o)' <=> ToCome(r, o))
  <2>1. Rows' = Rows /\ Rows \subseteq Offers /\ (Clean' <=> Clean) /\ \A o \in Offers : View(o)' = View(o)
    BY <1>1 DEF Rows, Clean, View
  <2>2. ASSUME NEW o \in Offers PROVE (Known(o)' <=> Known(o)) /\ (Fresh(r, o)' <=> Fresh(r, o)) /\ (Ahead(r, o)' <=> Ahead(r, o))
    BY <1>1, <1>6, <2>1 DEF Known, Seen, Fresh, Ahead
  <2>3. ASSUME NEW o \in Offers PROVE Pending(r, o)' <=> Pending(r, o)
    BY <1>2, <1>5, <1>6 DEF Pending
  <2> QED BY <1>1, <1>6, <2>1, <2>2, <2>3 DEF ToCome
<1>9. PassFits(r)' /\ PictureFits(r)'
  BY <1>1, <1>6, <1>8 DEF ReplicaFits, PassFits, PictureFits
<1>10. BatchFits(r)'
  <2> SUFFICES ASSUME Clean, NEW o \in b.rows \cap Rows
               PROVE  /\ b.after[o] = View(o) \/ Fresh(r, o)
                      /\ b.before[o] = b.after[o] => Known(o) \/ Fresh(r, o)
    BY <1>6, <1>8 DEF BatchFits
  <2>1. b.after[o] = View(o) \/ Fresh(r, o)
    BY <1>2, <1>5 DEF ReplicaFits, BatchFits
  <2>2. b.before[o] = recorded[o]
    BY <1>5, <1>8
  <2> QED BY <1>8, <2>1, <2>2, ViewIs
<1> QED BY <1>1, <1>2, <1>6, <1>7, <1>9, <1>10, StepFrame DEF ReplicaFits

(* What a transaction writes of a row is so, or the row is written since.  *)
LEMMA RecordKeeps == ASSUME IInv, NEW r \in Replicas, Record(r) PROVE IInv'
<1> USE DEF IInv
<1> DEFINE b == batch[r]
           saved == {o \in b.rows : b.before[o] # b.after[o]}
<1>1. /\ job[r].step \in {"offers", "sheets"} /\ b.step = "states"
      /\ recorded' = [o \in Offers |-> IF o \in saved THEN b.after[o] ELSE recorded[o]]
      /\ job' = [job EXCEPT ![r] = job[r]] /\ batch' = [batch EXCEPT ![r] = NoBatch]
      /\ UNCHANGED <<clock, terms, dated, sheet, sheeted, writing, stopped, tracker, cut, hurried, apart>>
  BY DEF Record, RecordSaving, catalogVars, history, TypeOK
<1>2. job[r] \in Jobs /\ job[r] # Idle /\ b \in Batches /\ b # NoBatch
      /\ b.rows \subseteq Offers /\ b.after \in [Offers -> Contents]
  BY <1>1, JobIs DEF ScanSteps, TypeOK, NoBatch, Batches
<1>3. recorded' \in [Offers -> States]
  BY <1>1, <1>2 DEF TypeOK, States
<1>4. TypeOK' /\ job'[r] = job[r] /\ batch'[r] = NoBatch /\ \A q \in Replicas \ {r} : job'[q] = job[q] /\ batch'[q] = batch[q]
  BY <1>1, <1>2, <1>3, TypeFrame DEF TypeOK
<1>5. JobFits(r)' /\ BatchFits(r)' /\ PictureFits(r)'
  BY <1>1, <1>4 DEF JobFits, BatchFits, PictureFits, PictureSteps
<1>6. Rows' = Rows /\ Rows \subseteq Offers /\ (Clean' <=> Clean)
      /\ \A o \in Offers : View(o)' = View(o) /\ (Fresh(r, o)' <=> Fresh(r, o)) /\ (Ahead(r, o)' <=> Ahead(r, o))
  BY <1>1, <1>4 DEF Rows, Clean, View, Fresh, Ahead
<1>7. ASSUME Clean, NEW o \in Rows, o \in saved PROVE Known(o)' \/ Fresh(r, o)
  <2>1. recorded'[o] = b.after[o] /\ o \in b.rows \cap Rows
    BY <1>1, <1>6, <1>7
  <2>2. b.after[o] = View(o) \/ Fresh(r, o)
    BY <1>2, <1>7, <2>1 DEF ReplicaFits, BatchFits
  <2>3. recorded'[o] = View(o) => Known(o)'
    BY <1>6, ViewIs DEF Known, Seen, Shown
  <2> QED BY <2>1, <2>2, <2>3
<1>8. ASSUME NEW o \in Rows, o \notin saved PROVE recorded'[o] = recorded[o] /\ (Known(o)' <=> Known(o))
  BY <1>1, <1>6, <1>8 DEF Known, Seen
<1>9. PassFits(r)'
  <2> SUFFICES ASSUME Clean, NEW o \in Rows PROVE (Known(o) \/ ToCome(r, o))'
    BY <1>6 DEF PassFits
  <2>1. CASE o \in saved
    BY <1>6, <1>7, <2>1 DEF ToCome
  <2>2. CASE o \in b.rows /\ o \notin saved
    <3>1. Known(o) \/ Fresh(r, o)
      BY <1>1, <1>2, <2>2 DEF ReplicaFits, BatchFits
    <3> QED BY <1>6, <1>8, <2>2, <3>1 DEF ToCome
  <2>3. CASE o \notin b.rows
    <3>1. Known(o) \/ ToCome(r, o)
      BY <1>1 DEF ReplicaFits, PassFits, ScanSteps
    <3>2. ToCome(r, o) => ToCome(r, o)'
      BY <1>1, <1>4, <1>6, <2>3 DEF ToCome, Pending
    <3> QED BY <1>8, <2>3, <3>1, <3>2
  <2> QED BY <2>1, <2>2, <2>3
<1>10. Clean => \A o \in Rows : recorded'[o] = recorded[o] \/ Known(o)' \/ Fresh(r, o)
  BY <1>7, <1>8
<1> QED BY <1>1, <1>2, <1>4, <1>5, <1>9, <1>10, StepFrame DEF ReplicaFits


(* Behind the cursors that a pass leaves there is nothing it has not read, *)
(* unless it is written since; when it was full, they stay before what it  *)
(* has not.                                                                *)
LEMMA MoveCursorsKeeps == ASSUME IInv, NEW r \in Replicas, MoveCursors(r) PROVE IInv'
<1> USE DEF IInv
<1> DEFINE limit == job[r].now - Lag
           m == IF job[r].caughtUp THEN Min({job[r].mark, limit}) ELSE job[r].mark - 1
           s == IF job[r].full THEN job[r].sheets ELSE limit
           step == IF job[r].due THEN "deleted" ELSE "pauses"
           j == [step |-> step, now |-> job[r].now, paused |-> job[r].paused]
<1>1. /\ job[r].step = "sheets" /\ batch[r] = NoBatch /\ job[r].touched = {}
      /\ job' = [job EXCEPT ![r] = j] /\ batch' = [batch EXCEPT ![r] = NoBatch]
      /\ tracker' = [tracker EXCEPT !.offers = m, !.sheets = s]
      /\ hurried' = (hurried \/ (~job[r].caughtUp /\ job[r].mark - 1 > limit))
      /\ UNCHANGED <<clock, terms, dated, sheet, sheeted, writing, stopped, recorded, cut, apart>>
  BY DEF MoveCursors, MoveCursorsUpTo, At, Goes, catalogVars, feed, TypeOK
<1>2. job[r] \in ScanJobs /\ job[r] # Idle /\ job[r].now <= clock /\ job[r].sheets <= limit /\ tracker.baseline
  BY <1>1, JobIs DEF JobFits, ScanSteps
<1>3. limit \in Int /\ limit <= clock - Lag /\ clock \in Nat /\ Lag \in Nat /\ job[r].mark \in Int /\ job[r].sheets \in Int
      /\ job[r].caughtUp \in BOOLEAN /\ job[r].full \in BOOLEAN
  BY <1>2, Numbers DEF ScanJobs
<1>4. m \in Int /\ s \in Int /\ s <= limit /\ (~hurried' => m <= limit)
      /\ (job[r].caughtUp => m <= limit) /\ (~job[r].caughtUp => m = job[r].mark - 1)
  <2> HIDE DEF limit
  <2>1. Min({job[r].mark, limit}) \in Int /\ Min({job[r].mark, limit}) <= limit
    BY <1>3, MinIs
  <2>2. s <= limit /\ s \in Int
    BY <1>2, <1>3
  <2>3. job[r].caughtUp => m <= limit /\ m \in Int
    BY <1>3, <2>1
  <2>4. ~job[r].caughtUp => m = job[r].mark - 1 /\ m \in Int
    BY <1>3
  <2> HIDE DEF m, s
  <2>5. ~hurried' /\ ~job[r].caughtUp => m <= limit
    <3>1. ~hurried' /\ ~job[r].caughtUp => ~(job[r].mark - 1 > limit)
      BY <1>1
    <3> QED BY <1>3, <2>4, <3>1
  <2> QED BY <2>2, <2>3, <2>4, <2>5
<1>5. j \in Jobs /\ j # Idle /\ j.step \in {"deleted", "pauses"} /\ j.now = job[r].now
  BY <1>2 DEF ScanJobs, Jobs, TailJobs, TailSteps, Idle
<1> HIDE DEF m, s, j, limit
<1>6. tracker'.baseline /\ tracker'.offers = m /\ tracker'.sheets = s
      /\ tracker' \in [baseline : BOOLEAN, offers : Int, sheets : Int, scan : Int, paused : BOOLEAN]
  BY <1>1, <1>2, <1>4 DEF TypeOK
<1>7. TypeOK' /\ job'[r] = j /\ batch'[r] = NoBatch
      /\ \A q \in Replicas \ {r} : job'[q] = job[q] /\ batch'[q] = batch[q]
  <2>1. recorded' \in [Offers -> States]
    BY <1>1 DEF TypeOK
  <2>2. cut' \in BOOLEAN /\ hurried' \in BOOLEAN /\ apart' \in BOOLEAN
    <3>1. hurried' \in BOOLEAN
      BY <1>1, <1>3 DEF TypeOK
    <3> QED BY <1>1, <3>1 DEF TypeOK
  <2>3. /\ UNCHANGED <<clock, terms, dated, sheet, sheeted, writing, stopped>>
        /\ job' = [job EXCEPT ![r] = j] /\ batch' = [batch EXCEPT ![r] = NoBatch]
    BY <1>1
  <2> QED BY <1>5, <1>6, <2>1, <2>2, <2>3, TypeFrame
<1>8. Rows' = Rows /\ (Clean' => Clean) /\ \A o \in Rows : View(o)' = View(o) /\ Seen(o)' = Seen(o)
  BY <1>1 DEF Rows, View, Seen, Clean
<1>9. CursorsLag' /\ NothingYet'
  BY <1>1, <1>3, <1>4, <1>6 DEF CursorsLag, NothingYet
<1>10. NothingBehindCursor'
  <2> SUFFICES ASSUME Clean', NEW o \in Rows PROVE Known(o) \/ dated[o] > m \/ sheeted[o] > s
    BY <1>1, <1>6, <1>8 DEF NothingBehindCursor, Clean, Known
  <2>1. \/ Known(o) \/ dated[o] > limit \/ sheeted[o] > limit
        \/ job[r].full /\ sheeted[o] > job[r].sheets
        \/ ~job[r].caughtUp /\ dated[o] >= job[r].mark
    <3>1. Known(o) \/ ToCome(r, o)
      BY <1>1, <1>8 DEF ReplicaFits, PassFits, ScanSteps
    <3>2. Ahead(r, o) => dated[o] >= job[r].mark
      BY <1>3, Numbers DEF Ahead
    <3> QED BY <1>1, <3>1, <3>2 DEF ToCome, Pending, Fresh, limit
  <2>2. m <= limit
    BY <1>4 DEF Clean
  <2>3. job[r].full => s = job[r].sheets
    BY DEF s
  <2> QED BY <1>3, <1>4, <2>1, <2>2, <2>3, Numbers
<1>11. ASSUME NEW q \in Replicas PROVE JobFits(q)' /\ ReplicaFits(q)'
  <2>1. CASE q = r
    BY <1>1, <1>2, <1>5, <1>6, <1>7, <2>1
       DEF JobFits, ReplicaFits, PassFits, BatchFits, PictureFits, PictureSteps, ScanSteps, TailSteps
  <2>2. CASE q # r
    <3>1. job'[q] = job[q] /\ batch'[q] = batch[q]
      BY <1>7, <2>2
    <3>2. ReplicaFits(q)'
      BY <1>1, <1>7, <1>8, <3>1, OthersKeep
    <3>3. JobFits(q)'
      BY <1>1, <1>6, <3>1 DEF JobFits
    <3> QED BY <3>2, <3>3
  <2> QED BY <2>1, <2>2
<1>12. ASSUME NEW q \in Replicas PROVE Together(q)'
  <2> SUFFICES ASSUME Clean', job'[q] # Idle
               PROVE  /\ \A p \in Replicas : job'[p] # Idle => job'[p].now = job'[q].now
                      /\ s <= job'[q].now - Lag /\ m <= job'[q].now - Lag
    BY <1>6 DEF Together
  <2>1. \A p \in Replicas : job'[p] # Idle => job[p] # Idle /\ job'[p].now = job[p].now
    BY <1>2, <1>5, <1>7
  <2>2. \A p \in Replicas : job'[p] # Idle => job'[p].now = job[r].now
    BY <1>2, <1>8, <2>1 DEF Together
  <2> QED BY <1>4, <2>2 DEF limit, Clean
<1> QED BY <1>7, <1>9, <1>10, <1>11, <1>12

LEMMA ReadDeletedKeeps == ASSUME IInv, NEW r \in Replicas, ReadDeleted(r) PROVE IInv'
<1> USE DEF IInv
<1>1. PICK some \in SUBSET {o \in Offers : recorded[o] # NoState /\ o \notin Rows} :
        batch' = [batch EXCEPT ![r] =
                    [step |-> "states", rows |-> some, order |-> ById, after |-> [o \in Offers |-> Hidden],
                     before |-> [o \in Offers |-> IF o \in some THEN recorded[o] ELSE NoState]]]
  BY DEF ReadDeleted
<1> DEFINE after == [o \in Offers |-> Hidden]
           before == [o \in Offers |-> IF o \in some THEN recorded[o] ELSE NoState]
           b == [step |-> "states", rows |-> some, order |-> ById, after |-> after, before |-> before]
<1>2. /\ job[r].step = "deleted" /\ job' = [job EXCEPT ![r] = job[r]]
      /\ UNCHANGED <<clock, terms, dated, sheet, sheeted, writing, stopped, recorded, tracker, cut, hurried, apart>>
  BY DEF ReadDeleted, At, catalogVars, feed, history, TypeOK
<1>3. job[r] \in Jobs /\ job[r] # Idle
  BY <1>2, JobIs DEF TailSteps, TypeOK
<1>4. after \in [Offers -> Contents] /\ before \in [Offers -> States] /\ ById \in SUBSET (Offers \X Offers)
      /\ \A o \in Offers : after[o] = Hidden
  BY DEF TypeOK, Contents, States, ById
<1> HIDE DEF after, before
<1>5. b \in Batches /\ b # NoBatch /\ b.step = "states" /\ b.rows = some /\ b.after = after /\ b.order = ById
  BY <1>4 DEF Batches, NoBatch
<1>6. batch' = [batch EXCEPT ![r] = b]
  BY <1>1 DEF after, before
<1> HIDE DEF b
<1>7. TypeOK' /\ job'[r] = job[r] /\ batch'[r] = b /\ \A q \in Replicas \ {r} : job'[q] = job[q] /\ batch'[q] = batch[q]
  BY <1>2, <1>3, <1>5, <1>6, TypeFrame DEF TypeOK
<1>8. JobFits(r)'
  BY <1>2, <1>4, <1>5, <1>7, IdsAreOrdered DEF JobFits, StrictOrder
<1>9. PassFits(r)' /\ BatchFits(r)' /\ PictureFits(r)'
  <2>1. b.rows \cap Rows' = {}
    BY <1>2, <1>5 DEF Rows
  <2> QED BY <1>2, <1>7, <2>1 DEF PassFits, BatchFits, PictureFits, PictureSteps, ScanSteps
<1> QED BY <1>2, <1>3, <1>7, <1>8, <1>9, StepFrame DEF ReplicaFits

(* A row that came back while its state was deleted is written since.      *)
LEMMA RecordDeletedKeeps == ASSUME IInv, NEW r \in Replicas, RecordDeleted(r) PROVE IInv'
<1> USE DEF IInv
<1> DEFINE j == [job[r] EXCEPT !.step = "pauses"]
<1>1. /\ job[r].step = "deleted" /\ batch[r] # NoBatch
      /\ recorded' = [o \in Offers |-> IF o \in batch[r].rows THEN NoState ELSE recorded[o]]
      /\ tracker' = [tracker EXCEPT !.scan = ScanEvery]
      /\ job' = [job EXCEPT ![r] = j] /\ batch' = [batch EXCEPT ![r] = NoBatch]
      /\ UNCHANGED <<clock, terms, dated, sheet, sheeted, writing, stopped, cut, hurried, apart>>
  BY DEF RecordDeleted, Goes, catalogVars, history
<1>2. job[r] \in TailJobs /\ job[r] # Idle /\ tracker.baseline
  BY <1>1, JobIs DEF JobFits, TailSteps
<1>3. j \in Jobs /\ j # Idle /\ j.step = "pauses" /\ j.now = job[r].now
  BY <1>2 DEF Jobs, TailJobs, TailSteps, Idle
<1> HIDE DEF j
<1>4. /\ tracker'.baseline = tracker.baseline /\ tracker'.offers = tracker.offers /\ tracker'.sheets = tracker.sheets
      /\ tracker' \in [baseline : BOOLEAN, offers : Int, sheets : Int, scan : Int, paused : BOOLEAN]
  BY <1>1, TrackerAssumption DEF TypeOK
<1>5. recorded' \in [Offers -> States]
  BY <1>1 DEF TypeOK, States
<1>6. TypeOK' /\ job'[r] = j /\ batch'[r] = NoBatch
      /\ \A q \in Replicas \ {r} : job'[q] = job[q] /\ batch'[q] = batch[q]
  <2>1. cut' \in BOOLEAN /\ hurried' \in BOOLEAN /\ apart' \in BOOLEAN
    BY <1>1 DEF TypeOK
  <2> QED BY <1>1, <1>3, <1>4, <1>5, <2>1, TypeFrame
<1>7. JobFits(r)' /\ ReplicaFits(r)'
  BY <1>1, <1>2, <1>3, <1>4, <1>6
     DEF JobFits, ReplicaFits, PassFits, BatchFits, PictureFits, PictureSteps, ScanSteps, TailSteps
<1>8. ASSUME Clean, NEW o \in Rows, recorded'[o] # recorded[o] PROVE Known(o)' \/ Fresh(r, o)
  <2>1. o \in Offers /\ o \in batch[r].rows /\ recorded'[o] = NoState /\ View(o)' = View(o)
    BY <1>1, <1>8 DEF Rows, View
  <2>2. batch[r].after[o] = Hidden
    BY <1>1, <2>1 DEF JobFits
  <2>3. View(o) = Hidden \/ Fresh(r, o)
    BY <1>1, <1>8, <2>1, <2>2 DEF ReplicaFits, BatchFits
  <2> QED BY <2>1, <2>3 DEF Known, Seen, Shown
<1> QED BY <1>1, <1>2, <1>3, <1>4, <1>6, <1>7, <1>8, StepFrame

LEMMA ReadPausesKeeps == ASSUME IInv, NEW r \in Replicas, ReadPauses(r) PROVE IInv'
<1> USE DEF IInv
<1> DEFINE j == IF stopped = job[r].paused THEN Idle ELSE [job[r] EXCEPT !.step = "paused", !.paused = stopped]
<1>1. /\ job[r].step = "pauses" /\ batch[r] = NoBatch
      /\ tracker' = [tracker EXCEPT !.scan = IF @ = 0 THEN 0 ELSE @ - 1]
      /\ job' = [job EXCEPT ![r] = j] /\ batch' = [batch EXCEPT ![r] = NoBatch]
      /\ UNCHANGED <<clock, terms, dated, sheet, sheeted, writing, stopped, recorded, cut, hurried, apart>>
  BY DEF ReadPauses, At, Goes, catalogVars, feed, history, TypeOK
<1>2. job[r] \in TailJobs /\ job[r] # Idle /\ tracker.baseline
  BY <1>1, JobIs DEF JobFits, TailSteps
<1>3. j \in Jobs /\ (j # Idle => j.now = job[r].now) /\ j.step \in {"paused", "idle"}
  BY <1>2 DEF Jobs, TailJobs, TailSteps, Idle, TypeOK
<1> HIDE DEF j
<1>4. /\ tracker'.baseline = tracker.baseline /\ tracker'.offers = tracker.offers /\ tracker'.sheets = tracker.sheets
      /\ tracker' \in [baseline : BOOLEAN, offers : Int, sheets : Int, scan : Int, paused : BOOLEAN]
  BY <1>1 DEF TypeOK
<1>5. TypeOK' /\ job'[r] = j /\ batch'[r] = NoBatch
      /\ \A q \in Replicas \ {r} : job'[q] = job[q] /\ batch'[q] = batch[q]
  <2>1. cut' \in BOOLEAN /\ hurried' \in BOOLEAN /\ apart' \in BOOLEAN /\ recorded' \in [Offers -> States]
    BY <1>1 DEF TypeOK
  <2> QED BY <1>1, <1>3, <1>4, <2>1, TypeFrame
<1>6. JobFits(r)' /\ ReplicaFits(r)'
  BY <1>1, <1>2, <1>3, <1>4, <1>5
     DEF JobFits, ReplicaFits, PassFits, BatchFits, PictureFits, PictureSteps, ScanSteps, TailSteps
<1> QED BY <1>1, <1>2, <1>3, <1>4, <1>5, <1>6, StepFrame

LEMMA RecordPausesKeeps == ASSUME IInv, NEW r \in Replicas, RecordPauses(r) PROVE IInv'
<1> USE DEF IInv
<1>1. /\ job[r].step = "paused" /\ tracker' = [tracker EXCEPT !.paused = job[r].paused]
      /\ job' = [job EXCEPT ![r] = Idle]
      /\ UNCHANGED <<clock, terms, dated, sheet, sheeted, writing, stopped, recorded, batch, cut, hurried, apart>>
  BY DEF RecordPauses, Goes, catalogVars, history
<1>2. job[r] \in TailJobs /\ job[r] # Idle /\ tracker.baseline /\ batch[r] = NoBatch
      /\ batch' = [batch EXCEPT ![r] = NoBatch]
  BY <1>1, JobIs DEF JobFits, TailSteps, PictureSteps, TypeOK
<1>3. /\ tracker'.baseline = tracker.baseline /\ tracker'.offers = tracker.offers /\ tracker'.sheets = tracker.sheets
      /\ tracker' \in [baseline : BOOLEAN, offers : Int, sheets : Int, scan : Int, paused : BOOLEAN]
  BY <1>1, <1>2 DEF TailJobs, TypeOK
<1>4. TypeOK' /\ job'[r] = Idle /\ batch'[r] = NoBatch
      /\ \A q \in Replicas \ {r} : job'[q] = job[q] /\ batch'[q] = batch[q]
  <2>1. cut' \in BOOLEAN /\ hurried' \in BOOLEAN /\ apart' \in BOOLEAN /\ recorded' \in [Offers -> States]
    BY <1>1 DEF TypeOK
  <2>2. Idle \in Jobs
    BY DEF Jobs
  <2>3. UNCHANGED <<clock, terms, dated, sheet, sheeted, writing, stopped>> /\ job' = [job EXCEPT ![r] = Idle]
    BY <1>1
  <2> QED BY <1>2, <1>3, <2>1, <2>2, <2>3, TypeFrame
<1>5. JobFits(r)' /\ ReplicaFits(r)'
  BY <1>4 DEF JobFits, ReplicaFits, PassFits, BatchFits, PictureFits, Idle, PictureSteps, ScanSteps, TailSteps
<1> QED BY <1>1, <1>2, <1>3, <1>4, <1>5, StepFrame

(* A restart loses the pass: a baseline that is cut is no longer clean.    *)
LEMMA CrashKeeps == ASSUME IInv, NEW r \in Replicas, Crash(r) PROVE IInv'
<1> USE DEF IInv
<1>1. /\ job[r] # Idle /\ job' = [job EXCEPT ![r] = Idle] /\ batch' = [batch EXCEPT ![r] = NoBatch]
      /\ cut' = (cut \/ job[r].step \in PictureSteps \cup {"saving"})
      /\ UNCHANGED <<clock, terms, dated, sheet, sheeted, writing, stopped, recorded, tracker, hurried, apart>>
  BY DEF Crash, Goes, catalogVars, feed, PictureSteps
<1>2. TypeOK' /\ job'[r] = Idle /\ batch'[r] = NoBatch
      /\ \A q \in Replicas \ {r} : job'[q] = job[q] /\ batch'[q] = batch[q]
  <2>1. cut' \in BOOLEAN /\ hurried' \in BOOLEAN /\ apart' \in BOOLEAN
    BY <1>1 DEF TypeOK
  <2>2. Idle \in Jobs
    BY DEF Jobs
  <2> QED BY <1>1, <2>1, <2>2, TypeFrame DEF TypeOK
<1>3. JobFits(r)' /\ ReplicaFits(r)'
  BY <1>2 DEF JobFits, ReplicaFits, PassFits, BatchFits, PictureFits, Idle, PictureSteps, ScanSteps, TailSteps
<1>4. CASE job[r].step \in PictureSteps \cup {"saving"}
  <2>1. cut'
    BY <1>1, <1>4
  <2>2. CursorsLag' /\ NothingYet' /\ NothingBehindCursor'
    BY <1>1, <2>1 DEF CursorsLag, NothingYet, NothingBehindCursor, Clean
  <2>3. ASSUME NEW q \in Replicas PROVE JobFits(q)' /\ Together(q)' /\ ReplicaFits(q)'
    <3>1. JobFits(q)'
      BY <1>1, <1>2, <1>3 DEF JobFits
    <3> QED BY <2>1, <3>1 DEF Clean, Together, ReplicaFits, PassFits, BatchFits, PictureFits
  <2> QED BY <1>2, <2>2, <2>3
<1>5. CASE job[r].step \notin PictureSteps \cup {"saving"}
  <2>1. cut' = cut
    BY <1>1, <1>5 DEF TypeOK
  <2>2. tracker.baseline
    BY <1>1, <1>5, JobIs DEF JobFits
  <2> QED BY <1>1, <1>2, <1>3, <2>1, <2>2, StepFrame
<1> QED BY <1>4, <1>5

THEOREM TrackerInvariant == Spec => []IInv
<1>1. Init => IInv
  BY Start
<1>2. IInv /\ [Next]_vars => IInv'
  <2> SUFFICES ASSUME IInv, [Next]_vars PROVE IInv'
    OBVIOUS
  <2>1. ASSUME NEW r \in Replicas, JobStep(r) PROVE IInv'
    BY <2>1, StartBaselineKeeps, ReadPictureKeeps, PhotographKeeps, EndPictureKeeps, SaveBaselineKeeps, StartPassKeeps,
       ReadTouchedKeeps, PassOffersKeeps, PassSheetsKeeps, ReadStatesKeeps, RecordKeeps, MoveCursorsKeeps,
       ReadDeletedKeeps, RecordDeletedKeeps, ReadPausesKeeps, RecordPausesKeeps DEF JobStep
  <2>2. CASE UNCHANGED vars
    BY <2>2 DEF vars, catalogVars, feed, history, IInv, TypeOK, CursorsLag, NothingYet, NothingBehindCursor, JobFits, Together,
       ReplicaFits, PassFits, BatchFits, PictureFits, ToCome, Known, Fresh, Ahead, Pending, Rows, Seen, View, Clean
  <2> QED BY <2>1, <2>2, TickKeeps, CatalogueKeeps, CrashKeeps DEF Next
<1> QED BY <1>1, <1>2, PTL DEF Spec

(* No row is left behind the cursors, whatever is committed late, deleted  *)
(* and written while any replicas read, and wherever a pass is cut; unless *)
(* a baseline was cut, a full pass came too near or a pass lasted into a   *)
(* later one of another replica.                                           *)
THEOREM NothingLeftBehind == Spec => []NothingBehindCursor
<1>1. IInv => NothingBehindCursor
  BY DEF IInv
<1> QED BY <1>1, TrackerInvariant, PTL

(* Type correctness of the tracker.                                        *)
THEOREM TrackerTypes == Spec => []TypeOK
<1>1. IInv => TypeOK
  BY DEF IInv
<1> QED BY <1>1, TrackerInvariant, PTL

-----------------------------------------------------------------------------
(* The tracker implements the feed.                                        *)
told == [o \in Offers |-> Seen(o)]

LEMMA ContentsIs == Feed!Contents = Contents
BY DEF Feed!Contents, Contents, Views

LEMMA ToldIs == ASSUME TypeOK' PROVE told' \in [Offers -> Feed!Contents]
<1>1. \A o \in Offers : Seen(o)' \in Contents
  BY DEF TypeOK, Seen, Shown, States, Contents
<1> QED BY <1>1, ContentsIs DEF told

LEMMA DiffIsNone ==
  ASSUME NEW before, NEW after
  PROVE  Feed!DiffOffer(before, after) = "none" <=> before = after
BY DEF Feed!DiffOffer

(* What a transaction records is published, when the states are still what *)
(* was read: an event for each offer whose state becomes another.          *)
LEMMA RecordPublishes ==
  ASSUME TypeOK', NEW r \in Replicas, NEW b, b = batch[r], b.rows \in SUBSET Offers, StrictOrder(b.order),
         tracker.baseline, tracker'.baseline = tracker.baseline, tracker'.paused = tracker.paused,
         events' = events \o EventsFor(b),
         \A o \in b.rows : Seen(o) = Shown(b.before[o]) /\ Seen(o)' = b.after[o],
         \A o \in Offers \ b.rows : Seen(o)' = Seen(o)
  PROVE  Feed!Publish
<1> DEFINE changed == {o \in b.rows : Feed!DiffOffer(Shown(b.before[o]), b.after[o]) # "none"}
           order == InOrder(changed, b.order)
<1>1. changed = Feed!Changed
  <2>1. \A o \in Offers : o \in changed <=> Seen(o)' # Seen(o)
    BY DiffIsNone
  <2>2. Feed!Changed = {o \in Offers : Seen(o)' # Seen(o)}
    BY DEF Feed!Changed
  <2> HIDE DEF changed
  <2>3. changed \subseteq Offers
    BY DEF changed
  <2> QED BY <2>1, <2>2, <2>3
<1>2. Sorted(order, changed, b.order)
  <2>1. changed \in SUBSET Offers
    OBVIOUS
  <2> HIDE DEF changed
  <2> QED BY <2>1, InOrderIs
<1>3. \A o \in changed : b.after[o] = Seen(o)' /\ Shown(b.before[o]) = Seen(o)
  OBVIOUS
<1>4. EventsFor(b) = [i \in DOMAIN order |-> Feed!OfferEvent(order[i], Shown(b.before[order[i]]), b.after[order[i]])]
  BY DEF EventsFor
<1>5. changed \subseteq Offers
  OBVIOUS
<1> HIDE DEF changed, order
<1>6. /\ order \in [1..Cardinality(changed) -> changed] /\ DOMAIN order = 1..Cardinality(changed)
      /\ \A o \in changed : \E i \in DOMAIN order : order[i] = o
  BY <1>2 DEF Sorted
<1>7. \A i \in DOMAIN order : /\ order[i] \in Offers
                              /\ b.after[order[i]] = told'[order[i]] /\ Shown(b.before[order[i]]) = told[order[i]]
  BY <1>3, <1>5, <1>6 DEF told
<1>8. events' = events \o [i \in DOMAIN order |-> Feed!OfferEvent(order[i], told[order[i]], told'[order[i]])]
  BY <1>4, <1>7
<1>9. told' \in [Offers -> Feed!Contents]
  BY ToldIs
<1>10. UNCHANGED <<tracker.paused, tracker.baseline>>
  OBVIOUS
<1>11. \E s \in [1..Cardinality(Feed!Changed) -> Feed!Changed] :
         /\ \A o \in Feed!Changed : \E i \in DOMAIN s : s[i] = o
         /\ events' = events \o [i \in DOMAIN s |-> Feed!OfferEvent(s[i], told[s[i]], told'[s[i]])]
  BY <1>1, <1>6, <1>8
<1>12. Feed!Cardinality(Feed!Changed) = Cardinality(Feed!Changed)
  BY DEF Feed!Cardinality, Cardinality, Feed!IsFiniteSet, IsFiniteSet
<1> QED BY <1>9, <1>10, <1>11, <1>12 DEF Feed!Publish, told

(* A step that leaves what is recorded, the events and the marks that the  *)
(* feed shows is none of the feed.                                         *)
LEMMA FeedRests ==
  ASSUME UNCHANGED <<recorded, events>>, tracker'.paused = tracker.paused, tracker'.baseline = tracker.baseline
  PROVE  UNCHANGED Feed!feedVars
BY DEF Feed!feedVars, Seen

LEMMA PhotographRefines ==
  ASSUME IInv, IInv', NEW r \in Replicas, Photograph(r) \/ SaveBaseline(r), ~Overtaken(r)
  PROVE  Feed!Photograph
<1>1. job[r].step \in {"baseline", "photographed", "saving"} /\ UNCHANGED events
  BY DEF Photograph, SaveBaseline, feed
<1>2. ~tracker.baseline
  BY <1>1 DEF Overtaken
<1>3. tracker'.paused \in BOOLEAN /\ tracker'.baseline \in BOOLEAN
  BY DEF IInv, TypeOK
<1> QED BY <1>1, <1>2, <1>3, ToldIs DEF Feed!Photograph, told, IInv

LEMMA RecordRefines ==
  ASSUME IInv, IInv', NEW r \in Replicas, Record(r), ~Overtaken(r)
  PROVE  Feed!Publish
<1> USE DEF IInv
<1> DEFINE b == batch[r]
           saved == {o \in b.rows : b.before[o] # b.after[o]}
<1>1. /\ job[r].step \in {"offers", "sheets"} /\ b.step = "states"
      /\ events' = events \o EventsFor(b) /\ UNCHANGED tracker
      /\ recorded' = [o \in Offers |-> IF o \in saved THEN b.after[o] ELSE recorded[o]]
  BY DEF Record, RecordSaving
<1>2. b # NoBatch /\ b \in Batches
  BY <1>1, BatchIs DEF NoBatch
<1>3. b.rows \in SUBSET Offers /\ b.after \in [Offers -> Contents]
  BY <1>2 DEF Batches
<1>4. StrictOrder(b.order) /\ tracker.baseline
  BY <1>1, <1>2 DEF JobFits, ScanSteps
<1>5. \A o \in b.rows : recorded[o] = b.before[o]
  BY <1>1 DEF Overtaken
<1>6. ASSUME NEW o \in b.rows PROVE Seen(o) = Shown(b.before[o]) /\ Seen(o)' = b.after[o]
  <2>1. recorded'[o] = b.after[o]
    BY <1>1, <1>3, <1>5
  <2>2. b.after[o] # NoState
    BY <1>3, ViewIs
  <2> QED BY <1>5, <2>1, <2>2 DEF Seen, Shown
<1>7. ASSUME NEW o \in Offers \ b.rows PROVE Seen(o)' = Seen(o)
  BY <1>1 DEF Seen
<1> HIDE DEF b
<1> QED BY <1>1, <1>3, <1>4, <1>6, <1>7, RecordPublishes DEF b

(* An offer that is gone is hidden, and so is one without a state.         *)
LEMMA RecordDeletedRefines ==
  ASSUME IInv, IInv', NEW r \in Replicas, RecordDeleted(r), ~Overtaken(r)
  PROVE  Feed!Publish
<1> USE DEF IInv
<1> DEFINE b == batch[r]
<1>1. /\ job[r].step = "deleted" /\ b # NoBatch
      /\ events' = events \o EventsFor(b) /\ tracker' = [tracker EXCEPT !.scan = ScanEvery]
      /\ recorded' = [o \in Offers |-> IF o \in b.rows THEN NoState ELSE recorded[o]]
  BY DEF RecordDeleted
<1>2. b.rows \in SUBSET Offers
  BY <1>1, BatchIs DEF Batches
<1>3. StrictOrder(b.order) /\ tracker.baseline /\ \A o \in Offers : b.after[o] = Hidden
  BY <1>1 DEF JobFits, TailSteps
<1>4. tracker'.baseline = tracker.baseline /\ tracker'.paused = tracker.paused
  BY <1>1 DEF TypeOK
<1>5. ASSUME NEW o \in b.rows PROVE Seen(o) = Shown(b.before[o]) /\ Seen(o)' = b.after[o]
  <2>1. recorded[o] = b.before[o]
    BY <1>1 DEF Overtaken, JobFits
  <2>2. recorded'[o] = NoState /\ b.after[o] = Hidden
    BY <1>1, <1>2, <1>3
  <2> QED BY <2>1, <2>2 DEF Seen, Shown
<1>6. ASSUME NEW o \in Offers \ b.rows PROVE Seen(o)' = Seen(o)
  BY <1>1 DEF Seen
<1> HIDE DEF b
<1> QED BY <1>1, <1>2, <1>3, <1>4, <1>5, <1>6, RecordPublishes DEF b

(* A pause that the events do not tell yet becomes an event.               *)
LEMMA RecordPausesRefines ==
  ASSUME IInv, IInv', NEW r \in Replicas, RecordPauses(r), ~Overtaken(r)
  PROVE  Feed!PublishPause
<1> USE DEF IInv
<1>1. /\ job[r].step = "paused" /\ UNCHANGED recorded
      /\ events' = Append(events, Feed!PauseEvent(job[r].paused))
      /\ tracker' = [tracker EXCEPT !.paused = job[r].paused]
  BY DEF RecordPauses
<1>2. tracker.baseline /\ job[r].paused \in BOOLEAN
  BY <1>1, JobIs DEF JobFits, TailSteps, TailJobs
<1>3. tracker'.baseline = tracker.baseline /\ tracker'.paused = job[r].paused /\ tracker.paused \in BOOLEAN
  BY <1>1, <1>2 DEF TypeOK
<1>4. tracker'.paused = ~tracker.paused
  BY <1>1, <1>2, <1>3 DEF Overtaken
<1>5. UNCHANGED told
  BY <1>1 DEF told, Seen
<1>6. events' = Append(events, Feed!PauseEvent(tracker'.paused))
  BY <1>1, <1>3
<1>7. UNCHANGED tracker.baseline
  BY <1>3
<1> QED BY <1>2, <1>4, <1>5, <1>6, <1>7 DEF Feed!PublishPause, told

LEMMA OthersRest ==
  ASSUME IInv,
         Tick \/ Catalogue \/ (\E w \in writing : Commit(w)) \/ (\E r \in Replicas : Crash(r) \/ (JobStep(r) /\ ~Writes(r)))
  PROVE  UNCHANGED Feed!feedVars
<1> USE DEF catalogVars, feed
<1>1. CASE Tick \/ Catalogue \/ \E w \in writing : Commit(w)
  <2>1. UNCHANGED <<recorded, events, tracker>>
    BY <1>1 DEF Tick, Catalogue, Stamp, Delete, WriteSheet, PauseOrResume, Commit
  <2> QED BY <2>1, FeedRests
<1>2. ASSUME NEW r \in Replicas, Crash(r) PROVE UNCHANGED Feed!feedVars
  BY <1>2, FeedRests DEF Crash
<1>3. ASSUME NEW r \in Replicas, MoveCursors(r) PROVE UNCHANGED Feed!feedVars
  <2> DEFINE m == IF job[r].caughtUp THEN Min({job[r].mark, job[r].now - Lag}) ELSE job[r].mark - 1
             s == IF job[r].full THEN job[r].sheets ELSE job[r].now - Lag
  <2>1. tracker' = [tracker EXCEPT !.offers = m, !.sheets = s] /\ UNCHANGED <<recorded, events>>
    BY <1>3 DEF MoveCursors, MoveCursorsUpTo
  <2> HIDE DEF m, s
  <2>2. tracker'.paused = tracker.paused /\ tracker'.baseline = tracker.baseline
    BY <2>1 DEF IInv, TypeOK
  <2> QED BY <2>1, <2>2, FeedRests
<1>4. ASSUME NEW r \in Replicas, ReadPauses(r) PROVE UNCHANGED Feed!feedVars
  <2>1. tracker' = [tracker EXCEPT !.scan = IF @ = 0 THEN 0 ELSE @ - 1] /\ UNCHANGED <<recorded, events>>
    BY <1>4 DEF ReadPauses
  <2>2. tracker'.paused = tracker.paused /\ tracker'.baseline = tracker.baseline
    BY <2>1 DEF IInv, TypeOK
  <2> QED BY <2>1, <2>2, FeedRests
<1>5. ASSUME NEW r \in Replicas, JobStep(r), ~Writes(r), ~MoveCursors(r), ~ReadPauses(r) PROVE UNCHANGED Feed!feedVars
  <2>1. UNCHANGED <<recorded, events, tracker>>
    BY <1>5 DEF JobStep, Writes, StartBaseline, StartPass, Begin, ReadPicture, EndPicture, ReadTouched, PassOffers, PassOffersFrom,
                PassSheets, ReadStates, ReadDeleted
  <2> QED BY <2>1, FeedRests
<1> QED BY <1>1, <1>2, <1>3, <1>4, <1>5

(* Whatever any number of replicas find twice, late or after a restart,    *)
(* a transaction whose states are still those it read writes one event for *)
(* each offer whose state becomes another, and nothing else is published;  *)
(* the rest are the writes of a replica that was overtaken.                *)
THEOREM TrackerIsFeed == Spec => IsFeed
<1>1. Init => Feed!FeedInit
  <2> SUFFICES ASSUME Init PROVE Feed!FeedInit
    OBVIOUS
  <2>1. \A o \in Offers : Seen(o) = Hidden
    BY DEF Init, Seen, Shown
  <2> QED BY <2>1 DEF Init, Feed!FeedInit
<1>2. IInv /\ IInv' /\ [Next]_vars => [Feed!FeedNext \/ OvertakenWrites]_(Feed!feedVars)
  <2> SUFFICES ASSUME IInv, IInv', [Next]_vars
               PROVE  Feed!FeedNext \/ OvertakenWrites \/ UNCHANGED Feed!feedVars
    OBVIOUS
  <2>1. UNCHANGED vars => UNCHANGED Feed!feedVars
    BY FeedRests DEF vars, feed
  <2>2. ASSUME NEW r \in Replicas, Writes(r) PROVE Feed!FeedNext \/ OvertakenWrites
    <3>1. CASE Overtaken(r)
      BY <2>2, <3>1 DEF OvertakenWrites, Writes
    <3>2. CASE ~Overtaken(r)
      BY <2>2, <3>2, PhotographRefines, RecordRefines, RecordDeletedRefines, RecordPausesRefines DEF Writes, Feed!FeedNext
    <3> QED BY <3>1, <3>2
  <2> QED BY <2>1, <2>2, OthersRest DEF Next
<1> QED BY <1>1, <1>2, TrackerInvariant, PTL DEF Spec, IsFeed

(* As long as no two passes run at a time, nobody is overtaken.            *)
Alone == \A q, r \in Replicas : job[q] # Idle /\ job[r] # Idle => q = r
AloneFits(r) ==
  /\ job[r].step \in PictureSteps \cup {"saving"} => ~tracker.baseline
  /\ job[r].step \in ScanSteps \cup {"deleted", "pauses"} => job[r].paused = tracker.paused
  /\ job[r].step = "paused" => job[r].paused # tracker.paused
  /\ batch[r].step = "states" => \A o \in batch[r].rows : recorded[o] = batch[r].before[o]

LEMMA AloneStep == ASSUME IInv, NEW r \in Replicas, AloneFits(r), JobStep(r), job'[r] # Idle PROVE AloneFits(r)'
<1> USE DEF IInv, PictureSteps, ScanSteps
<1>1. job \in [Replicas -> Jobs] /\ batch \in [Replicas -> Batches \cup {NoBatch}] /\ NoBatch.step = "none"
  BY DEF TypeOK, NoBatch
<1>2. CASE StartBaseline(r) \/ StartPass(r)
  <2>1. batch[r] = NoBatch
    BY <1>2 DEF StartBaseline, StartPass, Begin, JobFits, Idle
  <2> QED BY <1>1, <1>2, <2>1 DEF StartBaseline, StartPass, Begin, AloneFits
<1>3. ASSUME batch'[r].step # "states", UNCHANGED tracker, job'[r].step \in PictureSteps \cup {"saving"},
             job[r].step \in PictureSteps
      PROVE  AloneFits(r)'
  BY <1>3 DEF AloneFits
<1>4. CASE ReadPicture(r)
  <2>1. job[r] \in PictureJobs
    BY <1>4, JobIs DEF ReadPicture, At
  <2>2. batch'[r].step # "states"
    BY <1>1, <1>4 DEF ReadPicture, Reads
  <2>3. job'[r].step \in PictureSteps
    BY <1>1, <1>4, <2>1 DEF ReadPicture, Goes, At, PictureJobs
  <2> QED BY <1>3, <1>4, <2>2, <2>3 DEF ReadPicture, At
<1>5. CASE Photograph(r)
  BY <1>1, <1>3, <1>5 DEF Photograph
<1>6. CASE EndPicture(r)
  BY <1>1, <1>3, <1>6 DEF EndPicture, Goes, At
<1>7. ASSUME job[r].step \in ScanSteps, batch'[r].step # "states", tracker'.paused = tracker.paused,
             job'[r].paused = job[r].paused, job'[r].step \in ScanSteps \cup {"deleted", "pauses"}
      PROVE  AloneFits(r)'
  BY <1>7 DEF AloneFits
<1>8. CASE ReadTouched(r)
  <2>1. job[r] \in ScanJobs /\ batch[r] = NoBatch
    BY <1>8, JobIs DEF ReadTouched, JobFits
  <2>2. job'[r].step = "offers" /\ job'[r].paused = job[r].paused
    BY <1>1, <1>8, <2>1 DEF ReadTouched, Goes, ScanJobs
  <2> QED BY <1>1, <1>7, <1>8, <2>1, <2>2 DEF ReadTouched
<1>9. CASE PassOffers(r)
  <2>1. job[r] \in ScanJobs
    BY <1>9, JobIs DEF PassOffers, PassOffersFrom, At
  <2>2. batch'[r].step # "states"
    BY <1>1, <1>9 DEF PassOffers, PassOffersFrom, Reads
  <2>3. job'[r].step \in ScanSteps /\ job'[r].paused = job[r].paused
    BY <1>1, <1>9, <2>1 DEF PassOffers, PassOffersFrom, At, Goes, ScanJobs
  <2> QED BY <1>7, <1>9, <2>2, <2>3 DEF PassOffers, PassOffersFrom, At
<1>10. CASE PassSheets(r)
  <2>1. job[r] \in ScanJobs
    BY <1>10, JobIs DEF PassSheets, At
  <2>2. batch'[r].step # "states"
    BY <1>1, <1>10 DEF PassSheets, Reads
  <2>3. job'[r].step \in ScanSteps /\ job'[r].paused = job[r].paused
    BY <1>1, <1>10, <2>1 DEF PassSheets, At, Goes, ScanJobs
  <2> QED BY <1>7, <1>10, <2>2, <2>3 DEF PassSheets, At
<1>11. CASE ReadStates(r)
  <2>1. batch[r] \in Batches
    BY <1>11, BatchIs DEF ReadStates, NoBatch
  <2>2. /\ batch'[r].rows = batch[r].rows /\ batch[r].rows \subseteq Offers
        /\ batch'[r].before = [o \in Offers |-> IF o \in batch[r].rows THEN recorded[o] ELSE NoState]
    BY <1>1, <1>11, <2>1 DEF ReadStates, Batches
  <2>3. UNCHANGED <<recorded, tracker, job>>
    BY <1>11 DEF ReadStates, feed
  <2> QED BY <2>2, <2>3 DEF AloneFits
<1>12. CASE Record(r)
  BY <1>1, <1>7, <1>12 DEF Record, RecordSaving
<1>13. CASE MoveCursors(r)
  <2> DEFINE m == IF job[r].caughtUp THEN Min({job[r].mark, job[r].now - Lag}) ELSE job[r].mark - 1
             s == IF job[r].full THEN job[r].sheets ELSE job[r].now - Lag
  <2>1. tracker' = [tracker EXCEPT !.offers = m, !.sheets = s] /\ UNCHANGED batch /\ At(r, "sheets")
        /\ job' = [job EXCEPT ![r] = [step |-> IF job[r].due THEN "deleted" ELSE "pauses", now |-> job[r].now,
                                     paused |-> job[r].paused]]
    BY <1>13 DEF MoveCursors, MoveCursorsUpTo, Goes
  <2> HIDE DEF m, s
  <2>2. tracker'.paused = tracker.paused
    BY <2>1 DEF TypeOK
  <2>3. job'[r].paused = job[r].paused /\ job'[r].step \in {"deleted", "pauses"}
    BY <1>1, <2>1
  <2> QED BY <1>1, <1>7, <2>1, <2>2, <2>3 DEF At
<1>14. CASE ReadDeleted(r)
  <2>1. PICK some \in SUBSET Offers :
          batch' = [batch EXCEPT ![r] =
                      [step |-> "states", rows |-> some, order |-> ById, after |-> [o \in Offers |-> Hidden],
                       before |-> [o \in Offers |-> IF o \in some THEN recorded[o] ELSE NoState]]]
    BY <1>14 DEF ReadDeleted
  <2>2. /\ batch'[r].rows = some
        /\ batch'[r].before = [o \in Offers |-> IF o \in some THEN recorded[o] ELSE NoState]
    BY <1>1, <2>1
  <2>3. UNCHANGED <<recorded, tracker, job>>
    BY <1>14 DEF ReadDeleted, feed
  <2> QED BY <2>2, <2>3 DEF AloneFits
<1>15. CASE RecordDeleted(r)
  <2>1. job[r] \in TailJobs /\ job[r].step = "deleted"
    BY <1>15, JobIs DEF RecordDeleted, TailSteps
  <2>2. job'[r].step = "pauses" /\ job'[r].paused = job[r].paused /\ batch'[r] = NoBatch
    BY <1>1, <1>15, <2>1 DEF RecordDeleted, Goes, TailJobs
  <2>3. tracker'.paused = tracker.paused
    BY <1>15 DEF RecordDeleted, TypeOK
  <2> QED BY <1>1, <2>1, <2>2, <2>3 DEF AloneFits
<1>16. CASE ReadPauses(r)
  <2>1. job[r] \in TailJobs /\ job[r].step = "pauses" /\ batch[r] = NoBatch /\ UNCHANGED batch
    BY <1>16, JobIs DEF ReadPauses, At, TailSteps
  <2>2. job'[r].step = "paused" /\ job'[r].paused = stopped /\ stopped # job[r].paused
    BY <1>1, <1>16, <2>1 DEF ReadPauses, Goes, TailJobs
  <2>3. tracker'.paused = tracker.paused
    BY <1>16 DEF ReadPauses, TypeOK
  <2> QED BY <1>1, <2>1, <2>2, <2>3 DEF AloneFits
<1>17. CASE SaveBaseline(r) \/ RecordPauses(r)
  BY <1>1, <1>17 DEF SaveBaseline, RecordPauses, Goes
<1> QED BY <1>2, <1>4, <1>5, <1>6, <1>8, <1>9, <1>10, <1>11, <1>12, <1>13, <1>14, <1>15, <1>16, <1>17 DEF JobStep

LEMMA OnlyItsPass ==
  ASSUME TypeOK, NEW q \in Replicas, JobStep(q)
  PROVE  (\A p \in Replicas \ {q} : job'[p] = job[p]) /\ (job[q] = Idle => job'[q] # Idle)
<1> USE DEF TypeOK, Idle
<1>1. CASE StartBaseline(q) \/ StartPass(q)
  BY <1>1 DEF StartBaseline, StartPass, Begin
<1>2. CASE ReadPicture(q) \/ Photograph(q) \/ EndPicture(q) \/ SaveBaseline(q)
  BY <1>2 DEF ReadPicture, Photograph, EndPicture, SaveBaseline, At, Goes
<1>3. CASE ReadTouched(q)
  BY <1>3 DEF ReadTouched, Goes
<1>4. CASE PassOffers(q) \/ PassSheets(q)
  BY <1>4 DEF PassOffers, PassOffersFrom, PassSheets, At, Goes
<1>5. CASE ReadStates(q) \/ Record(q) \/ MoveCursors(q)
  BY <1>5 DEF ReadStates, Record, RecordSaving, MoveCursors, MoveCursorsUpTo, At, Goes
<1>6. CASE ReadDeleted(q) \/ RecordDeleted(q) \/ ReadPauses(q) \/ RecordPauses(q)
  BY <1>6 DEF ReadDeleted, RecordDeleted, ReadPauses, RecordPauses, At, Goes
<1> QED BY <1>1, <1>2, <1>3, <1>4, <1>5, <1>6 DEF JobStep

LEMMA AloneKeeps ==
  ASSUME IInv, IInv', Alone, Alone', [Next]_vars, \A r \in Replicas : AloneFits(r), NEW r \in Replicas
  PROVE  AloneFits(r)'
<1>1. CASE job'[r] = Idle
  <2>1. batch'[r] = NoBatch
    BY <1>1 DEF IInv, JobFits, Idle, PictureSteps
  <2> QED BY <1>1, <2>1 DEF AloneFits, NoBatch, Idle, PictureSteps, ScanSteps
<1>2. CASE job'[r] # Idle
  <2>1. CASE UNCHANGED <<recorded, tracker, job, batch>>
    BY <2>1 DEF AloneFits
  <2>2. ASSUME NEW q \in Replicas, JobStep(q) PROVE AloneFits(r)'
    <3>1. q = r
      BY <1>2, <2>2, OnlyItsPass DEF Alone, IInv
    <3> QED BY <1>2, <2>2, <3>1, AloneStep
  <2>3. ASSUME NEW q \in Replicas, Crash(q) PROVE AloneFits(r)'
    BY <1>2, <2>3 DEF Crash, Goes, Alone, IInv, TypeOK
  <2>4. CASE Tick \/ Catalogue \/ \E w \in writing : Commit(w)
    BY <2>1, <2>4 DEF Tick, Catalogue, Stamp, Delete, WriteSheet, PauseOrResume, Commit, feed
  <2>5. CASE UNCHANGED vars
    BY <2>1, <2>5 DEF vars, feed
  <2> QED BY <2>2, <2>3, <2>4, <2>5 DEF Next
<1> QED BY <1>1, <1>2

(* Passes of any replicas that run one after the other implement the feed  *)
(* without an exception, whatever they find twice, late or after a restart.*)
THEOREM AloneItIsTheFeed == Spec /\ []Alone => Feed!FeedSpec
<1> DEFINE Fits == \A r \in Replicas : AloneFits(r)
<1>1. Init => Fits
  <2>1. Init => \A r \in Replicas : job[r] = Idle /\ batch[r] = NoBatch
    BY DEF Init
  <2> QED BY <2>1 DEF AloneFits, Idle, NoBatch, PictureSteps, ScanSteps
<1>2. IInv /\ IInv' /\ Alone /\ Alone' /\ Fits /\ [Next]_vars => Fits'
  BY AloneKeeps
<1>3. Fits /\ [Feed!FeedNext \/ OvertakenWrites]_(Feed!feedVars) => [Feed!FeedNext]_(Feed!feedVars)
  <2>1. Fits => \A r \in Replicas : ~Overtaken(r)
    BY DEF AloneFits, Overtaken, PictureSteps
  <2> HIDE DEF Fits
  <2> QED BY <2>1 DEF OvertakenWrites
<1> HIDE DEF Fits
<1> QED BY <1>1, <1>2, <1>3, TrackerInvariant, TrackerIsFeed, PTL DEF Spec, IsFeed, Feed!FeedSpec
=============================================================================
