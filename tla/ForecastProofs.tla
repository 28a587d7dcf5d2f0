---------------------------- MODULE ForecastProofs ----------------------------
(***************************************************************************)
(* What holds of the prediction loop for every horizon, refresh period,    *)
(* lease and latency (the cached prediction never ages past its bound, no  *)
(* sample taken under a bias escapes its flag), of prediction and policies *)
(* on every scene, of the residual log and its bank for every size of the  *)
(* log, and of spikes and sessions for every stream.                       *)
(***************************************************************************)
EXTENDS MCForecast, FiniteSetTheorems, SequenceTheorems, TLAPS

-----------------------------------------------------------------------------
(* The invariant.                                                          *)

\* A daemon that is down holds nothing; a tick's frame and its begin are one.
Shape ==
  /\ ~up => /\ phase = "idle" /\ pending = <<>> /\ windows = <<>>
            /\ cache = NoCache /\ task = NoTask
  /\ phase = "idle" => frame = 0
  /\ phase = "sampling" => gap = frame
  /\ inflight = (task # NoTask)

\* The predictions in the queue are of different ticks, the oldest first, and none is
\* older than a horizon, a wait and the way from one tick to the end of the next.
Fifo ==
  /\ Len(pending) <= Horizon + MaxWait
  /\ \A i \in DOMAIN pending :
       LET since == pending[i].age - gap IN
       /\ since >= Len(pending) - i + (IF phase = "idle" THEN 0 ELSE 1)
       /\ since <= Horizon + MaxWait + (IF phase = "idle" THEN 0 ELSE MaxGap + MaxLag)
  /\ \A i, j \in DOMAIN pending : i < j => pending[i].age > pending[j].age

\* Every window began before the frame; a lease in its term has its window; and where a
\* lease touched a prediction, a window that ended after the prediction is still there.
Watched ==
  /\ \A i \in DOMAIN windows : windows[i].since >= frame
  /\ up /\ Armed /\ lease.left + frame >= 1 =>
       \E i \in DOMAIN windows : windows[i].left = lease.left
  /\ \A i \in DOMAIN pending : pending[i].touched =>
       \E j \in DOMAIN windows : windows[j].left >= -pending[i].age

\* How old the features in the cache may be when a tick begins that will ask anew, after
\* n refreshes that failed.
AtBegin(n) == RefreshEvery + MaxLatency + MaxGap + n * (MaxLatency + MaxGap)

\* The age of the features in the cache: up to a refresh period it grows with the cache
\* itself; then the next tick asks, and the question's features are that tick's.
Aging ==
  IF task # NoTask THEN cache.age > RefreshEvery /\ cache.basis - task <= AtBegin(fails)
  ELSE IF cache.age <= RefreshEvery THEN cache.basis <= cache.age + MaxLatency
  ELSE IF phase = "sampling" THEN cache.basis - frame <= AtBegin(fails)
  ELSE cache.basis <= AtBegin(fails) /\ cache.basis + MaxGap - gap <= AtBegin(fails)

LoopInv ==
  TypeOK /\ Shape /\ Fifo /\ Watched /\ Aging /\ FlaggedWhenControlled

-----------------------------------------------------------------------------
(* Numbers and sequences.                                                  *)

\* Every set of naturals has a least one.
LEMMA Least ==
  ASSUME NEW S \in SUBSET Nat, S # {}
  PROVE  \E m \in S : \A k \in S : m <= k
<1> DEFINE R == StrictSubsetOrdering(Nat)
           T == {1 .. k : k \in S}
<1>1. IsWellFoundedOn(R, FiniteSubsetsOf(Nat))
  BY FS_StrictSubsetOrderingWellFounded
<1>2. T \subseteq FiniteSubsetsOf(Nat) /\ T # {}
  <2>1. ASSUME NEW k \in S PROVE IsFiniteSet(1 .. k)
    BY FS_Interval
  <2>2. ASSUME NEW x \in T PROVE x \in FiniteSubsetsOf(Nat)
    <3>1. PICK k \in S : x = 1 .. k
      OBVIOUS
    <3>2. x \subseteq Nat
      BY <3>1
    <3>. QED
      BY <2>1, <3>1, <3>2 DEF FiniteSubsetsOf
  <2>3. PICK k \in S : TRUE
    OBVIOUS
  <2>4. 1 .. k \in T
    OBVIOUS
  <2>. QED
    BY <2>2, <2>4
<1>3. \A x, y \in T : y \subseteq x /\ y # x => <<y, x>> \in R
  BY DEF StrictSubsetOrdering
<1> HIDE DEF R, T
<1>4. PICK x \in T : \A y \in T : ~(<<y, x>> \in R)
  BY <1>1, <1>2, WFMin
<1>5. PICK m \in S : x = 1 .. m
  BY <1>4 DEF T
<1>6. ASSUME NEW k \in S, k < m PROVE FALSE
  <2>1. 1 .. k \subseteq x /\ 1 .. k # x /\ 1 .. k \in T
    <3>1. m \in x /\ m \notin 1 .. k
      BY <1>5, <1>6
    <3>. QED
      BY <3>1, <1>5, <1>6 DEF T
  <2>. QED
    BY <1>3, <1>4, <2>1
<1>. QED
  BY <1>5, <1>6

\* No action lasts longer than the longest.
LEMMA LongestIs ==
  Longest \in Durations /\ (\A d \in Durations : d <= Longest) /\ Longest \in Nat
BY ForecastAssumption DEF Longest

LEMMA BoundsAreNat ==
  /\ MaxAge \in Nat /\ MaxAge >= Horizon + MaxWait + MaxGap + 2 * MaxLag
  /\ MaxLag \in Nat /\ MaxGap \in Nat \ {0} /\ Horizon \in Nat \ {0} /\ MaxWait \in Nat
  /\ Cutoff \in Nat /\ Grace \in Nat /\ MaxLag <= MaxLatency /\ MaxLatency \in Nat
BY ForecastAssumption DEF MaxAge

LEMMA BoundsAreInt ==
  /\ MaxLag \in Int /\ 0 <= MaxLag /\ MaxGap \in Int /\ 1 <= MaxGap
  /\ Horizon \in Int /\ 1 <= Horizon /\ MaxWait \in Int /\ 0 <= MaxWait
BY ForecastAssumption

\* A cap caps.
LEMMA CapAtIs ==
  ASSUME NEW n \in Int, NEW cap \in Int
  PROVE  CapAt(n, cap) \in Int /\ CapAt(n, cap) <= cap /\ CapAt(n, cap) <= n
         /\ (n <= cap => CapAt(n, cap) = n) /\ (n >= cap => CapAt(n, cap) = cap)
BY DEF CapAt

\* A window in a record.
LEMMA WindowIs ==
  ASSUME NEW w \in Window
  PROVE  /\ w.left \in Int /\ -(MaxAge + Cutoff + 1) <= w.left /\ w.left <= Longest + Grace
         /\ w.since \in Nat /\ w.since <= MaxLag
         /\ w = [left |-> w.left, since |-> w.since]
BY BoundsAreNat, LongestIs DEF Window, Left, Since

\* Pruning keeps the windows that ended late enough, and those after them.
LEMMA PrunedIs ==
  ASSUME NEW ws \in Seq(Window), NEW p \in Pending
  PROVE  /\ Pruned(ws, p) \in Seq(Window) /\ Len(Pruned(ws, p)) <= Len(ws)
         /\ \A i \in DOMAIN Pruned(ws, p) : \E j \in DOMAIN ws : Pruned(ws, p)[i] = ws[j]
         /\ \A j \in DOMAIN ws : ws[j].left >= -(p.age + Cutoff) =>
              \E i \in DOMAIN Pruned(ws, p) : Pruned(ws, p)[i] = ws[j]
<1> DEFINE fresh == {i \in DOMAIN ws : ws[i].left >= -(p.age + Cutoff)}
<1>1. Len(ws) \in Nat /\ DOMAIN ws = 1 .. Len(ws) /\ \A i \in 1 .. Len(ws) : ws[i] \in Window
  BY LenProperties, ElementOfSeq
<1>2. CASE fresh = {}
  <2>1. Pruned(ws, p) = <<>>
    BY <1>2 DEF Pruned
  <2>. QED
    BY <1>1, <1>2, <2>1, EmptySeq
<1>3. CASE fresh # {}
  <2> DEFINE m == CHOOSE i \in fresh : \A j \in fresh : i <= j
  <2>1. m \in fresh /\ \A j \in fresh : m <= j
    <3>1. fresh \in SUBSET Nat
      BY <1>1
    <3>2. \E i \in fresh : \A j \in fresh : i <= j
      BY <1>3, <3>1, Least
    <3>. QED
      BY <3>2
  <2>2. Pruned(ws, p) = SubSeq(ws, m, Len(ws))
    BY <1>3 DEF Pruned
  <2> HIDE DEF m
  <2>3. m \in 1 .. Len(ws) /\ \A i \in m .. Len(ws) : ws[i] \in Window
    BY <1>1, <2>1
  <2>4. /\ SubSeq(ws, m, Len(ws)) \in Seq(Window)
        /\ Len(SubSeq(ws, m, Len(ws))) = Len(ws) - m + 1
        /\ \A i \in 1 .. Len(ws) - m + 1 : SubSeq(ws, m, Len(ws))[i] = ws[m + i - 1]
    BY <1>1, <2>3, SubSeqProperties
  <2> DEFINE r == SubSeq(ws, m, Len(ws))
  <2> HIDE DEF r
  <2>5. DOMAIN r = 1 .. Len(ws) - m + 1
    BY <2>4, LenProperties DEF r
  <2>6. \A i \in DOMAIN r : \E j \in DOMAIN ws : r[i] = ws[j]
    <3>1. ASSUME NEW i \in DOMAIN r PROVE \E j \in DOMAIN ws : r[i] = ws[j]
      <4>1. m + i - 1 \in DOMAIN ws /\ r[i] = ws[m + i - 1]
        BY <1>1, <2>3, <2>4, <2>5 DEF r
      <4>. QED
        BY <4>1
    <3>. QED
      BY <3>1
  <2>7. ASSUME NEW j \in DOMAIN ws, ws[j].left >= -(p.age + Cutoff)
        PROVE  \E i \in DOMAIN r : r[i] = ws[j]
    <3>1. j \in fresh
      BY <2>7
    <3>2. m <= j
      BY <2>1, <3>1
    <3>3. j - m + 1 \in DOMAIN r /\ r[j - m + 1] = ws[j]
      BY <1>1, <2>3, <2>4, <2>5, <3>2 DEF r
    <3>. QED
      BY <3>3
  <2>. QED
    BY <1>1, <2>2, <2>3, <2>4, <2>6, <2>7 DEF r
<1>. QED
  BY <1>2, <1>3

\* A recorded window is in the record, and only the oldest makes place for it.
LEMMA RecordedIs ==
  ASSUME NEW ws \in Seq(Window), NEW l \in Window, Len(ws) <= MaxWindows
  PROVE  /\ Recorded(ws, l) \in Seq(Window) /\ Len(Recorded(ws, l)) <= MaxWindows
         /\ \A i \in DOMAIN Recorded(ws, l) :
              Recorded(ws, l)[i] = l \/ \E j \in DOMAIN ws : Recorded(ws, l)[i] = ws[j]
         /\ \E i \in DOMAIN Recorded(ws, l) : Recorded(ws, l)[i] = l
<1> DEFINE all == Append(ws, l)
           n   == Len(ws)
<1>1. /\ all \in Seq(Window) /\ n \in Nat /\ Len(all) = n + 1 /\ all # <<>>
      /\ DOMAIN ws = 1 .. n
      /\ \A i \in 1 .. n : all[i] = ws[i]
      /\ all[n + 1] = l
  BY AppendProperties, LenProperties
<1>2. MaxWindows \in Nat /\ MaxWindows > 0
  BY ForecastAssumption
<1> HIDE DEF all, n
<1>3. CASE Len(all) > MaxWindows
  <2>1. /\ Tail(all) \in Seq(Window) /\ Len(Tail(all)) = n
        /\ DOMAIN Tail(all) = 1 .. n
        /\ \A i \in 1 .. n : Tail(all)[i] = all[i + 1]
    BY <1>1, HeadTailProperties, LenProperties
  <2>2. Recorded(ws, l) = Tail(all)
    BY <1>3 DEF Recorded, all
  <2>3. n <= MaxWindows /\ n > 0
    BY <1>1, <1>2, <1>3 DEF n
  <2>4. \A i \in 1 .. n : Tail(all)[i] = l \/ \E j \in 1 .. n : Tail(all)[i] = ws[j]
    <3>1. ASSUME NEW i \in 1 .. n
          PROVE  Tail(all)[i] = l \/ \E j \in 1 .. n : Tail(all)[i] = ws[j]
      <4>1. CASE i = n
        BY <1>1, <2>1, <4>1
      <4>2. CASE i < n
        <5>1. i + 1 \in 1 .. n
          BY <1>1, <4>2
        <5>. QED
          BY <1>1, <2>1, <5>1
      <4>. QED
        BY <1>1, <4>1, <4>2
    <3>. QED
      BY <3>1
  <2>5. n \in 1 .. n /\ Tail(all)[n] = l
    BY <1>1, <2>1, <2>3
  <2>. QED
    BY <1>1, <2>1, <2>2, <2>3, <2>4, <2>5, SMTT(30)
<1>4. CASE Len(all) <= MaxWindows
  <2>1. Recorded(ws, l) = all
    BY <1>1, <1>2, <1>4 DEF Recorded, all
  <2>2. DOMAIN all = 1 .. n + 1
    BY <1>1, LenProperties
  <2>3. \A i \in 1 .. n + 1 : i = n + 1 \/ i \in 1 .. n
    BY <1>1
  <2>. QED
    BY <1>1, <1>4, <2>1, <2>2, <2>3
<1>. QED
  BY <1>1, <1>2, <1>3, <1>4

-----------------------------------------------------------------------------
(* A tick's end.                                                           *)

\* The queue as its elements.
LEMMA QueueIs ==
  ASSUME TypeOK
  PROVE  /\ Len(pending) \in Nat /\ DOMAIN pending = 1 .. Len(pending)
         /\ \A i \in 1 .. Len(pending) :
              pending[i] \in Pending /\ pending[i].age \in 0 .. MaxAge
                /\ pending[i].touched \in BOOLEAN
         /\ Len(windows) \in Nat /\ DOMAIN windows = 1 .. Len(windows)
         /\ \A i \in 1 .. Len(windows) : windows[i] \in Window
<1>1. pending \in Seq(Pending) /\ windows \in Seq(Window)
  BY DEF TypeOK
<1>2. Len(pending) \in Nat /\ DOMAIN pending = 1 .. Len(pending)
  BY <1>1, LenProperties
<1>3. Len(windows) \in Nat /\ DOMAIN windows = 1 .. Len(windows)
  BY <1>1, LenProperties
<1>4. \A i \in 1 .. Len(windows) : windows[i] \in Window
  BY <1>1, ElementOfSeq
<1>5. \A i \in 1 .. Len(pending) : pending[i] \in Pending
  BY <1>1, ElementOfSeq
<1>. QED
  BY <1>2, <1>3, <1>4, <1>5 DEF Pending

\* The predictions whose horizon is over are the head of the queue.
LEMMA RipeIs ==
  ASSUME TypeOK, Fifo
  PROVE  /\ Cardinality(Ripe) \in 0 .. Len(pending)
         /\ Ripe = 1 .. Cardinality(Ripe)
<1> DEFINE n == Len(pending)
           k == Cardinality(Ripe)
<1>0. /\ n \in Nat /\ DOMAIN pending = 1 .. n
      /\ \A i \in 1 .. n : pending[i].age \in Int
      /\ frame \in Int /\ Horizon \in Int
  BY QueueIs, BoundsAreNat DEF TypeOK
<1>1. Ripe \subseteq 1 .. n /\ IsFiniteSet(1 .. n) /\ Cardinality(1 .. n) = n
  BY <1>0, FS_Interval, SMTT(30) DEF Ripe
<1>2. IsFiniteSet(Ripe) /\ k \in Nat /\ k <= n
  BY <1>1, FS_Subset, FS_CardinalityType
<1>3. ASSUME NEW i \in Ripe PROVE i <= k
  <2>1. ASSUME NEW j \in 1 .. i PROVE j \in Ripe
    <3>1. j \in DOMAIN pending /\ i \in DOMAIN pending /\ pending[i].age - frame >= Horizon
      BY <1>0, <1>1 DEF Ripe
    <3>2. j = i \/ pending[j].age > pending[i].age
      <4>1. j < i => pending[j].age > pending[i].age
        BY <3>1 DEF Fifo
      <4>2. i \in Int /\ j \in Int /\ j <= i
        BY <1>0, <1>1
      <4>. QED
        BY <4>1, <4>2
    <3>3. pending[j].age - frame >= Horizon
      BY <1>0, <3>1, <3>2
    <3>. QED
      BY <3>1, <3>3 DEF Ripe
  <2>2. i \in Nat /\ i >= 1
    BY <1>0, <1>1
  <2>3. Cardinality(1 .. i) = i
    BY <2>2, FS_Interval
  <2>4. 1 .. i \in SUBSET Ripe
    BY <2>1
  <2>5. Cardinality(1 .. i) <= Cardinality(Ripe)
    BY <1>2, <2>4, FS_Subset
  <2>. QED
    BY <2>3, <2>5
<1>4. Ripe \in SUBSET (1 .. k)
  BY <1>0, <1>1, <1>3
<1>5. IsFiniteSet(1 .. k) /\ Cardinality(1 .. k) = k
  BY <1>2, FS_Interval
<1>. QED
  BY <1>0, <1>2, <1>4, <1>5, FS_Subset

\* The prediction that this tick appends, and the windows it leaves after checking the
\* first k of the queue.
Pushed == [age |-> frame, touched |-> Armed /\ frame > 0 /\ lease.left + frame >= 1]
WindowsPast(k) == IF k = 0 THEN windows ELSE Pruned(windows, pending[k])

\* The end of a tick: it validates a head of the queue and appends at most one.
LEMMA TickEndIs ==
  ASSUME TypeOK, Fifo, TickEnd
  PROVE  \E k \in 0 .. Len(pending), push \in {<<>>, <<Pushed>>} :
           /\ \A i \in 1 .. k : pending[i].age - frame >= Horizon
           /\ \/ \A i \in k + 1 .. Len(pending) : pending[i].age - frame < Horizon
              \/ \A i \in k + 1 .. Len(pending) : pending[i].age < MaxWait
           /\ validated' = {SampleOf(pending[i]) : i \in 1 .. k}
           /\ pending' = SubSeq(pending, k + 1, Len(pending)) \o push
           /\ \/ lease' \in {lease, NoLease} /\ windows' = WindowsPast(k)
              \/ /\ \E d \in Durations : lease' = [left |-> d + Grace, since |-> 0]
                 /\ windows' = Recorded(WindowsPast(k), lease')
<1>1. PICK reading \in BOOLEAN, useful \in BOOLEAN, eject \in BOOLEAN, d \in Durations \cup {0} :
        LET kept    == IF eject THEN NoLease ELSE Swept(lease)
            checked == Validate(reading)
            left    == SubSeq(pending, Cardinality(checked) + 1, Len(pending))
            ws      == WindowsAfter(checked)
        IN  /\ reading \/ \A i \in DOMAIN pending : pending[i].age < MaxWait
            /\ validated' = {SampleOf(pending[i]) : i \in checked}
            /\ pending' = left \o Push(cache'.useful)
            /\ IF d = 0 \/ SkipRearm(kept)
               THEN lease' = kept /\ windows' = ws
               ELSE /\ lease' = [left |-> d + Grace, since |-> 0]
                    /\ windows' = Recorded(ws, lease')
  BY ZenonT(30) DEF TickEnd
<1> DEFINE kept    == IF eject THEN NoLease ELSE Swept(lease)
           checked == Validate(reading)
           k       == Cardinality(checked)
           push    == Push(cache'.useful)
<1>2. Len(pending) \in Nat /\ DOMAIN pending = 1 .. Len(pending)
      /\ (\A i \in DOMAIN pending : pending[i].age \in Int) /\ frame \in Int /\ Horizon \in Int
  <2>1. /\ Len(pending) \in Nat /\ DOMAIN pending = 1 .. Len(pending)
        /\ \A i \in 1 .. Len(pending) : pending[i].age \in 0 .. MaxAge
    BY QueueIs
  <2>2. frame \in Int /\ Horizon \in Int
    BY BoundsAreNat DEF TypeOK
  <2>. QED
    BY <2>1, <2>2
<1>3. k \in 0 .. Len(pending) /\ checked = 1 .. k
  <2>1. CASE reading
    BY <2>1, RipeIs DEF Validate
  <2>2. CASE ~reading
    BY <1>2, <2>2, FS_EmptySet DEF Validate
  <2>. QED
    BY <2>1, <2>2
<1>4. \A i \in 1 .. k : pending[i].age - frame >= Horizon
  BY <1>3 DEF Validate, Ripe
<1>5. \/ \A i \in k + 1 .. Len(pending) : pending[i].age - frame < Horizon
      \/ \A i \in k + 1 .. Len(pending) : pending[i].age < MaxWait
  <2>1. CASE reading
    <3>1. checked = Ripe
      BY <2>1 DEF Validate
    <3>2. ASSUME NEW i \in k + 1 .. Len(pending) PROVE pending[i].age - frame < Horizon
      <4>1. i \notin Ripe /\ i \in DOMAIN pending
        BY <1>2, <1>3, <3>1
      <4>. QED
        BY <1>2, <4>1 DEF Ripe
    <3>. QED
      BY <3>2
  <2>2. CASE ~reading
    <3>1. \A i \in DOMAIN pending : pending[i].age < MaxWait
      BY <1>1, <2>2
    <3>2. k + 1 .. Len(pending) \subseteq DOMAIN pending
      BY <1>2, <1>3
    <3>. QED
      BY <3>1, <3>2
  <2>. QED
    BY <2>1, <2>2
<1>6. push \in {<<>>, <<Pushed>>}
  BY DEF Push, Pushed
<1>7. kept \in {lease, NoLease}
  BY DEF Swept
<1>8. WindowsAfter(checked) = WindowsPast(k)
  <2>1. checked = {} <=> k = 0
    BY <1>3
  <2>. QED
    BY <2>1 DEF WindowsAfter, WindowsPast
<1>9. \/ lease' = kept /\ windows' = WindowsAfter(checked)
      \/ /\ d \in Durations /\ lease' = [left |-> d + Grace, since |-> 0]
         /\ windows' = Recorded(WindowsAfter(checked), lease')
  BY <1>1
<1>10. /\ validated' = {SampleOf(pending[i]) : i \in checked}
       /\ pending' = SubSeq(pending, k + 1, Len(pending)) \o push
  BY <1>1
<1> HIDE DEF kept, checked, k, push
<1>11. \/ lease' \in {lease, NoLease} /\ windows' = WindowsPast(k)
       \/ /\ \E e \in Durations : lease' = [left |-> e + Grace, since |-> 0]
          /\ windows' = Recorded(WindowsPast(k), lease')
  BY <1>7, <1>8, <1>9
<1>12. validated' = {SampleOf(pending[i]) : i \in 1 .. k}
  BY <1>3, <1>10
<1>. QED
  BY <1>3, <1>4, <1>5, <1>6, <1>10, <1>11, <1>12

-----------------------------------------------------------------------------
(* A unit of time.                                                         *)

\* A function on 1 .. n is a sequence of length n.
LEMMA FunctionIsSeq ==
  ASSUME NEW S, NEW n \in Nat, NEW f \in [1 .. n -> S]
  PROVE  f \in Seq(S) /\ Len(f) = n /\ DOMAIN f = 1 .. n
<1>1. f \in Seq(S)
  BY SeqDef
<1>2. DOMAIN f = 1 .. Len(f) /\ Len(f) \in Nat
  BY <1>1, LenProperties
<1>3. 1 .. n = 1 .. Len(f)
  BY <1>2
<1>4. n = Len(f)
  <2>1. CASE n = 0
    BY <1>2, <1>3, <2>1
  <2>2. CASE n > 0
    <3>1. n \in 1 .. Len(f)
      BY <1>3, <2>2
    <3>2. Len(f) \in 1 .. n
      BY <1>2, <1>3, <3>1
    <3>. QED
      BY <1>2, <3>1, <3>2
  <2>. QED
    BY <2>1, <2>2
<1>. QED
  BY <1>1, <1>2, <1>4

\* Every prediction ages by the unit, for no cap is met; so does every window.
LEMMA ElapseIs ==
  ASSUME TypeOK, Shape, Fifo, Elapse
  PROVE  /\ pending' \in Seq(Pending) /\ Len(pending') = Len(pending)
         /\ DOMAIN pending' = DOMAIN pending
         /\ \A i \in DOMAIN pending :
              /\ pending'[i].age = pending[i].age + 1
              /\ pending'[i].touched = (pending[i].touched \/ (Armed /\ lease.left >= 1))
         /\ windows' \in Seq(Window) /\ Len(windows') = Len(windows)
         /\ DOMAIN windows' = DOMAIN windows
         /\ \A i \in DOMAIN windows :
              /\ windows'[i].since = CapAt(windows[i].since + 1, MaxLag)
              /\ windows'[i].left = IF windows[i].left = -(MaxAge + Cutoff + 1)
                                    THEN windows[i].left ELSE windows[i].left - 1
<1>1. /\ Len(pending) \in Nat /\ DOMAIN pending = 1 .. Len(pending)
      /\ \A i \in 1 .. Len(pending) :
              pending[i].age \in 0 .. MaxAge /\ pending[i].touched \in BOOLEAN
  BY QueueIs
<1>2. /\ Len(windows) \in Nat /\ DOMAIN windows = 1 .. Len(windows)
      /\ \A i \in 1 .. Len(windows) : windows[i] \in Window
  BY QueueIs
<1>3. ASSUME NEW i \in DOMAIN pending PROVE pending[i].age + 1 <= MaxAge
  <2>1. up
    <3>1. ~up => DOMAIN pending = {}
      BY <1>1 DEF Shape
    <3>. QED
      BY <3>1
  <2>2. pending[i].age - gap <= Horizon + MaxWait + (IF phase = "idle" THEN 0 ELSE MaxGap + MaxLag)
    BY DEF Fifo
  <2>3. pending[i].age \in Int /\ gap \in Int /\ frame \in Int
    BY <1>1 DEF TypeOK
  <2>4. CASE phase = "idle"
    <3>1. gap < MaxGap
      BY <2>1, <2>4 DEF Elapse
    <3>. QED
      BY <2>2, <2>3, <2>4, <3>1, BoundsAreNat
  <2>5. CASE phase = "sampling"
    <3>1. frame < MaxLag /\ gap = frame
      BY <2>1, <2>5 DEF Elapse, Shape
    <3>. QED
      BY <2>2, <2>3, <2>5, <3>1, BoundsAreNat
  <2>. QED
    BY <2>4, <2>5 DEF TypeOK
<1>4. ASSUME NEW i \in DOMAIN pending PROVE CapAt(pending[i].age + 1, MaxAge) = pending[i].age + 1
  <2>1. pending[i].age + 1 \in Int /\ MaxAge \in Int
    BY <1>1, BoundsAreNat
  <2>. QED
    BY <1>3, <2>1, CapAtIs
<1>5. pending' = [i \in DOMAIN pending |->
                    [age |-> CapAt(pending[i].age + 1, MaxAge),
                     touched |-> pending[i].touched \/ (Armed /\ lease.left >= 1)]]
  BY DEF Elapse
<1>6. pending' \in [1 .. Len(pending) -> Pending]
  <2>1. ASSUME NEW i \in 1 .. Len(pending)
        PROVE  [age |-> CapAt(pending[i].age + 1, MaxAge),
                touched |-> pending[i].touched \/ (Armed /\ lease.left >= 1)] \in Pending
    <3>1. pending[i].age + 1 \in 0 .. MaxAge
      BY <1>1, <1>3, BoundsAreNat
    <3>2. (pending[i].touched \/ (Armed /\ lease.left >= 1)) \in BOOLEAN
      OBVIOUS
    <3>3. CapAt(pending[i].age + 1, MaxAge) \in 0 .. MaxAge
      BY <1>1, <1>4, <3>1
    <3>. QED
      BY <3>2, <3>3 DEF Pending
  <2>. QED
    BY <1>1, <1>5, <2>1
<1>7. windows' = [i \in DOMAIN windows |->
                   [left  |-> IF windows[i].left = -(MaxAge + Cutoff + 1)
                              THEN windows[i].left ELSE windows[i].left - 1,
                    since |-> CapAt(windows[i].since + 1, MaxLag)]]
  BY DEF Elapse
<1>8. windows' \in [1 .. Len(windows) -> Window]
  <2>1. ASSUME NEW w \in Window
        PROVE  [left  |-> IF w.left = -(MaxAge + Cutoff + 1) THEN w.left ELSE w.left - 1,
                since |-> CapAt(w.since + 1, MaxLag)] \in Window
    <3>1. (IF w.left = -(MaxAge + Cutoff + 1) THEN w.left ELSE w.left - 1) \in Left
      BY WindowIs, BoundsAreNat, LongestIs DEF Left
    <3>2. CapAt(w.since + 1, MaxLag) \in Since
      BY WindowIs, BoundsAreNat DEF CapAt, Since
    <3>. QED
      BY <3>1, <3>2 DEF Window
  <2>. QED
    BY <1>2, <1>7, <2>1
<1>9. pending' \in Seq(Pending) /\ Len(pending') = Len(pending) /\ DOMAIN pending' = DOMAIN pending
  BY <1>1, <1>6, FunctionIsSeq
<1>10. windows' \in Seq(Window) /\ Len(windows') = Len(windows) /\ DOMAIN windows' = DOMAIN windows
  BY <1>2, <1>8, FunctionIsSeq
<1>. QED
  BY <1>4, <1>5, <1>7, <1>9, <1>10

LEMMA NextShape ==
  ASSUME TypeOK, Shape, [Next]_vars
  PROVE  Shape'
<1> USE DEF Shape
<1>1. CASE Elapse
  <2>1. phase' = phase /\ up' = up /\ inflight' = inflight
    BY <1>1 DEF Elapse
  <2>2. ~up => pending' = <<>> /\ windows' = <<>> /\ cache' = NoCache /\ task' = NoTask
    <3> SUFFICES ASSUME ~up
                 PROVE  pending' = <<>> /\ windows' = <<>> /\ cache' = NoCache /\ task' = NoTask
      OBVIOUS
    <3>1. pending = <<>> /\ windows = <<>> /\ cache = NoCache /\ task = NoTask
      OBVIOUS
    <3>2. cache' = NoCache /\ task' = NoTask
      BY <1>1, <3>1 DEF Elapse
    <3>3. DOMAIN pending = {} /\ DOMAIN windows = {}
      BY <3>1
    <3>4. pending' = <<>>
      BY <1>1, <3>3 DEF Elapse
    <3>5. windows' = <<>>
      BY <1>1, <3>3 DEF Elapse
    <3>. QED
      BY <3>2, <3>4, <3>5
  <2>3. phase = "idle" => frame' = 0
    BY <1>1 DEF Elapse
  <2>4. phase = "sampling" => gap' = frame'
    BY <1>1 DEF Elapse
  <2>5. inflight' = (task' # NoTask)
    <3>1. task \in Int /\ task >= -1
      BY BoundsAreNat DEF TypeOK
    <3>2. task' # NoTask <=> task # NoTask
      BY <1>1, <3>1 DEF Elapse, NoTask
    <3>. QED
      BY <2>1, <3>2
  <2>. QED
    BY <2>1, <2>2, <2>3, <2>4, <2>5
<1>2. CASE RefreshDone \/ RefreshFails
  BY <1>2 DEF RefreshDone, RefreshFails
<1>3. CASE TickBegin
  BY <1>3 DEF TickBegin
<1>4. CASE TickEnd
  <2>1. PICK useful \in BOOLEAN : Predict(useful)
    BY <1>4 DEF TickEnd
  <2>2. inflight' = (task' # NoTask)
    <3>1. frame # NoTask
      BY BoundsAreNat DEF TypeOK, NoTask
    <3>2. (inflight' = inflight /\ task' = task) \/ (inflight' = TRUE /\ task' = frame)
      BY <2>1 DEF Predict
    <3>3. CASE inflight' = inflight /\ task' = task
      BY <3>3
    <3>4. CASE inflight' = TRUE /\ task' = frame
      BY <3>1, <3>4
    <3>. QED
      BY <3>2, <3>3, <3>4
  <2>. QED
    BY <1>4, <2>2 DEF TickEnd
<1>5. CASE Stop \/ Kill
  BY <1>5 DEF Stop, Kill, Forget
<1>6. CASE Restart
  BY <1>6 DEF Restart
<1>7. CASE UNCHANGED vars
  BY <1>7 DEF vars
<1>. QED
  BY <1>1, <1>2, <1>3, <1>4, <1>5, <1>6, <1>7 DEF Next

-----------------------------------------------------------------------------
(* The queue.                                                              *)

\* What is left of the queue when its first k are taken and one more may be put.
LEMMA LeftIs ==
  ASSUME TypeOK, NEW k \in 0 .. Len(pending), NEW push \in {<<>>, <<Pushed>>}
  PROVE  LET n    == Len(pending)
             rest == SubSeq(pending, k + 1, n) \o push
         IN  /\ rest \in Seq(Pending)
             /\ DOMAIN rest = 1 .. Len(rest)
             /\ push = <<>> => Len(rest) = n - k
             /\ push = <<Pushed>> => Len(rest) = n - k + 1 /\ rest[n - k + 1] = Pushed
             /\ \A i \in 1 .. n - k : rest[i] = pending[k + i]
<1> DEFINE n    == Len(pending)
           left == SubSeq(pending, k + 1, n)
<1>1. n \in Nat /\ \A i \in 1 .. n : pending[i] \in Pending
  BY QueueIs
<1>2. /\ left \in Seq(Pending) /\ Len(left) = n - k
      /\ \A i \in 1 .. n - k : left[i] = pending[k + i]
  <2>1. \A i \in k + 1 .. n : pending[i] \in Pending
    BY <1>1
  <2>2. /\ left \in Seq(Pending) /\ Len(left) = IF k + 1 <= n THEN n - (k + 1) + 1 ELSE 0
        /\ \A i \in 1 .. n - (k + 1) + 1 : left[i] = pending[k + 1 + i - 1]
    BY <1>1, <2>1, SubSeqProperties
  <2>. QED
    BY <1>1, <2>2
<1>3. Pushed \in Pending
  <2>1. frame \in 0 .. MaxAge
    BY BoundsAreNat DEF TypeOK
  <2>. QED
    BY <2>1 DEF Pushed, Pending
<1>4. push \in Seq(Pending) /\ (push = <<>> => Len(push) = 0)
      /\ (push = <<Pushed>> => Len(push) = 1 /\ push[1] = Pushed)
  <2>1. CASE push = <<>>
    <3>1. push # <<Pushed>>
      BY <2>1
    <3>. QED
      BY <2>1, <3>1, EmptySeq
  <2>2. CASE push = <<Pushed>>
    <3> HIDE DEF Pushed
    <3>1. <<Pushed>> \in Seq(Pending) /\ Len(<<Pushed>>) = 1 /\ <<Pushed>>[1] = Pushed
      BY <1>3
    <3>2. push # <<>>
      BY <2>2
    <3>. QED
      BY <2>2, <3>1, <3>2
  <2>. QED
    BY <2>1, <2>2
<1> HIDE DEF left, n
<1>5. /\ left \o push \in Seq(Pending)
      /\ Len(left \o push) = Len(left) + Len(push)
      /\ \A i \in 1 .. Len(left) + Len(push) :
           (left \o push)[i] = IF i <= Len(left) THEN left[i] ELSE push[i - Len(left)]
  BY <1>2, <1>4, ConcatProperties
<1>6. DOMAIN (left \o push) = 1 .. Len(left \o push)
  BY <1>5, LenProperties
<1>7. n - k \in Nat
  BY <1>1 DEF n
<1>8. ASSUME NEW i \in 1 .. n - k PROVE (left \o push)[i] = pending[k + i]
  <2>1. Len(push) \in Nat
    BY <1>4
  <2>2. i \in 1 .. Len(left) + Len(push) /\ i <= Len(left)
    BY <1>2, <1>7, <2>1
  <2>. QED
    BY <1>2, <1>5, <2>2
<1>9. push = <<Pushed>> => Len(left \o push) = n - k + 1 /\ (left \o push)[n - k + 1] = Pushed
  BY <1>2, <1>4, <1>5, <1>7
<1>10. push = <<>> => Len(left \o push) = n - k
  BY <1>2, <1>4, <1>5, <1>7
<1>. QED
  BY <1>5, <1>6, <1>8, <1>9, <1>10 DEF left, n

LEMMA NextFifo ==
  ASSUME TypeOK, Shape, Fifo, [Next]_vars
  PROVE  Fifo'
<1>0. /\ Len(pending) \in Nat /\ DOMAIN pending = 1 .. Len(pending)
      /\ \A i \in 1 .. Len(pending) : pending[i].age \in Int
      /\ gap \in Nat /\ gap <= MaxGap + MaxLag /\ frame \in Nat
  <2>1. /\ Len(pending) \in Nat /\ DOMAIN pending = 1 .. Len(pending)
        /\ \A i \in 1 .. Len(pending) : pending[i].age \in 0 .. MaxAge
    BY QueueIs
  <2>. QED
    BY <2>1, BoundsAreNat DEF TypeOK
<1>1. CASE Elapse
  <2>1. /\ Len(pending') = Len(pending) /\ DOMAIN pending' = DOMAIN pending
        /\ \A i \in DOMAIN pending : pending'[i].age = pending[i].age + 1
    BY <1>1, ElapseIs
  <2>2. CASE DOMAIN pending = {}
    BY <2>1, <2>2 DEF Fifo
  <2>3. CASE DOMAIN pending # {}
    <3>1. up
      <4>1. ~up => DOMAIN pending = {}
        BY DEF Shape
      <4>. QED
        BY <2>3, <4>1
    <3>2. gap' = gap + 1 /\ phase' = phase
      BY <1>1, <3>1 DEF Elapse
    <3>3. \A i \in DOMAIN pending : pending'[i].age - gap' = pending[i].age - gap
      BY <1>0, <2>1, <3>2
    <3>4. \A i, j \in DOMAIN pending : i < j => pending'[i].age > pending'[j].age
      BY <1>0, <2>1, SMTT(30) DEF Fifo
    <3>. QED
      BY <2>1, <3>2, <3>3, <3>4 DEF Fifo
  <2>. QED
    BY <2>2, <2>3
<1>2. CASE RefreshDone \/ RefreshFails \/ Restart \/ UNCHANGED vars
  BY <1>2 DEF RefreshDone, RefreshFails, Restart, vars, Fifo
<1>3. CASE TickBegin
  <2>1. phase = "idle" /\ gap > 0 /\ phase' = "sampling" /\ gap' = 0 /\ pending' = pending
    BY <1>3 DEF TickBegin
  <2>2. ASSUME NEW i \in DOMAIN pending
        PROVE  /\ pending[i].age >= Len(pending) - i + 1
               /\ pending[i].age <= Horizon + MaxWait + MaxGap + MaxLag
    <3>1. /\ pending[i].age - gap >= Len(pending) - i + 0
          /\ pending[i].age - gap <= Horizon + MaxWait + 0
      BY <2>1 DEF Fifo
    <3>2. i \in Int /\ pending[i].age \in Int /\ Len(pending) \in Int /\ gap \in Int
      BY <1>0
    <3>. QED
      BY <1>0, <2>1, <3>1, <3>2, BoundsAreInt, SMTT(30)
  <2>3. \A i \in DOMAIN pending : pending[i].age - 0 = pending[i].age
    BY <1>0
  <2>. QED
    BY <2>1, <2>2, <2>3, BoundsAreInt DEF Fifo
<1>4. CASE TickEnd
  <2>1. PICK k \in 0 .. Len(pending), push \in {<<>>, <<Pushed>>} :
           /\ \/ \A i \in k + 1 .. Len(pending) : pending[i].age - frame < Horizon
              \/ \A i \in k + 1 .. Len(pending) : pending[i].age < MaxWait
           /\ pending' = SubSeq(pending, k + 1, Len(pending)) \o push
    BY <1>4, TickEndIs
  <2> DEFINE n == Len(pending)
  <2>2. /\ DOMAIN pending' = 1 .. Len(pending')
        /\ push = <<>> => Len(pending') = n - k
        /\ push = <<Pushed>> => Len(pending') = n - k + 1 /\ pending'[n - k + 1] = Pushed
        /\ \A i \in 1 .. n - k : pending'[i] = pending[k + i]
    BY <2>1, LeftIs
  <2>3. phase = "sampling" /\ phase' = "idle" /\ gap' = gap /\ gap = frame
    BY <1>4 DEF TickEnd, Shape
  <2>4. Pushed.age = gap
    BY <2>3 DEF Pushed
  <2> HIDE DEF n
  <2>5. /\ Len(pending') \in Int /\ n - k <= Len(pending') /\ Len(pending') <= n - k + 1
        /\ Len(pending') = n - k \/ Len(pending') = n - k + 1
        /\ n - k \in Nat /\ n \in Int /\ k \in Int
    <3>1. n \in Nat /\ k \in Nat /\ k <= n
      BY <1>0 DEF n
    <3>2. n - k \in Nat
      BY <3>1
    <3>3. Len(pending') = n - k \/ Len(pending') = n - k + 1
      BY <2>1, <2>2
    <3>. QED
      BY <3>1, <3>2, <3>3
  <2>6. ASSUME NEW i \in 1 .. n - k
        PROVE  /\ pending'[i].age = pending[k + i].age /\ k + i \in DOMAIN pending
               /\ pending'[i].age \in Int /\ pending'[i].age - gap >= n - k - i + 1
               /\ pending'[i].age < gap + Horizon \/ pending'[i].age < MaxWait
    <3>1. k + i \in k + 1 .. n /\ k + i \in DOMAIN pending
      BY <1>0 DEF n
    <3>2. pending'[i] = pending[k + i] /\ pending[k + i].age \in Int
      BY <1>0, <2>2, <3>1
    <3>3. pending[k + i].age - gap >= n - (k + i) + 1
      BY <2>3, <3>1 DEF Fifo, n
    <3>4. pending[k + i].age - gap < Horizon \/ pending[k + i].age < MaxWait
      BY <2>1, <2>3, <3>1 DEF n
    <3>5. gap \in Int /\ n \in Int /\ k \in Int /\ i \in Int
      BY <1>0, <2>5
    <3> DEFINE a == pending[k + i].age
    <3>6. pending'[i].age = a /\ a \in Int
      BY <3>2
    <3>7. a - gap >= n - k - i + 1
      <4>1. a - gap >= n - (k + i) + 1
        BY <3>3
      <4> HIDE DEF a
      <4>. QED
        BY <3>5, <3>6, <4>1
    <3>8. a < gap + Horizon \/ a < MaxWait
      <4>1. a - gap < Horizon \/ a < MaxWait
        BY <3>4
      <4> HIDE DEF a
      <4>. QED
        BY <3>5, <3>6, <4>1, BoundsAreInt
    <3>. QED
      BY <3>1, <3>6, <3>7, <3>8
  <2>7. Len(pending') <= Horizon + MaxWait
    <3>1. CASE n - k = 0
      BY <2>5, <3>1, BoundsAreInt
    <3>2. CASE n - k > 0
      <4>1. 1 \in 1 .. n - k
        BY <2>5, <3>2
      <4>2. /\ pending'[1].age \in Int /\ pending'[1].age - gap >= n - k - 1 + 1
            /\ pending'[1].age < gap + Horizon \/ pending'[1].age < MaxWait
        BY <2>6, <4>1
      <4>. QED
        BY <1>0, <2>5, <3>2, <4>2, BoundsAreInt
    <3>. QED
      BY <2>5, <3>1, <3>2
  <2>8. ASSUME NEW i \in DOMAIN pending'
        PROVE  /\ pending'[i].age - gap' >= Len(pending') - i + 0
               /\ pending'[i].age - gap' <= Horizon + MaxWait + 0
    <3>1. CASE i \in 1 .. n - k
      <4>1. /\ pending'[i].age \in Int /\ pending'[i].age - gap >= n - k - i + 1
            /\ pending'[i].age < gap + Horizon \/ pending'[i].age < MaxWait
        BY <2>6, <3>1
      <4>2. i \in Int /\ gap' = gap /\ gap \in Int
        BY <1>0, <2>3, <2>5, <3>1
      <4>3. pending'[i].age - gap >= Len(pending') - i + 0
        <5>1. Len(pending') <= n - k + 1 /\ Len(pending') \in Int /\ n - k \in Int
          BY <2>5
        <5>. QED
          BY <4>1, <4>2, <5>1, SMTT(30)
      <4>4. pending'[i].age - gap <= Horizon + MaxWait + 0
        BY <4>1, <4>2, <1>0, BoundsAreInt
      <4>. QED
        BY <4>2, <4>3, <4>4
    <3>2. CASE i \notin 1 .. n - k
      <4>1. push = <<Pushed>> /\ i = n - k + 1 /\ Len(pending') = i
        BY <2>1, <2>2, <2>5, <3>2, SMTT(30)
      <4>2. pending'[i].age = gap
        BY <2>2, <2>4, <4>1
      <4>. QED
        BY <1>0, <2>3, <2>5, <4>1, <4>2, BoundsAreInt
    <3>. QED
      BY <3>1, <3>2
  <2>9. ASSUME NEW i \in DOMAIN pending', NEW j \in DOMAIN pending', i < j
        PROVE  pending'[i].age > pending'[j].age
    <3>1. i \in 1 .. n - k
      BY <2>2, <2>5, <2>9
    <3>2. CASE j \in 1 .. n - k
      <4>1. k + i < k + j /\ k + i \in DOMAIN pending /\ k + j \in DOMAIN pending
        <5>1. i \in Int /\ j \in Int /\ k \in Int
          BY <2>5, <3>1, <3>2
        <5>2. k + i < k + j
          BY <2>9, <5>1
        <5>. QED
          BY <2>6, <3>1, <3>2, <5>2
      <4>2. pending[k + i].age > pending[k + j].age
        BY <4>1 DEF Fifo
      <4>. QED
        BY <2>6, <3>1, <3>2, <4>2
    <3>3. CASE j \notin 1 .. n - k
      <4>1. push = <<Pushed>> /\ j = n - k + 1
        <5>1. j \in 1 .. Len(pending')
          BY <2>2, <2>9
        <5>2. j = n - k + 1 /\ Len(pending') # n - k
          BY <2>5, <3>3, <5>1
        <5>. QED
          BY <2>1, <2>2, <5>2
      <4>2. pending'[j].age = gap
        BY <2>2, <2>4, <4>1
      <4>3. pending'[i].age \in Int /\ pending'[i].age - gap >= n - k - i + 1
        BY <2>6, <3>1
      <4>. QED
        BY <1>0, <2>5, <3>1, <4>2, <4>3
    <3>. QED
      BY <3>2, <3>3
  <2>. QED
    BY <2>3, <2>7, <2>8, <2>9 DEF Fifo
<1>5. CASE Stop \/ Kill
  <2>1. pending' = <<>>
    BY <1>5 DEF Stop, Kill, Forget
  <2>2. Len(pending') = 0 /\ DOMAIN pending' = {}
    BY <2>1
  <2>. QED
    BY <2>2, BoundsAreInt DEF Fifo
<1>. QED
  BY <1>1, <1>2, <1>3, <1>4, <1>5 DEF Next

-----------------------------------------------------------------------------
(* The types.                                                              *)

LEMMA MaxBasisIs ==
  MaxBasis \in Nat /\ MaxBasis >= RefreshEvery + 2 * MaxLatency + 2 * MaxGap
<1>1. MaxFails \in Nat /\ RefreshEvery \in Nat /\ MaxLatency + MaxGap \in Nat
  BY ForecastAssumption
<1>2. MaxFails * (MaxLatency + MaxGap) \in Nat
  BY <1>1
<1>3. (MaxFails + 2) * (MaxLatency + MaxGap)
        = MaxFails * (MaxLatency + MaxGap) + 2 * (MaxLatency + MaxGap)
  BY <1>1
<1>. QED
  BY <1>1, <1>2, <1>3, ForecastAssumption DEF MaxBasis

\* A lease that was armed is a window, and so is none.
LEMMA LeaseIs ==
  /\ NoLease \in Window
  /\ \A d \in Durations : [left |-> d + Grace, since |-> 0] \in Window
<1>1. -(MaxAge + Cutoff + 1) \in Left /\ 0 \in Since
  BY BoundsAreNat, LongestIs DEF Left, Since
<1>2. \A d \in Durations : d + Grace \in Left
  <2>1. ASSUME NEW d \in Durations PROVE d + Grace \in Left
    <3>1. d \in Nat /\ d <= Longest /\ Longest \in Nat
      BY ForecastAssumption, LongestIs
    <3>. QED
      BY <3>1, BoundsAreNat DEF Left
  <2>. QED
    BY <2>1
<1>. QED
  BY <1>1, <1>2 DEF NoLease, Window

LEMMA NextTypes ==
  ASSUME TypeOK, Shape, Fifo, [Next]_vars, Fifo'
  PROVE  TypeOK'
<1> DEFINE Caches == [age : -1 .. RefreshEvery + 1, basis : -1 .. MaxBasis + 1, useful : BOOLEAN]
<1>1. /\ RefreshEvery \in Nat /\ MaxBasis \in Nat /\ MaxLatency \in Nat /\ MaxLag \in Nat
      /\ MaxGap \in Nat /\ MaxFails \in Nat /\ MaxLag <= MaxLatency /\ MaxLatency <= MaxBasis
      /\ Horizon + MaxWait <= MaxAge + 1 /\ MaxWindows \in Nat /\ MaxWindows > 0
  BY BoundsAreNat, MaxBasisIs, ForecastAssumption
<1>2. /\ up \in BOOLEAN /\ phase \in {"idle", "sampling"} /\ inflight \in BOOLEAN
      /\ frame \in 0 .. MaxLag /\ gap \in 0 .. MaxGap + MaxLag
      /\ lease \in Window /\ cache \in Caches /\ task \in -1 .. MaxLatency
      /\ windows \in Seq(Window) /\ Len(windows) <= MaxWindows
      /\ pending \in Seq(Pending) /\ Len(windows) \in Nat
      /\ fails \in 0 .. MaxFails
  BY QueueIs DEF TypeOK
<1>3. NoCache \in Caches
  BY <1>1 DEF NoCache
<1>4. \A b \in BOOLEAN, t \in 0 .. MaxLatency : [age |-> 0, basis |-> t, useful |-> b] \in Caches
  <2>1. \A t \in 0 .. MaxLatency : t \in -1 .. MaxBasis + 1
    BY <1>1
  <2>2. 0 \in -1 .. RefreshEvery + 1
    BY <1>1
  <2>. QED
    BY <2>1, <2>2
<1>5. pending' \in Seq(Pending) => Len(pending') <= MaxAge + 1
  <2>1. pending' \in Seq(Pending) => Len(pending') \in Nat
    BY LenProperties
  <2>2. Len(pending') <= Horizon + MaxWait
    BY DEF Fifo
  <2>. QED
    BY <2>1, <2>2, BoundsAreNat
<1>6. task # NoTask => task \in 0 .. MaxLatency
  BY <1>1, <1>2 DEF NoTask
<1>7. <<>> \in Seq(Window) /\ <<>> \in Seq(Pending) /\ Len(<<>>) = 0
  OBVIOUS
<1> HIDE DEF Caches
<1>8. CASE Elapse
  <2>1. pending' \in Seq(Pending) /\ windows' \in Seq(Window) /\ Len(windows') = Len(windows)
    BY <1>8, ElapseIs
  <2>2. frame' \in 0 .. MaxLag
    <3>1. phase = "sampling" => up
      BY DEF Shape
    <3>2. CASE phase = "sampling"
      <4>1. frame < MaxLag /\ frame' = frame + 1
        BY <1>8, <3>1, <3>2 DEF Elapse
      <4>. QED
        BY <1>1, <1>2, <4>1
    <3>3. CASE phase # "sampling"
      BY <1>2, <1>8, <3>3 DEF Elapse
    <3>. QED
      BY <3>2, <3>3
  <2>3. gap' \in 0 .. MaxGap + MaxLag
    <3>1. CASE up
      <4>1. gap < MaxGap + MaxLag /\ gap' = gap + 1
        BY <1>8, <3>1 DEF Elapse
      <4>. QED
        BY <1>1, <1>2, <4>1
    <3>2. CASE ~up
      <4>1. gap' = gap
        BY <1>8, <3>2 DEF Elapse
      <4>. QED
        BY <1>2, <4>1
    <3>. QED
      BY <3>1, <3>2
  <2>4. lease' \in Window
    <3>1. CASE Armed
      <4>1. lease.left \in Int /\ -(MaxAge + Cutoff + 1) <= lease.left
            /\ lease.left <= Longest + Grace /\ lease.since \in Nat /\ Longest \in Nat
        BY <1>2, WindowIs, LongestIs
      <4>2. (IF lease.left < -MaxLag THEN lease.left ELSE lease.left - 1) \in Left
        BY <4>1, BoundsAreNat DEF Left
      <4>3. CapAt(lease.since + 1, MaxLag) \in Since
        BY <4>1, BoundsAreNat DEF CapAt, Since
      <4>4. lease' = [left  |-> IF lease.left < -MaxLag THEN lease.left ELSE lease.left - 1,
                      since |-> CapAt(lease.since + 1, MaxLag)]
        BY <1>8, <3>1 DEF Elapse
      <4>. QED
        BY <4>2, <4>3, <4>4 DEF Window
    <3>2. CASE ~Armed
      BY <1>2, <1>8, <3>2 DEF Elapse
    <3>. QED
      BY <3>1, <3>2
  <2>5. cache' \in Caches
    <3>1. CASE cache = NoCache
      BY <1>3, <1>8, <3>1 DEF Elapse
    <3>2. CASE cache # NoCache
      <4>1. cache.age \in -1 .. RefreshEvery + 1 /\ cache.basis \in -1 .. MaxBasis + 1
            /\ cache = [age |-> cache.age, basis |-> cache.basis, useful |-> cache.useful]
            /\ cache.useful \in BOOLEAN
        BY <1>2 DEF Caches
      <4>2. CapAt(cache.age + 1, RefreshEvery + 1) \in -1 .. RefreshEvery + 1
        BY <1>1, <4>1 DEF CapAt
      <4>3. CapAt(cache.basis + 1, MaxBasis + 1) \in -1 .. MaxBasis + 1
        BY <1>1, <4>1 DEF CapAt
      <4>4. cache' = [cache EXCEPT !.age = CapAt(cache.age + 1, RefreshEvery + 1),
                                   !.basis = CapAt(cache.basis + 1, MaxBasis + 1)]
        BY <1>8, <3>2 DEF Elapse
      <4>. QED
        BY <1>2, <4>2, <4>3, <4>4 DEF Caches
    <3>. QED
      BY <3>1, <3>2
  <2>6. task' \in -1 .. MaxLatency
    <3>1. task # NoTask => up
      BY DEF Shape
    <3>2. task # NoTask => task < MaxLatency /\ task' = task + 1
      BY <1>8, <3>1 DEF Elapse
    <3>3. task = NoTask => task' = task
      BY <1>8 DEF Elapse
    <3>. QED
      BY <1>1, <1>2, <3>2, <3>3
  <2>7. up' = up /\ phase' = phase /\ inflight' = inflight /\ validated' = validated
        /\ fails' = fails
    BY <1>8 DEF Elapse
  <2>. QED
    BY <1>5, <2>1, <2>2, <2>3, <2>4, <2>5, <2>6, <2>7 DEF TypeOK, Caches
<1>9. CASE RefreshDone
  <2>1. cache' \in Caches
    BY <1>4, <1>6, <1>9 DEF RefreshDone
  <2>2. inflight' \in BOOLEAN /\ task' \in -1 .. MaxLatency /\ fails' \in 0 .. MaxFails
    <3>1. inflight' = FALSE /\ task' = -1 /\ fails' = 0
      BY <1>9 DEF RefreshDone, NoTask
    <3>2. -1 \in -1 .. MaxLatency /\ 0 \in 0 .. MaxFails
      BY <1>1
    <3>. QED
      BY <3>1, <3>2
  <2>3. UNCHANGED <<up, phase, frame, gap, lease, windows, pending, validated>>
    BY <1>9 DEF RefreshDone
  <2>. QED
    BY <2>1, <2>2, <2>3 DEF TypeOK, Caches
<1>10. CASE RefreshFails
  <2>1. inflight' \in BOOLEAN /\ task' \in -1 .. MaxLatency /\ fails' \in 0 .. MaxFails
    <3>1. inflight' = FALSE /\ task' = -1 /\ fails' = fails + 1 /\ fails < MaxFails
      BY <1>10 DEF RefreshFails, NoTask
    <3>2. -1 \in -1 .. MaxLatency
      BY <1>1
    <3>3. fails + 1 \in 0 .. MaxFails
      BY <1>1, <1>2, <3>1
    <3>. QED
      BY <3>1, <3>2, <3>3
  <2>2. UNCHANGED <<up, phase, frame, gap, lease, windows, pending, cache, validated>>
    BY <1>10 DEF RefreshFails
  <2>. QED
    BY <2>1, <2>2 DEF TypeOK
<1>11. CASE TickBegin
  <2>1. phase' \in {"idle", "sampling"} /\ frame' \in 0 .. MaxLag
        /\ gap' \in 0 .. MaxGap + MaxLag /\ validated' \subseteq Sample
    BY <1>1, <1>11 DEF TickBegin
  <2>2. UNCHANGED <<up, lease, windows, pending, cache, inflight, task, fails>>
    BY <1>11 DEF TickBegin
  <2>. QED
    BY <2>1, <2>2 DEF TypeOK
<1>12. CASE TickEnd
  <2>1. PICK k \in 0 .. Len(pending), push \in {<<>>, <<Pushed>>} :
           /\ validated' = {SampleOf(pending[i]) : i \in 1 .. k}
           /\ pending' = SubSeq(pending, k + 1, Len(pending)) \o push
           /\ \/ lease' \in {lease, NoLease} /\ windows' = WindowsPast(k)
              \/ /\ \E d \in Durations : lease' = [left |-> d + Grace, since |-> 0]
                 /\ windows' = Recorded(WindowsPast(k), lease')
    BY <1>12, TickEndIs
  <2>2. pending' \in Seq(Pending)
    BY <2>1, LeftIs
  <2>3. /\ Len(pending) \in Nat
        /\ \A i \in 1 .. Len(pending) : pending[i] \in Pending /\ pending[i].touched \in BOOLEAN
    BY QueueIs
  <2>4. lease' \in Window
    BY <1>2, <2>1, LeaseIs
  <2>5. WindowsPast(k) \in Seq(Window) /\ Len(WindowsPast(k)) <= MaxWindows
    <3>1. CASE k = 0
      BY <1>2, <3>1 DEF WindowsPast
    <3>2. CASE k # 0
      <4>1. pending[k] \in Pending
        BY <2>3, <3>2
      <4>2. Pruned(windows, pending[k]) \in Seq(Window)
            /\ Len(Pruned(windows, pending[k])) <= Len(windows)
        BY <1>2, <4>1, PrunedIs
      <4>3. Len(Pruned(windows, pending[k])) \in Nat
        BY <4>2, LenProperties
      <4>4. WindowsPast(k) = Pruned(windows, pending[k])
        BY <3>2 DEF WindowsPast
      <4>. QED
        BY <1>1, <1>2, <4>2, <4>3, <4>4
    <3>. QED
      BY <3>1, <3>2
  <2>6. windows' \in Seq(Window) /\ Len(windows') <= MaxWindows
    BY <2>1, <2>4, <2>5, RecordedIs
  <2>7. validated' \subseteq Sample
    <3>1. \A i \in 1 .. k : SampleOf(pending[i]) \in Sample
      <4>1. ASSUME NEW i \in 1 .. k PROVE SampleOf(pending[i]) \in Sample
        <5>1. pending[i].touched \in BOOLEAN
          BY <2>3
        <5>2. Intervened(pending[i]) \in BOOLEAN
          BY DEF Intervened
        <5>. QED
          BY <5>1, <5>2 DEF SampleOf, Sample
      <4>. QED
        BY <4>1
    <3>. QED
      BY <2>1, <3>1
  <2>8. cache' \in Caches /\ inflight' \in BOOLEAN /\ task' \in -1 .. MaxLatency
    <3>1. PICK useful \in BOOLEAN : Predict(useful)
      BY <1>12 DEF TickEnd
    <3>2. frame \in 0 .. MaxLatency /\ frame \in -1 .. MaxLatency
      BY <1>1, <1>2
    <3>3. cache' = cache \/ cache' = [age |-> 0, basis |-> frame, useful |-> useful]
      BY <3>1 DEF Predict
    <3>4. (inflight' = inflight /\ task' = task) \/ (inflight' = TRUE /\ task' = frame)
      BY <3>1 DEF Predict
    <3>5. cache' \in Caches
      BY <1>2, <1>4, <3>2, <3>3
    <3>6. inflight' \in BOOLEAN /\ task' \in -1 .. MaxLatency
      BY <1>2, <3>2, <3>4
    <3>. QED
      BY <3>5, <3>6
  <2>9. phase' \in {"idle", "sampling"} /\ frame' \in 0 .. MaxLag /\ UNCHANGED <<up, gap, fails>>
    BY <1>1, <1>12 DEF TickEnd
  <2>. QED
    BY <1>5, <2>2, <2>4, <2>6, <2>7, <2>8, <2>9 DEF TypeOK, Caches
<1>13. CASE Stop \/ Kill
  <2>1. Forget /\ lease' \in Window
    BY <1>2, <1>13, LeaseIs DEF Stop, Kill
  <2>2. /\ up' \in BOOLEAN /\ phase' \in {"idle", "sampling"} /\ inflight' \in BOOLEAN
        /\ frame' \in 0 .. MaxLag /\ gap' \in 0 .. MaxGap + MaxLag
        /\ validated' \subseteq Sample /\ fails' \in 0 .. MaxFails
        /\ task' \in -1 .. MaxLatency
    <3>1. /\ up' = FALSE /\ phase' = "idle" /\ inflight' = FALSE /\ validated' = {}
          /\ frame' = 0 /\ gap' = MaxGap /\ fails' = 0 /\ task' = -1
      BY <2>1 DEF Forget, NoTask
    <3>2. frame' \in 0 .. MaxLag /\ gap' \in 0 .. MaxGap + MaxLag /\ fails' \in 0 .. MaxFails
          /\ task' \in -1 .. MaxLatency
      BY <1>1, <3>1
    <3>. QED
      BY <3>1, <3>2
  <2>3. cache' \in Caches
    BY <1>3, <2>1 DEF Forget
  <2>4. windows' \in Seq(Window) /\ Len(windows') <= MaxWindows /\ pending' \in Seq(Pending)
    BY <1>1, <1>7, <2>1 DEF Forget
  <2>. QED
    BY <1>5, <2>1, <2>2, <2>3, <2>4 DEF TypeOK, Caches
<1>14. CASE Restart
  <2>1. lease' \in Window
    BY <1>2, <1>14, LeaseIs DEF Restart
  <2>2. windows' \in Seq(Window) /\ Len(windows') <= MaxWindows
    <3>1. windows' = <<>> \/ windows' = <<lease'>>
      BY <1>14 DEF Restart
    <3>2. <<lease'>> \in Seq(Window) /\ Len(<<lease'>>) = 1
      BY <2>1
    <3>3. CASE windows' = <<>>
      BY <1>1, <1>7, <3>3
    <3>4. CASE windows' = <<lease'>>
      BY <1>1, <3>2, <3>4
    <3>. QED
      BY <3>1, <3>3, <3>4
  <2>3. up' \in BOOLEAN
        /\ UNCHANGED <<phase, frame, gap, pending, cache, inflight, task, validated, fails>>
    BY <1>14 DEF Restart
  <2>. QED
    BY <2>1, <2>2, <2>3 DEF TypeOK
<1>15. CASE UNCHANGED vars
  BY <1>15 DEF TypeOK, vars
<1>. QED
  BY <1>8, <1>9, <1>10, <1>11, <1>12, <1>13, <1>14, <1>15 DEF Next

-----------------------------------------------------------------------------
(* The windows.                                                            *)

\* A window that ended after the last prediction checked outlives the checks.
LEMMA KeptIs ==
  ASSUME TypeOK, NEW k \in 0 .. Len(pending), NEW j \in DOMAIN windows,
         k > 0 => windows[j].left >= -(pending[k].age + Cutoff)
  PROVE  \E i \in DOMAIN WindowsPast(k) : WindowsPast(k)[i] = windows[j]
<1>1. CASE k = 0
  BY <1>1 DEF WindowsPast
<1>2. CASE k # 0
  <2>1. Len(pending) \in Nat /\ \A i \in 1 .. Len(pending) : pending[i] \in Pending
    BY QueueIs
  <2>2. pending[k] \in Pending /\ k > 0 /\ windows \in Seq(Window)
    BY <1>2, <2>1 DEF TypeOK
  <2>3. \E i \in DOMAIN Pruned(windows, pending[k]) : Pruned(windows, pending[k])[i] = windows[j]
    BY <2>2, PrunedIs
  <2>. QED
    BY <1>2, <2>3 DEF WindowsPast
<1>. QED
  BY <1>1, <1>2

LEMMA ElapseWatched ==
  ASSUME TypeOK, Shape, Fifo, Watched, Elapse, TypeOK'
  PROVE  Watched'
<1>1. /\ DOMAIN pending' = DOMAIN pending /\ DOMAIN windows' = DOMAIN windows
      /\ \A i \in DOMAIN pending :
           /\ pending'[i].age = pending[i].age + 1
           /\ pending'[i].touched = (pending[i].touched \/ (Armed /\ lease.left >= 1))
      /\ \A i \in DOMAIN windows :
           /\ windows'[i].since = CapAt(windows[i].since + 1, MaxLag)
           /\ windows'[i].left = IF windows[i].left = -(MaxAge + Cutoff + 1)
                                 THEN windows[i].left ELSE windows[i].left - 1
  BY ElapseIs
<1>2. /\ DOMAIN pending = 1 .. Len(pending) /\ DOMAIN windows = 1 .. Len(windows)
      /\ \A i \in 1 .. Len(pending) :
              pending[i].age \in 0 .. MaxAge /\ pending[i].touched \in BOOLEAN
      /\ \A i \in 1 .. Len(windows) : windows[i] \in Window
  BY QueueIs
<1>3. \A i \in DOMAIN windows : windows[i].left \in Int /\ windows[i].since \in Nat
  BY <1>2, WindowIs
<1>4. lease.left \in Int /\ frame \in Int /\ frame >= 0 /\ frame' \in Int /\ frame' <= MaxLag
  BY WindowIs, BoundsAreNat DEF TypeOK
<1>5. frame' = frame \/ (phase = "sampling" /\ frame' = frame + 1)
  BY DEF Elapse
<1>6. up' = up /\ phase' = phase
  BY DEF Elapse
<1>7. ASSUME NEW i \in DOMAIN windows' PROVE windows'[i].since >= frame'
  <2>1. windows[i].since >= frame /\ windows[i].since \in Nat
    BY <1>1, <1>3 DEF Watched
  <2>2. windows'[i].since = CapAt(windows[i].since + 1, MaxLag)
    BY <1>1
  <2>. QED
    BY <1>4, <1>5, <2>1, <2>2, BoundsAreInt DEF CapAt
<1>8. ASSUME up', Armed', lease'.left + frame' >= 1
      PROVE  \E i \in DOMAIN windows' : windows'[i].left = lease'.left
  <2>1. Armed
    BY <1>8 DEF Elapse, Armed
  <2>2. lease'.left = IF lease.left < -MaxLag THEN lease.left ELSE lease.left - 1
    BY <2>1 DEF Elapse
  <2>3. lease.left >= -MaxLag /\ lease'.left = lease.left - 1
    BY <1>4, <1>8, <2>2, BoundsAreInt
  <2>4. lease.left + frame >= 1
    BY <1>4, <1>5, <1>8, <2>3
  <2>5. PICK i \in DOMAIN windows : windows[i].left = lease.left
    BY <1>6, <1>8, <2>1, <2>4 DEF Watched
  <2>6. windows[i].left # -(MaxAge + Cutoff + 1)
    BY <1>4, <2>3, <2>5, BoundsAreNat
  <2>7. windows'[i].left = lease'.left
    BY <1>1, <2>3, <2>5, <2>6
  <2>. QED
    BY <1>1, <2>7
<1>9. ASSUME NEW i \in DOMAIN pending', pending'[i].touched
      PROVE  \E j \in DOMAIN windows' : windows'[j].left >= -pending'[i].age
  <2>1. i \in DOMAIN pending /\ pending[i].age \in Int /\ pending[i].age >= 0
        /\ pending'[i].age = pending[i].age + 1
    BY <1>1, <1>2, BoundsAreNat
  <2>2. CASE pending[i].touched
    <3>1. PICK j \in DOMAIN windows : windows[j].left >= -pending[i].age
      BY <2>1, <2>2 DEF Watched
    <3>2. windows'[j].left >= windows[j].left - 1 /\ windows[j].left \in Int
          /\ windows'[j].left \in Int
      BY <1>1, <1>3
    <3>. QED
      BY <1>1, <2>1, <3>1, <3>2
  <2>3. CASE Armed /\ lease.left >= 1
    <3>1. up
      <4>1. ~up => DOMAIN pending = {}
        BY DEF Shape
      <4>. QED
        BY <2>1, <4>1
    <3>2. lease.left + frame >= 1
      BY <1>4, <2>3
    <3>3. PICK j \in DOMAIN windows : windows[j].left = lease.left
      BY <2>3, <3>1, <3>2 DEF Watched
    <3>4. windows'[j].left >= windows[j].left - 1 /\ windows'[j].left \in Int
      BY <1>1, <1>3
    <3>5. windows'[j].left >= 0
      BY <1>4, <2>3, <3>3, <3>4
    <3>. QED
      BY <1>1, <2>1, <3>4, <3>5
  <2>. QED
    BY <1>1, <1>9, <2>1, <2>2, <2>3
<1>. QED
  BY <1>7, <1>8, <1>9 DEF Watched

\* At a tick's end the windows after the last check stay until a lease is armed, and
\* that lease's own window ends after everything that waits.
LEMMA EndWatched ==
  ASSUME TypeOK, Shape, Fifo, Watched, TickEnd, TypeOK'
  PROVE  Watched'
<1>1. PICK k \in 0 .. Len(pending), push \in {<<>>, <<Pushed>>} :
        /\ \A i \in 1 .. k : pending[i].age - frame >= Horizon
        /\ pending' = SubSeq(pending, k + 1, Len(pending)) \o push
        /\ \/ lease' \in {lease, NoLease} /\ windows' = WindowsPast(k)
           \/ /\ \E d \in Durations : lease' = [left |-> d + Grace, since |-> 0]
              /\ windows' = Recorded(WindowsPast(k), lease')
  BY TickEndIs
<1> DEFINE n == Len(pending)
<1>2. /\ n \in Nat /\ k \in Nat /\ k <= n /\ n - k \in Nat /\ DOMAIN pending = 1 .. n
      /\ \A i \in 1 .. n : pending[i].age \in 0 .. MaxAge
      /\ DOMAIN windows = 1 .. Len(windows)
      /\ \A i \in 1 .. Len(windows) : windows[i] \in Window
  BY QueueIs
<1>3. \A j \in DOMAIN windows : windows[j].left \in Int
  BY <1>2, WindowIs
<1>4. /\ DOMAIN pending' = 1 .. Len(pending')
      /\ push = <<>> => Len(pending') = n - k
      /\ push = <<Pushed>> => Len(pending') = n - k + 1 /\ pending'[n - k + 1] = Pushed
      /\ \A i \in 1 .. n - k : pending'[i] = pending[k + i]
  BY <1>1, LeftIs
<1>5. lease.left \in Int /\ frame \in Int /\ frame >= 0 /\ Cutoff \in Int /\ Cutoff >= 0
  BY WindowIs, BoundsAreNat DEF TypeOK
<1>6. up /\ phase = "sampling" /\ frame' = 0
  BY DEF TickEnd
<1>7. /\ DOMAIN windows' = 1 .. Len(windows')
      /\ \A i \in 1 .. Len(windows') : windows'[i] \in Window
      /\ \A i \in 1 .. Len(pending') : pending'[i] \in Pending
  <2>1. windows' \in Seq(Window) /\ pending' \in Seq(Pending)
    BY DEF TypeOK
  <2>. QED
    BY <2>1, LenProperties, ElementOfSeq
<1>8. k > 0 => pending[k].age \in Int /\ pending[k].age >= frame + 1
  <2>1. k > 0 => k \in 1 .. n /\ k \in 1 .. k
    BY <1>2
  <2>2. k > 0 => pending[k].age \in Int
    BY <1>2, <2>1
  <2>3. k > 0 => pending[k].age - frame >= Horizon
    BY <1>1, <2>1
  <2>. QED
    BY <1>5, <2>2, <2>3, BoundsAreInt
<1> HIDE DEF n
\* What ended late enough is still in the record after the checks.
<1>9. ASSUME NEW j \in DOMAIN windows, windows[j].left >= -frame
      PROVE  \E i \in DOMAIN WindowsPast(k) : WindowsPast(k)[i].left = windows[j].left
  <2>1. k > 0 => windows[j].left >= -(pending[k].age + Cutoff)
    BY <1>3, <1>5, <1>8, <1>9
  <2>2. \E i \in DOMAIN WindowsPast(k) : WindowsPast(k)[i] = windows[j]
    BY <2>1, KeptIs
  <2>. QED
    BY <2>2
<1>10. CASE lease' \in {lease, NoLease} /\ windows' = WindowsPast(k)
  <2>1. ASSUME up', Armed', lease'.left + frame' >= 1
        PROVE  \E i \in DOMAIN windows' : windows'[i].left = lease'.left
    <3>1. lease' = lease /\ Armed
      BY <1>10, <2>1 DEF Armed
    <3>2. lease.left >= 1 /\ lease.left + frame >= 1
      BY <1>5, <1>6, <2>1, <3>1
    <3>3. PICK j \in DOMAIN windows : windows[j].left = lease.left
      BY <1>6, <3>1, <3>2 DEF Watched
    <3>4. windows[j].left >= -frame
      BY <1>5, <3>2, <3>3
    <3>. QED
      BY <1>9, <1>10, <3>1, <3>3, <3>4
  <2>2. ASSUME NEW i \in DOMAIN pending', pending'[i].touched
        PROVE  \E j \in DOMAIN windows' : windows'[j].left >= -pending'[i].age
    <3>1. CASE i \in 1 .. n - k
      <4>1. k + i \in 1 .. n /\ k + i > k /\ pending'[i] = pending[k + i]
        <5>1. pending'[i] = pending[k + i]
          BY <1>4, <3>1
        <5>2. k \in Nat /\ n \in Nat /\ i \in Nat /\ 1 <= i /\ i <= n - k
          BY <1>2, <3>1 DEF n
        <5>3. k + i \in 1 .. n /\ k + i > k
          BY <5>2
        <5>. QED
          BY <5>1, <5>3
      <4>2. pending[k + i].age \in Int
        BY <1>2, <4>1 DEF n
      <4>3. PICK j \in DOMAIN windows : windows[j].left >= -pending[k + i].age
        BY <1>2, <2>2, <4>1 DEF Watched, n
      <4>4. k > 0 => pending[k].age > pending[k + i].age
        <5>1. k > 0 => k \in DOMAIN pending
          BY <1>2
        <5>. QED
          BY <1>2, <4>1, <5>1 DEF Fifo, n
      <4>5. k > 0 => windows[j].left >= -(pending[k].age + Cutoff)
        <5>1. windows[j].left \in Int
          BY <1>3
        <5>2. k > 0 => pending[k].age \in Int
          BY <1>8
        <5>. QED
          BY <1>5, <4>2, <4>3, <4>4, <5>1, <5>2
      <4>6. \E h \in DOMAIN WindowsPast(k) : WindowsPast(k)[h] = windows[j]
        BY <4>5, KeptIs
      <4>. QED
        BY <1>10, <4>1, <4>3, <4>6
    <3>2. CASE i \notin 1 .. n - k
      <4>1. pending'[i] = Pushed
        <5>1. i \in 1 .. Len(pending')
          BY <1>4, <2>2
        <5>2. Len(pending') # n - k
          BY <3>2, <5>1
        <5>3. Len(pending') = n - k + 1 /\ pending'[n - k + 1] = Pushed
          BY <1>1, <1>4, <5>2
        <5>4. i = n - k + 1
          BY <1>2, <3>2, <5>1, <5>3 DEF n
        <5>. QED
          BY <5>3, <5>4
      <4>2. Armed /\ lease.left + frame >= 1 /\ pending'[i].age = frame
        <5>1. Pushed.touched = (Armed /\ frame > 0 /\ lease.left + frame >= 1)
          BY DEF Pushed
        <5>2. Pushed.age = frame
          BY DEF Pushed
        <5>. QED
          BY <2>2, <4>1, <5>1, <5>2
      <4>3. PICK j \in DOMAIN windows : windows[j].left = lease.left
        BY <1>6, <4>2 DEF Watched
      <4>4. windows[j].left >= -frame
        BY <1>5, <4>2, <4>3
      <4>. QED
        BY <1>9, <1>10, <4>2, <4>4
    <3>. QED
      BY <3>1, <3>2
  <2>3. \A i \in DOMAIN windows' : windows'[i].since >= frame'
    BY <1>6, <1>7, WindowIs
  <2>. QED
    BY <2>1, <2>2, <2>3 DEF Watched
<1>11. ASSUME NEW d \in Durations, lease' = [left |-> d + Grace, since |-> 0],
              windows' = Recorded(WindowsPast(k), lease')
       PROVE  Watched'
  <2>1. lease' \in Window
    BY <1>11, LeaseIs
  <2>2. WindowsPast(k) \in Seq(Window) /\ Len(WindowsPast(k)) <= MaxWindows
    <3>0. windows \in Seq(Window) /\ Len(windows) <= MaxWindows
      BY DEF TypeOK
    <3>1. CASE k = 0
      BY <3>0, <3>1 DEF WindowsPast
    <3>2. CASE k # 0
      <4>1. pending[k] \in Pending
        BY <1>2, <3>2, QueueIs DEF n
      <4>2. Pruned(windows, pending[k]) \in Seq(Window)
            /\ Len(Pruned(windows, pending[k])) <= Len(windows)
        BY <3>0, <4>1, PrunedIs
      <4>3. Len(Pruned(windows, pending[k])) \in Nat /\ Len(windows) \in Nat /\ MaxWindows \in Nat
        BY <3>0, <4>2, LenProperties, ForecastAssumption
      <4>4. WindowsPast(k) = Pruned(windows, pending[k])
        BY <3>2 DEF WindowsPast
      <4>. QED
        BY <3>0, <4>2, <4>3, <4>4
    <3>. QED
      BY <3>1, <3>2
  <2>3. PICK j \in DOMAIN windows' : windows'[j] = lease'
    BY <1>11, <2>1, <2>2, RecordedIs
  <2>4. lease'.left \in Int /\ lease'.left >= 0
    <3>1. d \in Nat /\ Grace \in Nat
      BY ForecastAssumption
    <3>. QED
      BY <1>11, <3>1
  <2>5. ASSUME NEW i \in DOMAIN pending' PROVE windows'[j].left >= -pending'[i].age
    <3>1. pending'[i] \in Pending
      BY <1>4, <1>7
    <3>2. pending'[i].age \in Int /\ pending'[i].age >= 0
      BY <3>1, BoundsAreNat DEF Pending
    <3>. QED
      BY <2>3, <2>4, <3>2
  <2>6. \A i \in DOMAIN windows' : windows'[i].since >= frame'
    BY <1>6, <1>7, WindowIs
  <2>. QED
    BY <2>3, <2>5, <2>6 DEF Watched
<1>. QED
  BY <1>1, <1>10, <1>11

LEMMA NextWatched ==
  ASSUME TypeOK, Shape, Fifo, Watched, [Next]_vars, TypeOK'
  PROVE  Watched'
<1>1. CASE Elapse
  BY <1>1, ElapseWatched
<1>2. CASE TickEnd
  BY <1>2, EndWatched
<1>3. CASE RefreshDone \/ RefreshFails \/ UNCHANGED vars
  BY <1>3 DEF RefreshDone, RefreshFails, vars, Watched, Armed
<1>4. CASE TickBegin
  <2>1. frame = 0
    BY <1>4 DEF TickBegin, Shape
  <2>2. frame' = 0 /\ UNCHANGED <<up, lease, windows, pending>>
    BY <1>4 DEF TickBegin
  <2>. QED
    BY <2>1, <2>2 DEF Watched, Armed
<1>5. CASE Stop \/ Kill
  <2>1. ~up' /\ windows' = <<>> /\ pending' = <<>>
    BY <1>5 DEF Stop, Kill, Forget
  <2>2. DOMAIN windows' = {} /\ DOMAIN pending' = {}
    BY <2>1
  <2>. QED
    BY <2>1, <2>2 DEF Watched
<1>6. CASE Restart
  <2>1. frame' = 0 /\ DOMAIN pending' = {}
    BY <1>6 DEF Restart, Shape
  <2>2. windows' = IF lease' = NoLease THEN <<>> ELSE <<lease'>>
    BY <1>6 DEF Restart
  <2>3. lease' \in Window /\ lease'.since >= 0
    BY WindowIs, SMTT(30) DEF TypeOK
  <2>4. CASE lease' = NoLease
    <3>1. DOMAIN windows' = {} /\ ~Armed'
      BY <2>2, <2>4 DEF Armed
    <3>. QED
      BY <2>1, <3>1 DEF Watched
  <2>5. CASE lease' # NoLease
    <3>1. windows' = <<lease'>>
      BY <2>2, <2>5
    <3>2. DOMAIN windows' = {1} /\ windows'[1] = lease'
      BY <3>1
    <3>. QED
      BY <2>1, <2>3, <3>2 DEF Watched
  <2>. QED
    BY <2>4, <2>5
<1>. QED
  BY <1>1, <1>2, <1>3, <1>4, <1>5, <1>6 DEF Next

-----------------------------------------------------------------------------
(* The samples.                                                            *)

\* A prediction that a lease touched is judged while the window of the lease is there.
LEMMA NextFlagged ==
  ASSUME TypeOK, Shape, Fifo, Watched, FlaggedWhenControlled, [Next]_vars
  PROVE  FlaggedWhenControlled'
<1>1. CASE TickEnd
  <2>1. PICK k \in 0 .. Len(pending) : validated' = {SampleOf(pending[i]) : i \in 1 .. k}
    BY <1>1, TickEndIs
  <2>2. /\ Len(pending) \in Nat /\ DOMAIN pending = 1 .. Len(pending)
        /\ \A i \in 1 .. Len(pending) : pending[i] \in Pending /\ pending[i].age \in 0 .. MaxAge
        /\ DOMAIN windows = 1 .. Len(windows)
        /\ \A i \in 1 .. Len(windows) : windows[i] \in Window
    BY QueueIs
  <2>3. ASSUME NEW i \in 1 .. k, pending[i].touched
        PROVE  Intervened(pending[i])
    <3>1. i \in DOMAIN pending /\ pending[i] \in Pending /\ pending[i].age \in Int
      BY <2>2, BoundsAreNat
    <3>2. PICK j \in DOMAIN windows : windows[j].left >= -pending[i].age
      BY <2>3, <3>1 DEF Watched
    <3>3. windows[j].left \in Int /\ windows[j].since >= frame
      BY <2>2, WindowIs DEF Watched
    <3>4. windows[j].left >= -(pending[i].age + Cutoff)
      <4>1. Cutoff \in Int /\ Cutoff >= 0 /\ windows[j].left \in Int
        BY <3>3, BoundsAreNat
      <4>2. pending[i].age \in Int
        BY <3>1
      <4>. QED
        BY <3>2, <4>1, <4>2
    <3>5. PICK h \in DOMAIN Pruned(windows, pending[i]) :
            Pruned(windows, pending[i])[h] = windows[j]
      <4>1. windows \in Seq(Window)
        BY DEF TypeOK
      <4>. QED
        BY <3>1, <3>4, <4>1, PrunedIs
    <3>. QED
      BY <3>2, <3>3, <3>5 DEF Intervened
  <2>4. ASSUME NEW s \in validated' PROVE s.touched => s.intervened
    <3>1. PICK i \in 1 .. k : s = SampleOf(pending[i])
      BY <2>1
    <3>2. s.touched = pending[i].touched /\ s.intervened = Intervened(pending[i])
      BY <3>1 DEF SampleOf
    <3>. QED
      BY <2>3, <3>2
  <2>. QED
    BY <2>4 DEF FlaggedWhenControlled
<1>2. CASE validated' = validated \/ validated' = {}
  BY <1>2 DEF FlaggedWhenControlled
<1>3. ~TickEnd => validated' = validated \/ validated' = {}
  BY DEF Next, Elapse, RefreshDone, RefreshFails, TickBegin, Stop, Kill, Forget, Restart, vars
<1>. QED
  BY <1>1, <1>2, <1>3

-----------------------------------------------------------------------------
(* The age of what is predicted from.                                      *)

LEMMA AtBeginIs ==
  ASSUME NEW n \in Nat
  PROVE  /\ AtBegin(n) \in Int /\ AtBegin(n) >= RefreshEvery + MaxLatency + MaxGap
         /\ AtBegin(n + 1) = AtBegin(n) + MaxLatency + MaxGap
         /\ Bound(n) = AtBegin(n) + MaxLatency
<1>1. RefreshEvery \in Nat /\ MaxLatency \in Nat /\ MaxGap \in Nat
  BY ForecastAssumption
<1>2. n * (MaxLatency + MaxGap) \in Nat
  BY <1>1
<1>3. (n + 1) * (MaxLatency + MaxGap) = n * (MaxLatency + MaxGap) + MaxLatency + MaxGap
  BY <1>1
<1>4. n * (MaxLatency + MaxGap) = n * MaxLatency + n * MaxGap
  BY <1>1
<1>5. (n + 2) * MaxLatency = n * MaxLatency + 2 * MaxLatency
      /\ (n + 1) * MaxGap = n * MaxGap + MaxGap
  BY <1>1
<1>6. n * MaxLatency \in Nat /\ n * MaxGap \in Nat
  BY <1>1
<1>. QED
  BY <1>1, <1>2, <1>3, <1>4, <1>5, <1>6 DEF AtBegin, Bound

LEMMA NextAging ==
  ASSUME TypeOK, Shape, Aging, [Next]_vars
  PROVE  Aging'
<1> DEFINE A == AtBegin(fails)
<1>1. /\ RefreshEvery \in Nat /\ MaxLatency \in Nat /\ MaxGap \in Nat /\ MaxGap >= 1
      /\ MaxLag \in Nat /\ MaxLag <= MaxLatency
      /\ frame \in Nat /\ frame <= MaxLag /\ gap \in Nat /\ fails \in Nat
      /\ task \in Int /\ task >= -1 /\ task <= MaxLatency
      /\ cache.age \in Int /\ cache.basis \in Int /\ cache.age <= RefreshEvery + 1
      /\ cache.basis <= MaxBasis + 1 /\ MaxBasis \in Nat /\ MaxFails \in Nat
  BY BoundsAreNat, MaxBasisIs, ForecastAssumption DEF TypeOK
<1>2. A \in Int /\ A >= RefreshEvery + MaxLatency + MaxGap
      /\ AtBegin(fails + 1) = A + MaxLatency + MaxGap
  BY <1>1, AtBeginIs
<1>3. NoCache.age = -1 /\ NoCache.basis = -1 /\ NoTask = -1
  BY DEF NoCache, NoTask
<1>4. phase \in {"idle", "sampling"}
  BY DEF TypeOK
<1> HIDE DEF A
<1>5. CASE Elapse
  <2>1. up' = up /\ phase' = phase /\ fails' = fails
    BY <1>5 DEF Elapse
  <2>2. CASE cache = NoCache
    <3>1. cache' = cache
      BY <1>5, <2>2 DEF Elapse
    <3>2. task = NoTask
      BY <1>1, <1>3, <2>2 DEF Aging
    <3>3. task' = NoTask
      BY <1>5, <3>2 DEF Elapse
    <3>. QED
      BY <1>1, <1>3, <2>2, <3>1, <3>3 DEF Aging
  <2>3. CASE cache # NoCache
    <3>1. up
      BY <2>3 DEF Shape
    <3>2. cache'.age = CapAt(cache.age + 1, RefreshEvery + 1)
          /\ cache'.basis = CapAt(cache.basis + 1, MaxBasis + 1)
      <4>1. cache \in [age : -1 .. RefreshEvery + 1, basis : -1 .. MaxBasis + 1, useful : BOOLEAN]
        BY DEF TypeOK
      <4>2. cache' = [cache EXCEPT !.age = CapAt(cache.age + 1, RefreshEvery + 1),
                                   !.basis = CapAt(cache.basis + 1, MaxBasis + 1)]
        BY <1>5, <2>3 DEF Elapse
      <4>. QED
        BY <4>1, <4>2
    <3>3. /\ cache'.basis \in Int /\ cache'.basis <= cache.basis + 1 /\ cache'.age \in Int
          /\ cache.age <= RefreshEvery => cache'.age = cache.age + 1
          /\ cache.age > RefreshEvery => cache'.age = RefreshEvery + 1
      <4>1. cache.basis + 1 \in Int /\ MaxBasis + 1 \in Int
            /\ cache.age + 1 \in Int /\ RefreshEvery + 1 \in Int
        BY <1>1
      <4>2. /\ CapAt(cache.basis + 1, MaxBasis + 1) \in Int
            /\ CapAt(cache.basis + 1, MaxBasis + 1) <= cache.basis + 1
        BY <4>1, CapAtIs
      <4>3. /\ CapAt(cache.age + 1, RefreshEvery + 1) \in Int
            /\ cache.age <= RefreshEvery => CapAt(cache.age + 1, RefreshEvery + 1) = cache.age + 1
            /\ cache.age > RefreshEvery => CapAt(cache.age + 1, RefreshEvery + 1) = RefreshEvery + 1
        BY <1>1, <4>1 DEF CapAt
      <4>. QED
        BY <3>2, <4>2, <4>3
    <3>4. gap' = gap + 1
      BY <1>5, <3>1 DEF Elapse
    <3>5. CASE task # NoTask
      <4>1. task' = task + 1 /\ task' # NoTask
        BY <1>1, <1>3, <1>5, <3>5 DEF Elapse
      <4>2. cache.age > RefreshEvery /\ cache.basis - task <= A
        BY <3>5 DEF Aging, A
      <4>3. cache'.age > RefreshEvery /\ cache'.basis - task' <= A
        BY <1>1, <1>2, <3>3, <4>1, <4>2
      <4>. QED
        BY <2>1, <4>1, <4>3 DEF Aging, A
    <3>6. CASE task = NoTask
      <4>1. task' = NoTask
        BY <1>5, <3>6 DEF Elapse
      <4>2. CASE cache.age < RefreshEvery
        <5>1. cache.basis <= cache.age + MaxLatency
          BY <1>1, <3>6, <4>2 DEF Aging
        <5>2. cache'.age <= RefreshEvery /\ cache'.basis <= cache'.age + MaxLatency
          BY <1>1, <3>3, <4>2, <5>1
        <5>. QED
          BY <4>1, <5>2 DEF Aging
      <4>3. CASE cache.age = RefreshEvery
        <5>1. cache.basis <= cache.age + MaxLatency
          BY <1>1, <3>6, <4>3 DEF Aging
        <5>2. ~(cache'.age <= RefreshEvery) /\ cache'.basis <= RefreshEvery + 1 + MaxLatency
          BY <1>1, <3>3, <4>3, <5>1
        <5>3. cache'.basis <= A /\ cache'.basis + MaxGap - gap' <= A
          BY <1>1, <1>2, <3>3, <3>4, <5>2
        <5>4. frame' \in Nat
          BY <1>1, <1>5 DEF Elapse
        <5>5. cache'.basis - frame' <= A
          BY <1>2, <3>3, <5>3, <5>4
        <5>. QED
          BY <2>1, <4>1, <5>2, <5>3, <5>5 DEF Aging, A
      <4>4. CASE cache.age = RefreshEvery + 1
        <5>1. ~(cache.age <= RefreshEvery) /\ ~(cache'.age <= RefreshEvery)
          BY <1>1, <3>3, <4>4
        <5>2. CASE phase = "sampling"
          <6>1. cache.basis - frame <= A /\ frame' = frame + 1
            BY <1>5, <3>6, <5>1, <5>2 DEF Aging, A, Elapse
          <6>2. cache'.basis - frame' <= A
            BY <1>1, <1>2, <3>3, <6>1
          <6>. QED
            BY <2>1, <4>1, <5>1, <5>2, <6>2 DEF Aging, A
        <5>3. CASE phase = "idle"
          <6>1. cache.basis <= A /\ cache.basis + MaxGap - gap <= A /\ gap < MaxGap
            BY <1>5, <3>1, <3>6, <5>1, <5>3 DEF Aging, A, Elapse
          <6>2. cache'.basis <= A /\ cache'.basis + MaxGap - gap' <= A
            BY <1>1, <1>2, <3>3, <3>4, <6>1
          <6>. QED
            BY <2>1, <4>1, <5>1, <5>3, <6>2 DEF Aging, A
        <5>. QED
          BY <1>4, <5>2, <5>3
      <4>. QED
        BY <1>1, <4>2, <4>3, <4>4
    <3>. QED
      BY <3>5, <3>6
  <2>. QED
    BY <2>2, <2>3
<1>6. CASE RefreshDone
  <2>1. task' = NoTask /\ cache'.age = 0 /\ cache'.basis = task
    BY <1>6 DEF RefreshDone
  <2>2. cache'.age <= RefreshEvery /\ cache'.basis <= cache'.age + MaxLatency
    BY <1>1, <2>1
  <2>. QED
    BY <2>1, <2>2 DEF Aging
<1>7. CASE RefreshFails
  <2>1. task # NoTask /\ task' = NoTask /\ fails' = fails + 1
        /\ UNCHANGED <<cache, phase, frame, gap>>
    BY <1>7 DEF RefreshFails
  <2>2. cache.age > RefreshEvery /\ cache.basis - task <= A
    BY <2>1 DEF Aging, A
  <2>3. /\ cache.basis - frame <= A + MaxLatency + MaxGap
        /\ cache.basis <= A + MaxLatency + MaxGap
        /\ cache.basis + MaxGap - gap <= A + MaxLatency + MaxGap
    BY <1>1, <1>2, <2>2
  <2>4. ~(cache.age <= RefreshEvery)
    BY <1>1, <2>2
  <2>. QED
    BY <1>2, <2>1, <2>3, <2>4 DEF Aging
<1>8. CASE TickBegin
  <2>1. phase = "idle" /\ phase' = "sampling" /\ frame' = 0 /\ UNCHANGED <<cache, task, fails>>
    BY <1>8 DEF TickBegin
  <2>2. cache.basis - 0 = cache.basis
    BY <1>1
  <2>. QED
    BY <2>1, <2>2 DEF Aging
<1>9. CASE TickEnd
  <2>1. PICK useful \in BOOLEAN : Predict(useful)
    BY <1>9 DEF TickEnd
  <2>2. phase = "sampling" /\ fails' = fails
    BY <1>9 DEF TickEnd
  <2>3. CASE cache = NoCache /\ cache' = [age |-> 0, basis |-> frame, useful |-> useful]
             /\ task' = task
    <3>1. task = NoTask
      BY <1>1, <1>3, <2>3 DEF Aging
    <3>2. cache'.age = 0 /\ cache'.basis = frame
      BY <2>3
    <3>3. cache'.age <= RefreshEvery /\ cache'.basis <= cache'.age + MaxLatency
      BY <1>1, <3>2
    <3>. QED
      BY <2>3, <3>1, <3>3 DEF Aging
  <2>4. CASE cache.age > RefreshEvery /\ ~inflight /\ task' = frame /\ cache' = cache
    <3>1. task = NoTask /\ frame # NoTask /\ ~(cache.age <= RefreshEvery)
      <4>1. task = NoTask
        BY <2>4 DEF Shape
      <4>2. frame # NoTask /\ ~(cache.age <= RefreshEvery)
        BY <1>1, <1>3, <2>4
      <4>. QED
        BY <4>1, <4>2
    <3>2. cache.basis - frame <= AtBegin(fails)
      BY <2>2, <3>1 DEF Aging
    <3>. QED
      BY <2>2, <2>4, <3>1, <3>2 DEF Aging
  <2>5. CASE (cache.age <= RefreshEvery \/ inflight) /\ task' = task /\ cache' = cache
    <3>1. CASE task # NoTask
      BY <2>2, <2>5, <3>1 DEF Aging
    <3>2. CASE task = NoTask
      <4>1. cache.age <= RefreshEvery
        BY <2>5, <3>2 DEF Shape
      <4>. QED
        BY <2>5, <3>2, <4>1 DEF Aging
    <3>. QED
      BY <3>1, <3>2
  <2>. QED
    BY <2>1, <2>3, <2>4, <2>5 DEF Predict
<1>10. CASE Stop \/ Kill
  <2>1. task' = NoTask /\ cache' = NoCache
    BY <1>10 DEF Stop, Kill, Forget
  <2>. QED
    BY <1>1, <1>3, <2>1 DEF Aging
<1>11. CASE Restart \/ UNCHANGED vars
  <2>1. UNCHANGED <<phase, frame, gap, cache, task, fails>>
    BY <1>11 DEF Restart, vars
  <2>. QED
    BY <2>1 DEF Aging
<1>. QED
  BY <1>5, <1>6, <1>7, <1>8, <1>9, <1>10, <1>11 DEF Next

LEMMA AgingBounds ==
  ASSUME TypeOK, Aging
  PROVE  StaleBound
<1>1. /\ RefreshEvery \in Nat /\ MaxLatency \in Nat /\ MaxGap \in Nat
      /\ MaxLag \in Nat /\ MaxLag <= MaxLatency
      /\ frame \in Nat /\ frame <= MaxLag /\ fails \in Nat /\ gap \in Nat
      /\ task \in Int /\ task <= MaxLatency
      /\ cache.age \in Int /\ cache.basis \in Int
  BY BoundsAreNat, MaxBasisIs, ForecastAssumption DEF TypeOK
<1>2. AtBegin(fails) \in Int /\ AtBegin(fails) >= RefreshEvery + MaxLatency + MaxGap
      /\ Bound(fails) = AtBegin(fails) + MaxLatency
  BY <1>1, AtBeginIs
<1>. QED
  BY <1>1, <1>2 DEF Aging, StaleBound

-----------------------------------------------------------------------------
(* The theorems.                                                           *)

LEMMA InitLoop == Init => LoopInv
<1> SUFFICES ASSUME Init PROVE LoopInv
  OBVIOUS
<1>1. /\ up = TRUE /\ phase = "idle" /\ frame = 0 /\ gap = MaxGap
      /\ lease = NoLease /\ windows = <<>> /\ pending = <<>> /\ cache = NoCache
      /\ inflight = FALSE /\ task = -1 /\ validated = {} /\ fails = 0 /\ NoTask = -1
  BY DEF Init, NoTask
<1>2. /\ RefreshEvery \in Nat /\ MaxBasis \in Nat /\ MaxLatency \in Nat /\ MaxLag \in Nat
      /\ MaxGap \in Nat /\ MaxFails \in Nat /\ MaxWindows \in Nat /\ MaxAge \in Nat
      /\ Horizon + MaxWait \in Nat
  BY BoundsAreNat, MaxBasisIs, ForecastAssumption
<1>3. DOMAIN pending = {} /\ DOMAIN windows = {} /\ Len(pending) = 0 /\ Len(windows) = 0
      /\ windows \in Seq(Window) /\ pending \in Seq(Pending)
  BY <1>1
<1>4. cache \in [age : -1 .. RefreshEvery + 1, basis : -1 .. MaxBasis + 1, useful : BOOLEAN]
      /\ cache.age = -1 /\ cache.basis = -1
  BY <1>1, <1>2 DEF NoCache
<1>5. frame \in 0 .. MaxLag /\ gap \in 0 .. MaxGap + MaxLag /\ task \in -1 .. MaxLatency
      /\ fails \in 0 .. MaxFails /\ Len(windows) <= MaxWindows /\ Len(pending) <= MaxAge + 1
  BY <1>1, <1>2, <1>3
<1>6. TypeOK
  BY <1>1, <1>3, <1>4, <1>5, LeaseIs DEF TypeOK
<1>7. Shape
  BY <1>1 DEF Shape
<1>8. Fifo
  BY <1>2, <1>3 DEF Fifo
<1>9. Watched
  BY <1>1, <1>3 DEF Watched, Armed
<1>10. Aging
  <2>1. cache.age <= RefreshEvery /\ cache.basis <= cache.age + MaxLatency
    BY <1>2, <1>4
  <2>. QED
    BY <1>1, <2>1 DEF Aging
<1>11. FlaggedWhenControlled
  BY <1>1 DEF FlaggedWhenControlled
<1>. QED
  BY <1>6, <1>7, <1>8, <1>9, <1>10, <1>11 DEF LoopInv

LEMMA NextLoop == LoopInv /\ [Next]_vars => LoopInv'
<1> SUFFICES ASSUME LoopInv, [Next]_vars PROVE LoopInv'
  OBVIOUS
<1> USE DEF LoopInv
<1>1. Shape'
  BY NextShape
<1>2. Fifo'
  BY NextFifo
<1>3. TypeOK'
  BY <1>2, NextTypes
<1>4. Watched'
  BY <1>3, NextWatched
<1>5. Aging'
  BY NextAging
<1>6. FlaggedWhenControlled'
  BY NextFlagged
<1>. QED
  BY <1>1, <1>2, <1>3, <1>4, <1>5, <1>6

\* The inductive invariant holds in every state of every run.
THEOREM LoopHolds == Spec => []LoopInv
BY InitLoop, NextLoop, PTL DEF Spec

\* The records of the loop keep their types: no bound of the model is ever overrun,
\* the queue of waiting predictions and the record of windows stay finite.
THEOREM TypeCorrect == Spec => []TypeOK
<1>1. LoopInv => TypeOK
  BY DEF LoopInv
<1>. QED
  BY <1>1, LoopHolds, PTL

\* A sample validated after a lease had the actuator within its horizon is flagged,
\* so that it does not teach the residual bank the effect of the bias (ADR-025).
THEOREM SamplesFlagged == Spec => []FlaggedWhenControlled
<1>1. LoopInv => FlaggedWhenControlled
  BY DEF LoopInv
<1>. QED
  BY <1>1, LoopHolds, PTL

\* What a decision rests on is never older than a refresh period and the latencies and
\* gaps of the refreshes that it takes, failed ones counted.
THEOREM BasisBounded == Spec => []StaleBound
<1>1. LoopInv => StaleBound
  BY AgingBounds DEF LoopInv
<1>. QED
  BY <1>1, LoopHolds, PTL
-----------------------------------------------------------------------------
(* What one tick makes of its window.                                      *)

\* The sum of a function over a finite set, as the community module folds it: an element,
\* and the sum over the others.
Pick(s) == CHOOSE x \in s : TRUE
Rest(s) == s \ {Pick(s)}
FoldStep(f, g, s) == IF s = {} THEN 0 ELSE f[Pick(s)] + g[Rest(s)]
FoldOver(f, V, g) == g = [s \in SUBSET V |-> FoldStep(f, g, s)]

LEMMA SumIsChosen ==
  ASSUME NEW f, NEW S
  PROVE  SumFunctionOnSet(f, S) = (CHOOSE g : FoldOver(f, S, g))[S]
BY DEF SumFunctionOnSet, FoldFunctionOnSet, MapThenFoldSet, FoldOver, FoldStep, Pick, Rest

LEMMA RestIsLess ==
  ASSUME NEW s, s # {}
  PROVE  Pick(s) \in s /\ Rest(s) \subseteq s /\ Rest(s) # s
BY DEF Pick, Rest

\* A set of finite sets has one that has no other below it.
LEMMA Smallest ==
  ASSUME NEW T, T # {}, \A s \in T : IsFiniteSet(s)
  PROVE  \E s \in T : \A r \in T : r \subseteq s => r = s
<1> DEFINE S == UNION T
           R == StrictSubsetOrdering(S)
<1>1. IsWellFoundedOn(R, FiniteSubsetsOf(S))
  BY FS_StrictSubsetOrderingWellFounded
<1>2. T \subseteq FiniteSubsetsOf(S)
  BY DEF FiniteSubsetsOf
<1>3. \A x, y \in T : y \subseteq x /\ y # x => <<y, x>> \in R
  BY DEF StrictSubsetOrdering
<1> HIDE DEF R
<1>4. PICK s \in T : \A r \in T : ~(<<r, s>> \in R)
  BY <1>1, <1>2, WFMin
<1>. QED
  BY <1>3, <1>4

\* There is one such function.
LEMMA FoldsAgree ==
  ASSUME NEW f, NEW V, IsFiniteSet(V), NEW W, W \subseteq V,
         NEW g, NEW h, FoldOver(f, V, g), FoldOver(f, W, h)
  PROVE  \A s \in SUBSET W : g[s] = h[s]
<1> SUFFICES ASSUME {s \in SUBSET W : g[s] # h[s]} # {} PROVE FALSE
  OBVIOUS
<1> DEFINE T == {s \in SUBSET W : g[s] # h[s]}
<1>1. T # {} /\ \A s \in T : IsFiniteSet(s)
  BY FS_Subset
<1>2. PICK s \in T : \A r \in T : r \subseteq s => r = s
  <2> HIDE DEF T
  <2>. QED
    BY <1>1, Smallest
<1>3. s \in SUBSET V /\ s \in SUBSET W
  OBVIOUS
<1>4. g[s] = FoldStep(f, g, s) /\ h[s] = FoldStep(f, h, s)
  BY <1>3 DEF FoldOver
<1>5. CASE s = {}
  BY <1>4, <1>5 DEF FoldStep
<1>6. CASE s # {}
  <2>1. Rest(s) \subseteq s /\ Rest(s) # s
    BY <1>6, RestIsLess
  <2>2. g[Rest(s)] = h[Rest(s)]
    BY <1>2, <1>3, <2>1
  <2>. QED
    BY <1>4, <1>6, <2>2 DEF FoldStep
<1>. QED
  BY <1>5, <1>6

\* And there is one.
LEMMA FoldExists ==
  ASSUME NEW f, NEW S, IsFiniteSet(S)
  PROVE  \E g : FoldOver(f, S, g)
<1> DEFINE T == {V \in SUBSET S : ~\E g : FoldOver(f, V, g)}
<1> SUFFICES ASSUME T # {} PROVE FALSE
  OBVIOUS
<1>1. T # {} /\ \A V \in T : IsFiniteSet(V)
  BY FS_Subset
<1>2. PICK V \in T : \A W \in T : W \subseteq V => W = V
  <2> HIDE DEF T
  <2>. QED
    BY <1>1, Smallest
<1> DEFINE Of(W) == CHOOSE g : FoldOver(f, W, g)
           Value(W) == Of(W)[W]
           G == [s \in SUBSET V |-> IF s = {} THEN 0 ELSE f[Pick(s)] + Value(Rest(s))]
<1>3. ASSUME NEW W, W \subseteq V, W # V PROVE FoldOver(f, W, Of(W)) /\ IsFiniteSet(W)
  <2>1. W \in SUBSET S /\ W \notin T
    BY <1>2, <1>3
  <2>2. \E g : FoldOver(f, W, g)
    BY <2>1
  <2>. QED
    BY <1>1, <1>2, <1>3, <2>2, FS_Subset
<1> HIDE DEF Of
<1>4. ASSUME NEW W, W \subseteq V, W # V PROVE G[W] = Value(W)
  <2>1. FoldOver(f, W, Of(W)) /\ IsFiniteSet(W)
    BY <1>3, <1>4
  <2>2. Of(W)[W] = FoldStep(f, Of(W), W)
    BY <2>1 DEF FoldOver
  <2>3. CASE W = {}
    BY <1>4, <2>2, <2>3 DEF FoldStep
  <2>4. CASE W # {}
    <3>1. Rest(W) \subseteq W /\ Rest(W) \subseteq V /\ Rest(W) # V
      BY <1>4, <2>4, RestIsLess
    <3>2. FoldOver(f, Rest(W), Of(Rest(W)))
      BY <1>3, <3>1
    <3>3. Of(W)[Rest(W)] = Of(Rest(W))[Rest(W)]
      BY <2>1, <3>1, <3>2, FoldsAgree
    <3>. QED
      BY <1>4, <2>2, <2>4, <3>3 DEF FoldStep
  <2>. QED
    BY <2>3, <2>4
<1>5. FoldOver(f, V, G)
  <2>1. ASSUME NEW s \in SUBSET V
        PROVE  (IF s = {} THEN 0 ELSE f[Pick(s)] + Value(Rest(s))) = FoldStep(f, G, s)
    <3>1. CASE s = {}
      BY <3>1 DEF FoldStep
    <3>2. CASE s # {}
      <4>1. Rest(s) \subseteq V /\ Rest(s) # V
        BY <3>2, RestIsLess
      <4>2. G[Rest(s)] = Value(Rest(s))
        BY <1>4, <4>1
      <4>. QED
        BY <3>2, <4>2 DEF FoldStep
    <3>. QED
      BY <3>1, <3>2
  <2>2. [s \in SUBSET V |-> IF s = {} THEN 0 ELSE f[Pick(s)] + Value(Rest(s))]
          = [s \in SUBSET V |-> FoldStep(f, G, s)]
    BY <2>1
  <2>. QED
    BY <2>2 DEF FoldOver
<1>. QED
  BY <1>2, <1>5

\* A sum of numbers is such a number.
LEMMA SumIsNumber ==
  ASSUME NEW S, IsFiniteSet(S), NEW N \in {Nat, Int}, NEW f, \A s \in S : f[s] \in N
  PROVE  SumFunctionOnSet(f, S) \in N
<1> DEFINE g == CHOOSE h : FoldOver(f, S, h)
           T == {s \in SUBSET S : g[s] \notin N}
<1>1. FoldOver(f, S, g)
  BY FoldExists
<1> HIDE DEF g
<1>2. ASSUME T # {} PROVE FALSE
  <2>1. T # {} /\ \A s \in T : IsFiniteSet(s)
    BY <1>2, FS_Subset
  <2>2. PICK s \in T : \A r \in T : r \subseteq s => r = s
    <3> HIDE DEF T
    <3>. QED
      BY <2>1, Smallest
  <2>3. g[s] = FoldStep(f, g, s)
    BY <1>1 DEF FoldOver
  <2>4. CASE s = {}
    BY <2>3, <2>4 DEF FoldStep
  <2>5. CASE s # {}
    <3>1. Pick(s) \in S /\ Rest(s) \in SUBSET S /\ Rest(s) # s /\ Rest(s) \subseteq s
      BY <2>5, RestIsLess
    <3>2. g[Rest(s)] \in N /\ f[Pick(s)] \in N
      BY <2>2, <3>1
    <3>3. f[Pick(s)] + g[Rest(s)] \in N
      BY <3>2
    <3>. QED
      BY <2>3, <2>5, <3>3 DEF FoldStep
  <2>. QED
    BY <2>4, <2>5
<1>3. g[S] \in N
  BY <1>2
<1>. QED
  BY <1>3, SumIsChosen DEF g

\* A slope over places that were read is a number.
LEMMA SlopeIsNumber ==
  ASSUME NEW w \in Seq(Int), NEW places \in SUBSET DOMAIN w
  PROVE  SlopeOver(w, places) \in Int
<1> DEFINE n  == Cardinality(places)
           sx == SumFunctionOnSet([i \in places |-> i], places)
           sy == SumFunctionOnSet(w, places)
           num == SumFunctionOnSet([i \in places |-> (n * i - sx) * (n * w[i] - sy)], places)
           den == SumFunctionOnSet([i \in places |-> (n * i - sx) * (n * i - sx)], places)
<1>1. IsFiniteSet(places) /\ n \in Nat
  <2>1. DOMAIN w = 1 .. Len(w) /\ IsFiniteSet(1 .. Len(w))
    BY FS_Interval
  <2>2. IsFiniteSet(places)
    BY <2>1, FS_Subset
  <2>. QED
    BY <2>2, FS_CardinalityType
<1>2. \A i \in places : i \in Int /\ w[i] \in Int
  OBVIOUS
<1>3. sx \in Int
  <2>1. \A i \in places : [j \in places |-> j][i] \in Int
    BY <1>2
  <2>. QED
    BY <1>1, <2>1, SumIsNumber
<1>4. sy \in Int
  BY <1>1, <1>2, SumIsNumber
<1> HIDE DEF n, sx, sy
<1>5. num \in Int
  <2> DEFINE f == [i \in places |-> (n * i - sx) * (n * w[i] - sy)]
  <2>1. \A i \in places : f[i] \in Int
    BY <1>1, <1>2, <1>3, <1>4
  <2> HIDE DEF f
  <2>2. SumFunctionOnSet(f, places) \in Int
    BY <1>1, <2>1, SumIsNumber
  <2>. QED
    BY <2>2 DEF f
<1>6. den \in Nat
  <2> DEFINE f == [i \in places |-> (n * i - sx) * (n * i - sx)]
  <2>1. ASSUME NEW i \in places PROVE f[i] \in Nat
    <3>1. n * i - sx \in Int
      BY <1>1, <1>2, <1>3
    <3>2. \A k \in Int : k * k \in Nat
      OBVIOUS
    <3>. QED
      BY <3>1, <3>2
  <2> HIDE DEF f
  <2>2. SumFunctionOnSet(f, places) \in Nat
    BY <1>1, <2>1, SumIsNumber
  <2>. QED
    BY <2>2 DEF f
<1>7. SlopeOver(w, places) = IF n < 2 \/ den = 0 THEN NoSlope ELSE (100 * num) \div den
  BY DEF SlopeOver, n, sx, sy
<1> HIDE DEF num, den
<1>8. den # 0 => (100 * num) \div den \in Int
  BY <1>5, <1>6
<1>. QED
  BY <1>7, <1>8 DEF NoSlope

LEMMA FeaturesAre ==
  ASSUME NEW w \in Seq(Int), w # <<>>
  PROVE  Features(w) \in [now : Int, short : Int, long : Int, live : Int]
<1> DEFINE read == {i \in DOMAIN w : w[i] # NoTempR}
           short == {i \in read : Cardinality({j \in read : j > i}) < ShortN}
<1>1. w[Len(w)] \in Int
  OBVIOUS
<1>2. ASSUME read # {} PROVE w[Max(read)] \in Int
  <2> DEFINE T == {Len(w) - i : i \in read}
  <2>1. T \in SUBSET Nat /\ T # {}
    BY <1>2
  <2>2. PICK m \in T : \A k \in T : m <= k
    <3> HIDE DEF T
    <3>. QED
      BY <2>1, Least
  <2>3. PICK x \in read : m = Len(w) - x
    OBVIOUS
  <2>4. ASSUME NEW y \in read PROVE x >= y
    <3>1. Len(w) - y \in T /\ x \in Int /\ y \in Int
      OBVIOUS
    <3>2. m <= Len(w) - y
      BY <2>2, <3>1
    <3>. QED
      BY <2>3, <3>1, <3>2
  <2>5. Max(read) \in read
    <3> HIDE DEF read
    <3>. QED
      BY <2>3, <2>4 DEF Max
  <2>. QED
    BY <2>5
<1>3. SlopeOver(w, short) \in Int
  BY SlopeIsNumber
<1>4. SlopeOver(w, read) \in Int
  BY SlopeIsNumber
<1>5. NoTempR \in Int /\ NoSlope \in Int
  BY ResponseAssumption DEF NoSlope
<1>6. Features(w) =
        [now   |-> IF read = {} THEN NoTempR ELSE w[Max(read)],
         short |-> SlopeOver(w, short),
         long  |-> IF read = DOMAIN w THEN SlopeOver(w, read) ELSE NoSlope,
         live  |-> w[Len(w)]]
  BY DEF Features
<1> HIDE DEF read, short
<1>. QED
  BY <1>1, <1>2, <1>3, <1>4, <1>5, <1>6


\* The overlay is one of four probabilities.
LEMMA TrajectoryIs ==
  ASSUME NEW f
  PROVE  Trajectory(f) \in {0, 65, 70, 90}
BY DEF Trajectory

LEMMA ClampedIs ==
  ASSUME NEW v \in Int, NEW lo \in Int, NEW hi \in Int, lo <= hi
  PROVE  Clamped(v, lo, hi) \in lo .. hi
BY DEF Clamped

\* A share of a whole, in hundredths.
LEMMA ShareIs ==
  ASSUME NEW part \in Nat, NEW whole \in Nat \ {0}, part <= whole
  PROVE  (100 * part) \div whole \in 0 .. 100
OBVIOUS

\* The product of the odds of two confidences is a confidence, if the second is not 0.
LEMMA OddsAre ==
  ASSUME NEW a \in 0 .. 100, NEW b \in 1 .. 100
  PROVE  ProductOfOdds(a, b) \in 0 .. 100
<1> DEFINE x == a * b
           y == (100 - a) * (100 - b)
<1>1. x \in Nat /\ y \in Nat /\ (a # 0 => x # 0)
  OBVIOUS
<1>2. ProductOfOdds(a, b) = IF a = 0 THEN 0 ELSE (100 * x) \div (x + y)
  <2>1. 100 * a * b = 100 * x
    OBVIOUS
  <2>. QED
    BY <2>1 DEF ProductOfOdds
<1> HIDE DEF x, y
<1>3. a # 0 => (100 * x) \div (x + y) \in 0 .. 100
  BY <1>1, ShareIs
<1>. QED
  BY <1>2, <1>3

\* The numbers of a prediction.
Predictions ==
  [prob : 0 .. 100, conf : 0 .. 100, temp : Int]

LEMMA BlendedIs ==
  ASSUME NEW f \in [now : Int, short : Int, long : Int, live : Int], NEW expected \in Int
  PROVE  Blended(f, expected) \in Int
<1> DEFINE apart   == Distance(f.short, f.long)
           weight  == AtMost(80, (apart - 150) \div 3)
           physics == Clamped(f.now + (4 * Clamped(f.short, -300, 300)) \div 100, 20, 120)
<1>1. apart \in Int /\ weight \in Int
  BY DEF Distance, AtLeast, AtMost
<1>2. physics \in Int
  BY DEF Clamped
<1>3. expected * (100 - weight) \in Int /\ physics * weight \in Int
  BY <1>1, <1>2
<1>4. Blended(f, expected) =
        IF f.short = NoSlope \/ f.long = NoSlope \/ apart < 150 THEN expected
        ELSE (expected * (100 - weight) + physics * weight) \div 100
  BY DEF Blended
<1> HIDE DEF apart, weight, physics
<1>. QED
  BY <1>3, <1>4

LEMMA KnnIs ==
  ASSUME NEW f \in [now : Int, short : Int, long : Int, live : Int],
         NEW v, \/ v = Cold
                \/ v \in [hot : Nat, cool : Nat, peak : Int] /\ v.hot + v.cool <= TopK
  PROVE  Knn(f, v) \in Predictions
<1>1. NoTempR \in Int /\ TopK \in Nat \ {0}
  BY ResponseAssumption
<1>2. CASE v = Cold
  BY <1>1, <1>2 DEF Knn, Predictions
<1>3. CASE v # Cold
  <2> DEFINE labeled == v.hot + v.cool
             raw == IF v.hot > 0 THEN v.peak ELSE f.now
  <2>1. v.hot \in Nat /\ v.cool \in Nat /\ v.peak \in Int /\ labeled <= TopK
    BY <1>3
  <2>2. AtLeast(3, TopK \div 4) \in Int /\ AtLeast(3, TopK \div 4) >= 3
    BY <1>1 DEF AtLeast
  <2>3. CASE labeled < AtLeast(3, TopK \div 4)
    BY <1>3, <2>3 DEF Knn, Predictions
  <2>4. CASE ~(labeled < AtLeast(3, TopK \div 4))
    <3>1. labeled \in Nat \ {0}
      BY <2>1, <2>2, <2>4
    <3>2. (100 * v.hot) \div labeled \in 0 .. 100
      <4>1. v.hot \in Nat /\ v.hot <= labeled
        BY <2>1
      <4> HIDE DEF labeled
      <4>. QED
        BY <3>1, <4>1, ShareIs
    <3>3. AtLeast(v.hot, v.cool) \in Nat /\ AtLeast(v.hot, v.cool) <= TopK
      BY <1>1, <2>1 DEF AtLeast
    <3>4. (100 * AtLeast(v.hot, v.cool)) \div TopK \in 0 .. 100
      BY <1>1, <3>3, ShareIs
    <3>5. raw \in Int /\ Blended(f, raw) \in Int
      BY <2>1, BlendedIs
    <3>6. Knn(f, v) = [prob |-> (100 * v.hot) \div labeled,
                       conf |-> (100 * AtLeast(v.hot, v.cool)) \div TopK,
                       temp |-> IF raw = NoTempR THEN raw ELSE Blended(f, raw)]
      BY <1>3, <2>4 DEF Knn
    <3> HIDE DEF raw, labeled
    <3>. QED
      BY <3>2, <3>4, <3>5, <3>6 DEF Predictions
  <2>. QED
    BY <2>3, <2>4
<1>. QED
  BY <1>2, <1>3

LEMMA BaselineIs ==
  ASSUME NEW f \in [now : Int, short : Int, long : Int, live : Int]
  PROVE  Baseline(f) \in Predictions
<1>1. SlopeOf(f) \in Int
  BY DEF SlopeOf
<1>2. 4 * 71 * Clamped(SlopeOf(f), -300, 300) \in Int
  BY <1>1 DEF Clamped
<1>3. Clamped(f.now + (4 * 71 * Clamped(SlopeOf(f), -300, 300)) \div 10000, 20, 120) \in Int
  BY <1>2 DEF Clamped
<1>. QED
  BY <1>3, ResponseAssumption DEF Baseline, Predictions

LEMMA MergedIs ==
  ASSUME NEW p \in Predictions, NEW f
  PROVE  /\ Merged(p, f) \in Predictions /\ Merged(p, f).prob >= p.prob
         /\ Merged(p, f).prob >= Trajectory(f)
<1>1. p.prob \in 0 .. 100 /\ p.conf \in 0 .. 100 /\ p.temp \in Int
  BY DEF Predictions
<1>2. Trajectory(f) \in 0 .. 100
  BY TrajectoryIs
<1>3. CASE Trajectory(f) <= p.prob
  BY <1>1, <1>2, <1>3 DEF Merged
<1>4. CASE ~(Trajectory(f) <= p.prob)
  <2> DEFINE q == [p EXCEPT !.prob = Trajectory(f), !.conf = AtMost(70, p.conf + 20)]
  <2>1. Merged(p, f) = q
    BY <1>4 DEF Merged
  <2>2. AtMost(70, p.conf + 20) \in 0 .. 100
    BY <1>1 DEF AtMost
  <2>3. q \in Predictions /\ q.prob = Trajectory(f)
    BY <1>2, <2>2 DEF Predictions
  <2> HIDE DEF q
  <2>. QED
    BY <1>1, <1>2, <1>4, <2>1, <2>3
<1>. QED
  BY <1>3, <1>4

LEMMA CorrectedIs ==
  ASSUME NEW p \in Predictions, NEW bucket \in [n : Nat, mean : Int, std : Nat]
  PROVE  LET q == Corrected(p, bucket) IN
         /\ q \in Predictions /\ q.prob = p.prob
         /\ q.temp = NoTempR \/ q.temp \in 20 .. 120
<1> DEFINE certainty == IF bucket.n < 5 THEN 40 ELSE AtLeast(50, 100 - 10 * bucket.std)
           temp == Clamped(p.temp + bucket.mean, 20, 120)
           conf == ProductOfOdds(p.conf, certainty)
           q == [p EXCEPT !.temp = temp, !.conf = conf]
<1>1. bucket.n \in Nat /\ bucket.mean \in Int /\ bucket.std \in Nat
      /\ p.temp \in Int /\ p.conf \in 0 .. 100
  BY DEF Predictions
<1>2. certainty \in 1 .. 100
  BY <1>1 DEF AtLeast
<1>3. temp \in 20 .. 120 /\ temp \in Int
  BY <1>1 DEF Clamped
<1> HIDE DEF certainty, temp
<1>4. conf \in 0 .. 100
  BY <1>1, <1>2, OddsAre
<1>5. Corrected(p, bucket) = IF p.temp = NoTempR THEN p ELSE q
  BY DEF Corrected, certainty, temp
<1> HIDE DEF conf
<1>6. q \in Predictions /\ q.prob = p.prob /\ q.temp = temp
  BY <1>3, <1>4 DEF Predictions
<1> HIDE DEF q
<1>. QED
  BY <1>3, <1>5, <1>6

\* What the overlay and the bank leave of a prediction.
LEMMA PredictedIs ==
  ASSUME NEW s, SceneTypeOK(s)
  PROVE  LET f == Features(s.window) p == Predicted(s) IN
         /\ f \in [now : Int, short : Int, long : Int, live : Int]
         /\ p \in Predictions
         /\ p.prob >= Trajectory(f)
         /\ s.indexed => p.prob >= Knn(f, s.votes).prob
         /\ p.temp = NoTempR \/ p.temp \in 20 .. 120
<1> DEFINE f == Features(s.window)
           base == IF s.indexed THEN Knn(f, s.votes) ELSE Baseline(f)
           merged == Merged(base, f)
           p == Corrected(merged, s.bucket)
<1>1. f \in [now : Int, short : Int, long : Int, live : Int]
  BY FeaturesAre DEF SceneTypeOK
<1>2. base \in Predictions /\ (s.indexed => base = Knn(f, s.votes))
  <2> HIDE DEF f
  <2>. QED
    BY <1>1, KnnIs, BaselineIs DEF SceneTypeOK
<1>3. s.bucket \in [n : Nat, mean : Int, std : Nat]
  BY DEF SceneTypeOK
<1>4. p = Predicted(s)
  BY DEF Predicted
<1> HIDE DEF f, base
<1>5. merged \in Predictions /\ merged.prob >= Trajectory(f) /\ merged.prob >= base.prob
  BY <1>2, MergedIs
<1> HIDE DEF merged
<1>6. /\ p \in Predictions /\ p.prob = merged.prob
      /\ p.temp = NoTempR \/ p.temp \in 20 .. 120
  BY <1>3, <1>5, CorrectedIs
<1> HIDE DEF p
<1>. QED
  BY <1>1, <1>2, <1>4, <1>5, <1>6 DEF f

\* What the decision engine makes of a prediction.
LEMMA DecidedIs ==
  ASSUME NEW s, NEW f, NEW p \in Predictions, p.prob >= Trajectory(f)
  PROVE  /\ s.mode = "off" => Decided(s, f, p) \subseteq {"NOTIFY_USER"}
         /\ "REDUCE_NOISE" \in Decided(s, f, p) =>
              Decided(s, f, p) = {"REDUCE_NOISE"} /\ Trajectory(f) = 0
<1>1. p.prob \in Int /\ p.conf \in Int
  BY DEF Predictions
<1>2. ASSUME s.mode = "off" PROVE Decided(s, f, p) \subseteq {"NOTIFY_USER"}
  BY <1>2 DEF Decided, RampAllowed, ReduceNoiseAllowed
<1>3. ASSUME "REDUCE_NOISE" \in Decided(s, f, p)
      PROVE  Decided(s, f, p) = {"REDUCE_NOISE"} /\ Trajectory(f) = 0
  <2>1. ReduceNoiseAllowed(s, f, p) /\ ~(p.conf < 50)
    BY <1>3 DEF Decided
  <2>2. s.mode = "quiet" /\ p.prob <= 15
    BY <2>1 DEF ReduceNoiseAllowed
  <2>3. ~RampAllowed(s, f, p)
    BY <1>1, <2>2 DEF RampAllowed
  <2>4. Decided(s, f, p) = {"REDUCE_NOISE"}
    BY <1>1, <2>1, <2>2, <2>3 DEF Decided
  <2>5. Trajectory(f) = 0
    BY <1>1, <2>2, TrajectoryIs
  <2>. QED
    BY <2>4, <2>5
<1>. QED
  BY <1>2, <1>3


-----------------------------------------------------------------------------
\* Curves over the temperatures D, in hundredths of a percent.
Shares == {v \in Int : 0 <= v /\ v <= 10000}
Curves(D) == [D -> Shares]

\* The fans stand still below 49 degrees.
Still(D, c) == \A t \in D : t < 49 => c[t] = 0

Below(c, d) == \A t \in DOMAIN c : c[t] <= d[t]

\* What the policies read of a tick.
ContextOK(x) ==
  /\ x.temp \in Int /\ x.prob \in Int /\ x.slope \in Nat /\ x.recent \in Nat /\ x.soak \in Nat
  /\ x.conservative \in BOOLEAN

\* More signs of heat, and all else the same.
Hotter(x, y) ==
  /\ y.temp = x.temp /\ y.conservative = x.conservative /\ y.profile = x.profile
  /\ y.headroom = x.headroom /\ y.soak = x.soak
  /\ y.prob >= x.prob /\ y.slope >= x.slope
  /\ x.recent >= 2 => y.recent >= 2
  /\ y.mode = x.mode \/ (x.mode = "quiet" /\ y.mode = "cool")

\* The temperatures of a curve.
Temps(D) == \A t \in D : t \in Int

LEMMA KneeIs ==
  ASSUME NEW D, Temps(D), NEW t \in D
  PROVE  t \in Int /\ Knee(t) \in {0, 1, 2, 3, 4, 5} /\ (t < 49 => Knee(t) = 0)
<1>1. t \in Int
  BY DEF Temps
<1>. QED
  BY <1>1 DEF Knee

LEMMA ShiftIs ==
  ASSUME NEW a \in Int, NEW b \in Int, a <= b, NEW k \in {0, 1, 2, 3, 4, 5}
  PROVE  /\ (a * k) \div 5 \in Int /\ (b * k) \div 5 \in Int
         /\ (a * k) \div 5 <= (b * k) \div 5
         /\ a >= 0 => (a * k) \div 5 >= 0
         /\ k = 0 => (a * k) \div 5 = 0
OBVIOUS

LEMMA PercentIs ==
  ASSUME NEW u \in Int
  PROVE  Percent(u) \in Shares /\ (u \in Shares => Percent(u) = u)
BY DEF Percent, Clamped, Shares

LEMMA PercentRises ==
  ASSUME NEW u \in Int, NEW v \in Int, u <= v
  PROVE  Percent(u) <= Percent(v)
BY DEF Percent, Clamped

\* A temperature of two curves, one below the other.
LEMMA CurveAt ==
  ASSUME NEW D, NEW c \in Curves(D), NEW t \in D
  PROVE  DOMAIN c = D /\ c[t] \in Shares /\ c[t] \in Int
BY DEF Curves, Shares

LEMMA BelowAt ==
  ASSUME NEW D, NEW c \in Curves(D), NEW d, Below(c, d), NEW t \in D
  PROVE  c[t] <= d[t]
BY DEF Curves, Below

LEMMA BelowIs ==
  ASSUME NEW D, NEW c \in Curves(D), NEW d, \A t \in D : c[t] <= d[t]
  PROVE  Below(c, d)
BY DEF Curves, Below

LEMMA CurveIs ==
  ASSUME NEW D, NEW c, c = [t \in D |-> c[t]], \A t \in D : c[t] \in Shares
  PROVE  c \in Curves(D)
BY DEF Curves

\* A lift keeps a curve a curve, keeps the order of curves, and is the higher the more
\* it lifts.
LEMMA LiftedIs ==
  ASSUME NEW D, Temps(D), NEW c \in Curves(D), NEW a \in Int
  PROVE  /\ Lifted(c, a) \in Curves(D)
         /\ Still(D, c) => Still(D, Lifted(c, a))
<1>1. Lifted(c, a) = [t \in D |-> Lifted(c, a)[t]]
  BY CurveAt DEF Lifted, Curves
<1>2. ASSUME NEW t \in D
      PROVE  Lifted(c, a)[t] \in Shares /\ (t < 49 /\ c[t] = 0 => Lifted(c, a)[t] = 0)
  <2> DEFINE shift == (a * Knee(t)) \div 5
  <2>1. shift \in Int /\ (t < 49 => shift = 0)
    BY KneeIs, ShiftIs
  <2>2. Lifted(c, a)[t] = Percent(c[t] + shift)
    BY CurveAt DEF Lifted
  <2> HIDE DEF shift
  <2>3. c[t] \in Int /\ c[t] + shift \in Int
    BY <2>1, CurveAt
  <2>4. Percent(c[t] + shift) \in Shares
    BY <2>3, PercentIs
  <2>5. t < 49 /\ c[t] = 0 => c[t] + shift = 0
    BY <2>1
  <2>6. Percent(0) = 0
    BY DEF Percent, Clamped
  <2>. QED
    BY <2>2, <2>4, <2>5, <2>6
<1>3. Lifted(c, a) \in Curves(D)
  BY <1>1, <1>2, CurveIs
<1>. QED
  BY <1>2, <1>3 DEF Still

LEMMA LiftedRises ==
  ASSUME NEW D, Temps(D), NEW c \in Curves(D), NEW d \in Curves(D), Below(c, d),
         NEW a \in Int, NEW b \in Int, a <= b
  PROVE  Below(Lifted(c, a), Lifted(d, b))
<1>1. ASSUME NEW t \in D PROVE Lifted(c, a)[t] <= Lifted(d, b)[t]
  <2> DEFINE k == Knee(t)
             low == (a * k) \div 5
             high == (b * k) \div 5
  <2>1. k \in {0, 1, 2, 3, 4, 5}
    BY KneeIs
  <2>2. low \in Int /\ high \in Int /\ low <= high
    <3> HIDE DEF k
    <3>. QED
      BY <2>1, ShiftIs
  <2>3. Lifted(c, a)[t] = Percent(c[t] + low) /\ Lifted(d, b)[t] = Percent(d[t] + high)
    BY CurveAt DEF Lifted
  <2> HIDE DEF low, high
  <2>4. c[t] \in Int /\ d[t] \in Int
    BY CurveAt
  <2>5. c[t] <= d[t]
    BY BelowAt
  <2>6. c[t] + low \in Int /\ d[t] + high \in Int
    BY <2>2, <2>4
  <2>7. c[t] + low <= d[t] + high
    BY <2>2, <2>4, <2>5
  <2>. QED
    BY <2>3, <2>6, <2>7, PercentRises
<1>. QED
  BY <1>1, LiftedIs, BelowIs

\* To lift by 0 is to leave it; so a curve is below every lift.
LEMMA LiftedAbove ==
  ASSUME NEW D, Temps(D), NEW c \in Curves(D), NEW d \in Curves(D), Below(c, d),
         NEW b \in Int, 0 <= b
  PROVE  Below(c, Lifted(d, b))
<1>1. Lifted(c, 0) = c
  <2>1. \A t \in D : Percent(c[t] + (0 * Knee(t)) \div 5) = c[t]
    <3> SUFFICES ASSUME NEW t \in D PROVE Percent(c[t] + (0 * Knee(t)) \div 5) = c[t]
      OBVIOUS
    <3>1. (0 * Knee(t)) \div 5 = 0
      BY KneeIs
    <3>2. c[t] \in Shares /\ c[t] \in Int
      BY CurveAt
    <3>3. c[t] + (0 * Knee(t)) \div 5 = c[t]
      BY <3>1, <3>2
    <3>4. Percent(c[t]) = c[t]
      BY <3>2, PercentIs
    <3>. QED
      BY <3>3, <3>4
  <2>2. c = [t \in D |-> c[t]]
    BY DEF Curves
  <2>. QED
    BY <2>1, <2>2 DEF Lifted
<1>2. Below(Lifted(c, 0), Lifted(d, b))
  BY LiftedRises
<1>. QED
  BY <1>1, <1>2


\* A policy that lifts or does not, and that lifts the hotter curve if it lifts the other.
LEMMA OptionalLift ==
  ASSUME NEW D, Temps(D), NEW c \in Curves(D), NEW d \in Curves(D), Below(c, d),
         NEW lifts \in BOOLEAN, NEW lifted \in BOOLEAN, lifts => lifted,
         NEW a \in Int, NEW b \in Int, lifts => a <= b, lifted => lifts \/ 0 <= b
  PROVE  Below(IF lifts THEN Lifted(c, a) ELSE c, IF lifted THEN Lifted(d, b) ELSE d)
<1>1. CASE lifts
  BY <1>1, LiftedRises
<1>2. CASE ~lifts /\ lifted
  BY <1>2, LiftedAbove
<1>3. CASE ~lifted
  BY <1>3
<1>. QED
  BY <1>1, <1>2, <1>3

LEMMA FloorIs ==
  ASSUME NEW D, Temps(D), NEW c \in [D -> Int]
  PROVE  FloorTo49(c) \in Curves(D) /\ Still(D, FloorTo49(c))
<1>1. FloorTo49(c) = [t \in D |-> IF t < 49 THEN 0 ELSE Percent(c[t])]
  BY DEF FloorTo49
<1>2. \A t \in D : Percent(c[t]) \in Shares
  BY PercentIs
<1>3. 0 \in Shares
  BY DEF Shares
<1>. QED
  BY <1>1, <1>2, <1>3 DEF Curves, Still

\* The quiet mode takes away, and no more than there is.
QuietPercent(v, k) == AtMost(v, AtLeast(1200, v - 200 * k))

LEMMA QuietPercentIs ==
  ASSUME NEW v \in Shares, NEW k \in {0, 1, 2, 3, 4, 5}
  PROVE  /\ QuietPercent(v, k) \in Shares /\ QuietPercent(v, k) \in Int
         /\ QuietPercent(v, k) <= v /\ QuietPercent(0, k) = 0
BY DEF QuietPercent, AtMost, AtLeast, Shares

LEMMA QuietPercentRises ==
  ASSUME NEW u \in Int, NEW v \in Int, u <= v, NEW k \in {0, 1, 2, 3, 4, 5}
  PROVE  QuietPercent(u, k) <= QuietPercent(v, k)
BY DEF QuietPercent, AtMost, AtLeast

LEMMA QuietIs ==
  ASSUME NEW D, Temps(D), NEW c \in Curves(D), Still(D, c), NEW x
  PROVE  QuietSubtract(c, x) \in Curves(D) /\ Still(D, QuietSubtract(c, x))
<1> DEFINE q == [t \in D |-> QuietPercent(c[t], Knee(t))]
<1>1. DOMAIN c = D
  BY DEF Curves
<1>2. QuietSubtract(c, x) \in {c, q}
  BY <1>1 DEF QuietSubtract, QuietPercent
<1>3. \A t \in D : QuietPercent(c[t], Knee(t)) \in Shares
                   /\ (c[t] = 0 => QuietPercent(c[t], Knee(t)) = 0)
  BY CurveAt, KneeIs, QuietPercentIs
<1>4. q \in Curves(D) /\ Still(D, q)
  BY <1>3 DEF Curves, Still
<1>. QED
  BY <1>2, <1>4

LEMMA QuietRises ==
  ASSUME NEW D, Temps(D), NEW c \in Curves(D), NEW d \in Curves(D), Below(c, d),
         NEW x, NEW y, ContextOK(x), ContextOK(y), Hotter(x, y)
  PROVE  Below(QuietSubtract(c, x), QuietSubtract(d, y))
<1> DEFINE Quiet(z) ==
      z.mode = "quiet" /\ z.prob <= 15 /\ z.temp # NoTempR /\ z.temp < 75
<1>1. Quiet(y) => Quiet(x)
  BY DEF ContextOK, Hotter
<1>2. /\ QuietSubtract(c, x)
           = IF Quiet(x) THEN [t \in D |-> QuietPercent(c[t], Knee(t))] ELSE c
      /\ QuietSubtract(d, y)
           = IF Quiet(y) THEN [t \in D |-> QuietPercent(d[t], Knee(t))] ELSE d
  <2>1. DOMAIN c = D /\ DOMAIN d = D
    BY DEF Curves
  <2>. QED
    BY <2>1 DEF QuietSubtract, QuietPercent
<1> HIDE DEF Quiet
<1>3. ASSUME NEW t \in D
      PROVE  /\ QuietPercent(c[t], Knee(t)) <= QuietPercent(d[t], Knee(t))
             /\ QuietPercent(c[t], Knee(t)) <= d[t]
             /\ c[t] <= d[t]
  <2>1. /\ c[t] \in Shares /\ d[t] \in Shares /\ c[t] \in Int /\ d[t] \in Int
        /\ Knee(t) \in {0, 1, 2, 3, 4, 5}
    BY CurveAt, KneeIs
  <2>2. c[t] <= d[t]
    BY BelowAt
  <2>3. QuietPercent(c[t], Knee(t)) <= c[t] /\ QuietPercent(c[t], Knee(t)) \in Int
    BY <2>1, QuietPercentIs
  <2>4. QuietPercent(c[t], Knee(t)) <= QuietPercent(d[t], Knee(t))
    BY <2>1, <2>2, QuietPercentRises
  <2>5. QuietPercent(c[t], Knee(t)) <= d[t]
    BY <2>1, <2>2, <2>3
  <2>. QED
    BY <2>2, <2>4, <2>5
<1>4. DOMAIN QuietSubtract(c, x) = D
  BY <1>2 DEF Curves
<1>5. \A t \in D : QuietSubtract(c, x)[t] <= QuietSubtract(d, y)[t]
  BY <1>1, <1>2, <1>3
<1>. QED
  BY <1>4, <1>5 DEF Below

LEMMA PreloadIs ==
  ASSUME NEW D, Temps(D), NEW c \in Curves(D), Still(D, c), NEW x, ContextOK(x)
  PROVE  PredictivePreload(c, x) \in Curves(D) /\ Still(D, PredictivePreload(c, x))
<1> DEFINE raw == IF x.conservative THEN 48 * (x.prob - 40) ELSE 40 * (x.prob - 50)
           lift == Clamped(raw, 0, 2000)
<1>1. lift \in Int
  BY DEF ContextOK, Clamped
<1>2. PredictivePreload(c, x) \in {c, Lifted(c, lift)}
  BY DEF PredictivePreload
<1> HIDE DEF lift
<1>. QED
  BY <1>1, <1>2, LiftedIs

LEMMA PreloadRises ==
  ASSUME NEW D, Temps(D), NEW c \in Curves(D), NEW d \in Curves(D), Below(c, d),
         NEW x, NEW y, ContextOK(x), ContextOK(y), Hotter(x, y)
  PROVE  Below(PredictivePreload(c, x), PredictivePreload(d, y))
<1> DEFINE Raw(z) == IF z.conservative THEN 48 * (z.prob - 40) ELSE 40 * (z.prob - 50)
           Lift(z) == Clamped(Raw(z), 0, 2000)
           Lifts(z) == ~(z.mode = "off" \/ z.prob < (IF z.conservative THEN 45 ELSE 60)
                         \/ Lift(z) <= 50)
<1>1. Raw(x) \in Int /\ Raw(y) \in Int /\ Raw(x) <= Raw(y)
  BY DEF ContextOK, Hotter
<1>2. /\ PredictivePreload(c, x) = IF Lifts(x) THEN Lifted(c, Lift(x)) ELSE c
      /\ PredictivePreload(d, y) = IF Lifts(y) THEN Lifted(d, Lift(y)) ELSE d
  BY DEF PredictivePreload
<1> HIDE DEF Raw
<1>3. Lift(x) \in Int /\ Lift(y) \in Int /\ Lift(x) <= Lift(y) /\ 0 <= Lift(y)
  BY <1>1 DEF Clamped
<1> HIDE DEF Lift
<1>4. Lifts(x) => Lifts(y)
  BY <1>3 DEF ContextOK, Hotter
<1>5. Lifts(x) \in BOOLEAN /\ Lifts(y) \in BOOLEAN
  OBVIOUS
<1> HIDE DEF Lifts
<1>. QED
  BY <1>2, <1>3, <1>4, <1>5, OptionalLift

LEMMA SlopeLiftIs ==
  ASSUME NEW D, Temps(D), NEW c \in Curves(D), Still(D, c), NEW x, ContextOK(x)
  PROVE  SlopePreload(c, x) \in Curves(D) /\ Still(D, SlopePreload(c, x))
<1>1. AtMost(30 * x.slope, 1200) \in Int
  BY DEF ContextOK, AtMost
<1>2. SlopePreload(c, x) \in {c, Lifted(c, AtMost(30 * x.slope, 1200))}
  BY DEF SlopePreload
<1>. QED
  BY <1>1, <1>2, LiftedIs

LEMMA SlopeLiftRises ==
  ASSUME NEW D, Temps(D), NEW c \in Curves(D), NEW d \in Curves(D), Below(c, d),
         NEW x, NEW y, ContextOK(x), ContextOK(y), Hotter(x, y)
  PROVE  Below(SlopePreload(c, x), SlopePreload(d, y))
<1> DEFINE Lift(z) == AtMost(30 * z.slope, 1200)
           Lifts(z) == ~(z.mode = "off" \/ z.temp = NoTempR \/ z.temp < 75 \/ z.slope < 30)
<1>1. /\ SlopePreload(c, x) = IF Lifts(x) THEN Lifted(c, Lift(x)) ELSE c
      /\ SlopePreload(d, y) = IF Lifts(y) THEN Lifted(d, Lift(y)) ELSE d
  BY DEF SlopePreload
<1>2. x.slope \in Nat /\ y.slope \in Nat /\ x.slope <= y.slope
  BY DEF ContextOK, Hotter
<1>3. Lift(x) \in Int /\ Lift(y) \in Int /\ Lift(x) <= Lift(y) /\ 0 <= Lift(y)
  BY <1>2 DEF AtMost
<1> HIDE DEF Lift
<1>4. Lifts(x) => Lifts(y)
  BY <1>2 DEF Hotter
<1>5. Lifts(x) \in BOOLEAN /\ Lifts(y) \in BOOLEAN
  OBVIOUS
<1> HIDE DEF Lifts
<1>. QED
  BY <1>1, <1>3, <1>4, <1>5, OptionalLift

LEMMA ShapeIs ==
  ASSUME NEW D, Temps(D), NEW c \in Curves(D), Still(D, c), NEW x
  PROVE  /\ WorkloadProfileShape(c, x) \in Curves(D) /\ Still(D, WorkloadProfileShape(c, x))
         /\ WorkloadHeadroom(c, x) \in Curves(D) /\ Still(D, WorkloadHeadroom(c, x))
<1>1. ProfileBump(x.profile) \in Int
  BY DEF ProfileBump
<1>2. WorkloadHeadroom(c, x) \in {c, Lifted(c, 500)}
  BY DEF WorkloadHeadroom
<1>3. WorkloadProfileShape(c, x) = Lifted(c, ProfileBump(x.profile))
  BY DEF WorkloadProfileShape
<1>. QED
  BY <1>1, <1>2, <1>3, LiftedIs

LEMMA ShapeRises ==
  ASSUME NEW D, Temps(D), NEW c \in Curves(D), NEW d \in Curves(D), Below(c, d),
         NEW x, NEW y, Hotter(x, y)
  PROVE  /\ Below(WorkloadProfileShape(c, x), WorkloadProfileShape(d, y))
         /\ Below(WorkloadHeadroom(c, x), WorkloadHeadroom(d, y))
<1>1. ProfileBump(x.profile) \in Int /\ y.profile = x.profile /\ y.headroom = x.headroom
  BY DEF ProfileBump, Hotter
<1>2. Below(Lifted(c, ProfileBump(x.profile)), Lifted(d, ProfileBump(y.profile)))
  BY <1>1, LiftedRises
<1>3. Below(Lifted(c, 500), Lifted(d, 500))
  BY LiftedRises
<1>. QED
  BY <1>1, <1>2, <1>3 DEF WorkloadProfileShape, WorkloadHeadroom

LEMMA ThrottleIs ==
  ASSUME NEW D, Temps(D), NEW c \in Curves(D), Still(D, c), NEW x
  PROVE  RecentThrottleBump(c, x) \in Curves(D) /\ Still(D, RecentThrottleBump(c, x))
<1> DEFINE q == [t \in D |-> IF t \in 65 .. 80 THEN Percent(c[t] + 800) ELSE c[t]]
<1>1. DOMAIN c = D
  BY DEF Curves
<1>2. RecentThrottleBump(c, x) \in {c, q}
  BY <1>1 DEF RecentThrottleBump
<1>3. ASSUME NEW t \in D
      PROVE  q[t] \in Shares /\ (t < 49 /\ c[t] = 0 => q[t] = 0)
  <2>1. c[t] \in Shares /\ c[t] \in Int /\ c[t] + 800 \in Int
    BY CurveAt
  <2>2. Percent(c[t] + 800) \in Shares
    BY <2>1, PercentIs
  <2>3. t \in Int
    BY KneeIs
  <2>4. t < 49 => t \notin 65 .. 80
    BY <2>3
  <2>. QED
    BY <2>1, <2>2, <2>4
<1>4. q \in Curves(D) /\ Still(D, q)
  BY <1>3 DEF Curves, Still
<1>. QED
  BY <1>2, <1>4

LEMMA ThrottleRises ==
  ASSUME NEW D, Temps(D), NEW c \in Curves(D), NEW d \in Curves(D), Below(c, d),
         NEW x, NEW y, ContextOK(x), ContextOK(y), Hotter(x, y)
  PROVE  Below(RecentThrottleBump(c, x), RecentThrottleBump(d, y))
<1> DEFINE Bumped(e, t) == IF t \in 65 .. 80 THEN Percent(e[t] + 800) ELSE e[t]
<1>1. DOMAIN c = D /\ DOMAIN d = D
  BY DEF Curves
<1>2. /\ RecentThrottleBump(c, x) = IF x.recent < 2 THEN c ELSE [t \in D |-> Bumped(c, t)]
      /\ RecentThrottleBump(d, y) = IF y.recent < 2 THEN d ELSE [t \in D |-> Bumped(d, t)]
  BY <1>1 DEF RecentThrottleBump
<1>3. y.recent < 2 => x.recent < 2
  BY DEF ContextOK, Hotter
<1>4. ASSUME NEW t \in D
      PROVE  Bumped(c, t) <= Bumped(d, t) /\ c[t] <= Bumped(d, t) /\ c[t] <= d[t]
  <2>1. c[t] \in Shares /\ c[t] \in Int /\ d[t] \in Int
    BY CurveAt
  <2>2. c[t] <= d[t]
    BY BelowAt
  <2>3. c[t] + 800 \in Int /\ d[t] + 800 \in Int /\ c[t] + 800 <= d[t] + 800
        /\ c[t] <= d[t] + 800
    BY <2>1, <2>2
  <2>4. Percent(c[t] + 800) <= Percent(d[t] + 800)
    BY <2>3, PercentRises
  <2>5. Percent(c[t]) <= Percent(d[t] + 800) /\ Percent(c[t]) = c[t]
    BY <2>1, <2>3, PercentIs, PercentRises
  <2>. QED
    BY <2>2, <2>4, <2>5
<1> HIDE DEF Bumped
<1>5. DOMAIN RecentThrottleBump(c, x) = D
  BY <1>1, <1>2
<1>6. \A t \in D : RecentThrottleBump(c, x)[t] <= RecentThrottleBump(d, y)[t]
  BY <1>2, <1>3, <1>4
<1>. QED
  BY <1>5, <1>6 DEF Below

LEMMA SoakIs ==
  ASSUME NEW D, Temps(D), NEW c \in Curves(D), Still(D, c), NEW x, ContextOK(x)
  PROVE  HeatSoakBump(c, x) \in Curves(D) /\ Still(D, HeatSoakBump(c, x))
<1>1. AtMost(6 * x.soak, 1000) \in Int
  BY DEF ContextOK, AtMost
<1>2. HeatSoakBump(c, x) \in {c, Lifted(c, AtMost(6 * x.soak, 1000))}
  BY DEF HeatSoakBump
<1>. QED
  BY <1>1, <1>2, LiftedIs

LEMMA SoakRises ==
  ASSUME NEW D, Temps(D), NEW c \in Curves(D), NEW d \in Curves(D), Below(c, d),
         NEW x, NEW y, ContextOK(x), Hotter(x, y)
  PROVE  Below(HeatSoakBump(c, x), HeatSoakBump(d, y))
<1>1. AtMost(6 * x.soak, 1000) \in Int /\ y.soak = x.soak
  BY DEF ContextOK, AtMost, Hotter
<1>2. Below(Lifted(c, AtMost(6 * x.soak, 1000)), Lifted(d, AtMost(6 * x.soak, 1000)))
  BY <1>1, LiftedRises
<1>. QED
  BY <1>1, <1>2 DEF HeatSoakBump

LEMMA RampIs ==
  ASSUME NEW D, Temps(D), NEW c \in Curves(D), Still(D, c), NEW x, ContextOK(x)
  PROVE  /\ EmergencyRamp(c, x) \in Curves(D) /\ Still(D, EmergencyRamp(c, x))
         /\ x.temp >= 82 =>
              \A t \in D : t >= x.temp - 1 => EmergencyRamp(c, x)[t] = 10000
<1> DEFINE q == [t \in D |-> IF t >= x.temp - 1 THEN 10000 ELSE c[t]]
<1>1. DOMAIN c = D
  BY DEF Curves
<1>2. EmergencyRamp(c, x) = IF x.temp = NoTempR \/ x.temp < 82 THEN c ELSE q
  BY <1>1 DEF EmergencyRamp
<1>3. ASSUME x.temp >= 82, NEW t \in D
      PROVE  q[t] \in Shares /\ (t < 49 /\ c[t] = 0 => q[t] = 0)
  <2>1. c[t] \in Shares /\ 10000 \in Shares
    BY CurveAt DEF Shares
  <2>2. t < 49 => ~(t >= x.temp - 1)
    BY <1>3, KneeIs DEF ContextOK
  <2>. QED
    BY <2>1, <2>2
<1>4. x.temp >= 82 => q \in Curves(D) /\ Still(D, q)
  BY <1>3 DEF Curves, Still
<1>5. x.temp >= 82 <=> ~(x.temp = NoTempR \/ x.temp < 82)
  BY ResponseAssumption DEF ContextOK
<1>. QED
  BY <1>2, <1>4, <1>5

LEMMA RampRises ==
  ASSUME NEW D, Temps(D), NEW c \in Curves(D), NEW d \in Curves(D), Below(c, d),
         NEW x, NEW y, Hotter(x, y)
  PROVE  Below(EmergencyRamp(c, x), EmergencyRamp(d, y))
<1> DEFINE Ramped(e) == [t \in D |-> IF t >= x.temp - 1 THEN 10000 ELSE e[t]]
<1>1. DOMAIN c = D /\ DOMAIN d = D
  BY DEF Curves
<1>2. /\ EmergencyRamp(c, x) = IF x.temp = NoTempR \/ x.temp < 82 THEN c ELSE Ramped(c)
      /\ EmergencyRamp(d, y) = IF x.temp = NoTempR \/ x.temp < 82 THEN d ELSE Ramped(d)
  BY <1>1 DEF EmergencyRamp, Hotter
<1>3. Below(Ramped(c), Ramped(d))
  <2>1. \A t \in D : Ramped(c)[t] <= Ramped(d)[t]
    BY BelowAt
  <2>. QED
    BY <2>1 DEF Below
<1>. QED
  BY <1>2, <1>3

\* The curves on the way through the policies.
Preloaded(c, x) ==
  SlopePreload(PredictivePreload(QuietSubtract(FloorTo49(c), x), x), x)
Worked(c, x) == WorkloadHeadroom(WorkloadProfileShape(Preloaded(c, x), x), x)
Soaked(c, x) == HeatSoakBump(RecentThrottleBump(Worked(c, x), x), x)

LEMMA PipelineIs ==
  ASSUME NEW D, Temps(D), NEW c \in [D -> Int], NEW x, ContextOK(x)
  PROVE  LET made == Pipeline(c, x) IN
         /\ made \in Curves(D) /\ Still(D, made)
         /\ x.temp >= 82 => \A t \in D : t >= x.temp - 1 => made[t] = 10000
<1>1. Preloaded(c, x) \in Curves(D) /\ Still(D, Preloaded(c, x))
  BY FloorIs, QuietIs, PreloadIs, SlopeLiftIs DEF Preloaded
<1>2. Worked(c, x) \in Curves(D) /\ Still(D, Worked(c, x))
  BY <1>1, ShapeIs DEF Worked
<1>3. Soaked(c, x) \in Curves(D) /\ Still(D, Soaked(c, x))
  BY <1>2, ThrottleIs, SoakIs DEF Soaked
<1>4. Pipeline(c, x) = EmergencyRamp(Soaked(c, x), x)
  BY DEF Pipeline, Preloaded, Worked, Soaked
<1>. QED
  BY <1>3, <1>4, RampIs

LEMMA PipelineRises ==
  ASSUME NEW D, Temps(D), NEW c \in [D -> Int],
         NEW x, NEW y, ContextOK(x), ContextOK(y), Hotter(x, y)
  PROVE  \A t \in D : Pipeline(c, x)[t] <= Pipeline(c, y)[t]
<1> DEFINE floor == FloorTo49(c)
           qx == QuietSubtract(floor, x)
           qy == QuietSubtract(floor, y)
           px == PredictivePreload(qx, x)
           py == PredictivePreload(qy, y)
           sx == WorkloadProfileShape(Preloaded(c, x), x)
           sy == WorkloadProfileShape(Preloaded(c, y), y)
           tx == RecentThrottleBump(Worked(c, x), x)
           ty == RecentThrottleBump(Worked(c, y), y)
<1>1. floor \in Curves(D) /\ Still(D, floor) /\ Below(floor, floor)
  <2>1. floor \in Curves(D) /\ Still(D, floor)
    BY FloorIs
  <2>2. \A t \in D : floor[t] <= floor[t]
    BY <2>1, CurveAt
  <2>. QED
    BY <2>1, <2>2, BelowIs
<1> HIDE DEF floor
<1>2. /\ qx \in Curves(D) /\ Still(D, qx) /\ qy \in Curves(D) /\ Still(D, qy)
      /\ Below(qx, qy)
  BY <1>1, QuietIs, QuietRises
<1> HIDE DEF qx, qy
<1>3. /\ px \in Curves(D) /\ Still(D, px) /\ py \in Curves(D) /\ Still(D, py)
      /\ Below(px, py)
  BY <1>2, PreloadIs, PreloadRises
<1> HIDE DEF px, py
<1>4. /\ Preloaded(c, x) \in Curves(D) /\ Still(D, Preloaded(c, x))
      /\ Preloaded(c, y) \in Curves(D) /\ Still(D, Preloaded(c, y))
      /\ Below(Preloaded(c, x), Preloaded(c, y))
  <2>1. /\ Preloaded(c, x) = SlopePreload(px, x) /\ Preloaded(c, y) = SlopePreload(py, y)
    BY DEF Preloaded, px, py, qx, qy, floor
  <2>. QED
    BY <1>3, <2>1, SlopeLiftIs, SlopeLiftRises
<1>5. /\ sx \in Curves(D) /\ Still(D, sx) /\ sy \in Curves(D) /\ Still(D, sy)
      /\ Below(sx, sy)
  BY <1>4, ShapeIs, ShapeRises
<1> HIDE DEF sx, sy
<1>6. /\ Worked(c, x) \in Curves(D) /\ Still(D, Worked(c, x))
      /\ Worked(c, y) \in Curves(D) /\ Still(D, Worked(c, y))
      /\ Below(Worked(c, x), Worked(c, y))
  <2>1. Worked(c, x) = WorkloadHeadroom(sx, x) /\ Worked(c, y) = WorkloadHeadroom(sy, y)
    BY DEF Worked, sx, sy
  <2>. QED
    BY <1>5, <2>1, ShapeIs, ShapeRises
<1>7. /\ tx \in Curves(D) /\ Still(D, tx) /\ ty \in Curves(D) /\ Still(D, ty)
      /\ Below(tx, ty)
  BY <1>6, ThrottleIs, ThrottleRises
<1> HIDE DEF tx, ty
<1>8. /\ Soaked(c, x) \in Curves(D) /\ Soaked(c, y) \in Curves(D)
      /\ Below(Soaked(c, x), Soaked(c, y))
  <2>1. Soaked(c, x) = HeatSoakBump(tx, x) /\ Soaked(c, y) = HeatSoakBump(ty, y)
    BY DEF Soaked, tx, ty
  <2>. QED
    BY <1>7, <2>1, SoakIs, SoakRises
<1>9. Below(EmergencyRamp(Soaked(c, x), x), EmergencyRamp(Soaked(c, y), y))
  BY <1>8, RampRises
<1>10. Below(Pipeline(c, x), Pipeline(c, y))
  BY <1>9 DEF Pipeline, Preloaded, Worked, Soaked
<1>. QED
  BY <1>10, PipelineIs, BelowAt

\* What a tick left is what it made of its scene.
ResponseInv ==
  Shown => /\ SceneTypeOK(scene) /\ forecast = Predicted(scene)
           /\ verbs = Decided(scene, Features(scene.window), forecast)
           /\ curve = Pipeline(scene.base, Here)

LEMMA HereIs ==
  ASSUME SceneTypeOK(scene), forecast = Predicted(scene)
  PROVE  /\ ContextOK(Here)
         /\ Here = [mode |-> scene.mode, temp |-> Features(scene.window).live,
                    prob |-> forecast.prob, slope |-> AtLeast(Features(scene.window).short, 0),
                    conservative |-> forecast.conf < 45 /\ forecast.prob > 20,
                    profile |-> scene.profile, headroom |-> scene.headroom,
                    recent |-> scene.recent, soak |-> scene.soak]
<1>1. /\ Features(scene.window) \in [now : Int, short : Int, long : Int, live : Int]
      /\ forecast \in Predictions
  BY PredictedIs
<1>2. Features(scene.window).live \in Int /\ AtLeast(Features(scene.window).short, 0) \in Nat
  BY <1>1 DEF AtLeast
<1>3. forecast.prob \in Int
  BY <1>1 DEF Predictions
<1>4. scene.recent \in Nat /\ scene.soak \in Nat
  BY DEF SceneTypeOK
<1>. QED
  BY <1>2, <1>3, <1>4 DEF Here, Context, ContextOK

LEMMA Dominates ==
  ASSUME ResponseInv, Shown
  PROVE  CurveDominates
<1> DEFINE here == Here
           D == DOMAIN scene.base
<1>1. SceneTypeOK(scene) /\ forecast = Predicted(scene) /\ curve = Pipeline(scene.base, here)
  BY DEF ResponseInv
<1>2. scene.base \in [D -> Int] /\ Temps(D)
  BY <1>1 DEF SceneTypeOK, Temps
<1>3. /\ ContextOK(here)
      /\ here = [mode |-> scene.mode, temp |-> Features(scene.window).live,
                 prob |-> forecast.prob, slope |-> AtLeast(Features(scene.window).short, 0),
                 conservative |-> forecast.conf < 45 /\ forecast.prob > 20,
                 profile |-> scene.profile, headroom |-> scene.headroom,
                 recent |-> scene.recent, soak |-> scene.soak]
  BY <1>1, HereIs
<1> HIDE DEF here, D
<1>4. /\ DOMAIN curve = D /\ Still(D, curve)
      /\ here.temp >= 82 => \A t \in D : t >= here.temp - 1 => curve[t] = 10000
  BY <1>1, <1>2, <1>3, PipelineIs DEF Curves
<1> DEFINE NowhereLower(x) == LET other == Pipeline(scene.base, x)
                              IN  \A t \in DOMAIN curve : other[t] >= curve[t]
<1>5. ASSUME NEW x, ContextOK(x), Hotter(here, x) PROVE NowhereLower(x)
  <2>1. \A t \in D : Pipeline(scene.base, here)[t] <= Pipeline(scene.base, x)[t]
    BY <1>2, <1>3, <1>5, PipelineRises
  <2>. QED
    BY <1>1, <1>4, <2>1
<1> HIDE DEF NowhereLower
<1>6. ASSUME NEW p \in {16, 60, 100}, p >= here.prob
      PROVE  NowhereLower([here EXCEPT !.prob = p])
  <2> DEFINE x == [here EXCEPT !.prob = p]
  <2>1. ContextOK(x) /\ Hotter(here, x)
    BY <1>3, <1>6 DEF ContextOK, Hotter
  <2>. QED
    BY <1>5, <2>1
<1>7. NowhereLower([here EXCEPT !.slope = @ + 30])
  <2> DEFINE x == [here EXCEPT !.slope = @ + 30]
  <2>1. ContextOK(x) /\ Hotter(here, x)
    BY <1>3 DEF ContextOK, Hotter
  <2>. QED
    BY <1>5, <2>1
<1>8. NowhereLower([here EXCEPT !.recent = 2])
  <2> DEFINE x == [here EXCEPT !.recent = 2]
  <2>1. ContextOK(x) /\ Hotter(here, x)
    BY <1>3 DEF ContextOK, Hotter
  <2>. QED
    BY <1>5, <2>1
<1>9. NowhereLower([here EXCEPT !.mode = IF @ = "quiet" THEN "cool" ELSE @])
  <2> DEFINE x == [here EXCEPT !.mode = IF @ = "quiet" THEN "cool" ELSE @]
  <2>1. ContextOK(x) /\ Hotter(here, x)
    BY <1>3 DEF ContextOK, Hotter
  <2>. QED
    BY <1>5, <2>1
<1>10. \A t \in DOMAIN curve :
         /\ t < 49 => curve[t] = 0
         /\ here.temp >= 82 /\ t >= here.temp - 1 => curve[t] = 10000
  BY <1>4 DEF Still
<1>. QED
  BY <1>6, <1>7, <1>8, <1>9, <1>10 DEF CurveDominates, NowhereLower, here

\* RespondsSoundly, for every scene: whatever the window, the votes, the bank and the
\* curve, the overlay of _merge_with_trajectory holds, decide's verbs agree, and
\* compose_curve is monotone in the signs of heat.
THEOREM RespondsWell == ResponseInit /\ [][ResponseNext]_responseVars => []RespondsSoundly
<1>1. ResponseInit => ResponseInv
  BY DEF ResponseInit, ResponseInv, Shown
<1>2. ResponseInv /\ [ResponseNext]_responseVars => ResponseInv'
  <2> SUFFICES ASSUME ResponseInv, [ResponseNext]_responseVars PROVE ResponseInv'
    OBVIOUS
  <2>1. CASE UNCHANGED responseVars
    BY <2>1 DEF responseVars, ResponseInv, Shown, Here
  <2>2. CASE Respond
    <3>1. PICK s \in Scenes :
            /\ scene' = s /\ forecast' = Predicted(s)
            /\ verbs' = Decided(s, Features(s.window), forecast')
            /\ curve' = Pipeline(s.base, Context(s, Features(s.window), forecast'))
      BY <2>2 DEF Respond
    <3>2. SceneTypeOK(s)
      BY ResponseAssumption
    <3>. QED
      BY <3>1, <3>2 DEF ResponseInv, Here
  <2>. QED
    BY <2>1, <2>2 DEF ResponseNext
<1>3. ResponseInv => RespondsSoundly
  <2> SUFFICES ASSUME ResponseInv, Shown PROVE OverlayHolds /\ VerbsAgree /\ CurveDominates
    BY DEF RespondsSoundly
  <2>1. /\ SceneTypeOK(scene) /\ forecast = Predicted(scene)
        /\ verbs = Decided(scene, Features(scene.window), forecast)
    BY DEF ResponseInv
  <2>2. /\ forecast \in Predictions
        /\ forecast.prob >= Trajectory(Features(scene.window))
        /\ scene.indexed => forecast.prob >= Knn(Features(scene.window), scene.votes).prob
        /\ forecast.temp = NoTempR \/ forecast.temp \in 20 .. 120
    BY <2>1, PredictedIs
  <2>3. OverlayHolds
    BY <2>2 DEF OverlayHolds, Predictions
  <2>4. VerbsAgree
    BY <2>1, <2>2, DecidedIs DEF VerbsAgree
  <2>. QED
    BY <2>3, <2>4, Dominates
<1>. QED
  BY <1>1, <1>2, <1>3, PTL
-----------------------------------------------------------------------------
(* The residual log and what is learned from it.                           *)

\* A set of places has a last one.
LEMMA LastPlace ==
  ASSUME NEW n \in Nat, NEW s \in SUBSET (1 .. n), s # {}
  PROVE  Max(s) \in s /\ \A y \in s : Max(s) >= y
<1> DEFINE T == {n - x : x \in s}
<1>1. T \in SUBSET Nat /\ T # {}
  <2>1. \A x \in s : n - x \in Nat
    OBVIOUS
  <2>2. PICK x \in s : TRUE
    OBVIOUS
  <2>3. n - x \in T
    OBVIOUS
  <2>. QED
    BY <2>1, <2>3
<1>2. PICK m \in T : \A k \in T : m <= k
  <2> HIDE DEF T
  <2>. QED
    BY <1>1, Least
<1>3. PICK x \in s : m = n - x
  BY <1>2
<1>4. \A y \in s : x >= y
  <2> SUFFICES ASSUME NEW y \in s PROVE x >= y
    OBVIOUS
  <2>1. n - y \in T
    OBVIOUS
  <2>2. n - x <= n - y
    BY <1>2, <1>3, <2>1
  <2>. QED
    BY <2>2
<1>. QED
  BY <1>4 DEF Max

\* One step of the selection: the last of the places is taken or left.
KeepStep(S, file, g, s) ==
  IF s = {} THEN <<>>
  ELSE LET x == Max(s)
       IN  IF file[x] \in S THEN Append(g[s \ {x}], file[x]) ELSE g[s \ {x}]
KeepOver(S, file, n, g) == g = [s \in SUBSET (1 .. n) |-> KeepStep(S, file, g, s)]

LEMMA AmongIsChosen ==
  ASSUME NEW S, NEW file, DOMAIN file = 1 .. Len(file)
  PROVE  Among(S, file) = (CHOOSE g : KeepOver(S, file, Len(file), g))[1 .. Len(file)]
BY DEF Among, FoldLeft, MapThenFoldSet, KeepOver, KeepStep

LEMMA KeepExists ==
  ASSUME NEW S, NEW file, NEW n \in Nat
  PROVE  \E g : KeepOver(S, file, n, g)
<1> DEFINE T == {k \in Nat : ~\E g : KeepOver(S, file, k, g)}
<1> SUFFICES ASSUME T # {} PROVE FALSE
  OBVIOUS
<1>1. PICK k \in T : \A m \in T : k <= m
  <2> T \in SUBSET Nat
    OBVIOUS
  <2> HIDE DEF T
  <2>. QED
    BY Least
<1>2. CASE k = 0
  <2> DEFINE g == [s \in SUBSET (1 .. 0) |-> <<>>]
  <2>1. \A s \in SUBSET (1 .. 0) : s = {}
    OBVIOUS
  <2>2. \A s \in SUBSET (1 .. 0) : <<>> = KeepStep(S, file, g, s)
    BY <2>1 DEF KeepStep
  <2>3. g = [s \in SUBSET (1 .. 0) |-> KeepStep(S, file, g, s)]
    <3> HIDE DEF g
    <3>1. [s \in SUBSET (1 .. 0) |-> <<>>] = [s \in SUBSET (1 .. 0) |-> KeepStep(S, file, g, s)]
      BY <2>2
    <3>. QED
      BY <3>1 DEF g
  <2> HIDE DEF g
  <2>. QED
    BY <1>1, <1>2, <2>3 DEF KeepOver
<1>3. CASE k # 0
  <2>1. k - 1 \in Nat /\ k - 1 \notin T
    BY <1>1, <1>3
  <2>2. PICK h : KeepOver(S, file, k - 1, h)
    BY <2>1
  <2> DEFINE Value(s) == IF k \in s
                         THEN IF file[k] \in S THEN Append(h[s \ {k}], file[k]) ELSE h[s \ {k}]
                         ELSE h[s]
             g == [s \in SUBSET (1 .. k) |-> Value(s)]
  <2>3. ASSUME NEW s \in SUBSET (1 .. k), k \notin s PROVE g[s] = h[s] /\ s \in SUBSET (1 .. k - 1)
    BY <2>3
  <2>4. ASSUME NEW s \in SUBSET (1 .. k) PROVE Value(s) = KeepStep(S, file, g, s)
    <3>1. CASE k \in s
      <4>1. Max(s) = k
        <5>1. s # {} /\ k \in Nat
          BY <3>1
        <5>2. Max(s) \in s /\ \A y \in s : Max(s) >= y
          BY <5>1, LastPlace
        <5>3. Max(s) \in 1 .. k /\ Max(s) >= k
          BY <3>1, <5>2
        <5>. QED
          BY <5>3
      <4>2. s \ {k} \in SUBSET (1 .. k) /\ k \notin s \ {k}
        OBVIOUS
      <4>3. g[s \ {k}] = h[s \ {k}]
        BY <2>3, <4>2
      <4> HIDE DEF g
      <4>. QED
        BY <3>1, <4>1, <4>3 DEF KeepStep
    <3>2. CASE k \notin s
      <4>1. s \in SUBSET (1 .. k - 1)
        BY <2>3, <3>2
      <4>2. h[s] = KeepStep(S, file, h, s)
        BY <2>2, <4>1 DEF KeepOver
      <4>3. CASE s = {}
        BY <3>2, <4>2, <4>3 DEF KeepStep
      <4>4. CASE s # {}
        <5>1. Max(s) \in s
          BY <4>4, LastPlace
        <5>2. s \ {Max(s)} \in SUBSET (1 .. k) /\ k \notin s \ {Max(s)}
          BY <3>2
        <5>3. g[s \ {Max(s)}] = h[s \ {Max(s)}]
          BY <2>3, <5>2
        <5> HIDE DEF g
        <5>. QED
          BY <3>2, <4>2, <4>4, <5>3 DEF KeepStep
      <4>. QED
        BY <4>3, <4>4
    <3>. QED
      BY <3>1, <3>2
  <2>5. g = [s \in SUBSET (1 .. k) |-> KeepStep(S, file, g, s)]
    <3> HIDE DEF Value
    <3>1. [s \in SUBSET (1 .. k) |-> Value(s)] = [s \in SUBSET (1 .. k) |-> KeepStep(S, file, g, s)]
      <4> HIDE DEF g
      <4>. QED
        BY <2>4
    <3>. QED
      BY <3>1
  <2> HIDE DEF g
  <2>. QED
    BY <1>1, <2>5 DEF KeepOver
<1>. QED
  BY <1>2, <1>3

\* What was selected from the first places does not depend on what follows.
LEMMA KeepAgrees ==
  ASSUME NEW S, NEW file, NEW other, NEW m \in Nat, NEW n \in Nat, m <= n,
         \A i \in 1 .. m : file[i] = other[i],
         NEW g, NEW h, KeepOver(S, file, m, g), KeepOver(S, other, n, h)
  PROVE  g[1 .. m] = h[1 .. m]
<1> DEFINE T == {k \in 0 .. m : g[1 .. k] # h[1 .. k]}
<1> SUFFICES ASSUME T # {} PROVE FALSE
  OBVIOUS
<1>1. PICK k \in T : \A j \in T : k <= j
  <2> T \in SUBSET Nat
    OBVIOUS
  <2> HIDE DEF T
  <2>. QED
    BY Least
<1>2. 1 .. k \in SUBSET (1 .. m) /\ 1 .. k \in SUBSET (1 .. n)
  BY <1>1
<1>3. g[1 .. k] = KeepStep(S, file, g, 1 .. k) /\ h[1 .. k] = KeepStep(S, other, h, 1 .. k)
  BY <1>2 DEF KeepOver
<1>4. CASE k = 0
  <2>1. 1 .. k = {}
    BY <1>4
  <2>. QED
    BY <1>1, <1>3, <2>1 DEF KeepStep
<1>5. CASE k # 0
  <2>1. k \in 1 .. m /\ k - 1 \in 0 .. m /\ k - 1 \notin T
    BY <1>1, <1>5
  <2>2. Max(1 .. k) = k
    <3>1. k \in 1 .. k /\ k \in Nat
      BY <2>1
    <3>2. Max(1 .. k) \in 1 .. k /\ \A y \in 1 .. k : Max(1 .. k) >= y
      BY <3>1, LastPlace
    <3>. QED
      BY <3>1, <3>2
  <2>3. (1 .. k) \ {k} = 1 .. (k - 1) /\ 1 .. k # {}
    <3>1. (1 .. k) \ {k} = 1 .. (k - 1)
      BY <2>1
    <3>2. k \in 1 .. k
      BY <2>1
    <3>. QED
      BY <3>1, <3>2
  <2>4. g[1 .. (k - 1)] = h[1 .. (k - 1)] /\ file[k] = other[k]
    BY <2>1
  <2>. QED
    BY <1>1, <1>3, <2>2, <2>3, <2>4 DEF KeepStep
<1>. QED
  BY <1>4, <1>5

LEMMA AmongEmpty ==
  ASSUME NEW S PROVE Among(S, <<>>) = <<>>
<1> DEFINE g == CHOOSE h : KeepOver(S, <<>>, 0, h)
<1>1. Among(S, <<>>) = g[1 .. 0]
  <2>1. DOMAIN <<>> = 1 .. Len(<<>>) /\ Len(<<>>) = 0
    OBVIOUS
  <2>. QED
    BY <2>1, AmongIsChosen
<1>2. KeepOver(S, <<>>, 0, g)
  <2>1. 0 \in Nat
    OBVIOUS
  <2>. QED
    BY <2>1, KeepExists
<1> HIDE DEF g
<1>3. 1 .. 0 = {} /\ 1 .. 0 \in SUBSET (1 .. 0)
  OBVIOUS
<1>4. g[1 .. 0] = KeepStep(S, <<>>, g, 1 .. 0)
  BY <1>2, <1>3 DEF KeepOver
<1>. QED
  BY <1>1, <1>3, <1>4 DEF KeepStep

\* A line at the end of a file is selected or not.
LEMMA AmongAppend ==
  ASSUME NEW S, NEW T, NEW file \in Seq(T), NEW x \in T
  PROVE  Among(S, Append(file, x))
           = IF x \in S THEN Append(Among(S, file), x) ELSE Among(S, file)
<1> DEFINE n == Len(file)
           longer == Append(file, x)
           g == CHOOSE f : KeepOver(S, file, n, f)
           h == CHOOSE f : KeepOver(S, longer, n + 1, f)
<1>1. /\ n \in Nat /\ DOMAIN file = 1 .. n /\ DOMAIN longer = 1 .. n + 1 /\ Len(longer) = n + 1
      /\ \A i \in 1 .. n : file[i] = longer[i]
      /\ longer[n + 1] = x
  BY AppendProperties, LenProperties
<1>2. KeepOver(S, file, n, g) /\ KeepOver(S, longer, n + 1, h)
  <2>1. n + 1 \in Nat
    BY <1>1
  <2>. QED
    BY <1>1, <2>1, KeepExists
<1>3. Among(S, file) = g[1 .. n] /\ Among(S, longer) = h[1 .. n + 1]
  <2>1. Among(S, file) = g[1 .. n]
    <3>1. DOMAIN file = 1 .. Len(file)
      BY <1>1
    <3>. QED
      BY <3>1, AmongIsChosen
  <2>2. Among(S, longer) = h[1 .. n + 1]
    <3>1. DOMAIN longer = 1 .. Len(longer)
      BY <1>1
    <3> HIDE DEF longer
    <3>2. Among(S, longer)
            = (CHOOSE f : KeepOver(S, longer, Len(longer), f))[1 .. Len(longer)]
      BY <3>1, AmongIsChosen
    <3>. QED
      BY <1>1, <3>2
  <2>. QED
    BY <2>1, <2>2
<1> HIDE DEF n, longer, g, h
<1>4. g[1 .. n] = h[1 .. n]
  <2>1. n + 1 \in Nat /\ n <= n + 1
    BY <1>1
  <2>. QED
    BY <1>1, <1>2, <2>1, KeepAgrees
<1>5. Max(1 .. n + 1) = n + 1
  <2>1. n + 1 \in 1 .. n + 1 /\ n + 1 \in Nat
    BY <1>1
  <2>2. Max(1 .. n + 1) \in 1 .. n + 1 /\ \A y \in 1 .. n + 1 : Max(1 .. n + 1) >= y
    BY <2>1, LastPlace
  <2>. QED
    BY <1>1, <2>1, <2>2
<1>6. (1 .. n + 1) \ {n + 1} = 1 .. n /\ 1 .. n + 1 # {}
  <2>1. (1 .. n + 1) \ {n + 1} = 1 .. n
    BY <1>1
  <2>2. n + 1 \in 1 .. n + 1
    BY <1>1
  <2>. QED
    BY <2>1, <2>2
<1>7. h[1 .. n + 1] = KeepStep(S, longer, h, 1 .. n + 1)
  BY <1>2 DEF KeepOver
<1>8. h[1 .. n + 1] = IF x \in S THEN Append(h[1 .. n], x) ELSE h[1 .. n]
  BY <1>1, <1>5, <1>6, <1>7 DEF KeepStep
<1>. QED
  BY <1>3, <1>4, <1>8 DEF longer

\* What is selected from two files, one behind the other, and what it consists of: by the
\* shortest file of which it would not be so.
LEMMA AmongIsSeq ==
  ASSUME NEW S, NEW T, NEW file \in Seq(T)
  PROVE  /\ Among(S, file) \in Seq(T)
         /\ \A i \in DOMAIN Among(S, file) :
              Among(S, file)[i] \in S /\ \E j \in DOMAIN file : file[j] = Among(S, file)[i]
         /\ \A j \in DOMAIN file :
              file[j] \in S => \E i \in DOMAIN Among(S, file) : Among(S, file)[i] = file[j]
<1> DEFINE Holds(f) ==
             /\ Among(S, f) \in Seq(T)
             /\ \A i \in DOMAIN Among(S, f) :
                  Among(S, f)[i] \in S /\ \E j \in DOMAIN f : f[j] = Among(S, f)[i]
             /\ \A j \in DOMAIN f :
                  f[j] \in S => \E i \in DOMAIN Among(S, f) : Among(S, f)[i] = f[j]
           N == {k \in Nat : \E f \in Seq(T) : Len(f) = k /\ ~Holds(f)}
<1>1. Holds(<<>>)
  <2>1. Among(S, <<>>) = <<>> /\ <<>> \in Seq(T) /\ DOMAIN <<>> = {}
    BY AmongEmpty
  <2>. QED
    BY <2>1
<1>2. ASSUME NEW f \in Seq(T), NEW x \in T, Holds(f) PROVE Holds(Append(f, x))
  <2> DEFINE a == Among(S, f)
             b == Among(S, Append(f, x))
             g == Append(f, x)
  <2>1. b = IF x \in S THEN Append(a, x) ELSE a
    BY AmongAppend
  <2>2. /\ Len(f) \in Nat /\ DOMAIN f = 1 .. Len(f) /\ DOMAIN g = 1 .. Len(f) + 1
        /\ \A i \in 1 .. Len(f) : g[i] = f[i]
        /\ g[Len(f) + 1] = x
    BY AppendProperties, LenProperties
  <2>3. /\ a \in Seq(T)
        /\ \A i \in DOMAIN a : a[i] \in S /\ \E j \in DOMAIN f : f[j] = a[i]
        /\ \A j \in DOMAIN f : f[j] \in S => \E i \in DOMAIN a : a[i] = f[j]
    BY <1>2
  <2> HIDE DEF a, b, g
  <2>4. Len(f) + 1 \in DOMAIN g /\ DOMAIN f \subseteq DOMAIN g
    BY <2>2
  <2>5. CASE x \notin S
    <3>1. b = a
      BY <2>1, <2>5
    <3>2. \A i \in DOMAIN b : b[i] \in S /\ \E j \in DOMAIN g : g[j] = b[i]
      BY <2>2, <2>3, <2>4, <3>1
    <3>3. ASSUME NEW j \in DOMAIN g, g[j] \in S PROVE \E i \in DOMAIN b : b[i] = g[j]
      <4>1. j \in DOMAIN f
        BY <2>2, <2>5, <3>3
      <4>. QED
        BY <2>2, <2>3, <3>1, <3>3, <4>1
    <3>. QED
      BY <2>3, <3>1, <3>2, <3>3 DEF b, g
  <2>6. CASE x \in S
    <3>1. /\ b \in Seq(T) /\ Len(a) \in Nat /\ DOMAIN a = 1 .. Len(a)
          /\ DOMAIN b = 1 .. Len(a) + 1 /\ b[Len(a) + 1] = x
          /\ \A i \in 1 .. Len(a) : b[i] = a[i]
      BY <2>1, <2>3, <2>6, AppendProperties, LenProperties
    <3>2. ASSUME NEW i \in DOMAIN b PROVE b[i] \in S /\ \E j \in DOMAIN g : g[j] = b[i]
      <4>1. CASE i \in DOMAIN a
        BY <2>2, <2>3, <2>4, <3>1, <4>1
      <4>2. CASE i \notin DOMAIN a
        <5>1. i = Len(a) + 1
          BY <3>1, <3>2, <4>2
        <5>. QED
          BY <2>2, <2>4, <2>6, <3>1, <5>1
      <4>. QED
        BY <4>1, <4>2
    <3>3. ASSUME NEW j \in DOMAIN g, g[j] \in S PROVE \E i \in DOMAIN b : b[i] = g[j]
      <4>1. CASE j \in DOMAIN f
        <5>1. PICK i \in DOMAIN a : a[i] = f[j]
          BY <2>2, <2>3, <3>3, <4>1
        <5>2. i \in DOMAIN b /\ b[i] = a[i]
          BY <3>1
        <5>. QED
          BY <2>2, <4>1, <5>1, <5>2
      <4>2. CASE j \notin DOMAIN f
        <5>1. j = Len(f) + 1 /\ Len(a) + 1 \in DOMAIN b
          BY <2>2, <3>1, <3>3, <4>2
        <5>. QED
          BY <2>2, <3>1, <5>1
      <4>. QED
        BY <4>1, <4>2
    <3>. QED
      BY <3>1, <3>2, <3>3 DEF b, g
  <2>. QED
    BY <2>5, <2>6
<1> HIDE DEF Holds
<1>3. N = {}
  <2> SUFFICES ASSUME N # {} PROVE FALSE
    OBVIOUS
  <2>1. PICK k \in N : \A m \in N : k <= m
    <3> N \in SUBSET Nat
      OBVIOUS
    <3> HIDE DEF N
    <3>. QED
      BY Least
  <2>2. PICK f \in Seq(T) : Len(f) = k /\ ~Holds(f)
    BY <2>1
  <2>3. f # <<>>
    BY <1>1, <2>2
  <2>4. PICK s \in Seq(T), e \in T : f = Append(s, e)
    BY <2>3, SequenceEmptyOrAppend
  <2>5. ~Holds(s) /\ Len(s) \in Nat /\ Len(s) < k
    BY <1>2, <2>2, <2>4, AppendProperties, LenProperties
  <2>6. Len(s) \in N
    BY <2>5
  <2>. QED
    BY <2>1, <2>5, <2>6
<1>. QED
  <2> SUFFICES Holds(file)
    BY DEF Holds
  <2>. QED
    BY <1>3, LenProperties

LEMMA AmongConcat ==
  ASSUME NEW S, NEW T, NEW head \in Seq(T), NEW tail \in Seq(T)
  PROVE  Among(S, head \o tail) = Among(S, head) \o Among(S, tail)
<1> DEFINE Holds(f) == Among(S, head \o f) = Among(S, head) \o Among(S, f)
           N == {k \in Nat : \E f \in Seq(T) : Len(f) = k /\ ~Holds(f)}
<1>1. Holds(<<>>)
  <2>1. Among(S, head) \in Seq(T)
    BY AmongIsSeq
  <2>. QED
    BY <2>1, AmongEmpty, ConcatEmptySeq
<1>2. ASSUME NEW f \in Seq(T), NEW x \in T, Holds(f) PROVE Holds(Append(f, x))
  <2>1. head \o Append(f, x) = Append(head \o f, x)
    OBVIOUS
  <2>2. Among(S, Append(head \o f, x))
          = IF x \in S THEN Append(Among(S, head \o f), x) ELSE Among(S, head \o f)
    <3>1. head \o f \in Seq(T)
      OBVIOUS
    <3>2. \A h \in Seq(T) : Among(S, Append(h, x))
                              = IF x \in S THEN Append(Among(S, h), x) ELSE Among(S, h)
      BY AmongAppend
    <3>. QED
      BY <3>1, <3>2, Zenon
  <2>3. Among(S, Append(f, x)) = IF x \in S THEN Append(Among(S, f), x) ELSE Among(S, f)
    BY AmongAppend
  <2>4. Among(S, head) \in Seq(T) /\ Among(S, f) \in Seq(T)
    BY AmongIsSeq
  <2>5. Among(S, head) \o Append(Among(S, f), x) = Append(Among(S, head) \o Among(S, f), x)
    BY <2>4
  <2>. QED
    BY <1>2, <2>1, <2>2, <2>3, <2>5
<1> HIDE DEF Holds
<1>3. N = {}
  <2> SUFFICES ASSUME N # {} PROVE FALSE
    OBVIOUS
  <2>1. PICK k \in N : \A m \in N : k <= m
    <3> N \in SUBSET Nat
      OBVIOUS
    <3> HIDE DEF N
    <3>. QED
      BY Least
  <2>2. PICK f \in Seq(T) : Len(f) = k /\ ~Holds(f)
    BY <2>1
  <2>3. f # <<>>
    BY <1>1, <2>2
  <2>4. PICK s \in Seq(T), e \in T : f = Append(s, e)
    BY <2>3, SequenceEmptyOrAppend
  <2>5. ~Holds(s) /\ Len(s) \in Nat /\ Len(s) < k
    BY <1>2, <2>2, <2>4, AppendProperties, LenProperties
  <2>6. Len(s) \in N
    BY <2>5
  <2>. QED
    BY <2>1, <2>5, <2>6
<1>. QED
  <2> SUFFICES Holds(tail)
    BY DEF Holds
  <2>. QED
    BY <1>3, LenProperties

Rising(s) == \A i, j \in DOMAIN s : i < j => s[i] < s[j]
RisingIn(S, s) == \A i, j \in DOMAIN s : i < j /\ s[i] \in S /\ s[j] \in S => s[i] < s[j]

\* What rises in a file rises in what is selected.
LEMMA AmongRises ==
  ASSUME NEW S, NEW file \in Seq(Int), RisingIn(S, file)
  PROVE  Rising(Among(S, file))
<1> DEFINE Holds(f) == RisingIn(S, f) => Rising(Among(S, f))
           N == {k \in Nat : \E f \in Seq(Int) : Len(f) = k /\ ~Holds(f)}
<1>1. Holds(<<>>)
  BY AmongEmpty DEF Rising
<1>2. ASSUME NEW f \in Seq(Int), NEW x \in Int, Holds(f) PROVE Holds(Append(f, x))
  <2> SUFFICES ASSUME RisingIn(S, Append(f, x)) PROVE Rising(Among(S, Append(f, x)))
    OBVIOUS
  <2> DEFINE a == Among(S, f)
             b == Among(S, Append(f, x))
             g == Append(f, x)
  <2>1. b = IF x \in S THEN Append(a, x) ELSE a
    BY AmongAppend
  <2>2. /\ Len(f) \in Nat /\ DOMAIN f = 1 .. Len(f) /\ DOMAIN g = 1 .. Len(f) + 1
        /\ \A i \in 1 .. Len(f) : g[i] = f[i]
        /\ g[Len(f) + 1] = x
    BY AppendProperties, LenProperties
  <2>3. a \in Seq(Int) /\ \A i \in DOMAIN a : a[i] \in S /\ \E j \in DOMAIN f : f[j] = a[i]
    BY AmongIsSeq
  <2> HIDE DEF a, b, g
  <2>4. RisingIn(S, g)
    BY DEF g
  <2>5. RisingIn(S, f)
    BY <2>2, <2>4 DEF RisingIn
  <2>6. Rising(a)
    BY <1>2, <2>5 DEF a
  <2>7. CASE x \in S
    <3>1. /\ Len(a) \in Nat /\ DOMAIN a = 1 .. Len(a)
          /\ DOMAIN b = 1 .. Len(a) + 1 /\ b[Len(a) + 1] = x
          /\ \A i \in 1 .. Len(a) : b[i] = a[i]
      BY <2>1, <2>3, <2>7, AppendProperties, LenProperties
    <3>2. \A i \in DOMAIN a : a[i] < x
      <4> SUFFICES ASSUME NEW i \in DOMAIN a PROVE a[i] < x
        OBVIOUS
      <4>1. PICK j \in DOMAIN f : f[j] = a[i]
        BY <2>3
      <4>2. j < Len(f) + 1 /\ j \in DOMAIN g /\ Len(f) + 1 \in DOMAIN g
        BY <2>2
      <4>3. g[j] = a[i] /\ a[i] \in S
        BY <2>2, <2>3, <4>1
      <4>. QED
        BY <2>2, <2>4, <2>7, <4>2, <4>3 DEF RisingIn
    <3>3. ASSUME NEW i \in DOMAIN b, NEW j \in DOMAIN b, i < j PROVE b[i] < b[j]
      <4>1. i \in DOMAIN a
        BY <3>1, <3>3
      <4>2. CASE j \in DOMAIN a
        BY <2>6, <3>1, <3>3, <4>1, <4>2 DEF Rising
      <4>3. CASE j = Len(a) + 1
        BY <3>1, <3>2, <4>1, <4>3
      <4>. QED
        BY <3>1, <4>2, <4>3, SMTT(30)
    <3>. QED
      BY <3>3 DEF Rising, b, g
  <2>8. CASE x \notin S
    BY <2>1, <2>6, <2>8 DEF b, g
  <2>. QED
    BY <2>7, <2>8
<1> HIDE DEF Holds
<1>3. N = {}
  <2> SUFFICES ASSUME N # {} PROVE FALSE
    OBVIOUS
  <2>1. PICK k \in N : \A m \in N : k <= m
    <3> N \in SUBSET Nat
      OBVIOUS
    <3> HIDE DEF N
    <3>. QED
      BY Least
  <2>2. PICK f \in Seq(Int) : Len(f) = k /\ ~Holds(f)
    BY <2>1
  <2>3. f # <<>>
    BY <1>1, <2>2
  <2>4. PICK s \in Seq(Int), e \in Int : f = Append(s, e)
    BY <2>3, SequenceEmptyOrAppend
  <2>5. ~Holds(s) /\ Len(s) \in Nat /\ Len(s) < k
    BY <1>2, <2>2, <2>4, AppendProperties, LenProperties
  <2>6. Len(s) \in N
    BY <2>5
  <2>. QED
    BY <2>1, <2>5, <2>6
<1>. QED
  <2>1. Holds(file)
    BY <1>3, LenProperties
  <2>. QED
    BY <2>1 DEF Holds

-----------------------------------------------------------------------------

\* What a line may hold when n predictions were validated.
Lines(n) == -1 .. n
Whole    == Nat \ {GarbageLine}

LEMMA LinesAre ==
  ASSUME NEW n \in Nat
  PROVE  /\ TornLine \in Lines(n) /\ GarbageLine \in Lines(n) /\ n \in Lines(n)
         /\ Lines(n) \subseteq Int /\ Lines(n) \subseteq Lines(n + 1)
         /\ \A x \in Lines(n) : x <= n
BY DEF Lines, TornLine, GarbageLine

LEMMA NoFileIs == Len(NoFile) = 1 /\ \A n \in Nat : NoFile \notin Seq(Lines(n))
<1>1. Len(NoFile) = 1 /\ NoFile[1] = -2
  BY DEF NoFile
<1>2. ASSUME NEW n \in Nat, NoFile \in Seq(Lines(n)) PROVE FALSE
  <2>1. NoFile[1] \in Lines(n)
    BY <1>1, <1>2
  <2>. QED
    BY <1>1, <2>1 DEF Lines
<1>. QED
  BY <1>1, <1>2

IsFile(file, n) ==
  file = NoFile \/ (file \in Seq(Lines(n)) /\ Len(file) >= 1 /\ Len(file) <= MaxLines)
Filled(file) == file # NoFile /\ Len(file) = MaxLines /\ file[MaxLines] # TornLine
InFiles(f, a) == (LinesOf(a[2]) \o LinesOf(a[1])) \o LinesOf(f)

\* Archives are full and end with a whole line; the files hold the last of what was
\* written, and all of it or at least what a rotation leaves.
Shaped(f, a, w, c, n) ==
  /\ DOMAIN a = 1 .. 2 /\ IsFile(f, n) /\ IsFile(a[1], n) /\ IsFile(a[2], n)
  /\ \A g \in 1 .. 2 : a[g] = NoFile \/ Filled(a[g])
  /\ \E lost \in Seq(Lines(n)) : w = lost \o InFiles(f, a)
  /\ ~c /\ a[1] = NoFile => a[2] = NoFile
  /\ \/ w = InFiles(f, a)
     \/ c /\ (Filled(a[1]) \/ Filled(f))
     \/ ~c /\ a[1] # NoFile /\ a[2] # NoFile

ResidualInv ==
  /\ alive \in BOOLEAN /\ cut \in BOOLEAN /\ samples \in 0 .. MaxSamples
  /\ touched \subseteq 1 .. samples /\ bank \in Seq(1 .. samples)
  /\ Shaped(live, arch, written, cut, samples)
  /\ RisingIn(Whole, written) /\ Rising(bank)
  /\ \A i \in DOMAIN bank : bank[i] \notin touched
  /\ alive => \A x \in Range(InFiles(live, arch)) : x \in Whole \ touched => x \in Range(bank)

LEMMA LinesOfIs ==
  ASSUME NEW n \in Nat, NEW file, IsFile(file, n)
  PROVE  /\ LinesOf(file) \in Seq(Lines(n))
         /\ Len(LinesOf(file)) = IF file = NoFile THEN 0 ELSE Len(file)
         /\ Len(LinesOf(file)) <= MaxLines
         /\ file # NoFile => LinesOf(file) = file
<1>1. <<>> \in Seq(Lines(n)) /\ Len(<<>>) = 0
  OBVIOUS
<1>. QED
  BY <1>1, ResidualAssumption DEF LinesOf, IsFile

LEMMA InFilesAre ==
  ASSUME NEW n \in Nat, NEW f, NEW a, IsFile(f, n), IsFile(a[1], n), IsFile(a[2], n)
  PROVE  /\ InFiles(f, a) \in Seq(Lines(n))
         /\ LinesOf(a[2]) \o LinesOf(a[1]) \in Seq(Lines(n))
         /\ Len(InFiles(f, a)) = Len(LinesOf(a[2])) + Len(LinesOf(a[1])) + Len(LinesOf(f))
         /\ Range(InFiles(f, a)) = Range(LinesOf(a[2])) \cup Range(LinesOf(a[1])) \cup Range(LinesOf(f))
<1> DEFINE x == LinesOf(a[2])
           y == LinesOf(a[1])
           z == LinesOf(f)
<1>1. x \in Seq(Lines(n)) /\ y \in Seq(Lines(n)) /\ z \in Seq(Lines(n))
  BY LinesOfIs
<1> HIDE DEF x, y, z
<1>2. x \o y \in Seq(Lines(n)) /\ Len(x \o y) = Len(x) + Len(y)
  BY <1>1, ConcatProperties
<1>3. Range(x \o y) = Range(x) \cup Range(y)
  BY <1>1, RangeConcatenation
<1> DEFINE xy == x \o y
<1> HIDE DEF xy
<1>4. xy \in Seq(Lines(n)) /\ Len(xy) = Len(x) + Len(y) /\ Range(xy) = Range(x) \cup Range(y)
  BY <1>2, <1>3 DEF xy
<1>5. xy \o z \in Seq(Lines(n)) /\ Len(xy \o z) = Len(xy) + Len(z)
  BY <1>1, <1>4, ConcatProperties
<1>6. Range(xy \o z) = Range(xy) \cup Range(z)
  BY <1>1, <1>4, RangeConcatenation
<1>7. InFiles(f, a) = xy \o z
  BY DEF InFiles, x, y, z, xy
<1>. QED
  BY <1>4, <1>5, <1>6, <1>7, Zenon DEF x, y, z, xy

\* A line is added to a file, or taken in by a torn one.
LEMMA AddedIs ==
  ASSUME NEW n \in Nat, NEW file \in Seq(Lines(n)), NEW line \in Lines(n)
  PROVE  LET torn == file # <<>> /\ Last(file) = TornLine
             new  == Added(file, line)
         IN  /\ new \in Seq(Lines(n))
             /\ Len(new) = IF torn THEN Len(file) ELSE Len(file) + 1
             /\ \A i \in DOMAIN new :
                  IF i < Len(new) THEN i \in DOMAIN file /\ new[i] = file[i]
                  ELSE i = Len(new) /\ new[i] = IF torn /\ line # TornLine THEN GarbageLine ELSE line
             /\ Range(new) \subseteq Range(file) \cup {line, GarbageLine}
<1> DEFINE torn == file # <<>> /\ Last(file) = TornLine
           new  == Added(file, line)
<1>1. Len(file) \in Nat /\ DOMAIN file = 1 .. Len(file) /\ (file # <<>> <=> Len(file) >= 1)
  OBVIOUS
<1>2. /\ new \in Seq(Lines(n))
      /\ Len(new) = IF torn THEN Len(file) ELSE Len(file) + 1
      /\ \A i \in DOMAIN new :
           IF i < Len(new) THEN i \in DOMAIN file /\ new[i] = file[i]
           ELSE i = Len(new) /\ new[i] = IF torn /\ line # TornLine THEN GarbageLine ELSE line
  <2>1. CASE torn
    <3> DEFINE front == Front(file)
               put == IF line = TornLine THEN TornLine ELSE GarbageLine
    <3>1. /\ front \in Seq(Lines(n)) /\ Len(front) = Len(file) - 1
          /\ \A i \in 1 .. Len(file) - 1 : front[i] = file[i]
      <4>1. \A i \in 1 .. Len(file) - 1 : file[i] \in Lines(n)
        BY <1>1
      <4>2. 1 \in Int /\ Len(file) - 1 \in Int
        BY <1>1
      <4>3. /\ SubSeq(file, 1, Len(file) - 1) \in Seq(Lines(n))
            /\ Len(SubSeq(file, 1, Len(file) - 1))
                 = IF 1 <= Len(file) - 1 THEN Len(file) - 1 - 1 + 1 ELSE 0
            /\ \A i \in 1 .. Len(file) - 1 - 1 + 1 : SubSeq(file, 1, Len(file) - 1)[i] = file[1 + i - 1]
        BY <4>1, <4>2, SubSeqProperties
      <4>. QED
        BY <1>1, <2>1, <4>3 DEF Front
    <3>2. put \in Lines(n)
      BY LinesAre
    <3>3. new = Append(front, put)
      BY <2>1 DEF Added
    <3> HIDE DEF front, put
    <3>4. /\ Append(front, put) \in Seq(Lines(n)) /\ Len(Append(front, put)) = Len(front) + 1
          /\ \A i \in 1 .. Len(front) : Append(front, put)[i] = front[i]
          /\ Append(front, put)[Len(front) + 1] = put
      BY <3>1, <3>2, AppendProperties
    <3>9. Len(file) >= 1
      BY <1>1, <2>1
    <3> HIDE DEF new, torn
    <3>5. new \in Seq(Lines(n)) /\ Len(new) = Len(file) /\ DOMAIN new = 1 .. Len(file)
      <4>1. new \in Seq(Lines(n)) /\ Len(new) = Len(front) + 1
        BY <3>3, <3>4
      <4>2. DOMAIN new = 1 .. Len(new)
        BY <4>1, LenProperties
      <4>3. Len(front) + 1 = Len(file)
        BY <1>1, <3>1, <3>9
      <4>. QED
        BY <4>1, <4>2, <4>3
    <3>6. ASSUME NEW i \in DOMAIN new, i < Len(new) PROVE i \in DOMAIN file /\ new[i] = file[i]
      <4>1. i \in 1 .. Len(front) /\ i \in 1 .. Len(file) - 1
        BY <1>1, <3>1, <3>5, <3>6, <3>9
      <4>2. new[i] = front[i]
        BY <3>3, <3>4, <4>1
      <4>. QED
        BY <1>1, <3>1, <4>1, <4>2
    <3>7. ASSUME NEW i \in DOMAIN new, ~(i < Len(new))
          PROVE  i = Len(new) /\ new[i] = IF line # TornLine THEN GarbageLine ELSE line
      <4>1. i = Len(new) /\ i = Len(front) + 1
        BY <1>1, <3>1, <3>5, <3>7
      <4>. QED
        BY <3>3, <3>4, <4>1 DEF put
    <3>. QED
      BY <2>1, <3>5, <3>6, <3>7
  <2>2. CASE ~torn
    <3>1. new = Append(file, line)
      BY <2>2 DEF Added
    <3>2. /\ Append(file, line) \in Seq(Lines(n)) /\ Len(Append(file, line)) = Len(file) + 1
          /\ \A i \in 1 .. Len(file) : Append(file, line)[i] = file[i]
          /\ Append(file, line)[Len(file) + 1] = line
      BY AppendProperties
    <3> HIDE DEF new, torn
    <3>3. new \in Seq(Lines(n)) /\ Len(new) = Len(file) + 1 /\ DOMAIN new = 1 .. Len(file) + 1
      BY <1>1, <3>1, <3>2, LenProperties
    <3>. QED
      BY <1>1, <2>2, <3>1, <3>2, <3>3
  <2>. QED
    BY <2>1, <2>2
<1>3. Range(new) \subseteq Range(file) \cup {line, GarbageLine}
  <2> HIDE DEF new, torn
  <2>. QED
    BY <1>2 DEF Range
<1>. QED
  BY <1>2, <1>3

\* What is added behind other files is added to the last one, unless that one is not there
\* and the one before ends torn.
LEMMA AddedBehind ==
  ASSUME NEW n \in Nat, NEW file \in Seq(Lines(n)), NEW line \in Lines(n),
         NEW head \in Seq(Lines(n)),
         file # <<>> \/ head = <<>> \/ head[Len(head)] # TornLine
  PROVE  Added(head \o file, line) = head \o Added(file, line)
<1> DEFINE both == head \o file
           new  == Added(file, line)
           newBoth == Added(both, line)
           other == head \o new
<1>1. /\ both \in Seq(Lines(n)) /\ Len(both) = Len(head) + Len(file)
      /\ \A i \in 1 .. Len(head) + Len(file) :
           both[i] = IF i <= Len(head) THEN head[i] ELSE file[i - Len(head)]
      /\ Len(head) \in Nat /\ Len(file) \in Nat
      /\ DOMAIN head = 1 .. Len(head) /\ DOMAIN file = 1 .. Len(file)
      /\ (file = <<>> <=> Len(file) = 0) /\ (head = <<>> <=> Len(head) = 0)
  BY ConcatProperties, LenProperties
<1> DEFINE torn == file # <<>> /\ Last(file) = TornLine
           tornBoth == both # <<>> /\ Last(both) = TornLine
<1>2. torn <=> tornBoth
  <2>1. both # <<>> <=> Len(both) # 0
    BY <1>1
  <2>2. Last(file) = file[Len(file)] /\ Last(both) = both[Len(both)]
    BY DEF Last
  <2> HIDE DEF both
  <2>3. CASE file # <<>>
    <3>1. both[Len(both)] = file[Len(file)]
      BY <1>1, <2>3, SMTT(30)
    <3>. QED
      BY <1>1, <2>1, <2>2, <2>3, <3>1
  <2>4. CASE file = <<>> /\ head # <<>>
    <3>1. both[Len(both)] = head[Len(head)]
      BY <1>1, <2>4
    <3>. QED
      BY <2>2, <2>4, <3>1
  <2>5. CASE file = <<>> /\ head = <<>>
    BY <1>1, <2>1, <2>5
  <2>. QED
    BY <2>3, <2>4, <2>5
<1>3. /\ new \in Seq(Lines(n)) /\ Len(new) = IF torn THEN Len(file) ELSE Len(file) + 1
      /\ \A i \in DOMAIN new :
           IF i < Len(new) THEN i \in DOMAIN file /\ new[i] = file[i]
           ELSE i = Len(new) /\ new[i] = IF torn /\ line # TornLine THEN GarbageLine ELSE line
  BY AddedIs
<1>4. /\ newBoth \in Seq(Lines(n)) /\ Len(newBoth) = IF tornBoth THEN Len(both) ELSE Len(both) + 1
      /\ \A i \in DOMAIN newBoth :
           IF i < Len(newBoth) THEN i \in DOMAIN both /\ newBoth[i] = both[i]
           ELSE i = Len(newBoth)
                /\ newBoth[i] = IF tornBoth /\ line # TornLine THEN GarbageLine ELSE line
  <2>1. both \in Seq(Lines(n))
    BY <1>1
  <2> HIDE DEF both
  <2>. QED
    BY <2>1, AddedIs
<1> HIDE DEF torn, tornBoth, both, new, newBoth
<1>5. /\ other \in Seq(Lines(n)) /\ Len(other) = Len(head) + Len(new)
      /\ \A i \in 1 .. Len(head) + Len(new) :
           other[i] = IF i <= Len(head) THEN head[i] ELSE new[i - Len(head)]
  BY <1>3, ConcatProperties
<1> HIDE DEF other
<1>6. Len(other) = Len(newBoth) /\ Len(new) \in Nat /\ DOMAIN new = 1 .. Len(new)
      /\ DOMAIN newBoth = 1 .. Len(newBoth)
  BY <1>1, <1>2, <1>3, <1>4, <1>5, LenProperties
<1>7. ASSUME NEW i \in 1 .. Len(other) PROVE other[i] = newBoth[i]
  <2>1. CASE i <= Len(head)
    <3>1. other[i] = head[i]
      BY <1>5, <1>6, <2>1
    <3>2. CASE i < Len(newBoth)
      <4>1. newBoth[i] = both[i]
        BY <1>4, <1>6, <3>2
      <4>2. both[i] = head[i]
        BY <1>1, <2>1
      <4>. QED
        BY <3>1, <4>1, <4>2
    <3>3. CASE i = Len(newBoth)
      <4>1. Len(new) = 0
        BY <1>1, <1>5, <1>6, <2>1, <3>3
      <4>2. torn => Len(file) >= 1
        BY <1>1 DEF torn
      <4>3. Len(new) >= 1
        <5>1. Len(new) = IF torn THEN Len(file) ELSE Len(file) + 1
          BY <1>3
        <5>2. torn \/ ~torn
          BY DEF torn
        <5>. QED
          BY <1>1, <4>2, <5>1, <5>2
      <4>. QED
        BY <4>1, <4>3
    <3>. QED
      BY <1>6, <3>2, <3>3
  <2>2. CASE i > Len(head) /\ i < Len(other)
    <3>1. i - Len(head) \in DOMAIN new /\ i - Len(head) < Len(new)
      BY <1>1, <1>5, <1>6, <2>2
    <3>2. other[i] = file[i - Len(head)] /\ i - Len(head) \in DOMAIN file
      BY <1>3, <1>5, <2>2, <3>1
    <3>3. newBoth[i] = both[i] /\ both[i] = file[i - Len(head)]
      <4>1. newBoth[i] = both[i]
        BY <1>4, <1>6, <2>2
      <4>2. i \in 1 .. Len(head) + Len(file) /\ ~(i <= Len(head))
        BY <1>1, <2>2, <3>2
      <4>. QED
        BY <1>1, <4>1, <4>2
    <3>. QED
      BY <3>2, <3>3
  <2>3. CASE i > Len(head) /\ i = Len(other)
    <3>1. i - Len(head) = Len(new) /\ i - Len(head) \in DOMAIN new
      BY <1>1, <1>5, <1>6, <2>3
    <3>2. other[i] = IF torn /\ line # TornLine THEN GarbageLine ELSE line
      BY <1>3, <1>5, <2>3, <3>1, SMTT(30)
    <3>3. newBoth[i] = IF tornBoth /\ line # TornLine THEN GarbageLine ELSE line
      BY <1>4, <1>6, <2>3
    <3>. QED
      BY <1>2, <3>2, <3>3
  <2>. QED
    BY <1>1, <2>1, <2>2, <2>3
<1>8. other = newBoth
  BY <1>4, <1>5, <1>6, <1>7, SeqEqual
<1>. QED
  BY <1>8 DEF other, newBoth, both, new

\* Rotations.
LEMMA RotatedIs ==
  ASSUME NEW steps \in 0 .. 3, DOMAIN arch = 1 .. 2
  PROVE  LET r == Rotated(steps) IN
         /\ r.live = IF steps = 3 THEN NoFile ELSE live
         /\ DOMAIN r.arch = 1 .. 2
         /\ r.arch[2] = IF steps = 0 THEN arch[2] ELSE IF steps = 1 THEN NoFile ELSE arch[1]
         /\ r.arch[1] = IF steps = 3 THEN live ELSE IF steps = 2 THEN NoFile ELSE arch[1]
BY DEF Rotated, Gens

\* The log is full: the live file is, with a whole line at its end.
LEMMA FullIs ==
  ASSUME NEW n \in Nat, IsFile(live, n)
  PROVE  LogFull <=> Filled(live)
<1>1. LinesOf(live) \in Seq(Lines(n)) /\ GarbageLine \in Lines(n)
  BY LinesOfIs, LinesAre
<1> DEFINE file == LinesOf(live)
           torn == file # <<>> /\ Last(file) = TornLine
<1>2. Len(Added(file, GarbageLine)) = IF torn THEN Len(file) ELSE Len(file) + 1
  BY <1>1, AddedIs
<1>3. CASE live = NoFile
  <2>1. file = <<>> /\ Len(file) = 0
    BY <1>3 DEF LinesOf
  <2> HIDE DEF file
  <2>2. ~torn
    BY <2>1
  <2>. QED
    BY <1>2, <1>3, <2>1, <2>2, ResidualAssumption DEF LogFull, Filled, file
<1>4. CASE live # NoFile
  <2>1. file = live /\ Len(file) >= 1 /\ Len(file) <= MaxLines /\ Len(file) \in Nat /\ file # <<>>
    BY <1>4 DEF LinesOf, IsFile
  <2>2. torn <=> file[Len(file)] = TornLine
    BY <2>1 DEF Last
  <2> HIDE DEF file, torn
  <2>3. LogFull <=> Len(Added(file, GarbageLine)) > MaxLines
    BY DEF LogFull, file
  <2>4. Len(Added(file, GarbageLine)) > MaxLines <=> Len(file) = MaxLines /\ ~torn
    <3>1. torn \/ ~torn
      BY DEF torn
    <3>. QED
      BY <1>2, <2>1, <3>1, ResidualAssumption
  <2>. QED
    BY <1>4, <2>1, <2>2, <2>3, <2>4 DEF Filled
<1>. QED
  BY <1>3, <1>4

LEMMA NoneIs == LinesOf(NoFile) = <<>> /\ Range(<<>>) = {}
BY DEF LinesOf, Range

\* A rotation, or the first of its steps, of a log that is full.
LEMMA RotationIs ==
  ASSUME NEW n \in Nat, NEW w \in Seq(Lines(n)), NEW c \in BOOLEAN, NEW steps \in 0 .. 3,
         Shaped(live, arch, w, c, n), Filled(live)
  PROVE  LET r == Rotated(steps) IN
         /\ Shaped(r.live, r.arch, w, c \/ steps \in 1 .. 2, n)
         /\ Range(InFiles(r.live, r.arch)) \subseteq Range(InFiles(live, arch))
<1> DEFINE x == LinesOf(arch[2])
           y == LinesOf(arch[1])
           z == LinesOf(live)
           rl == Rotated(steps).live
           ra == Rotated(steps).arch
<1>1. /\ DOMAIN arch = 1 .. 2 /\ IsFile(live, n) /\ IsFile(arch[1], n) /\ IsFile(arch[2], n)
      /\ \A g \in 1 .. 2 : arch[g] = NoFile \/ Filled(arch[g])
      /\ ~c /\ arch[1] = NoFile => arch[2] = NoFile
      /\ \/ w = InFiles(live, arch)
         \/ c /\ (Filled(arch[1]) \/ Filled(live))
         \/ ~c /\ arch[1] # NoFile /\ arch[2] # NoFile
  BY DEF Shaped
<1>2. PICK lost \in Seq(Lines(n)) : w = lost \o InFiles(live, arch)
  BY DEF Shaped
<1>3. x \in Seq(Lines(n)) /\ y \in Seq(Lines(n)) /\ z \in Seq(Lines(n))
  BY <1>1, LinesOfIs
<1>4. /\ rl = IF steps = 3 THEN NoFile ELSE live
      /\ DOMAIN ra = 1 .. 2
      /\ ra[2] = IF steps = 0 THEN arch[2] ELSE IF steps = 1 THEN NoFile ELSE arch[1]
      /\ ra[1] = IF steps = 3 THEN live ELSE IF steps = 2 THEN NoFile ELSE arch[1]
  BY <1>1, RotatedIs
<1> HIDE DEF x, y, z, rl, ra
<1>5. IsFile(NoFile, n) /\ live # NoFile
  BY DEF IsFile, Filled
<1>6. IsFile(rl, n) /\ IsFile(ra[1], n) /\ IsFile(ra[2], n)
  BY <1>1, <1>4, <1>5
<1>7. \A g \in 1 .. 2 : ra[g] = NoFile \/ Filled(ra[g])
  <2>1. (ra[1] = NoFile \/ Filled(ra[1])) /\ (ra[2] = NoFile \/ Filled(ra[2]))
    BY <1>1, <1>4, <1>5
  <2>. QED
    BY <2>1
<1>8. InFiles(live, arch) = (x \o y) \o z /\ w = lost \o ((x \o y) \o z)
  BY <1>2 DEF InFiles, x, y, z
<1>9. /\ steps = 0 => InFiles(rl, ra) = (x \o y) \o z
      /\ steps # 0 => InFiles(rl, ra) = y \o z
  <2>1. CASE steps = 0
    BY <1>4, <2>1 DEF InFiles, x, y, z
  <2>2. CASE steps = 1
    <3>1. rl = live /\ ra[2] = NoFile /\ ra[1] = arch[1]
      BY <1>4, <2>2
    <3>2. InFiles(rl, ra) = (<<>> \o y) \o z
      BY <3>1, NoneIs DEF InFiles, y, z
    <3>. QED
      BY <1>3, <2>2, <3>2, ConcatEmptySeq
  <2>3. CASE steps = 2
    <3>1. rl = live /\ ra[2] = arch[1] /\ ra[1] = NoFile
      BY <1>4, <2>3
    <3>2. InFiles(rl, ra) = (y \o <<>>) \o z
      BY <3>1, NoneIs DEF InFiles, y, z
    <3>. QED
      BY <1>3, <2>3, <3>2, ConcatEmptySeq
  <2>4. CASE steps = 3
    <3>1. rl = NoFile /\ ra[2] = arch[1] /\ ra[1] = live
      BY <1>4, <2>4
    <3>2. InFiles(rl, ra) = (y \o z) \o <<>>
      BY <3>1, NoneIs DEF InFiles, y, z
    <3>3. y \o z \in Seq(Lines(n))
      BY <1>3, ConcatProperties
    <3>4. \A s \in Seq(Lines(n)) : s \o <<>> = s
      BY ConcatEmptySeq
    <3>5. (y \o z) \o <<>> = y \o z
      BY <3>3, <3>4, Zenon
    <3>. QED
      BY <2>4, <3>2, <3>5
  <2>. QED
    BY <2>1, <2>2, <2>3, <2>4
<1>10. \E gone \in Seq(Lines(n)) : w = gone \o InFiles(rl, ra)
  <2>1. CASE steps = 0
    BY <1>8, <1>9, <2>1
  <2>2. CASE steps # 0
    <3>1. (x \o y) \o z = x \o (y \o z)
      BY <1>3, ConcatAssociative, SMTT(30)
    <3>2. y \o z \in Seq(Lines(n)) /\ lost \o x \in Seq(Lines(n))
      BY <1>2, <1>3, ConcatProperties
    <3>3. ASSUME NEW p \in Seq(Lines(n)), NEW q \in Seq(Lines(n)), NEW s \in Seq(Lines(n))
          PROVE  (p \o q) \o s = p \o (q \o s)
      BY ConcatAssociative, SMTT(30)
    <3>4. lost \o (x \o (y \o z)) = (lost \o x) \o (y \o z)
      BY <1>2, <1>3, <3>2, <3>3, ZenonT(30)
    <3>5. w = (lost \o x) \o InFiles(rl, ra)
      BY <1>8, <1>9, <2>2, <3>1, <3>4, Zenon
    <3>. QED
      BY <3>2, <3>5, Zenon
  <2>. QED
    BY <2>1, <2>2
<1>11. Range(InFiles(rl, ra)) \subseteq Range(InFiles(live, arch))
  <2>1. Range(InFiles(rl, ra)) = Range(LinesOf(ra[2])) \cup Range(LinesOf(ra[1])) \cup Range(LinesOf(rl))
    BY <1>6, InFilesAre
  <2>2. Range(InFiles(live, arch))
          = Range(LinesOf(arch[2])) \cup Range(LinesOf(arch[1])) \cup Range(LinesOf(live))
    BY <1>1, InFilesAre
  <2>. QED
    BY <1>4, <2>1, <2>2, NoneIs
<1> DEFINE half == c \/ steps \in 1 .. 2
<1>12. Shaped(rl, ra, w, half, n)
  <2>1. CASE steps = 0
    <3>1. half <=> c
      BY <2>1
    <3>2. InFiles(rl, ra) = InFiles(live, arch) /\ rl = live /\ ra[1] = arch[1] /\ ra[2] = arch[2]
      BY <1>4, <1>8, <1>9, <2>1
    <3> HIDE DEF half
    <3>. QED
      BY <1>1, <1>4, <1>6, <1>7, <1>10, <3>1, <3>2 DEF Shaped
  <2>2. CASE steps \in 1 .. 2
    <3>1. half
      BY <2>2
    <3>2. Filled(rl)
      BY <1>4, <2>2
    <3> HIDE DEF half
    <3>. QED
      BY <1>4, <1>6, <1>7, <1>10, <3>1, <3>2 DEF Shaped
  <2>3. CASE steps = 3
    <3>1. half <=> c
      BY <2>3
    <3>2. rl = NoFile /\ ra[1] = live /\ ra[2] = arch[1]
      BY <1>4, <2>3
    <3> HIDE DEF half
    <3>3. CASE c
      <4>1. Filled(ra[1])
        BY <3>2
      <4>. QED
        BY <1>4, <1>6, <1>7, <1>10, <3>1, <3>3, <4>1 DEF Shaped
    <3>4. CASE ~c /\ arch[1] # NoFile
      <4>1. ra[1] # NoFile /\ ra[2] # NoFile
        BY <1>5, <3>2, <3>4
      <4>. QED
        BY <1>4, <1>6, <1>7, <1>10, <3>1, <3>4, <4>1 DEF Shaped
    <3>5. CASE ~c /\ arch[1] = NoFile
      <4>1. arch[2] = NoFile /\ w = InFiles(live, arch)
        BY <1>1, <3>5
      <4>2. x = <<>>
        BY <4>1, NoneIs DEF x
      <4>3. InFiles(live, arch) = y \o z
        BY <1>3, <1>8, <4>2, ConcatEmptySeq
      <4>4. w = InFiles(rl, ra)
        BY <1>9, <2>3, <4>1, <4>3
      <4>5. ra[1] # NoFile
        BY <1>5, <3>2
      <4>. QED
        BY <1>4, <1>6, <1>7, <1>10, <3>1, <3>5, <4>4, <4>5 DEF Shaped
    <3>. QED
      BY <3>3, <3>4, <3>5
  <2>4. steps = 0 \/ steps \in 1 .. 2 \/ steps = 3
    OBVIOUS
  <2>. QED
    BY <2>1, <2>2, <2>3, <2>4
<1>. QED
  BY <1>11, <1>12 DEF rl, ra

LEMMA LastOfConcat ==
  ASSUME NEW L, NEW p \in Seq(L), NEW q \in Seq(L), q # <<>>
  PROVE  p \o q # <<>> /\ (p \o q)[Len(p \o q)] = q[Len(q)]
<1>1. /\ p \o q \in Seq(L) /\ Len(p \o q) = Len(p) + Len(q) /\ Len(p) \in Nat /\ Len(q) \in Nat
      /\ \A i \in 1 .. Len(p) + Len(q) :
           (p \o q)[i] = IF i <= Len(p) THEN p[i] ELSE q[i - Len(p)]
      /\ Len(q) >= 1
  BY ConcatProperties, LenProperties, EmptySeq
<1> DEFINE r == p \o q
<1> HIDE DEF r
<1>2. /\ r \in Seq(L) /\ Len(r) = Len(p) + Len(q) /\ Len(p) \in Nat /\ Len(q) \in Nat
      /\ \A i \in 1 .. Len(p) + Len(q) : r[i] = IF i <= Len(p) THEN p[i] ELSE q[i - Len(p)]
      /\ Len(q) >= 1
  BY <1>1 DEF r
<1>3. r[Len(r)] = q[Len(q)] /\ r # <<>>
  BY <1>2
<1>. QED
  BY <1>3 DEF r

\* A line is written to the live file, or to a new one.
LEMMA PutIs ==
  ASSUME NEW n \in Nat, NEW f, NEW a, NEW w \in Seq(Lines(n)), NEW c \in BOOLEAN,
         Shaped(f, a, w, c, n), ~Filled(f), NEW line \in Lines(n)
  PROVE  /\ Shaped(Added(LinesOf(f), line), a, Added(w, line), c, n)
         /\ Range(InFiles(Added(LinesOf(f), line), a))
              \subseteq Range(InFiles(f, a)) \cup {line, GarbageLine}
<1> DEFINE x == LinesOf(a[2])
           y == LinesOf(a[1])
           z == LinesOf(f)
           new == Added(z, line)
           xy == x \o y
<1>1. /\ DOMAIN a = 1 .. 2 /\ IsFile(f, n) /\ IsFile(a[1], n) /\ IsFile(a[2], n)
      /\ (a[1] = NoFile \/ Filled(a[1])) /\ (a[2] = NoFile \/ Filled(a[2]))
      /\ ~c /\ a[1] = NoFile => a[2] = NoFile
      /\ \/ w = InFiles(f, a)
         \/ c /\ (Filled(a[1]) \/ Filled(f))
         \/ ~c /\ a[1] # NoFile /\ a[2] # NoFile
  BY DEF Shaped
<1>2. PICK lost \in Seq(Lines(n)) : w = lost \o InFiles(f, a)
  BY DEF Shaped
<1>3. /\ x \in Seq(Lines(n)) /\ y \in Seq(Lines(n)) /\ z \in Seq(Lines(n))
      /\ Len(z) = (IF f = NoFile THEN 0 ELSE Len(f)) /\ (f # NoFile => z = f)
      /\ (a[1] # NoFile => y = a[1]) /\ (a[2] # NoFile => x = a[2])
      /\ (f = NoFile => z = <<>>) /\ (a[1] = NoFile => y = <<>>) /\ (a[2] = NoFile => x = <<>>)
  BY <1>1, LinesOfIs, NoneIs
<1> DEFINE torn == z # <<>> /\ Last(z) = TornLine
<1>4. /\ new \in Seq(Lines(n))
      /\ Len(new) = IF torn THEN Len(z) ELSE Len(z) + 1
      /\ Range(new) \subseteq Range(z) \cup {line, GarbageLine}
  <2> HIDE DEF x, y, z
  <2>. QED
    BY <1>3, AddedIs
<1> HIDE DEF x, y, z, torn
<1>5. Len(new) >= 1 /\ Len(new) <= MaxLines
  <2>1. CASE f = NoFile
    <3>1. z = <<>> /\ Len(z) = 0 /\ ~torn
      BY <1>3, <2>1 DEF torn
    <3>. QED
      BY <1>4, <3>1, ResidualAssumption
  <2>2. CASE f # NoFile
    <3>1. z = f /\ Len(z) >= 1 /\ Len(z) <= MaxLines /\ Len(z) \in Nat /\ z # <<>>
      BY <1>1, <1>3, <2>2 DEF IsFile
    <3>2. Len(z) = MaxLines => torn
      BY <2>2, <3>1 DEF Filled, torn, Last
    <3>3. torn \/ ~torn
      BY DEF torn
    <3>. QED
      BY <1>4, <3>1, <3>2, <3>3, ResidualAssumption
  <2>. QED
    BY <2>1, <2>2
<1>6. xy \in Seq(Lines(n)) /\ InFiles(f, a) = xy \o z
  <2>1. x \o y \in Seq(Lines(n))
    BY <1>3, ConcatProperties
  <2>. QED
    BY <2>1 DEF InFiles, x, y, z
<1>7. new # <<>> /\ new # NoFile /\ LinesOf(new) = new
  <2>1. new # NoFile
    BY <1>4, NoFileIs
  <2>. QED
    BY <1>5, <2>1 DEF LinesOf
<1>8. InFiles(new, a) = xy \o new
  BY <1>7 DEF InFiles, x, y
\* Where there is no live file, what was written ends with a whole line.
<1>9. ASSUME NEW h \in Seq(Lines(n)), h = <<>> \/ xy # <<>>
      PROVE  z # <<>> \/ h \o xy = <<>> \/ (h \o xy)[Len(h \o xy)] # TornLine
  <2> SUFFICES ASSUME z = <<>>, h \o xy # <<>> PROVE (h \o xy)[Len(h \o xy)] # TornLine
    OBVIOUS
  <2>1. xy # <<>>
    <3>1. h = <<>> => h \o xy = xy
      BY <1>6, ConcatEmptySeq
    <3>. QED
      BY <1>9, <3>1
  <2>2. (h \o xy)[Len(h \o xy)] = xy[Len(xy)]
    <3> HIDE DEF xy
    <3>. QED
      BY <1>6, <2>1, LastOfConcat
  <2>3. xy[Len(xy)] # TornLine
    <3>1. CASE y # <<>>
      <4>1. xy[Len(xy)] = y[Len(y)]
        BY <1>3, <3>1, LastOfConcat
      <4>2. Filled(y)
        BY <1>1, <1>3, <3>1
      <4>. QED
        BY <4>1, <4>2 DEF Filled
    <3>2. CASE y = <<>>
      <4>1. xy = x
        BY <1>3, <3>2, ConcatEmptySeq
      <4>2. Filled(x)
        BY <1>1, <1>3, <2>1, <4>1
      <4>. QED
        BY <4>1, <4>2 DEF Filled
    <3>. QED
      BY <3>1, <3>2
  <2>. QED
    BY <2>2, <2>3
<1> HIDE DEF xy, new
<1>10. lost = <<>> \/ xy # <<>> \/ z # <<>>
  <2> SUFFICES ASSUME xy = <<>>, z = <<>> PROVE lost = <<>>
    OBVIOUS
  <2>1. x = <<>> /\ y = <<>>
    BY <1>3, ConcatEqualIffEmpty DEF xy
  <2>2. ASSUME NEW file, IsFile(file, n), file # NoFile PROVE file # <<>>
    BY <2>2 DEF IsFile
  <2>3. a[1] = NoFile /\ a[2] = NoFile /\ f = NoFile
    BY <1>1, <1>3, <2>1, <2>2
  <2>4. ~Filled(a[1]) /\ ~Filled(f)
    BY <2>3 DEF Filled
  <2>5. w = InFiles(f, a)
    BY <1>1, <2>3, <2>4
  <2>6. InFiles(f, a) = <<>>
    BY <1>6, ConcatEmptySeq
  <2>7. lost \o <<>> = <<>> /\ lost \o <<>> = lost
    BY <1>2, <2>5, <2>6, ConcatEmptySeq
  <2>. QED
    BY <2>7
<1>11. Added(xy \o z, line) = xy \o new
  <2>1. z # <<>> \/ xy = <<>> \/ xy[Len(xy)] # TornLine
    <3>1. <<>> \in Seq(Lines(n)) /\ <<>> \o xy = xy
      BY <1>6, ConcatEmptySeq
    <3>2. z # <<>> \/ <<>> \o xy = <<>> \/ (<<>> \o xy)[Len(<<>> \o xy)] # TornLine
      BY <1>9, <3>1
    <3>. QED
      BY <3>1, <3>2
  <2>. QED
    BY <1>3, <1>6, <2>1, AddedBehind DEF new
<1>12. Added(w, line) = lost \o (xy \o new)
  <2>1. lost \o xy \in Seq(Lines(n))
    BY <1>2, <1>6, ConcatProperties
  <2>2. z # <<>> \/ lost \o xy = <<>> \/ (lost \o xy)[Len(lost \o xy)] # TornLine
    BY <1>2, <1>9, <1>10
  <2>3. Added((lost \o xy) \o z, line) = (lost \o xy) \o new
    <3> DEFINE h == lost \o xy
    <3> HIDE DEF h
    <3>1. h \in Seq(Lines(n)) /\ (z # <<>> \/ h = <<>> \/ h[Len(h)] # TornLine)
      BY <2>1, <2>2 DEF h
    <3>2. Added(h \o z, line) = h \o new
      BY <1>3, <3>1, AddedBehind DEF new
    <3>. QED
      BY <3>2 DEF h
  <2>4. \A p, q, s \in Seq(Lines(n)) : (p \o q) \o s = p \o (q \o s)
    BY ConcatAssociative, SMTT(30)
  <2>5. xy \in Seq(Lines(n)) /\ z \in Seq(Lines(n)) /\ new \in Seq(Lines(n))
    BY <1>3, <1>4, <1>6
  <2>6. (lost \o xy) \o z = lost \o (xy \o z)
    BY <1>2, <2>4, <2>5, Zenon
  <2>7. (lost \o xy) \o new = lost \o (xy \o new)
    BY <1>2, <2>4, <2>5, Zenon
  <2>. QED
    BY <1>2, <1>6, <2>3, <2>6, <2>7, Zenon
<1>13. Shaped(new, a, Added(w, line), c, n)
  <2>1. IsFile(new, n)
    BY <1>4, <1>5 DEF IsFile
  <2>2. \E h \in Seq(Lines(n)) : Added(w, line) = h \o InFiles(new, a)
    BY <1>2, <1>8, <1>12
  <2>3. w = InFiles(f, a) => Added(w, line) = InFiles(new, a)
    BY <1>6, <1>8, <1>11
  <2>4. \A g \in 1 .. 2 : a[g] = NoFile \/ Filled(a[g])
    <3>1. \A g \in 1 .. 2 : g = 1 \/ g = 2
      OBVIOUS
    <3>. QED
      BY <1>1, <3>1
  <2>. QED
    BY <1>1, <2>1, <2>2, <2>3, <2>4 DEF Shaped
<1>14. Range(InFiles(new, a)) \subseteq Range(InFiles(f, a)) \cup {line, GarbageLine}
  <2>1. Range(InFiles(f, a)) = Range(x) \cup Range(y) \cup Range(z)
    BY <1>1, InFilesAre DEF x, y, z
  <2>2. Range(InFiles(new, a)) = Range(x) \cup Range(y) \cup Range(new)
    <3>1. IsFile(new, n)
      BY <1>4, <1>5 DEF IsFile
    <3>2. Range(InFiles(new, a)) = Range(x) \cup Range(y) \cup Range(LinesOf(new))
      BY <1>1, <3>1, InFilesAre DEF x, y
    <3>. QED
      BY <1>7, <3>2
  <2>. QED
    BY <1>4, <2>1, <2>2
<1>. QED
  BY <1>13, <1>14 DEF new, z

LEMMA LaterLines ==
  ASSUME NEW n \in Nat
  PROVE  Seq(Lines(n)) \subseteq Seq(Lines(n + 1))
BY LinesAre, SeqMonotonic

LEMMA ShapedLater ==
  ASSUME NEW n \in Nat, NEW f, NEW a, NEW w, NEW c \in BOOLEAN, Shaped(f, a, w, c, n)
  PROVE  Shaped(f, a, w, c, n + 1)
BY LaterLines DEF Shaped, IsFile

\* What was written is made of lines.
LEMMA WrittenIs ==
  ASSUME NEW n \in Nat, NEW f, NEW a, NEW w, NEW c \in BOOLEAN, Shaped(f, a, w, c, n)
  PROVE  /\ w \in Seq(Lines(n)) /\ InFiles(f, a) \in Seq(Lines(n))
         /\ Range(InFiles(f, a)) \subseteq Range(w)
<1>1. PICK lost \in Seq(Lines(n)) : w = lost \o InFiles(f, a)
  BY DEF Shaped
<1>2. InFiles(f, a) \in Seq(Lines(n))
  BY InFilesAre DEF Shaped
<1> DEFINE all == InFiles(f, a)
<1> HIDE DEF all
<1>3. all \in Seq(Lines(n)) /\ w = lost \o all
  BY <1>1, <1>2 DEF all
<1>4. lost \o all \in Seq(Lines(n)) /\ Range(lost \o all) = Range(lost) \cup Range(all)
  BY <1>3, ConcatProperties, RangeConcatenation
<1>. QED
  BY <1>3, <1>4 DEF all

\* A new sample comes after all others.
LEMMA WrittenRises ==
  ASSUME NEW n \in Nat, NEW w \in Seq(Lines(n)), RisingIn(Whole, w),
         NEW line \in {TornLine, n + 1}
  PROVE  RisingIn(Whole, Added(w, line))
<1> DEFINE new == Added(w, line)
           torn == w # <<>> /\ Last(w) = TornLine
<1>1. w \in Seq(Lines(n + 1)) /\ line \in Lines(n + 1) /\ n + 1 \in Nat
  BY LaterLines, LinesAre, SMTT(30)
<1>2. /\ new \in Seq(Lines(n + 1))
      /\ \A i \in DOMAIN new :
           IF i < Len(new) THEN i \in DOMAIN w /\ new[i] = w[i]
           ELSE i = Len(new) /\ new[i] = IF torn /\ line # TornLine THEN GarbageLine ELSE line
  BY <1>1, AddedIs
<1> HIDE DEF new, torn
<1>3. DOMAIN new = 1 .. Len(new) /\ Len(new) \in Nat
  BY <1>2, LenProperties
<1>4. TornLine \notin Whole /\ GarbageLine \notin Whole
  BY DEF Whole, TornLine, GarbageLine
<1>5. ASSUME NEW i \in DOMAIN new, NEW j \in DOMAIN new, i < j, new[i] \in Whole, new[j] \in Whole
      PROVE  new[i] < new[j]
  <2>1. i < Len(new) /\ i \in Nat /\ j \in Nat /\ j <= Len(new)
    BY <1>3, <1>5
  <2>2. new[i] = w[i] /\ i \in DOMAIN w
    BY <1>2, <2>1
  <2>3. CASE j < Len(new)
    <3>1. new[j] = w[j] /\ j \in DOMAIN w
      BY <1>2, <2>3
    <3>. QED
      BY <1>5, <2>2, <3>1 DEF RisingIn
  <2>4. CASE j = Len(new)
    <3>1. new[j] = GarbageLine \/ new[j] = line
      BY <1>2, <2>4
    <3>2. new[j] = n + 1
      BY <1>4, <1>5, <3>1
    <3>3. w[i] \in Lines(n)
      BY <2>2
    <3>4. w[i] <= n /\ w[i] \in Int
      BY <3>3, LinesAre
    <3>. QED
      BY <2>2, <3>2, <3>4
  <2>. QED
    BY <2>1, <2>3, <2>4
<1>6. RisingIn(Whole, new)
  BY <1>5 DEF RisingIn
<1>. QED
  BY <1>6 DEF new

\* What a write or a rotation leaves.
LeavesBehind(line) ==
  /\ Shaped(live', arch', written', cut', samples + 1)
  /\ RisingIn(Whole, written') /\ cut' \in BOOLEAN
  /\ Range(InFiles(live', arch')) \subseteq Range(InFiles(live, arch)) \cup {line, GarbageLine}

LEMMA WriteIs ==
  ASSUME ResidualInv, NEW line \in {TornLine, samples + 1}, WriteLine(line)
  PROVE  LeavesBehind(line)
<1> DEFINE n == samples + 1
<1>1. samples \in Nat /\ n \in Nat /\ cut \in BOOLEAN
  BY ResidualAssumption DEF ResidualInv
<1>2. Shaped(live, arch, written, cut, samples) /\ RisingIn(Whole, written)
  BY DEF ResidualInv
<1>3. Shaped(live, arch, written, cut, n)
  BY <1>1, <1>2, ShapedLater
<1>4. line \in Lines(n)
  BY <1>1, LinesAre
<1>5. written' = Added(written, line) /\ cut' = cut
  BY DEF WriteLine
<1>6. RisingIn(Whole, written')
  <2>1. written \in Seq(Lines(samples))
    BY <1>1, <1>2, WrittenIs
  <2>. QED
    BY <1>1, <1>2, <1>5, <2>1, WrittenRises
<1>7. LogFull <=> Filled(live)
  BY <1>1, <1>3, FullIs DEF Shaped
<1> HIDE DEF n
<1>8. written \in Seq(Lines(n))
  BY <1>1, <1>3, WrittenIs
<1>9. CASE ~LogFull
  <2>1. live' = Added(LinesOf(live), line) /\ arch' = arch
    BY <1>9 DEF WriteLine
  <2>2. /\ Shaped(Added(LinesOf(live), line), arch, Added(written, line), cut, n)
        /\ Range(InFiles(Added(LinesOf(live), line), arch))
             \subseteq Range(InFiles(live, arch)) \cup {line, GarbageLine}
    BY <1>1, <1>3, <1>4, <1>7, <1>8, <1>9, PutIs
  <2>. QED
    BY <1>1, <1>5, <1>6, <2>1, <2>2 DEF LeavesBehind, n
<1>10. CASE LogFull
  <2> DEFINE r == Rotated(3)
  <2>1. live' = Added(LinesOf(r.live), line) /\ arch' = r.arch
    BY <1>10 DEF WriteLine
  <2>2. /\ Shaped(r.live, r.arch, written, cut \/ 3 \in 1 .. 2, n)
        /\ Range(InFiles(r.live, r.arch)) \subseteq Range(InFiles(live, arch))
    BY <1>1, <1>3, <1>7, <1>8, <1>10, RotationIs
  <2>3. (cut \/ 3 \in 1 .. 2) = cut
    BY <1>1
  <2>4. r.live = NoFile
    BY <1>3, RotatedIs DEF Shaped
  <2> HIDE DEF r
  <2>5. ~Filled(r.live)
    BY <2>4 DEF Filled
  <2>6. Shaped(r.live, r.arch, written, cut, n)
    BY <2>2, <2>3
  <2>7. /\ Shaped(Added(LinesOf(r.live), line), r.arch, Added(written, line), cut, n)
        /\ Range(InFiles(Added(LinesOf(r.live), line), r.arch))
             \subseteq Range(InFiles(r.live, r.arch)) \cup {line, GarbageLine}
    BY <1>1, <1>4, <1>8, <2>5, <2>6, PutIs
  <2>. QED
    BY <1>1, <1>5, <1>6, <2>1, <2>2, <2>7 DEF LeavesBehind, n
<1>. QED
  BY <1>9, <1>10

LEMMA RotateIs ==
  ASSUME ResidualInv, NEW steps \in 0 .. 3, Rotation(steps), written' = written
  PROVE  LeavesBehind(TornLine)
<1> DEFINE n == samples + 1
<1>1. samples \in Nat /\ n \in Nat /\ cut \in BOOLEAN
  BY ResidualAssumption DEF ResidualInv
<1>2. Shaped(live, arch, written, cut, samples) /\ RisingIn(Whole, written)
  BY DEF ResidualInv
<1>3. Shaped(live, arch, written, cut, n)
  BY <1>1, <1>2, ShapedLater
<1>4. LogFull <=> Filled(live)
  BY <1>1, <1>3, FullIs DEF Shaped
<1> HIDE DEF n
<1>5. written \in Seq(Lines(n))
  BY <1>1, <1>3, WrittenIs
<1>6. CASE ~LogFull
  <2>1. live' = live /\ arch' = arch /\ cut' = cut
    BY <1>6 DEF Rotation
  <2>. QED
    BY <1>1, <1>2, <1>3, <2>1 DEF LeavesBehind, n
<1>7. CASE LogFull
  <2> DEFINE r == Rotated(steps)
  <2>1. live' = r.live /\ arch' = r.arch /\ cut' = (cut \/ steps \in 1 .. 2)
    BY <1>7 DEF Rotation
  <2>2. /\ Shaped(r.live, r.arch, written, cut \/ steps \in 1 .. 2, n)
        /\ Range(InFiles(r.live, r.arch)) \subseteq Range(InFiles(live, arch))
    BY <1>1, <1>3, <1>4, <1>5, <1>7, RotationIs
  <2> HIDE DEF r
  <2>3. cut' \in BOOLEAN /\ Shaped(live', arch', written', cut', n)
    BY <2>1, <2>2
  <2>. QED
    BY <1>2, <2>1, <2>2, <2>3 DEF LeavesBehind, n
<1>. QED
  BY <1>6, <1>7

\* The files are read in the order of writing.
LEMMA IterAllIs ==
  ASSUME ResidualInv
  PROVE  /\ InFiles(live, arch) \in Seq(Lines(samples)) /\ samples \in Nat
         /\ RisingIn(Whole, InFiles(live, arch))
         /\ IterAll = Among(Whole, InFiles(live, arch))
<1> DEFINE all == InFiles(live, arch)
           x == LinesOf(arch[2])
           y == LinesOf(arch[1])
           z == LinesOf(live)
<1>1. /\ samples \in Nat /\ cut \in BOOLEAN /\ Shaped(live, arch, written, cut, samples)
      /\ RisingIn(Whole, written)
  BY ResidualAssumption DEF ResidualInv
<1>2. all \in Seq(Lines(samples)) /\ written \in Seq(Lines(samples))
  BY <1>1, WrittenIs
<1>3. PICK lost \in Seq(Lines(samples)) : written = lost \o all
  BY <1>1 DEF Shaped
<1>4. /\ x \in Seq(Lines(samples)) /\ y \in Seq(Lines(samples)) /\ z \in Seq(Lines(samples))
      /\ x \o y \in Seq(Lines(samples))
  BY <1>1, LinesOfIs, InFilesAre DEF Shaped
<1>5. all = (x \o y) \o z
  BY DEF InFiles
<1> HIDE DEF all, x, y, z
<1>6. RisingIn(Whole, all)
  <2>1. /\ Len(lost \o all) = Len(lost) + Len(all) /\ Len(lost) \in Nat /\ Len(all) \in Nat
        /\ \A i \in 1 .. Len(lost) + Len(all) :
             (lost \o all)[i] = IF i <= Len(lost) THEN lost[i] ELSE all[i - Len(lost)]
        /\ DOMAIN all = 1 .. Len(all) /\ lost \o all \in Seq(Lines(samples))
    BY <1>2, <1>3, ConcatProperties, LenProperties
  <2>2. DOMAIN written = 1 .. Len(lost) + Len(all)
    BY <1>2, <1>3, <2>1, LenProperties
  <2>3. ASSUME NEW i \in DOMAIN all
        PROVE  i + Len(lost) \in DOMAIN written /\ written[i + Len(lost)] = all[i]
    <3>1. i + Len(lost) \in 1 .. Len(lost) + Len(all) /\ ~(i + Len(lost) <= Len(lost))
      BY <2>1
    <3>2. i + Len(lost) - Len(lost) = i
      BY <2>1
    <3>3. (lost \o all)[i + Len(lost)] = all[i + Len(lost) - Len(lost)]
      BY <2>1, <3>1
    <3>. QED
      BY <1>3, <2>2, <3>1, <3>2, <3>3
  <2>4. ASSUME NEW i \in DOMAIN all, NEW j \in DOMAIN all, i < j, all[i] \in Whole, all[j] \in Whole
        PROVE  all[i] < all[j]
    <3>1. i + Len(lost) < j + Len(lost)
      BY <2>1, <2>4
    <3>. QED
      BY <1>1, <2>3, <2>4, <3>1 DEF RisingIn
  <2>. QED
    BY <2>4 DEF RisingIn
<1>7. Among(Whole, (x \o y) \o z) = (Among(Whole, x) \o Among(Whole, y)) \o Among(Whole, z)
  <2>1. Among(Whole, x \o y) = Among(Whole, x) \o Among(Whole, y)
    BY <1>4, AmongConcat
  <2> DEFINE xy == x \o y
  <2> HIDE DEF xy
  <2>2. Among(Whole, xy \o z) = Among(Whole, xy) \o Among(Whole, z)
    <3>1. xy \in Seq(Lines(samples))
      BY <1>4 DEF xy
    <3>. QED
      BY <1>4, <3>1, AmongConcat
  <2>. QED
    BY <2>1, <2>2 DEF xy
<1>8. IterAll = (Among(Whole, x) \o Among(Whole, y)) \o Among(Whole, z)
  BY DEF IterAll, Readable, Whole, x, y, z
<1>. QED
  BY <1>1, <1>2, <1>5, <1>6, <1>7, <1>8 DEF all

\* A sequence is made of what its elements are.
LEMMA SeqWithin ==
  ASSUME NEW S, NEW T, NEW s \in Seq(S), \A i \in DOMAIN s : s[i] \in T
  PROVE  s \in Seq(T)
<1>1. Len(s) \in Nat /\ s \in [1 .. Len(s) -> S] /\ DOMAIN s = 1 .. Len(s)
  BY LenProperties
<1>2. s \in [1 .. Len(s) -> T]
  BY <1>1
<1>. QED
  BY <1>1, <1>2, SeqDef

\* What a start learns.
LEMMA ReplayedIs ==
  ASSUME ResidualInv
  PROVE  /\ Replayed \in Seq(1 .. samples) /\ Rising(Replayed)
         /\ \A i \in DOMAIN Replayed : Replayed[i] \notin touched
         /\ \A x \in Range(InFiles(live, arch)) : x \in Whole \ touched => x \in Range(Replayed)
<1> DEFINE all == InFiles(live, arch)
           read == IterAll
           new == Replayed
           S == Nat \ touched
<1>1. all \in Seq(Lines(samples)) /\ samples \in Nat /\ RisingIn(Whole, all) /\ read = Among(Whole, all)
  BY IterAllIs
<1>2. new = Among(S, read)
  BY DEF Replayed
<1> HIDE DEF all, read, new
<1>3. /\ read \in Seq(Lines(samples))
      /\ \A i \in DOMAIN read : read[i] \in Whole /\ \E j \in DOMAIN all : all[j] = read[i]
      /\ \A j \in DOMAIN all : all[j] \in Whole => \E i \in DOMAIN read : read[i] = all[j]
  BY <1>1, AmongIsSeq
<1>4. /\ new \in Seq(Lines(samples))
      /\ \A i \in DOMAIN new : new[i] \in S /\ \E j \in DOMAIN read : read[j] = new[i]
      /\ \A j \in DOMAIN read : read[j] \in S => \E i \in DOMAIN new : new[i] = read[j]
  <2> HIDE DEF S
  <2>. QED
    BY <1>2, <1>3, AmongIsSeq
<1>5. Rising(read)
  <2>1. all \in Seq(Int)
    BY <1>1, LinesAre, SeqMonotonic
  <2>. QED
    BY <1>1, <2>1, AmongRises
<1>6. Rising(new)
  <2>1. read \in Seq(Int)
    BY <1>1, <1>3, LinesAre, SeqMonotonic
  <2>2. RisingIn(S, read)
    BY <1>5 DEF Rising, RisingIn
  <2>. QED
    BY <1>2, <2>1, <2>2, AmongRises
<1>7. new \in Seq(1 .. samples)
  <2>1. ASSUME NEW i \in DOMAIN new PROVE new[i] \in 1 .. samples
    <3>1. PICK j \in DOMAIN read : read[j] = new[i]
      BY <1>4
    <3>2. read[j] \in Whole
      BY <1>3
    <3>3. new[i] \in Lines(samples) /\ new[i] \in Whole
      BY <1>4, <3>1, <3>2
    <3>. QED
      BY <1>1, <3>3 DEF Lines, Whole, GarbageLine
  <2>. QED
    BY <1>4, <2>1, SeqWithin
<1>8. ASSUME NEW x \in Range(all), x \in Whole \ touched PROVE x \in Range(new)
  <2>1. PICK j \in DOMAIN all : all[j] = x
    BY <1>8 DEF Range
  <2>2. PICK k \in DOMAIN read : read[k] = x
    BY <1>3, <1>8, <2>1
  <2>3. x \in S
    BY <1>8 DEF Whole
  <2>4. PICK i \in DOMAIN new : new[i] = x
    BY <1>4, <2>2, <2>3
  <2>. QED
    BY <2>4 DEF Range
<1>9. \A i \in DOMAIN new : new[i] \notin touched
  BY <1>4
<1>. QED
  BY <1>6, <1>7, <1>8, <1>9 DEF all, new

LEMMA ResidualInits ==
  ASSUME ResidualInit
  PROVE  ResidualInv
<1>1. /\ arch = [g \in 1 .. Gens - 1 |-> NoFile] /\ live = NoFile /\ bank = <<>> /\ written = <<>>
      /\ samples = 0 /\ touched = {} /\ alive = TRUE /\ cut = FALSE
  BY DEF ResidualInit
<1>2. DOMAIN arch = 1 .. 2 /\ arch[1] = NoFile /\ arch[2] = NoFile
  BY <1>1 DEF Gens
<1>3. InFiles(live, arch) = <<>>
  <2>1. InFiles(live, arch) = (<<>> \o <<>>) \o <<>>
    BY <1>1, <1>2, NoneIs DEF InFiles
  <2>. QED
    BY <2>1
<1>4. <<>> \in Seq(Lines(samples)) /\ written = <<>> \o InFiles(live, arch)
  BY <1>1, <1>3
<1>5. Shaped(live, arch, written, cut, samples)
  <2>1. \A g \in 1 .. 2 : arch[g] = NoFile
    BY <1>1 DEF Gens
  <2>2. written = InFiles(live, arch)
    BY <1>1, <1>3
  <2>. QED
    BY <1>1, <1>2, <1>4, <2>1, <2>2 DEF Shaped, IsFile
<1>6. bank \in Seq(1 .. samples) /\ DOMAIN bank = {} /\ DOMAIN written = {}
  BY <1>1
<1>7. Range(InFiles(live, arch)) = {}
  BY <1>3, NoneIs
<1>8. RisingIn(Whole, written) /\ Rising(bank)
  BY <1>6 DEF RisingIn, Rising
<1>9. alive \in BOOLEAN /\ cut \in BOOLEAN /\ samples \in 0 .. MaxSamples
  <2>1. alive = TRUE /\ cut = FALSE /\ samples = 0
    BY <1>1
  <2>2. MaxSamples \in Nat
    BY ResidualAssumption
  <2>3. alive \in BOOLEAN /\ cut \in BOOLEAN
    BY <2>1
  <2>. QED
    BY <2>1, <2>2, <2>3
<1>10. touched \subseteq 1 .. samples /\ \A i \in DOMAIN bank : bank[i] \notin touched
  BY <1>1
<1>11. \A x \in Range(InFiles(live, arch)) : x \in Whole \ touched => x \in Range(bank)
  BY <1>7
<1>. QED
  BY <1>5, <1>6, <1>8, <1>9, <1>10, <1>11 DEF ResidualInv

LEMMA ValidatedKeeps ==
  ASSUME ResidualInv, Validated
  PROVE  ResidualInv'
<1>1. PICK intervened \in BOOLEAN :
        /\ alive /\ samples < MaxSamples
        /\ samples' = samples + 1
        /\ touched' = IF intervened THEN touched \cup {samples'} ELSE touched
        /\ WriteLine(samples')
        /\ bank' = IF intervened THEN bank ELSE Append(bank, samples')
        /\ alive' = alive
  BY DEF Validated
<1>2. /\ alive = TRUE /\ samples \in Nat /\ touched \subseteq 1 .. samples
      /\ bank \in Seq(1 .. samples) /\ Rising(bank)
      /\ \A i \in DOMAIN bank : bank[i] \notin touched
      /\ \A x \in Range(InFiles(live, arch)) : x \in Whole \ touched => x \in Range(bank)
  BY <1>1, ResidualAssumption DEF ResidualInv
<1>3. LeavesBehind(samples')
  <2>1. WriteLine(samples + 1) /\ samples + 1 \in {TornLine, samples + 1}
    BY <1>1
  <2>2. LeavesBehind(samples + 1)
    BY <2>1, WriteIs
  <2>. QED
    BY <1>1, <2>2
<1>4. samples' \in 0 .. MaxSamples /\ touched' \subseteq 1 .. samples'
  BY <1>1, <1>2, ResidualAssumption
<1>5. Len(bank) \in Nat /\ DOMAIN bank = 1 .. Len(bank) /\ bank \in Seq(1 .. samples')
      /\ \A i \in DOMAIN bank : bank[i] \in 1 .. samples
  <2>1. 1 .. samples \subseteq 1 .. samples'
    BY <1>1, <1>2
  <2>2. bank \in Seq(1 .. samples')
    BY <1>2, <2>1, SeqMonotonic
  <2>. QED
    BY <1>2, <2>2, LenProperties
<1>6. /\ bank' \in Seq(1 .. samples') /\ Rising(bank') /\ Range(bank) \subseteq Range(bank')
      /\ \A i \in DOMAIN bank' : bank'[i] \notin touched'
      /\ intervened \/ samples' \in Range(bank')
  <2>1. CASE intervened
    <3>1. bank' = bank /\ touched' = touched \cup {samples'}
      BY <1>1, <2>1
    <3>2. \A i \in DOMAIN bank : bank[i] # samples'
      BY <1>1, <1>2, <1>5
    <3>. QED
      BY <1>2, <1>5, <2>1, <3>1, <3>2 DEF Rising
  <2>2. CASE ~intervened
    <3>1. bank' = Append(bank, samples') /\ touched' = touched /\ samples' \in 1 .. samples'
      BY <1>1, <1>2, <2>2
    <3>2. /\ bank' \in Seq(1 .. samples') /\ Len(bank') = Len(bank) + 1
          /\ DOMAIN bank' = 1 .. Len(bank) + 1
          /\ \A i \in 1 .. Len(bank) : bank'[i] = bank[i]
          /\ bank'[Len(bank) + 1] = samples'
      BY <1>5, <3>1, AppendProperties, LenProperties
    <3>3. samples' \notin touched
      BY <1>1, <1>2
    <3>4. \A i \in DOMAIN bank' : bank'[i] \notin touched'
      BY <1>2, <1>5, <3>1, <3>2, <3>3
    <3>5. Range(bank) \subseteq Range(bank') /\ samples' \in Range(bank')
      <4>1. Len(bank) + 1 \in DOMAIN bank' /\ DOMAIN bank \subseteq DOMAIN bank'
        BY <1>5, <3>2
      <4>. QED
        BY <1>5, <3>2, <4>1 DEF Range
    <3>6. ASSUME NEW i \in DOMAIN bank', NEW j \in DOMAIN bank', i < j PROVE bank'[i] < bank'[j]
      <4>1. i \in DOMAIN bank /\ bank'[i] = bank[i] /\ bank[i] \in 1 .. samples
        BY <1>5, <3>2, <3>6
      <4>2. CASE j \in DOMAIN bank
        BY <1>2, <1>5, <3>2, <3>6, <4>1, <4>2 DEF Rising
      <4>3. CASE j = Len(bank) + 1
        BY <1>1, <1>2, <3>2, <4>1, <4>3
      <4>. QED
        BY <1>5, <3>2, <4>2, <4>3
    <3>7. Rising(bank')
      BY <3>6 DEF Rising
    <3>. QED
      BY <3>2, <3>4, <3>5, <3>7
  <2>. QED
    BY <2>1, <2>2
<1>7. ASSUME NEW x \in Range(InFiles(live', arch')), x \in Whole \ touched' PROVE x \in Range(bank')
  <2>1. x \in Range(InFiles(live, arch)) \/ x = samples'
    BY <1>3, <1>7 DEF LeavesBehind, Whole
  <2>2. CASE x \in Range(InFiles(live, arch))
    <3>1. x \notin touched
      BY <1>1, <1>7
    <3>. QED
      BY <1>2, <1>6, <1>7, <2>2, <3>1
  <2>3. CASE x = samples'
    BY <1>1, <1>6, <1>7, <2>3
  <2>. QED
    BY <2>1, <2>2, <2>3
<1>8. /\ Shaped(live', arch', written', cut', samples') /\ RisingIn(Whole, written')
      /\ cut' \in BOOLEAN /\ alive' \in BOOLEAN
  BY <1>1, <1>2, <1>3 DEF LeavesBehind
<1>. QED
  BY <1>4, <1>6, <1>7, <1>8 DEF ResidualInv, Rising

\* A sample that is not learned is not flagged either.
LEMMA UnlearnedKeeps ==
  ASSUME ResidualInv, samples' = samples + 1, samples < MaxSamples, NEW line, LeavesBehind(line),
         alive' \in BOOLEAN, touched' \in {touched, touched \cup {samples'}},
         \/ bank' = bank /\ line = TornLine /\ touched' = touched /\ alive' = alive
         \/ bank' = <<>> /\ ~alive'
  PROVE  ResidualInv'
<1>1. /\ samples \in Nat /\ touched \subseteq 1 .. samples
      /\ bank \in Seq(1 .. samples) /\ Rising(bank)
      /\ \A i \in DOMAIN bank : bank[i] \notin touched
      /\ alive => \A x \in Range(InFiles(live, arch)) : x \in Whole \ touched => x \in Range(bank)
  BY ResidualAssumption DEF ResidualInv
<1>2. samples' \in 0 .. MaxSamples /\ touched' \subseteq 1 .. samples'
  BY <1>1, ResidualAssumption
<1>3. Shaped(live', arch', written', cut', samples') /\ RisingIn(Whole, written') /\ cut' \in BOOLEAN
  BY DEF LeavesBehind
<1>4. CASE bank' = <<>> /\ ~alive'
  <2>1. bank' \in Seq(1 .. samples') /\ DOMAIN bank' = {}
    BY <1>4
  <2>. QED
    BY <1>2, <1>3, <1>4, <2>1 DEF ResidualInv, Rising
<1>5. CASE bank' = bank /\ line = TornLine /\ touched' = touched /\ alive' = alive
  <2>1. bank \in Seq(1 .. samples')
    <3>1. 1 .. samples \subseteq 1 .. samples'
      BY <1>1
    <3>. QED
      BY <1>1, <3>1, SeqMonotonic
  <2>2. ASSUME alive', NEW x \in Range(InFiles(live', arch')), x \in Whole \ touched'
        PROVE  x \in Range(bank')
    <3>1. x \in Range(InFiles(live, arch))
      BY <1>5, <2>2 DEF LeavesBehind, Whole, TornLine
    <3>. QED
      BY <1>1, <1>5, <2>2, <3>1
  <2>3. Rising(bank') /\ \A i \in DOMAIN bank' : bank'[i] \notin touched'
    BY <1>1, <1>5 DEF Rising
  <2>. QED
    BY <1>2, <1>3, <1>5, <2>1, <2>2, <2>3 DEF ResidualInv, Rising
<1>. QED
  BY <1>4, <1>5

LEMMA ResidualSteps ==
  ASSUME ResidualInv, [ResidualNext]_residualVars
  PROVE  ResidualInv'
<1>1. CASE UNCHANGED residualVars
  <2>1. /\ alive' = alive /\ samples' = samples /\ touched' = touched /\ live' = live
        /\ arch' = arch /\ bank' = bank /\ written' = written /\ cut' = cut
    BY <1>1 DEF residualVars
  <2>2. /\ alive \in BOOLEAN /\ cut \in BOOLEAN /\ samples \in 0 .. MaxSamples
        /\ touched \subseteq 1 .. samples /\ bank \in Seq(1 .. samples)
        /\ Shaped(live, arch, written, cut, samples)
        /\ RisingIn(Whole, written) /\ Rising(bank)
        /\ \A i \in DOMAIN bank : bank[i] \notin touched
        /\ alive => \A x \in Range(InFiles(live, arch)) : x \in Whole \ touched => x \in Range(bank)
    BY DEF ResidualInv
  <2>. QED
    BY <2>1, <2>2, Zenon DEF ResidualInv
<1>2. CASE Validated
  BY <1>2, ValidatedKeeps
<1>3. CASE AppendFails
  <2>1. /\ samples < MaxSamples /\ samples' = samples + 1 /\ alive' = alive
        /\ touched' = touched /\ bank' = bank
    BY <1>3 DEF AppendFails
  <2>2. LeavesBehind(TornLine)
    BY <1>3, WriteIs, RotateIs DEF AppendFails
  <2>3. alive' \in BOOLEAN
    BY <2>1 DEF ResidualInv
  <2>. QED
    BY <2>1, <2>2, <2>3, UnlearnedKeeps
<1>4. CASE ResidualKill
  <2>1. alive' = FALSE /\ bank' = <<>>
    BY <1>4 DEF ResidualKill
  <2>2. CASE UNCHANGED <<samples, touched, live, arch, written, cut>>
    <3>1. bank' \in Seq(1 .. samples') /\ DOMAIN bank' = {}
      BY <2>1
    <3>. QED
      BY <2>1, <2>2, <3>1 DEF ResidualInv, Shaped, InFiles, Rising, RisingIn, IsFile
  <2>3. CASE /\ samples < MaxSamples /\ samples' = samples + 1
             /\ \/ /\ \E steps \in 0 .. 3 : Rotation(steps)
                   /\ UNCHANGED <<touched, written>>
                \/ WriteLine(TornLine) /\ UNCHANGED touched
    <3>1. LeavesBehind(TornLine) /\ touched' = touched
      BY <2>3, WriteIs, RotateIs
    <3>. QED
      BY <2>1, <2>3, <3>1, UnlearnedKeeps
  <2>4. CASE /\ samples < MaxSamples /\ samples' = samples + 1
             /\ WriteLine(samples')
             /\ \E intervened \in BOOLEAN :
                  touched' = IF intervened THEN touched \cup {samples'} ELSE touched
    <3>1. LeavesBehind(samples + 1)
      BY <2>4, WriteIs
    <3>2. touched' \in {touched, touched \cup {samples'}}
      BY <2>4
    <3>. QED
      BY <2>1, <2>4, <3>1, <3>2, UnlearnedKeeps
  <2>. QED
    BY <1>4, <2>2, <2>3, <2>4 DEF ResidualKill
<1>5. CASE ResidualRestart
  <2>1. /\ alive' = TRUE /\ bank' = Replayed
        /\ UNCHANGED <<samples, touched, live, arch, written, cut>>
    BY <1>5 DEF ResidualRestart
  <2>2. /\ bank' \in Seq(1 .. samples) /\ Rising(bank')
        /\ \A i \in DOMAIN bank' : bank'[i] \notin touched
        /\ \A x \in Range(InFiles(live, arch)) : x \in Whole \ touched => x \in Range(bank')
    BY <2>1, ReplayedIs
  <2>3. /\ cut \in BOOLEAN /\ samples \in 0 .. MaxSamples /\ touched \subseteq 1 .. samples
        /\ Shaped(live, arch, written, cut, samples) /\ RisingIn(Whole, written)
    BY DEF ResidualInv
  <2>4. ResidualInv'
    BY <2>1, <2>2, <2>3 DEF ResidualInv, Shaped, InFiles, Rising, RisingIn, IsFile
  <2>. QED
    BY <2>4
<1>. QED
  BY <1>1, <1>2, <1>3, <1>4, <1>5 DEF ResidualNext


\* The end of a sequence is a suffix of it.
LEMMA EndIsSuffix ==
  ASSUME NEW S, NEW p \in Seq(S), NEW t \in Seq(S)
  PROVE  IsSuffix(t, p \o t)
<1> DEFINE whole == p \o t
           back == Reverse(t)
           backWhole == Reverse(whole)
<1>1. /\ whole \in Seq(S) /\ Len(whole) = Len(p) + Len(t)
      /\ \A i \in 1 .. Len(p) + Len(t) : whole[i] = IF i <= Len(p) THEN p[i] ELSE t[i - Len(p)]
      /\ Len(p) \in Nat /\ Len(t) \in Nat
      /\ \A i \in 1 .. Len(t) : t[i] \in S
  BY ConcatProperties, LenProperties, ElementOfSeq
<1> HIDE DEF whole
<1>2. \A i \in 1 .. Len(whole) : whole[i] \in S
  BY <1>1, ElementOfSeq
<1>3. back \in Seq(S) /\ Len(back) = Len(t) /\ \A i \in 1 .. Len(t) : back[i] = t[(Len(t) - i) + 1]
  <2>1. back = [i \in 1 .. Len(t) |-> t[(Len(t) - i) + 1]]
    BY DEF Reverse
  <2>2. \A i \in 1 .. Len(t) : t[(Len(t) - i) + 1] \in S
    BY <1>1
  <2> HIDE DEF back
  <2>3. back \in [1 .. Len(t) -> S]
    BY <2>1, <2>2
  <2>4. back \in Seq(S)
    BY <1>1, <2>3, SeqDef, SMTT(30)
  <2>5. Len(back) = Len(t)
    BY <1>1, <2>1, <2>4, LenProperties
  <2>. QED
    BY <2>1, <2>4, <2>5
<1>4. /\ backWhole \in Seq(S) /\ Len(backWhole) = Len(whole)
      /\ \A i \in 1 .. Len(whole) : backWhole[i] = whole[(Len(whole) - i) + 1]
  <2>1. backWhole = [i \in 1 .. Len(whole) |-> whole[(Len(whole) - i) + 1]]
    BY DEF Reverse
  <2>2. \A i \in 1 .. Len(whole) : whole[(Len(whole) - i) + 1] \in S
    BY <1>1, <1>2
  <2> HIDE DEF backWhole
  <2>3. backWhole \in [1 .. Len(whole) -> S]
    BY <2>1, <2>2
  <2>4. backWhole \in Seq(S)
    <3>1. Len(whole) \in Nat
      BY <1>1
    <3>. QED
      BY <2>3, <3>1, SeqDef
  <2>5. Len(backWhole) = Len(whole)
    BY <1>1, <2>1, <2>4, LenProperties
  <2>. QED
    BY <2>1, <2>4, <2>5
<1> HIDE DEF back, backWhole
<1>5. ASSUME NEW i \in 1 .. Len(t) PROVE back[i] = backWhole[i]
  <2>1. back[i] = t[(Len(t) - i) + 1] /\ backWhole[i] = whole[(Len(whole) - i) + 1]
    BY <1>1, <1>3, <1>4
  <2>2. whole[(Len(whole) - i) + 1] = t[(Len(whole) - i) + 1 - Len(p)]
    <3>1. (Len(whole) - i) + 1 \in 1 .. Len(p) + Len(t) /\ ~((Len(whole) - i) + 1 <= Len(p))
      BY <1>1
    <3>. QED
      BY <1>1, <3>1
  <2>3. (Len(whole) - i) + 1 - Len(p) = (Len(t) - i) + 1
    BY <1>1
  <2>. QED
    BY <2>1, <2>2, <2>3
<1>6. SubSeq(back, 1, Len(back)) = SubSeq(backWhole, 1, Len(back))
  <2> DEFINE a == SubSeq(back, 1, Len(back))
             b == SubSeq(backWhole, 1, Len(back))
  <2>1. \A i \in 1 .. Len(back) : back[i] \in S /\ backWhole[i] \in S
    BY <1>1, <1>3, <1>4, ElementOfSeq
  <2>2. 1 \in Int /\ Len(back) \in Int
    BY <1>1, <1>3
  <2>3. /\ a \in Seq(S) /\ Len(a) = IF 1 <= Len(back) THEN Len(back) - 1 + 1 ELSE 0
        /\ \A i \in 1 .. Len(back) - 1 + 1 : a[i] = back[1 + i - 1]
    BY <2>1, <2>2, SubSeqProperties
  <2>4. /\ b \in Seq(S) /\ Len(b) = IF 1 <= Len(back) THEN Len(back) - 1 + 1 ELSE 0
        /\ \A i \in 1 .. Len(back) - 1 + 1 : b[i] = backWhole[1 + i - 1]
    BY <2>1, <2>2, SubSeqProperties
  <2> HIDE DEF a, b
  <2>5. Len(a) = Len(b) /\ \A i \in 1 .. Len(a) : a[i] = b[i]
    BY <1>1, <1>3, <1>5, <2>3, <2>4
  <2>6. a = b
    BY <2>3, <2>4, <2>5, SeqEqual
  <2>. QED
    BY <2>6 DEF a, b
<1>7. Len(back) <= Len(backWhole)
  BY <1>1, <1>3, <1>4
<1>. QED
  BY <1>6, <1>7 DEF IsSuffix, IsPrefix, back, backWhole, whole

\* What a rotation may not take is still in the files, at their end.
LEMMA KeptAtEnd ==
  ASSUME ResidualInv
  PROVE  /\ samples \in Nat /\ Kept \in Seq(Lines(samples))
         /\ \E p \in Seq(Lines(samples)) : InFiles(live, arch) = p \o Kept
<1> DEFINE all == InFiles(live, arch)
           n == Len(written)
           k == IF cut THEN MaxLines ELSE 2 * MaxLines
           m == IF n > k THEN n - k + 1 ELSE 1
           kept == Kept
<1>1. /\ samples \in Nat /\ cut \in BOOLEAN /\ Shaped(live, arch, written, cut, samples)
      /\ MaxLines \in Nat \ {0} /\ k \in Nat \ {0}
  BY ResidualAssumption DEF ResidualInv
<1>2. /\ all \in Seq(Lines(samples)) /\ written \in Seq(Lines(samples))
  BY <1>1, WrittenIs
<1>3. kept = SubSeq(written, m, n)
  BY DEF Kept
<1>4. PICK lost \in Seq(Lines(samples)) : written = lost \o all
  BY <1>1 DEF Shaped
<1>5. Len(all) >= k \/ written = all
  <2>1. Len(all) = Len(LinesOf(arch[2])) + Len(LinesOf(arch[1])) + Len(LinesOf(live))
    BY <1>1, InFilesAre DEF Shaped
  <2>2. Len(LinesOf(arch[2])) \in Nat /\ Len(LinesOf(arch[1])) \in Nat /\ Len(LinesOf(live)) \in Nat
    BY <1>1, LinesOfIs, LenProperties DEF Shaped
  <2>3. /\ Filled(live) => Len(LinesOf(live)) = MaxLines
        /\ Filled(arch[1]) => Len(LinesOf(arch[1])) = MaxLines
        /\ Filled(arch[2]) => Len(LinesOf(arch[2])) = MaxLines
    BY DEF Filled, LinesOf
  <2> HIDE DEF all
  <2>4. \/ written = all
        \/ cut /\ (Filled(arch[1]) \/ Filled(live))
        \/ ~cut /\ Filled(arch[1]) /\ Filled(arch[2])
    BY <1>1 DEF Shaped, all
  <2>. QED
    BY <1>1, <2>1, <2>2, <2>3, <2>4
<1> HIDE DEF all, k, kept
<1>6. /\ Len(lost \o all) = Len(lost) + Len(all) /\ Len(lost) \in Nat /\ Len(all) \in Nat
      /\ \A i \in 1 .. Len(lost) + Len(all) :
           (lost \o all)[i] = IF i <= Len(lost) THEN lost[i] ELSE all[i - Len(lost)]
      /\ \A i \in 1 .. Len(all) : all[i] \in Lines(samples)
  BY <1>2, <1>4, ConcatProperties, LenProperties, ElementOfSeq
<1>7. /\ n = Len(lost) + Len(all)
      /\ \A i \in 1 .. Len(all) : written[i + Len(lost)] = all[i]
  <2>1. n = Len(lost) + Len(all)
    BY <1>4, <1>6
  <2>2. ASSUME NEW i \in 1 .. Len(all) PROVE written[i + Len(lost)] = all[i]
    <3>1. i + Len(lost) \in 1 .. Len(lost) + Len(all) /\ ~(i + Len(lost) <= Len(lost))
      BY <1>6
    <3>2. (lost \o all)[i + Len(lost)] = all[i + Len(lost) - Len(lost)]
      BY <1>6, <3>1
    <3>3. i + Len(lost) - Len(lost) = i
      BY <1>6
    <3>. QED
      BY <1>4, <3>2, <3>3
  <2>. QED
    BY <2>1, <2>2
<1> HIDE DEF n
<1>8. m \in Int /\ n \in Int /\ m >= Len(lost) + 1 /\ m <= n + 1
  <2>1. CASE Len(all) >= k
    BY <1>1, <1>6, <1>7, <2>1
  <2>2. CASE written = all
    <3>1. Len(lost) = 0
      BY <1>6, <1>7, <2>2 DEF n
    <3>. QED
      BY <1>1, <1>6, <1>7, <3>1
  <2>. QED
    BY <1>5, <2>1, <2>2
<1> HIDE DEF m
<1>9. /\ kept \in Seq(Lines(samples)) /\ Len(kept) = n - m + 1
      /\ \A i \in 1 .. n - m + 1 : kept[i] = written[m + i - 1]
  <2>1. \A i \in m .. n : written[i] \in Lines(samples)
    <3>1. \A i \in 1 .. n : written[i] \in Lines(samples)
      BY <1>2, ElementOfSeq DEF n
    <3>2. \A i \in m .. n : i \in 1 .. n
      BY <1>6, <1>8
    <3>. QED
      BY <3>1, <3>2
  <2>2. /\ SubSeq(written, m, n) \in Seq(Lines(samples))
        /\ Len(SubSeq(written, m, n)) = IF m <= n THEN n - m + 1 ELSE 0
        /\ \A i \in 1 .. n - m + 1 : SubSeq(written, m, n)[i] = written[m + i - 1]
    BY <1>8, <2>1, SubSeqProperties
  <2>. QED
    BY <1>3, <1>8, <2>2
<1> DEFINE e == m - Len(lost) - 1
           p == SubSeq(all, 1, e)
<1>10. e \in Nat /\ e <= Len(all)
  BY <1>6, <1>7, <1>8
<1> HIDE DEF e
<1>11. p \in Seq(Lines(samples)) /\ Len(p) = e /\ \A i \in 1 .. e : p[i] = all[i]
  <2>1. \A i \in 1 .. e : all[i] \in Lines(samples)
    BY <1>6, <1>10
  <2>2. /\ SubSeq(all, 1, e) \in Seq(Lines(samples))
        /\ Len(SubSeq(all, 1, e)) = IF 1 <= e THEN e - 1 + 1 ELSE 0
        /\ \A i \in 1 .. e - 1 + 1 : SubSeq(all, 1, e)[i] = all[1 + i - 1]
    BY <1>10, <2>1, SubSeqProperties
  <2>. QED
    BY <1>10, <2>2
<1> HIDE DEF p
<1> DEFINE both == p \o kept
<1>12. /\ both \in Seq(Lines(samples)) /\ Len(both) = Len(p) + Len(kept)
       /\ \A i \in 1 .. Len(p) + Len(kept) :
            both[i] = IF i <= Len(p) THEN p[i] ELSE kept[i - Len(p)]
  BY <1>9, <1>11, ConcatProperties
<1> HIDE DEF both
<1>13. Len(both) = Len(all)
  BY <1>6, <1>7, <1>8, <1>9, <1>11, <1>12 DEF e
<1>14. ASSUME NEW i \in 1 .. Len(both) PROVE both[i] = all[i]
  <2>1. CASE i <= e
    BY <1>10, <1>11, <1>12, <2>1
  <2>2. CASE i > e
    <3>1. both[i] = kept[i - e]
      BY <1>10, <1>11, <1>12, <2>2
    <3>2. i - e \in 1 .. n - m + 1 /\ m + (i - e) - 1 = i + Len(lost)
      BY <1>6, <1>7, <1>8, <1>10, <1>13, <2>2 DEF e
    <3>3. kept[i - e] = written[m + (i - e) - 1]
      BY <1>9, <3>2
    <3>4. written[i + Len(lost)] = all[i]
      BY <1>7, <1>13
    <3>. QED
      BY <3>1, <3>2, <3>3, <3>4
  <2>. QED
    BY <1>10, <2>1, <2>2
<1>15. all = both
  BY <1>2, <1>12, <1>13, <1>14, SeqEqual
<1>. QED
  BY <1>1, <1>9, <1>11, <1>15 DEF both, all, kept

LEMMA KeepsNewestHolds ==
  ASSUME ResidualInv
  PROVE  KeepsNewest
<1> DEFINE kept == Kept
           all == InFiles(live, arch)
<1>1. samples \in Nat /\ kept \in Seq(Lines(samples))
  BY KeptAtEnd
<1>2. PICK p \in Seq(Lines(samples)) : all = p \o kept
  BY KeptAtEnd
<1>3. IterAll = Among(Whole, all)
  BY IterAllIs
<1>4. Readable(kept) = Among(Whole, kept)
  <2>1. kept # NoFile
    BY <1>1, NoFileIs
  <2>. QED
    BY <2>1 DEF Readable, LinesOf, Whole
<1> HIDE DEF kept, all
<1>5. Among(Whole, p \o kept) = Among(Whole, p) \o Among(Whole, kept)
  BY <1>1, AmongConcat
<1>6. Among(Whole, p) \in Seq(Lines(samples)) /\ Among(Whole, kept) \in Seq(Lines(samples))
  BY <1>1, AmongIsSeq
<1>7. IsSuffix(Among(Whole, kept), Among(Whole, p) \o Among(Whole, kept))
  BY <1>6, EndIsSuffix
<1>8. IterAll = Among(Whole, p) \o Among(Whole, kept)
  BY <1>2, <1>3, <1>5
<1>9. IsSuffix(Readable(kept), IterAll)
  BY <1>4, <1>7, <1>8
<1>. QED
  BY <1>9 DEF KeepsNewest, kept

LEMMA LearnsInOrderHolds ==
  ASSUME ResidualInv
  PROVE  LearnsInOrder
<1> DEFINE kept == Kept
           all == InFiles(live, arch)
<1>1. samples \in Nat /\ kept \in Seq(Lines(samples))
  BY KeptAtEnd
<1>2. PICK p \in Seq(Lines(samples)) : all = p \o kept
  BY KeptAtEnd
<1>3. /\ Rising(bank) /\ \A i \in DOMAIN bank : bank[i] \notin touched
      /\ alive => \A x \in Range(all) : x \in Whole \ touched => x \in Range(bank)
  BY DEF ResidualInv
<1> HIDE DEF kept, all
<1>4. Range(kept) \subseteq Range(all)
  <2>1. Range(p \o kept) = Range(p) \cup Range(kept)
    BY <1>1, RangeConcatenation
  <2>. QED
    BY <1>2, <2>1
<1>5. ASSUME alive, NEW i \in DOMAIN kept, kept[i] \in (1 .. samples) \ touched
      PROVE  \E j \in DOMAIN bank : bank[j] = kept[i]
  <2>1. kept[i] \in Range(all)
    BY <1>4 DEF Range
  <2>2. kept[i] \in Whole \ touched
    BY <1>1, <1>5 DEF Whole, GarbageLine
  <2>3. kept[i] \in Range(bank)
    BY <1>3, <1>5, <2>1, <2>2
  <2>. QED
    BY <2>3 DEF Range
<1>. QED
  BY <1>3, <1>5 DEF LearnsInOrder, Rising, kept

\* KeepsNewest, for every size of the log: no failed append, kill in the middle of a
\* rotation or line cut short takes the newest lines of residuals.jsonl or their order.
THEOREM LogKeepsNewest == ResidualInit /\ [][ResidualNext]_residualVars => []KeepsNewest
<1>1. ResidualInit => ResidualInv
  BY ResidualInits
<1>2. ResidualInv /\ [ResidualNext]_residualVars => ResidualInv'
  BY ResidualSteps
<1>3. ResidualInv => KeepsNewest
  BY KeepsNewestHolds
<1>. QED
  BY <1>1, <1>2, <1>3, PTL

\* LearnsInOrder, for every size of the log: the bank learns samples in the order of time,
\* none twice and none that was controlled, and a restart has it know what the log kept.
THEOREM BankLearnsInOrder == ResidualInit /\ [][ResidualNext]_residualVars => []LearnsInOrder
<1>1. ResidualInit => ResidualInv
  BY ResidualInits
<1>2. ResidualInv /\ [ResidualNext]_residualVars => ResidualInv'
  BY ResidualSteps
<1>3. ResidualInv => LearnsInOrder
  BY LearnsInOrderHolds
<1>. QED
  BY <1>1, <1>2, <1>3, PTL

\* The log's part of WellTyped.
THEOREM LogWellTyped == ResidualInit /\ [][ResidualNext]_residualVars => []ResidualTypeOK
<1>1. ResidualInit => ResidualInv
  BY ResidualInits
<1>2. ResidualInv /\ [ResidualNext]_residualVars => ResidualInv'
  BY ResidualSteps
<1>3. ResidualInv => ResidualTypeOK
  <2> SUFFICES ASSUME ResidualInv PROVE ResidualTypeOK
    OBVIOUS
  <2>1. /\ alive \in BOOLEAN /\ cut \in BOOLEAN /\ samples \in 0 .. MaxSamples /\ samples \in Nat
        /\ touched \subseteq 1 .. samples /\ bank \in Seq(1 .. samples)
        /\ Shaped(live, arch, written, cut, samples)
    BY ResidualAssumption DEF ResidualInv
  <2>2. written \in Seq(-1 .. samples)
    BY <2>1, WrittenIs DEF Lines
  <2>3. ASSUME NEW file, IsFile(file, samples)
        PROVE  file = NoFile \/ (file \in Seq(-1 .. samples) /\ Len(file) <= MaxLines)
    BY <2>3 DEF IsFile, Lines
  <2>4. IsFile(live, samples) /\ IsFile(arch[1], samples) /\ IsFile(arch[2], samples)
        /\ DOMAIN arch = 1 .. 2
    BY <2>1 DEF Shaped
  <2>5. \A file \in {live, arch[1], arch[2]} :
          file = NoFile \/ (file \in Seq(-1 .. samples) /\ Len(file) <= MaxLines)
    BY <2>3, <2>4
  <2>6. DOMAIN arch = 1 .. Gens - 1
    BY <2>4 DEF Gens
  <2>. QED
    BY <2>1, <2>2, <2>5, <2>6 DEF ResidualTypeOK
<1>. QED
  BY <1>1, <1>2, <1>3, PTL

-----------------------------------------------------------------------------
(* Sessions.                                                               *)

\* A part of a sequence that was appended to.
LEMMA PartOfAppended ==
  ASSUME NEW S, NEW r \in Seq(S), NEW x \in S,
         NEW a \in Nat \ {0}, NEW b \in Nat, b <= Len(r)
  PROVE  SubSeq(Append(r, x), a, b) = SubSeq(r, a, b)
<1> DEFINE longer == Append(r, x)
           p == SubSeq(longer, a, b)
           q == SubSeq(r, a, b)
<1>1. /\ longer \in Seq(S) /\ Len(longer) = Len(r) + 1 /\ Len(r) \in Nat
      /\ \A i \in 1 .. Len(r) : longer[i] = r[i]
  BY AppendProperties, LenProperties
<1>2. \A i \in 1 .. Len(r) : r[i] \in S
  BY ElementOfSeq
<1> HIDE DEF longer
<1>3. \A i \in a .. b : i \in 1 .. Len(r)
  BY <1>1
<1>4. \A i \in a .. b : r[i] \in S /\ longer[i] \in S
  BY <1>1, <1>2, <1>3
<1>5. a \in Int /\ b \in Int
  OBVIOUS
<1>6. /\ p \in Seq(S) /\ Len(p) = IF a <= b THEN b - a + 1 ELSE 0
      /\ \A i \in 1 .. b - a + 1 : p[i] = longer[a + i - 1]
  BY <1>4, <1>5, SubSeqProperties
<1>7. /\ q \in Seq(S) /\ Len(q) = IF a <= b THEN b - a + 1 ELSE 0
      /\ \A i \in 1 .. b - a + 1 : q[i] = r[a + i - 1]
  BY <1>4, <1>5, SubSeqProperties
<1> HIDE DEF p, q
<1>8. ASSUME NEW i \in 1 .. Len(p) PROVE p[i] = q[i]
  <2>1. i \in 1 .. b - a + 1 /\ a + i - 1 \in a .. b
    BY <1>6
  <2>. QED
    BY <1>1, <1>3, <1>6, <1>7, <2>1
<1>9. p = q
  BY <1>6, <1>7, <1>8, SeqEqual
<1>. QED
  BY <1>9 DEF p, q, longer

-----------------------------------------------------------------------------
(* Sessions.                                                               *)

\* Flat, Regime and SegmentsAsDefined, of any stream and starts.
FlatIn(r, S, i, j) ==
  i >= 1 /\ WindowIsPlateau(SubSeq(r, i, j)) /\ ~\E s \in S : s.at \in i + 1 .. j

Collapses(r, S, i) ==
  /\ FlatIn(r, S, i - PlateauWindow, i - 1)
  /\ ~WindowIsPlateau(SubSeq(r, i - PlateauWindow + 1, i))

RegimeIn(r, S, i) ==
  IF i = 1 THEN "initial"
  ELSE IF r[i].label # r[i - 1].label THEN "focus_change"
  ELSE IF Apart(r[i].load, r[i - 1].load) > JumpThreshold THEN "load_jump"
  ELSE IF Collapses(r, S, i) THEN "plateau_collapse" ELSE "none"

DefinedAt(r, S, i) ==
  IF RegimeIn(r, S, i) = "none" THEN ~\E s \in S : s.at = i
  ELSE [at |-> i, why |-> RegimeIn(r, S, i)] \in S

\* The last k frames.
Newest(w, r, k) ==
  /\ w \in Seq(Frames) /\ Len(w) = k /\ k \in 1 .. Len(r)
  /\ \A i \in 1 .. k : w[i] = r[Len(r) - k + i]

Filling(at, n) == IF n - at + 1 < PlateauWindow THEN n - at + 1 ELSE PlateauWindow

\* The window holds the last frames of the session, and tells whether they are a plateau.
SegmenterInv ==
  /\ stream \in Seq(Frames) /\ Len(stream) <= MaxFrames /\ starts \subseteq Starts
  /\ \A i \in 1 .. Len(stream) : DefinedAt(stream, starts, i)
  /\ \/ current = None /\ stream = <<>> /\ starts = {} /\ window = <<>> /\ inPlateau = FALSE
     \/ /\ current \in starts /\ current.at <= Len(stream)
        /\ \A s \in starts : s.at <= current.at
        /\ Newest(window, stream, Filling(current.at, Len(stream)))
        /\ inPlateau = WindowIsPlateau(window)

\* A start later than all of a stream changes nothing about it.
LEMMA StaysDefined ==
  ASSUME NEW r \in Seq(Frames), NEW f \in Frames, NEW S, NEW T, S \subseteq T,
         \A s \in T : s \in S \/ s.at = Len(r) + 1,
         NEW i \in 1 .. Len(r), DefinedAt(r, S, i)
  PROVE  DefinedAt(Append(r, f), T, i)
<1> DEFINE longer == Append(r, f)
<1>1. /\ longer \in Seq(Frames) /\ Len(longer) = Len(r) + 1 /\ Len(r) \in Nat
      /\ \A k \in 1 .. Len(r) : longer[k] = r[k]
  BY AppendProperties, LenProperties
<1>2. ASSUME NEW a \in Nat \ {0}, NEW b \in Nat, b <= Len(r)
      PROVE  SubSeq(longer, a, b) = SubSeq(r, a, b)
  BY <1>2, PartOfAppended
<1> HIDE DEF longer
<1>3. \A a, b \in Int : b <= Len(r) => ((\E s \in S : s.at \in a .. b) <=> (\E s \in T : s.at \in a .. b))
  BY <1>1
<1>4. ASSUME NEW a \in Int, NEW b \in Nat, b <= Len(r)
      PROVE  FlatIn(longer, T, a, b) <=> FlatIn(r, S, a, b)
  <2>1. CASE a >= 1
    <3>1. SubSeq(longer, a, b) = SubSeq(r, a, b)
      BY <1>2, <1>4, <2>1
    <3>2. (\E s \in S : s.at \in a + 1 .. b) <=> (\E s \in T : s.at \in a + 1 .. b)
      BY <1>3, <1>4
    <3>. QED
      BY <3>1, <3>2 DEF FlatIn
  <2>2. CASE ~(a >= 1)
    BY <2>2 DEF FlatIn
  <2>. QED
    BY <2>1, <2>2
<1>5. RegimeIn(longer, T, i) = RegimeIn(r, S, i)
  <2>1. CASE i = 1
    BY <2>1 DEF RegimeIn
  <2>2. CASE i # 1
    <3>1. longer[i] = r[i] /\ longer[i - 1] = r[i - 1]
      BY <1>1, <2>2
    <3>2. i - PlateauWindow \in Int /\ i - 1 \in Nat /\ i - 1 <= Len(r) /\ i <= Len(r) /\ i \in Nat
      BY <1>1, SegmenterAssumption
    <3>3. FlatIn(longer, T, i - PlateauWindow, i - 1) <=> FlatIn(r, S, i - PlateauWindow, i - 1)
      BY <1>4, <3>2
    <3>4. FlatIn(r, S, i - PlateauWindow, i - 1) =>
            SubSeq(longer, i - PlateauWindow + 1, i) = SubSeq(r, i - PlateauWindow + 1, i)
      <4>1. ASSUME i - PlateauWindow >= 1
            PROVE  SubSeq(longer, i - PlateauWindow + 1, i) = SubSeq(r, i - PlateauWindow + 1, i)
        <5>1. i - PlateauWindow + 1 \in Nat \ {0}
          BY <3>2, <4>1
        <5>. QED
          BY <1>2, <3>2, <5>1
      <4>. QED
        BY <4>1 DEF FlatIn
    <3>5. Collapses(longer, T, i) <=> Collapses(r, S, i)
      BY <3>3, <3>4 DEF Collapses
    <3>. QED
      BY <3>1, <3>5 DEF RegimeIn
  <2>. QED
    BY <2>1, <2>2
<1>6. (\E s \in S : s.at = i) <=> (\E s \in T : s.at = i)
  BY <1>1
<1>7. S \subseteq T
  OBVIOUS
<1>. QED
  BY <1>5, <1>6, <1>7 DEF DefinedAt, longer

\* What the window tells about the stream, and about the stream with one frame more.
LEMMA WindowTells ==
  ASSUME SegmenterInv, current # None, NEW f \in Frames, NEW T, starts \subseteq T,
         \A s \in T : s \in starts \/ s.at = Len(stream) + 1
  PROVE  LET n == Len(stream)
             r == Append(stream, f)
             w == Slid(Append(window, f))
         IN  /\ Newest(w, r, Filling(current.at, n + 1))
             /\ FlatIn(r, T, (n + 1) - PlateauWindow, n) <=> inPlateau
             /\ inPlateau => SubSeq(r, (n + 1) - PlateauWindow + 1, n + 1) = w
<1> DEFINE n == Len(stream)
           r == Append(stream, f)
           w == Slid(Append(window, f))
           k == Filling(current.at, n)
           PW == PlateauWindow
<1>1. /\ stream \in Seq(Frames) /\ current \in starts /\ current.at <= n
      /\ \A s \in starts : s.at <= current.at
      /\ Newest(window, stream, k) /\ inPlateau = WindowIsPlateau(window)
      /\ current.at \in Nat \ {0}
  BY DEF SegmenterInv, Starts
<1>2. /\ r \in Seq(Frames) /\ Len(r) = n + 1 /\ n \in Nat
      /\ \A i \in 1 .. n : r[i] = stream[i]
      /\ r[n + 1] = f
  BY <1>1, AppendProperties, LenProperties
<1>3. /\ window \in Seq(Frames) /\ Len(window) = k /\ k \in 1 .. n
      /\ \A i \in 1 .. k : window[i] = stream[n - k + i]
  BY <1>1 DEF Newest
<1>4. PW \in Nat /\ PW >= 2
  BY SegmenterAssumption
<1> DEFINE longer == Append(window, f)
<1>5. /\ longer \in Seq(Frames) /\ Len(longer) = k + 1
      /\ \A i \in 1 .. k : longer[i] = window[i]
      /\ longer[k + 1] = f
  BY <1>3, AppendProperties
<1>6. w = Slid(longer)
  OBVIOUS
<1>7. k = (IF n - current.at + 1 < PW THEN n - current.at + 1 ELSE PW)
  BY DEF Filling
<1>8. (n + 1) - PW >= 1 => SubSeq(r, (n + 1) - PW, n) = SubSeq(stream, (n + 1) - PW, n)
  <2>1. CASE (n + 1) - PW >= 1
    <3>1. (n + 1) - PW \in Nat \ {0} /\ n <= Len(stream)
      BY <1>2, <1>4, <2>1
    <3>. QED
      BY <1>1, <1>2, <3>1, PartOfAppended, SMTT(30)
  <2>. QED
    BY <2>1
<1> HIDE DEF n, r, w, k, longer, PW
<1>9. Newest(w, r, Filling(current.at, n + 1))
  <2>1. CASE k < PW
    <3>1. w = longer
      BY <1>3, <1>4, <1>5, <1>6, <2>1 DEF Slid, PW
    <3>2. Filling(current.at, n + 1) = k + 1
      BY <1>1, <1>2, <1>4, <1>7, <2>1 DEF Filling, PW
    <3>3. k + 1 \in 1 .. Len(r)
      BY <1>2, <1>3
    <3>4. ASSUME NEW i \in 1 .. k + 1 PROVE longer[i] = r[Len(r) - (k + 1) + i]
      <4>1. CASE i = k + 1
        <5>1. Len(r) - (k + 1) + i = n + 1
          BY <1>2, <1>3, <4>1
        <5>. QED
          BY <1>2, <1>5, <4>1, <5>1
      <4>2. CASE i \in 1 .. k
        <5>1. Len(r) - (k + 1) + i = n - k + i /\ n - k + i \in 1 .. n
          BY <1>2, <1>3, <4>2
        <5>. QED
          BY <1>2, <1>3, <1>5, <4>2, <5>1
      <4>. QED
        BY <1>3, <4>1, <4>2
    <3>. QED
      BY <1>5, <3>1, <3>2, <3>3, <3>4 DEF Newest
  <2>2. CASE k >= PW
    <3>1. k = PW /\ Filling(current.at, n + 1) = k
      BY <1>1, <1>2, <1>4, <1>7, <2>2 DEF Filling, PW
    <3>2. w = Tail(longer)
      BY <1>3, <1>4, <1>5, <1>6, <2>2 DEF Slid, PW
    <3>3. longer # <<>>
      BY <1>3, <1>5
    <3>4. /\ w \in Seq(Frames) /\ Len(w) = k
          /\ \A i \in 1 .. k : w[i] = longer[i + 1]
      <4>1. /\ Tail(longer) \in Seq(Frames) /\ Len(Tail(longer)) = Len(longer) - 1
            /\ \A i \in 1 .. Len(Tail(longer)) : Tail(longer)[i] = longer[i + 1]
        BY <1>5, <3>3, HeadTailProperties
      <4>2. Len(longer) - 1 = k
        BY <1>3, <1>5
      <4>. QED
        BY <3>2, <4>1, <4>2
    <3>5. k \in 1 .. Len(r)
      BY <1>2, <1>3
    <3>6. ASSUME NEW i \in 1 .. k PROVE w[i] = r[Len(r) - k + i]
      <4>1. CASE i = k
        <5>1. Len(r) - k + i = n + 1 /\ i + 1 = k + 1
          BY <1>2, <1>3, <4>1
        <5>. QED
          BY <1>2, <1>5, <3>4, <5>1
      <4>2. CASE i < k
        <5>1. Len(r) - k + i = n - k + (i + 1) /\ i + 1 \in 1 .. k /\ n - k + (i + 1) \in 1 .. n
          BY <1>2, <1>3, <4>2
        <5>2. w[i] = longer[i + 1]
          BY <3>4
        <5>3. longer[i + 1] = window[i + 1] /\ window[i + 1] = stream[n - k + (i + 1)]
          BY <1>3, <1>5, <5>1
        <5>4. stream[n - k + (i + 1)] = r[n - k + (i + 1)]
          BY <1>2, <5>1
        <5>. QED
          BY <5>1, <5>2, <5>3, <5>4
      <4>. QED
        BY <1>3, <4>1, <4>2
    <3>. QED
      BY <3>1, <3>4, <3>5, <3>6 DEF Newest
  <2>. QED
    BY <1>3, <1>4, <2>1, <2>2
<1>10. CASE k < PW
  <2>1. ~WindowIsPlateau(window)
    BY <1>3, <1>4, <1>10 DEF WindowIsPlateau, PW
  <2>2. ~FlatIn(r, T, (n + 1) - PW, n)
    <3>1. CASE (n + 1) - PW < 1
      BY <1>2, <1>4, <3>1 DEF FlatIn
    <3>2. CASE (n + 1) - PW >= 1
      <4>1. current.at \in (n + 1) - PW + 1 .. n
        BY <1>1, <1>2, <1>4, <1>7, <1>10
      <4>2. current \in T
        BY <1>1
      <4>. QED
        BY <4>1, <4>2 DEF FlatIn
    <3>. QED
      BY <1>2, <1>4, <3>1, <3>2
  <2>3. ~inPlateau
    BY <1>1, <2>1
  <2>. QED
    BY <1>9, <2>2, <2>3 DEF n, r, w, PW
<1>11. CASE k >= PW
  <2>1. k = PW /\ (n + 1) - PW >= 1 /\ (n + 1) - PW + 1 >= 1 /\ current.at <= (n + 1) - PW
    BY <1>1, <1>2, <1>3, <1>4, <1>7, <1>11
  <2> DEFINE p == SubSeq(stream, (n + 1) - PW, n)
             q == SubSeq(r, (n + 1) - PW + 1, n + 1)
  <2>2. /\ \A i \in (n + 1) - PW .. n : stream[i] \in Frames
        /\ \A i \in (n + 1) - PW + 1 .. n + 1 : r[i] \in Frames
    <3>1. /\ \A i \in 1 .. n : stream[i] \in Frames
          /\ \A i \in 1 .. n + 1 : r[i] \in Frames
      BY <1>1, <1>2, ElementOfSeq DEF n
    <3>2. /\ \A i \in (n + 1) - PW .. n : i \in 1 .. n
          /\ \A i \in (n + 1) - PW + 1 .. n + 1 : i \in 1 .. n + 1
      BY <1>2, <1>4, <2>1
    <3>. QED
      BY <3>1, <3>2
  <2>3. (n + 1) - PW \in Int /\ n \in Int /\ (n + 1) - PW + 1 \in Int /\ n + 1 \in Int
    BY <1>2, <1>4
  <2>4. /\ p \in Seq(Frames)
        /\ Len(p) = IF (n + 1) - PW <= n THEN n - ((n + 1) - PW) + 1 ELSE 0
        /\ \A i \in 1 .. n - ((n + 1) - PW) + 1 : p[i] = stream[(n + 1) - PW + i - 1]
    BY <2>2, <2>3, SubSeqProperties
  <2>5. /\ q \in Seq(Frames)
        /\ Len(q) = IF (n + 1) - PW + 1 <= n + 1 THEN n + 1 - ((n + 1) - PW + 1) + 1 ELSE 0
        /\ \A i \in 1 .. n + 1 - ((n + 1) - PW + 1) + 1 : q[i] = r[(n + 1) - PW + 1 + i - 1]
    BY <2>2, <2>3, SubSeqProperties
  <2> HIDE DEF p, q
  <2>6. window = p
    <3>1. Len(p) = k
      BY <1>2, <1>3, <1>4, <2>1, <2>4
    <3>2. ASSUME NEW i \in 1 .. k PROVE window[i] = p[i]
      <4>1. (n + 1) - PW + i - 1 = n - k + i /\ i \in 1 .. n - ((n + 1) - PW) + 1
        BY <1>2, <1>3, <1>4, <2>1
      <4>2. p[i] = stream[(n + 1) - PW + i - 1]
        BY <2>4, <4>1
      <4>. QED
        BY <1>3, <4>1, <4>2
    <3>. QED
      BY <1>3, <2>4, <3>1, <3>2, SeqEqual
  <2>7. w = q
    <3>1. w \in Seq(Frames) /\ Len(w) = k /\ \A i \in 1 .. k : w[i] = r[Len(r) - k + i]
      <4>1. Filling(current.at, n + 1) = k
        BY <1>1, <1>2, <1>4, <1>7, <1>11 DEF Filling, PW
      <4>. QED
        BY <1>9, <4>1 DEF Newest
    <3>2. Len(q) = k
      BY <1>2, <1>3, <1>4, <2>1, <2>5
    <3>3. ASSUME NEW i \in 1 .. k PROVE w[i] = q[i]
      <4>1. (n + 1) - PW + 1 + i - 1 = Len(r) - k + i /\ i \in 1 .. n + 1 - ((n + 1) - PW + 1) + 1
        <5>1. k = PW /\ k \in Int /\ n \in Int /\ i \in Int /\ 1 <= i /\ i <= k /\ Len(r) = n + 1
          BY <1>2, <1>4, <2>1
        <5>. QED
          BY <5>1
      <4>2. q[i] = r[(n + 1) - PW + 1 + i - 1]
        BY <2>5, <4>1
      <4>. QED
        BY <3>1, <4>1, <4>2
    <3>. QED
      BY <2>5, <3>1, <3>2, <3>3, SeqEqual
  <2>8. FlatIn(r, T, (n + 1) - PW, n) <=> inPlateau
    <3>1. SubSeq(r, (n + 1) - PW, n) = window
      BY <1>2, <1>4, <1>8, <2>1, <2>6 DEF p
    <3>2. ~\E s \in T : s.at \in (n + 1) - PW + 1 .. n
      <4>1. ASSUME NEW s \in T, s.at \in (n + 1) - PW + 1 .. n PROVE FALSE
        <5>1. s \in starts
          BY <1>2, <4>1 DEF n
        <5>2. s.at <= current.at /\ s.at \in Int
          BY <1>1, <1>2, <1>4, <4>1, <5>1
        <5>. QED
          BY <1>1, <1>2, <1>4, <2>1, <4>1, <5>2
      <4>. QED
        BY <4>1
    <3>3. inPlateau <=> WindowIsPlateau(window)
      BY <1>1
    <3>. QED
      BY <2>1, <3>1, <3>2, <3>3 DEF FlatIn
  <2>9. SubSeq(r, (n + 1) - PW + 1, n + 1) = w
    BY <2>7 DEF q
  <2>. QED
    BY <1>9, <2>8, <2>9 DEF n, r, w, PW
<1>12. k < PW \/ k >= PW
  BY <1>2, <1>3, <1>4
<1>. QED
  BY <1>10, <1>11, <1>12

\* What the next frame is, by the regime of the stream.
LEMMA RegimeIs ==
  ASSUME NEW r, NEW T, NEW n \in Nat \ {0}, NEW f, NEW prev, NEW flat \in BOOLEAN, NEW w,
         r[n + 1] = f, r[n] = prev,
         FlatIn(r, T, (n + 1) - PlateauWindow, n) <=> flat,
         flat => SubSeq(r, (n + 1) - PlateauWindow + 1, n + 1) = w
  PROVE  RegimeIn(r, T, n + 1) =
           IF f.label # prev.label THEN "focus_change"
           ELSE IF Apart(f.load, prev.load) > JumpThreshold THEN "load_jump"
           ELSE IF flat /\ ~WindowIsPlateau(w) THEN "plateau_collapse" ELSE "none"
<1>1. (n + 1) - 1 = n /\ n + 1 # 1
  OBVIOUS
<1>2. r[(n + 1) - 1] = prev /\ (FlatIn(r, T, (n + 1) - PlateauWindow, (n + 1) - 1) <=> flat)
  BY <1>1
<1>3. CASE f.label # prev.label
  BY <1>1, <1>2, <1>3 DEF RegimeIn
<1>4. CASE f.label = prev.label /\ Apart(f.load, prev.load) > JumpThreshold
  BY <1>1, <1>2, <1>4 DEF RegimeIn
<1>5. CASE f.label = prev.label /\ ~(Apart(f.load, prev.load) > JumpThreshold)
  <2>1. Collapses(r, T, n + 1) <=> flat /\ ~WindowIsPlateau(w)
    <3> DEFINE part == SubSeq(r, (n + 1) - PlateauWindow + 1, n + 1)
               before == FlatIn(r, T, (n + 1) - PlateauWindow, (n + 1) - 1)
    <3>1. Collapses(r, T, n + 1) <=> before /\ ~WindowIsPlateau(part)
      BY DEF Collapses
    <3>2. (before <=> flat) /\ (flat => part = w)
      BY <1>2
    <3> HIDE DEF part, before
    <3>. QED
      BY <3>1, <3>2
  <2>. QED
    BY <1>1, <1>2, <1>5, <2>1 DEF RegimeIn
<1>. QED
  BY <1>3, <1>4, <1>5

LEMMA SegmenterSteps ==
  ASSUME SegmenterInv, [SegmenterNext]_segmenterVars
  PROVE  SegmenterInv'
<1>1. CASE UNCHANGED segmenterVars
  <2>1. /\ current' = current /\ window' = window /\ inPlateau' = inPlateau
        /\ stream' = stream /\ starts' = starts
    BY <1>1 DEF segmenterVars
  <2>. QED
    BY <2>1, Zenon DEF SegmenterInv
<1>2. CASE Feed
  <2> DEFINE n == Len(stream)
  <2>1. PICK f \in Frames :
          /\ n < MaxFrames
          /\ stream' = Append(stream, f)
          /\ IF current = None THEN StartSession(f, "initial")
             ELSE LET prev == stream[n]
                      w    == Slid(Append(window, f))
                  IN  IF f.label # prev.label THEN StartSession(f, "focus_change")
                      ELSE IF Apart(f.load, prev.load) > JumpThreshold
                      THEN StartSession(f, "load_jump")
                      ELSE IF inPlateau /\ ~WindowIsPlateau(w)
                      THEN StartSession(f, "plateau_collapse")
                      ELSE /\ window' = w /\ inPlateau' = WindowIsPlateau(w)
                           /\ UNCHANGED <<current, starts>>
    BY <1>2 DEF Feed
  <2> DEFINE w == Slid(Append(window, f))
  <2>2. /\ stream \in Seq(Frames) /\ n \in Nat /\ starts \subseteq Starts
        /\ stream' \in Seq(Frames) /\ Len(stream') = n + 1 /\ n + 1 <= MaxFrames
        /\ stream'[n + 1] = f /\ \A i \in 1 .. n : stream'[i] = stream[i]
        /\ n + 1 \in 1 .. MaxFrames
        /\ \A i \in 1 .. n : DefinedAt(stream, starts, i)
    <3>1. stream \in Seq(Frames) /\ starts \subseteq Starts /\ \A i \in 1 .. n : DefinedAt(stream, starts, i)
      BY DEF SegmenterInv
    <3>2. n \in Nat
      BY <3>1, LenProperties
    <3>3. /\ stream' \in Seq(Frames) /\ Len(stream') = n + 1
          /\ stream'[n + 1] = f /\ \A i \in 1 .. n : stream'[i] = stream[i]
      BY <2>1, <3>1, AppendProperties
    <3>. QED
      BY <2>1, <3>1, <3>2, <3>3, SegmenterAssumption
  <2>3. ASSUME NEW why \in Reasons, StartSession(f, why), RegimeIn(stream', starts', n + 1) = why
        PROVE  SegmenterInv'
    <3>1. /\ current' = [at |-> n + 1, why |-> why] /\ starts' = starts \cup {current'}
          /\ window' = <<f>> /\ inPlateau' = FALSE
      BY <2>2, <2>3 DEF StartSession
    <3>2. current' \in Starts /\ starts' \subseteq Starts /\ current' \in starts' /\ current'.at = n + 1
      BY <2>2, <3>1 DEF Starts
    <3>3. \A s \in starts' : s \in starts \/ s.at = Len(stream) + 1
      BY <3>1
    <3>4. \A s \in starts : s.at <= n
      BY <2>2 DEF SegmenterInv, Starts
    <3>5. ASSUME NEW i \in 1 .. n + 1 PROVE DefinedAt(stream', starts', i)
      <4>1. CASE i \in 1 .. n
        <5>1. starts \subseteq starts'
          BY <3>1
        <5>2. DefinedAt(Append(stream, f), starts', i)
          BY <2>2, <3>3, <4>1, <5>1, StaysDefined
        <5>. QED
          BY <2>1, <5>2
      <4>2. CASE i = n + 1
        <5>1. why # "none"
          BY DEF Reasons
        <5>. QED
          BY <2>3, <3>1, <4>2, <5>1 DEF DefinedAt
      <4>. QED
        BY <2>2, <4>1, <4>2
    <3>6. Filling(current'.at, Len(stream')) = 1
      BY <2>2, <3>2, SegmenterAssumption DEF Filling
    <3>7. window' \in Seq(Frames) /\ Len(window') = 1 /\ window'[1] = f
      BY <3>1
    <3>8. Newest(window', stream', 1)
      BY <2>2, <3>7 DEF Newest
    <3>9. ~WindowIsPlateau(window')
      BY <3>7, SegmenterAssumption DEF WindowIsPlateau
    <3>10. inPlateau' = WindowIsPlateau(window')
      BY <3>1, <3>9 DEF WindowIsPlateau
    <3>11. \A s \in starts' : s.at <= current'.at
      BY <2>2, <3>1, <3>2, <3>4 DEF Starts
    <3>12. \A i \in 1 .. Len(stream') : DefinedAt(stream', starts', i)
      BY <2>2, <3>5
    <3>13. Newest(window', stream', Filling(current'.at, Len(stream')))
      BY <3>6, <3>8
    <3>14. current'.at <= Len(stream')
      BY <2>2, <3>2
    <3>. QED
      BY <2>2, <3>2, <3>10, <3>11, <3>12, <3>13, <3>14 DEF SegmenterInv
  <2>4. CASE current = None
    <3>1. stream = <<>> /\ n = 0
      <4>1. None \notin Starts
        BY DEF None, Starts
      <4>2. stream = <<>>
        BY <2>4, <4>1 DEF SegmenterInv
      <4>. QED
        BY <4>2
    <3>2. StartSession(f, "initial")
      BY <2>1, <2>4
    <3>3. RegimeIn(stream', starts', n + 1) = "initial"
      BY <3>1 DEF RegimeIn
    <3>. QED
      BY <2>3, <3>2, <3>3 DEF Reasons
  <2>5. CASE current # None
    <3> DEFINE prev == stream[n]
               flat == FlatIn(stream', starts', (n + 1) - PlateauWindow, n)
    <3>1. /\ current \in starts /\ current.at <= n /\ current.at >= 1 /\ n >= 1
          /\ \A s \in starts : s.at <= current.at
      BY <2>2, <2>5 DEF SegmenterInv, Starts
    <3>2. stream'[n] = prev /\ stream'[n + 1] = f /\ n + 1 # 1 /\ (n + 1) - 1 = n
      BY <2>2, <3>1
    <3>3. starts \subseteq starts' /\ \A s \in starts' : s \in starts \/ s.at = n + 1
      BY <2>1, <2>2, <2>5 DEF StartSession
    <3>4. /\ Newest(w, stream', Filling(current.at, n + 1))
          /\ flat <=> inPlateau
          /\ inPlateau => SubSeq(stream', (n + 1) - PlateauWindow + 1, n + 1) = w
      BY <2>1, <2>5, <3>3, WindowTells
    <3>5. RegimeIn(stream', starts', n + 1) =
            IF f.label # prev.label THEN "focus_change"
            ELSE IF Apart(f.load, prev.load) > JumpThreshold THEN "load_jump"
            ELSE IF inPlateau /\ ~WindowIsPlateau(w) THEN "plateau_collapse" ELSE "none"
      <4>1. n \in Nat \ {0} /\ inPlateau \in BOOLEAN
        <5>1. inPlateau = WindowIsPlateau(window)
          BY <2>5 DEF SegmenterInv
        <5>2. inPlateau \in BOOLEAN
          BY <5>1 DEF WindowIsPlateau
        <5>. QED
          BY <2>2, <3>1, <5>2
      <4> HIDE DEF n, prev, w
      <4>. QED
        BY <3>2, <3>4, <4>1, RegimeIs
    <3> HIDE DEF w, flat
    <3>6. CASE f.label # prev.label
      <4>1. StartSession(f, "focus_change")
        BY <2>1, <2>5, <3>6
      <4>. QED
        BY <2>3, <3>5, <3>6, <4>1 DEF Reasons
    <3>7. CASE f.label = prev.label /\ Apart(f.load, prev.load) > JumpThreshold
      <4>1. StartSession(f, "load_jump")
        BY <2>1, <2>5, <3>7
      <4>. QED
        BY <2>3, <3>5, <3>7, <4>1 DEF Reasons
    <3>8. CASE /\ f.label = prev.label /\ ~(Apart(f.load, prev.load) > JumpThreshold)
               /\ inPlateau /\ ~WindowIsPlateau(w)
      <4>1. StartSession(f, "plateau_collapse")
        BY <2>1, <2>5, <3>8 DEF w
      <4>. QED
        BY <2>3, <3>5, <3>8, <4>1 DEF Reasons
    <3>9. CASE /\ f.label = prev.label /\ ~(Apart(f.load, prev.load) > JumpThreshold)
               /\ ~(inPlateau /\ ~WindowIsPlateau(w))
      <4>1. /\ window' = w /\ inPlateau' = WindowIsPlateau(w)
            /\ current' = current /\ starts' = starts
        BY <2>1, <2>5, <3>9 DEF w
      <4>2. RegimeIn(stream', starts', n + 1) = "none"
        BY <3>5, <3>9
      <4>3. ASSUME NEW i \in 1 .. n + 1 PROVE DefinedAt(stream', starts', i)
        <5>1. CASE i \in 1 .. n
          <6>1. DefinedAt(Append(stream, f), starts', i)
            BY <2>2, <3>3, <5>1, StaysDefined
          <6>. QED
            BY <2>1, <6>1
        <5>2. CASE i = n + 1
          <6>1. ~\E s \in starts' : s.at = n + 1
            BY <2>2, <3>1, <4>1 DEF Starts
          <6>. QED
            BY <4>2, <5>2, <6>1 DEF DefinedAt
        <5>. QED
          BY <2>2, <5>1, <5>2
      <4>4. \A i \in 1 .. Len(stream') : DefinedAt(stream', starts', i)
        BY <2>2, <4>3
      <4>5. Newest(window', stream', Filling(current'.at, Len(stream')))
        BY <2>2, <3>4, <4>1
      <4>6. inPlateau' = WindowIsPlateau(window')
        BY <4>1
      <4>7. current' \in starts' /\ current'.at <= Len(stream')
            /\ \A s \in starts' : s.at <= current'.at
        BY <2>2, <3>1, <4>1 DEF Starts
      <4>8. Len(stream') <= MaxFrames
        BY <2>2
      <4>. QED
        BY <2>2, <4>1, <4>4, <4>5, <4>6, <4>7, <4>8 DEF SegmenterInv
    <3>. QED
      BY <3>6, <3>7, <3>8, <3>9
  <2>. QED
    BY <2>4, <2>5
<1>. QED
  BY <1>1, <1>2 DEF SegmenterNext

LEMMA SegmenterHolds ==
  /\ SegmenterInit => SegmenterInv
  /\ SegmenterInv => SegmentsAsDefined /\ SegmenterTypeOK
<1>1. SegmenterInit => SegmenterInv
  <2> SUFFICES ASSUME SegmenterInit PROVE SegmenterInv
    OBVIOUS
  <2>1. stream = <<>> /\ Len(stream) = 0 /\ stream \in Seq(Frames)
    BY DEF SegmenterInit
  <2>2. Len(stream) <= MaxFrames /\ 1 .. Len(stream) = {}
    BY <2>1, SegmenterAssumption
  <2>. QED
    BY <2>1, <2>2 DEF SegmenterInit, SegmenterInv
<1>2. ASSUME SegmenterInv PROVE SegmentsAsDefined
  <2>1. DOMAIN stream = 1 .. Len(stream)
    BY <1>2, LenProperties DEF SegmenterInv
  <2>2. ASSUME NEW i \in DOMAIN stream
        PROVE  IF Regime(i) = "none" THEN ~\E s \in starts : s.at = i
               ELSE [at |-> i, why |-> Regime(i)] \in starts
    <3>1. Regime(i) = RegimeIn(stream, starts, i)
      BY DEF Regime, RegimeIn, Collapses, Flat, FlatIn
    <3>2. DefinedAt(stream, starts, i)
      BY <1>2, <2>1 DEF SegmenterInv
    <3>. QED
      BY <3>1, <3>2 DEF DefinedAt
  <2>. QED
    BY <2>2 DEF SegmentsAsDefined
<1>3. ASSUME SegmenterInv PROVE SegmenterTypeOK
  <2>1. /\ stream \in Seq(Frames) /\ Len(stream) <= MaxFrames /\ starts \subseteq Starts
        /\ PlateauWindow \in Nat /\ PlateauWindow >= 2 /\ Len(stream) \in Nat
    BY <1>3, SegmenterAssumption, LenProperties DEF SegmenterInv
  <2>2. CASE current = None /\ window = <<>> /\ inPlateau = FALSE
    <3>1. window \in Seq(Frames) /\ Len(window) = 0
      BY <2>2
    <3>2. Len(window) <= PlateauWindow
      BY <2>1, <3>1
    <3>3. current \in Starts \cup {None} /\ inPlateau \in BOOLEAN
      BY <2>2
    <3>. QED
      BY <2>1, <3>1, <3>2, <3>3 DEF SegmenterTypeOK
  <2>3. CASE /\ current \in starts
             /\ Newest(window, stream, Filling(current.at, Len(stream)))
             /\ inPlateau = WindowIsPlateau(window)
    <3>1. current.at \in Nat
      BY <2>1, <2>3 DEF Starts
    <3>2. Filling(current.at, Len(stream)) <= PlateauWindow
      BY <2>1, <3>1 DEF Filling
    <3>3. window \in Seq(Frames) /\ Len(window) <= PlateauWindow
      BY <2>3, <3>2 DEF Newest
    <3>4. inPlateau \in BOOLEAN
      BY <2>3 DEF WindowIsPlateau
    <3>. QED
      BY <2>1, <2>3, <3>3, <3>4 DEF SegmenterTypeOK
  <2>. QED
    BY <1>3, <2>2, <2>3 DEF SegmenterInv
<1>. QED
  BY <1>1, <1>2, <1>3

-----------------------------------------------------------------------------
(* Spikes.                                                                 *)

\* The places of the residuals that count for a streak.
Larges(r) == {i \in DOMAIN r : Large(r[i])}
Smalls(r) == {i \in DOMAIN r : Small(r[i])}
Deeps(r)  == {i \in DOMAIN r : Deep(r[i])}

\* The last n places up to i are of P, all after start.
StreakIn(P, start, i, n) == i - n >= start /\ \A j \in (i - n) + 1 .. i : j \in P

\* The streak up to i that a counter at k stands for: as long as can be.
Run(P, start, i, k) ==
  /\ k \in Nat /\ i - k >= start /\ \A j \in (i - k) + 1 .. i : j \in P
  /\ i - k = start \/ i - k \notin P

\* The counter grows or starts again.
LEMMA RunGrows ==
  ASSUME NEW P, NEW Q, NEW start \in Nat, NEW i \in Nat, NEW k, Run(P, start, i, k),
         \A j \in 1 .. i : j \in P <=> j \in Q
  PROVE  /\ i + 1 \in Q => Run(Q, start, i + 1, k + 1)
         /\ i + 1 \notin Q => Run(Q, start, i + 1, 0)
<1>1. /\ k \in Nat /\ i - k >= start /\ \A j \in (i - k) + 1 .. i : j \in P
      /\ i - k = start \/ i - k \notin P
  BY DEF Run
<1>2. ASSUME i + 1 \in Q PROVE Run(Q, start, i + 1, k + 1)
  <2>1. (i + 1) - (k + 1) = i - k /\ k + 1 \in Nat
    BY <1>1
  <2>2. ASSUME NEW j \in (i - k) + 1 .. i + 1 PROVE j \in Q
    <3>1. CASE j = i + 1
      BY <1>2, <3>1
    <3>2. CASE j # i + 1
      <4>1. j \in (i - k) + 1 .. i /\ j \in 1 .. i
        BY <1>1, <3>2
      <4>. QED
        BY <1>1, <4>1
    <3>. QED
      BY <3>1, <3>2
  <2>3. i - k = start \/ i - k \notin Q
    <3>1. i - k # start => i - k \in 1 .. i
      BY <1>1
    <3>. QED
      BY <1>1, <3>1
  <2>. QED
    BY <1>1, <2>1, <2>2, <2>3 DEF Run
<1>3. ASSUME i + 1 \notin Q PROVE Run(Q, start, i + 1, 0)
  <2>1. (i + 1) - 0 = i + 1 /\ i + 1 >= start /\ (i + 1) + 1 .. i + 1 = {}
    BY <1>1
  <2>. QED
    BY <1>3, <2>1 DEF Run
<1>. QED
  BY <1>2, <1>3

\* The counter tells whether there is a streak.
LEMMA RunTells ==
  ASSUME NEW P, NEW start \in Nat, NEW i \in Nat, NEW k, Run(P, start, i, k), NEW n \in Nat
  PROVE  StreakIn(P, start, i, n) <=> k >= n
<1>1. /\ k \in Nat /\ i - k >= start /\ \A j \in (i - k) + 1 .. i : j \in P
      /\ i - k = start \/ i - k \notin P
  BY DEF Run
<1>2. ASSUME k >= n PROVE StreakIn(P, start, i, n)
  <2>1. i - n >= start /\ \A j \in (i - n) + 1 .. i : j \in (i - k) + 1 .. i
    BY <1>1, <1>2
  <2>. QED
    BY <1>1, <2>1 DEF StreakIn
<1>3. ASSUME StreakIn(P, start, i, n), k < n PROVE FALSE
  <2>1. i - n >= start /\ \A j \in (i - n) + 1 .. i : j \in P
    BY <1>3 DEF StreakIn
  <2>2. i - k # start /\ i - k \in (i - n) + 1 .. i
    BY <1>1, <1>3, <2>1
  <2>. QED
    BY <1>1, <2>1, <2>2
<1>. QED
  BY <1>1, <1>2, <1>3

\* Streaks of a stream do not change when it goes on.
LEMMA StreakStays ==
  ASSUME NEW P, NEW Q, NEW m \in Nat, \A j \in 1 .. m : j \in P <=> j \in Q,
         NEW start \in Nat, NEW i \in Nat, i <= m, NEW n \in Nat
  PROVE  StreakIn(P, start, i, n) <=> StreakIn(Q, start, i, n)
<1>1. i - n >= start => \A j \in (i - n) + 1 .. i : j \in 1 .. m
  OBVIOUS
<1>. QED
  BY <1>1 DEF StreakIn

LEMMA RunStays ==
  ASSUME NEW P, NEW start \in Nat, NEW i \in Nat, i >= start, i = start \/ i \notin P
  PROVE  Run(P, start, i, 0)
<1>1. i - 0 = i /\ i + 1 .. i = {}
  OBVIOUS
<1>. QED
  BY <1>1 DEF Run

\* Before, Entered and the two closures, of any stream and spikes.
BeforeIn(S, from) ==
  LET ends == {s.to : s \in {t \in S : t.to < from}}
  IN  IF ends = {} THEN 0 ELSE CHOOSE e \in ends : \A f \in ends : f <= e

EnteredIn(r, S, from) ==
  /\ StreakIn(Larges(r), BeforeIn(S, from), from, EntryN)
  /\ \A i \in BeforeIn(S, from) + 1 .. from - 1 :
       ~StreakIn(Larges(r), BeforeIn(S, from), i, EntryN)

CalmIn(r, from, i)   == StreakIn(Smalls(r), from, i, ExitN)
MarginIn(r, from, i) == StreakIn(Deeps(r), from, i, NegN)
Goes(r, from, to)    == \A i \in from + 1 .. to : ~CalmIn(r, from, i) /\ ~MarginIn(r, from, i)

Worst(r, from, to, w) ==
  /\ \A i \in from .. to : Size(r[i]) <= w
  /\ \E i \in from .. to : Size(r[i]) = w

\* A closed spike.
ClosedIn(r, S, s) ==
  /\ s.to \in 1 .. Len(r) /\ s.from \in 1 .. s.to
  /\ EnteredIn(r, S, s.from) /\ Goes(r, s.from, s.to - 1)
  /\ IF CalmIn(r, s.from, s.to) THEN s.why = "calmed"
     ELSE MarginIn(r, s.from, s.to) /\ s.why = "predictor_margin_exceeded"
  /\ s.count = s.to - s.from + EntryN
  /\ s.worst \in Nat /\ Worst(r, s.from, s.to, s.worst)

\* The open spike, or the quiet since the last one, as the counters have it.
OpenIn(r, S, k, at) ==
  /\ at \in 1 .. Len(r) /\ EnteredIn(r, S, at) /\ Goes(r, at, Len(r))
  /\ \E low, neg, worst, count \in Nat :
       /\ k = [active |-> TRUE, high |-> EntryN, low |-> low, neg |-> neg,
               worst |-> worst, count |-> count]
       /\ low < ExitN /\ Run(Smalls(r), at, Len(r), low)
       /\ neg < NegN /\ Run(Deeps(r), at, Len(r), neg)
       /\ count = Len(r) - at + EntryN /\ Worst(r, at, Len(r), worst)

QuietIn(r, S, k) ==
  LET since == BeforeIn(S, Len(r) + 1) IN
  /\ \A i \in since + 1 .. Len(r) : ~StreakIn(Larges(r), since, i, EntryN)
  /\ \E high \in Nat :
       /\ k = [active |-> FALSE, high |-> high, low |-> 0, neg |-> 0, worst |-> 0, count |-> 0]
       /\ high < EntryN /\ Run(Larges(r), since, Len(r), high)

\* The counters are the streaks that the stream ends with.
SpikeInv ==
  /\ seen \in Seq(Residuals) /\ Len(seen) <= MaxStream
  /\ \A s \in spikes : ClosedIn(seen, spikes, s)
  /\ \/ opened > 0 /\ OpenIn(seen, spikes, spike, opened)
     \/ opened = 0 /\ QuietIn(seen, spikes, spike)

\* The end of the last spike before a place.
LEMMA BeforeIs ==
  ASSUME NEW S, NEW n \in Nat, \A s \in S : s.to \in 1 .. n, NEW from \in Nat \ {0}
  PROVE  /\ BeforeIn(S, from) \in 0 .. n /\ BeforeIn(S, from) < from
         /\ \A s \in S : s.to < from => s.to <= BeforeIn(S, from)
<1> DEFINE ends == {s.to : s \in {t \in S : t.to < from}}
           last == CHOOSE e \in ends : \A f \in ends : f <= e
<1>1. BeforeIn(S, from) = IF ends = {} THEN 0 ELSE last
  BY DEF BeforeIn
<1>2. ends \in SUBSET (1 .. n) /\ \A e \in ends : e < from
  OBVIOUS
<1>3. \A s \in S : s.to < from => s.to \in ends
  OBVIOUS
<1>4. CASE ends = {}
  <2>1. BeforeIn(S, from) = 0 /\ \A s \in S : ~(s.to < from)
    BY <1>1, <1>3, <1>4
  <2>. QED
    BY <2>1
<1>5. CASE ends # {}
  <2> HIDE DEF ends
  <2>1. \E e \in ends : \A f \in ends : f <= e
    <3>1. Max(ends) \in ends /\ \A y \in ends : Max(ends) >= y
      BY <1>2, <1>5, LastPlace
    <3>. QED
      BY <1>2, <3>1
  <2>2. last \in ends /\ \A f \in ends : f <= last
    BY <2>1
  <2> HIDE DEF last
  <2>. QED
    BY <1>1, <1>2, <1>3, <1>5, <2>2
<1>. QED
  BY <1>4, <1>5

\* Spikes that end later do not change it.
LEMMA BeforeStays ==
  ASSUME NEW S, NEW T, NEW from, S \subseteq T, \A s \in T : s \in S \/ ~(s.to < from)
  PROVE  BeforeIn(T, from) = BeforeIn(S, from)
<1>1. {t \in T : t.to < from} = {t \in S : t.to < from}
  OBVIOUS
<1> DEFINE Ends(U) == {s.to : s \in {t \in U : t.to < from}}
           Latest(ends) == IF ends = {} THEN 0 ELSE CHOOSE e \in ends : \A f \in ends : f <= e
<1>2. Ends(T) = Ends(S)
  BY <1>1
<1>3. BeforeIn(T, from) = Latest(Ends(T)) /\ BeforeIn(S, from) = Latest(Ends(S))
  BY DEF BeforeIn
<1> HIDE DEF Ends, Latest
<1>. QED
  BY <1>2, <1>3

LEMMA BeforeAll ==
  ASSUME NEW S, NEW n \in Nat, \A s \in S : s.to \in 1 .. n, NEW m \in Nat, m > n
  PROVE  BeforeIn(S, m) = BeforeIn(S, n + 1)
<1> DEFINE Ends(k) == {s.to : s \in {t \in S : t.to < k}}
           Latest(ends) == IF ends = {} THEN 0 ELSE CHOOSE e \in ends : \A f \in ends : f <= e
<1>1. {t \in S : t.to < m} = S /\ {t \in S : t.to < n + 1} = S
  OBVIOUS
<1>2. Ends(m) = Ends(n + 1)
  BY <1>1, Zenon
<1>3. BeforeIn(S, m) = Latest(Ends(m)) /\ BeforeIn(S, n + 1) = Latest(Ends(n + 1))
  BY DEF BeforeIn
<1> HIDE DEF Ends, Latest
<1>. QED
  BY <1>2, <1>3

\* A residual more.
LEMMA GoesOn ==
  ASSUME NEW r \in Seq(Residuals), NEW x \in Residuals
  PROVE  LET s == Append(r, x) n == Len(r) IN
         /\ s \in Seq(Residuals) /\ Len(s) = n + 1 /\ n \in Nat
         /\ \A j \in 1 .. n : s[j] = r[j]
         /\ s[n + 1] = x
         /\ \A j \in 1 .. n : /\ j \in Larges(r) <=> j \in Larges(s)
                              /\ j \in Smalls(r) <=> j \in Smalls(s)
                              /\ j \in Deeps(r) <=> j \in Deeps(s)
         /\ n + 1 \in Larges(s) <=> Large(x)
         /\ n + 1 \in Smalls(s) <=> Small(x)
         /\ n + 1 \in Deeps(s) <=> Deep(x)
<1> DEFINE s == Append(r, x)
           n == Len(r)
<1>1. /\ s \in Seq(Residuals) /\ Len(s) = n + 1 /\ n \in Nat
      /\ \A j \in 1 .. n : s[j] = r[j]
      /\ s[n + 1] = x
  BY AppendProperties, LenProperties
<1>2. DOMAIN r = 1 .. n
  BY LenProperties
<1> HIDE DEF s, n
<1>3. DOMAIN s = 1 .. n + 1
  BY <1>1, LenProperties
<1>4. n + 1 \in DOMAIN s /\ \A j \in 1 .. n : j \in DOMAIN r /\ j \in DOMAIN s
  BY <1>1, <1>2, <1>3
<1>5. ASSUME NEW j \in 1 .. n
      PROVE  /\ j \in Larges(r) <=> j \in Larges(s)
             /\ j \in Smalls(r) <=> j \in Smalls(s)
             /\ j \in Deeps(r) <=> j \in Deeps(s)
  <2>1. s[j] = r[j] /\ j \in DOMAIN r /\ j \in DOMAIN s
    BY <1>1, <1>4
  <2>. QED
    BY <2>1 DEF Larges, Smalls, Deeps
<1>6. /\ n + 1 \in Larges(s) <=> Large(x)
      /\ n + 1 \in Smalls(s) <=> Small(x)
      /\ n + 1 \in Deeps(s) <=> Deep(x)
  BY <1>1, <1>4 DEF Larges, Smalls, Deeps
<1>. QED
  BY <1>1, <1>5, <1>6 DEF s, n

LEMMA EnteredStays ==
  ASSUME NEW r \in Seq(Residuals), NEW x \in Residuals, NEW S, NEW T, S \subseteq T,
         \A s \in S : s.to \in 1 .. Len(r), \A s \in T : s \in S \/ s.to = Len(r) + 1,
         NEW from \in 1 .. Len(r), EnteredIn(r, S, from)
  PROVE  EnteredIn(Append(r, x), T, from)
<1> DEFINE longer == Append(r, x)
           n == Len(r)
           b == BeforeIn(S, from)
           P == Larges(r)
           Q == Larges(longer)
<1>1. n \in Nat /\ \A j \in 1 .. n : j \in P <=> j \in Q
  BY GoesOn
<1>2. b \in Nat /\ b < from
  <2>1. from \in Nat \ {0}
    BY <1>1
  <2>2. b \in 0 .. n /\ b < from
    BY <1>1, <2>1, BeforeIs
  <2>. QED
    BY <1>1, <2>2
<1>3. BeforeIn(T, from) = b
  <2>1. \A s \in T : s \in S \/ ~(s.to < from)
    BY <1>1
  <2>. QED
    BY <2>1, BeforeStays
<1>4. StreakIn(P, b, from, EntryN) /\ \A i \in b + 1 .. from - 1 : ~StreakIn(P, b, i, EntryN)
  BY DEF EnteredIn
<1>5. \A i \in Nat : i <= n => (StreakIn(P, b, i, EntryN) <=> StreakIn(Q, b, i, EntryN))
  <2> HIDE DEF P, Q, n, b
  <2>. QED
    BY <1>1, <1>2, SpikeAssumption, StreakStays
<1>6. StreakIn(Q, b, from, EntryN)
  BY <1>1, <1>4, <1>5
<1>7. \A i \in b + 1 .. from - 1 : ~StreakIn(Q, b, i, EntryN)
  BY <1>1, <1>2, <1>4, <1>5
<1>. QED
  BY <1>3, <1>6, <1>7 DEF EnteredIn

LEMMA GoesStays ==
  ASSUME NEW r \in Seq(Residuals), NEW x \in Residuals, NEW from \in Nat,
         NEW to \in Nat, to <= Len(r)
  PROVE  /\ CalmIn(Append(r, x), from, to) <=> CalmIn(r, from, to)
         /\ MarginIn(Append(r, x), from, to) <=> MarginIn(r, from, to)
         /\ Goes(r, from, to) => Goes(Append(r, x), from, to)
<1> DEFINE longer == Append(r, x)
           n == Len(r)
<1>1. n \in Nat /\ \A j \in 1 .. n : /\ j \in Smalls(r) <=> j \in Smalls(longer)
                                     /\ j \in Deeps(r) <=> j \in Deeps(longer)
  BY GoesOn
<1>2. ExitN \in Nat /\ NegN \in Nat
  BY SpikeAssumption
<1> HIDE DEF longer
<1>3. ASSUME NEW i \in Nat, i <= n
      PROVE  (CalmIn(longer, from, i) <=> CalmIn(r, from, i))
             /\ (MarginIn(longer, from, i) <=> MarginIn(r, from, i))
  BY <1>1, <1>2, <1>3, StreakStays DEF CalmIn, MarginIn
<1>4. \A i \in from + 1 .. to : i \in Nat /\ i <= n
  BY <1>1
<1>. QED
  BY <1>3, <1>4 DEF Goes, longer

LEMMA WorstStays ==
  ASSUME NEW r \in Seq(Residuals), NEW x \in Residuals, NEW from \in 1 .. Len(r),
         NEW to \in 1 .. Len(r), NEW w \in Nat, Worst(r, from, to, w)
  PROVE  /\ Worst(Append(r, x), from, to, w)
         /\ to = Len(r) => Worst(Append(r, x), from, to + 1, Larger(w, Size(x)))
<1> DEFINE longer == Append(r, x)
           n == Len(r)
<1>1. n \in Nat /\ (\A j \in 1 .. n : longer[j] = r[j]) /\ longer[n + 1] = x
  BY GoesOn
<1>2. from .. to \subseteq 1 .. n
  BY <1>1
<1> HIDE DEF longer, n
<1>3. Worst(longer, from, to, w)
  BY <1>1, <1>2 DEF Worst
<1>4. ASSUME to = n PROVE Worst(longer, from, to + 1, Larger(w, Size(x)))
  <2>1. Size(x) \in Int
    BY SpikeAssumption DEF Size
  <2>2. from .. to + 1 = (from .. to) \cup {n + 1} /\ from <= n + 1
    BY <1>1, <1>4 DEF n
  <2> DEFINE v == Larger(w, Size(x))
  <2>3. v >= w /\ v >= Size(x) /\ (v = w \/ v = Size(x)) /\ v \in Int
    BY <2>1 DEF Larger
  <2> HIDE DEF v
  <2>4. ASSUME NEW i \in from .. to + 1 PROVE Size(longer[i]) <= v
    <3>1. CASE i = n + 1
      BY <1>1, <2>3, <3>1
    <3>2. CASE i \in from .. to
      <4>1. Size(longer[i]) <= w /\ longer[i] \in Residuals
        BY <1>1, <1>2, <1>3, <3>2, ElementOfSeq DEF Worst, n
      <4>2. Size(longer[i]) \in Int
        <5>1. longer[i] \in Int
          BY <4>1, SpikeAssumption
        <5>. QED
          BY <5>1 DEF Size
      <4>. QED
        BY <2>3, <4>1, <4>2
    <3>. QED
      BY <2>2, <3>1, <3>2
  <2>5. \E i \in from .. to + 1 : Size(longer[i]) = v
    <3>1. CASE v = w
      <4>1. PICK i \in from .. to : Size(longer[i]) = w
        BY <1>3 DEF Worst
      <4>. QED
        BY <2>2, <3>1, <4>1
    <3>2. CASE v = Size(x)
      BY <1>1, <2>2, <3>2
    <3>. QED
      BY <2>3, <3>1, <3>2
  <2>. QED
    BY <2>4, <2>5 DEF Worst, v
<1>. QED
  BY <1>3, <1>4 DEF longer, n

\* A closed spike stays what it is.
LEMMA ClosedStays ==
  ASSUME NEW r \in Seq(Residuals), NEW x \in Residuals, NEW S, NEW T, S \subseteq T,
         \A s \in S : s.to \in 1 .. Len(r), \A s \in T : s \in S \/ s.to = Len(r) + 1,
         NEW s \in S, ClosedIn(r, S, s)
  PROVE  ClosedIn(Append(r, x), T, s)
<1> DEFINE longer == Append(r, x)
           n == Len(r)
<1>1. /\ s.to \in 1 .. n /\ s.from \in 1 .. s.to
      /\ EnteredIn(r, S, s.from) /\ Goes(r, s.from, s.to - 1)
      /\ IF CalmIn(r, s.from, s.to) THEN s.why = "calmed"
         ELSE MarginIn(r, s.from, s.to) /\ s.why = "predictor_margin_exceeded"
      /\ s.count = s.to - s.from + EntryN
      /\ s.worst \in Nat /\ Worst(r, s.from, s.to, s.worst)
  BY DEF ClosedIn
<1>2. n \in Nat /\ Len(longer) = n + 1
  BY GoesOn
<1>3. /\ s.to \in 1 .. n + 1 /\ s.from \in 1 .. n /\ s.from \in Nat
      /\ s.to \in Nat /\ s.to <= n /\ s.to - 1 \in Nat /\ s.to - 1 <= n
  BY <1>1, <1>2
<1>4. EnteredIn(longer, T, s.from)
  BY <1>1, <1>3, EnteredStays
<1>5. /\ Goes(longer, s.from, s.to - 1)
      /\ CalmIn(longer, s.from, s.to) <=> CalmIn(r, s.from, s.to)
      /\ MarginIn(longer, s.from, s.to) <=> MarginIn(r, s.from, s.to)
  BY <1>1, <1>3, GoesStays
<1>6. Worst(longer, s.from, s.to, s.worst)
  BY <1>1, <1>3, WorstStays
<1>7. IF CalmIn(longer, s.from, s.to) THEN s.why = "calmed"
      ELSE MarginIn(longer, s.from, s.to) /\ s.why = "predictor_margin_exceeded"
  <2>1. CASE CalmIn(r, s.from, s.to)
    BY <1>1, <1>5, <2>1
  <2>2. CASE ~CalmIn(r, s.from, s.to)
    BY <1>1, <1>5, <2>2
  <2>. QED
    BY <2>1, <2>2
<1> HIDE DEF longer, n
<1>8. s.to \in 1 .. Len(longer)
  BY <1>2, <1>3
<1>9. ClosedIn(longer, T, s)
  BY <1>1, <1>4, <1>5, <1>6, <1>7, <1>8 DEF ClosedIn
<1>. QED
  BY <1>9 DEF longer

\* A residual while no spike is open.
LEMMA WaitingKeeps ==
  ASSUME NEW x \in Residuals, SpikeInv, ~spike.active, Len(seen) < MaxStream,
         seen' = Append(seen, x), spike' = Waiting(spike, x),
         opened' = IF spike'.active THEN Len(seen') ELSE 0, spikes' = spikes
  PROVE  SpikeInv'
<1> DEFINE n == Len(seen)
           r == seen
           s == seen'
           since == BeforeIn(spikes, n + 1)
<1>1. r \in Seq(Residuals) /\ n \in Nat /\ \A t \in spikes : ClosedIn(r, spikes, t)
  BY LenProperties DEF SpikeInv
<1>2. QuietIn(r, spikes, spike)
  <2>1. ~OpenIn(r, spikes, spike, opened)
    BY DEF OpenIn
  <2>. QED
    BY <2>1 DEF SpikeInv
<1>3. \A i \in since + 1 .. n : ~StreakIn(Larges(r), since, i, EntryN)
  BY <1>2 DEF QuietIn
<1>4. PICK high \in Nat :
        /\ spike = [active |-> FALSE, high |-> high, low |-> 0, neg |-> 0, worst |-> 0, count |-> 0]
        /\ high < EntryN /\ Run(Larges(r), since, n, high)
  BY <1>2 DEF QuietIn
<1>5. /\ s \in Seq(Residuals) /\ Len(s) = n + 1 /\ s[n + 1] = x
      /\ \A j \in 1 .. n : j \in Larges(r) <=> j \in Larges(s)
      /\ n + 1 \in Larges(s) <=> Large(x)
  BY <1>1, GoesOn
<1>6. \A t \in spikes : t.to \in 1 .. n
  BY <1>1 DEF ClosedIn
<1>7. since \in Nat /\ since < n + 1 /\ BeforeIn(spikes, n + 2) = since
  <2>1. since \in 0 .. n /\ since < n + 1
    <3>1. n + 1 \in Nat \ {0}
      BY <1>1
    <3>. QED
      BY <1>1, <1>6, <3>1, BeforeIs
  <2>2. n + 2 \in Nat /\ n + 2 > n
    BY <1>1
  <2>3. BeforeIn(spikes, n + 2) = BeforeIn(spikes, n + 1)
    BY <1>1, <1>6, <2>2, BeforeAll
  <2>. QED
    BY <1>1, <2>1, <2>3
<1>8. EntryN \in Nat \ {0} /\ ExitN \in Nat \ {0} /\ NegN \in Nat \ {0} /\ x \in Int /\ MaxStream \in Nat
  BY SpikeAssumption
<1>9. \A t \in spikes' : ClosedIn(s, spikes', t)
  <2>1. \A t \in spikes : ClosedIn(Append(r, x), spikes, t)
    BY <1>1, <1>6, ClosedStays
  <2>. QED
    BY <2>1
<1> DEFINE more == IF Large(x) THEN high + 1 ELSE 0
<1>10. more \in Nat /\ Run(Larges(s), since, n + 1, more) /\ more <= EntryN
  <2>1. /\ n + 1 \in Larges(s) => Run(Larges(s), since, n + 1, high + 1)
        /\ n + 1 \notin Larges(s) => Run(Larges(s), since, n + 1, 0)
    <3> HIDE DEF since, n, s, r
    <3>. QED
      BY <1>1, <1>4, <1>5, <1>7, RunGrows
  <2>2. CASE Large(x)
    BY <1>4, <1>5, <1>8, <2>1, <2>2
  <2>3. CASE ~Large(x)
    BY <1>5, <1>8, <2>1, <2>3
  <2>. QED
    BY <2>2, <2>3
<1>11. StreakIn(Larges(s), since, n + 1, EntryN) <=> more >= EntryN
  <2> HIDE DEF since, n, s, r, more
  <2>1. n + 1 \in Nat /\ EntryN \in Nat
    BY <1>1, <1>8
  <2>. QED
    BY <1>7, <1>10, <2>1, RunTells
<1>12. \A i \in since + 1 .. n : ~StreakIn(Larges(s), since, i, EntryN)
  <2> DEFINE P == Larges(r)
             Q == Larges(s)
  <2>1. \A j \in 1 .. n : j \in P <=> j \in Q
    BY <1>5
  <2>2. \A i \in since + 1 .. n : ~StreakIn(P, since, i, EntryN)
    BY <1>3
  <2>3. EntryN \in Nat /\ n \in Nat /\ since \in Nat
    BY <1>1, <1>7, <1>8
  <2>4. \A i \in since + 1 .. n : ~StreakIn(Q, since, i, EntryN)
    <3> HIDE DEF since, n, P, Q
    <3>1. ASSUME NEW i \in since + 1 .. n
          PROVE  StreakIn(P, since, i, EntryN) <=> StreakIn(Q, since, i, EntryN)
      <4>1. i \in Nat /\ i <= n
        BY <2>3
      <4>. QED
        BY <2>1, <2>3, <4>1, StreakStays
    <3>. QED
      BY <2>2, <3>1
  <2>. QED
    BY <2>4
<1>13. spike' = IF more >= EntryN
                THEN [active |-> TRUE, high |-> more, low |-> 0, neg |-> 0,
                      worst |-> Size(x), count |-> more]
                ELSE [active |-> FALSE, high |-> more, low |-> 0, neg |-> 0,
                      worst |-> 0, count |-> 0]
  <2>1. spike' = IF more >= EntryN
                 THEN [spike EXCEPT !.active = TRUE, !.high = more, !.low = 0,
                                    !.worst = Size(x), !.count = more]
                 ELSE [spike EXCEPT !.high = more]
    <3>1. more = IF Size(x) >= EntryThresh THEN spike.high + 1 ELSE 0
      BY <1>4 DEF Large
    <3>. QED
      BY <3>1 DEF Waiting
  <2> HIDE DEF more
  <2>. QED
    BY <1>4, <2>1
<1> HIDE DEF more, since
<1>14. CASE more >= EntryN
  <2>1. more = EntryN
    BY <1>8, <1>10, <1>14
  <2>2. opened' = n + 1
    BY <1>5, <1>13, <1>14
  <2>3. EnteredIn(s, spikes, n + 1)
    <3>1. BeforeIn(spikes, n + 1) = since /\ (n + 1) - 1 = n
      BY <1>1 DEF since
    <3>2. StreakIn(Larges(s), since, n + 1, EntryN)
      BY <1>11, <1>14
    <3>3. \A i \in since + 1 .. (n + 1) - 1 : ~StreakIn(Larges(s), since, i, EntryN)
      BY <1>12, <3>1
    <3>. QED
      BY <3>1, <3>2, <3>3 DEF EnteredIn
  <2>4. Goes(s, n + 1, n + 1)
    <3>1. (n + 1) + 1 .. n + 1 = {}
      BY <1>1
    <3>. QED
      BY <3>1 DEF Goes
  <2>5. Run(Smalls(s), n + 1, n + 1, 0) /\ Run(Deeps(s), n + 1, n + 1, 0)
    <3>1. n + 1 \in Nat /\ n + 1 >= n + 1
      BY <1>1
    <3>. QED
      BY <3>1, RunStays
  <2>6. Size(x) \in Nat
    BY <1>8 DEF Size
  <2>7. Worst(s, n + 1, n + 1, Size(x))
    <3>1. n + 1 .. n + 1 = {n + 1}
      BY <1>1
    <3>. QED
      BY <1>5, <2>6, <3>1 DEF Worst
  <2>8. /\ spike' = [active |-> TRUE, high |-> EntryN, low |-> 0, neg |-> 0,
                     worst |-> Size(x), count |-> EntryN]
        /\ EntryN = Len(s) - (n + 1) + EntryN
    BY <1>1, <1>5, <1>8, <1>13, <1>14, <2>1
  <2>9. OpenIn(s, spikes, spike', n + 1)
    <3>1. n + 1 \in 1 .. Len(s)
      BY <1>1, <1>5
    <3>2. 0 \in Nat /\ 0 < ExitN /\ 0 < NegN /\ EntryN \in Nat
      BY <1>8
    <3>3. Goes(s, n + 1, Len(s)) /\ Run(Smalls(s), n + 1, Len(s), 0)
          /\ Run(Deeps(s), n + 1, Len(s), 0) /\ Worst(s, n + 1, Len(s), Size(x))
      BY <1>5, <2>4, <2>5, <2>7
    <3> HIDE DEF s, n
    <3>. QED
      BY <2>3, <2>6, <2>8, <3>1, <3>2, <3>3 DEF OpenIn
  <2>10. opened' > 0 /\ Len(s) <= MaxStream
    BY <1>1, <1>5, <1>8, <2>2
  <2>. QED
    BY <1>5, <1>9, <2>2, <2>9, <2>10 DEF SpikeInv
<1>15. CASE ~(more >= EntryN)
  <2>1. opened' = 0 /\ more < EntryN
    BY <1>8, <1>10, <1>13, <1>15
  <2>2. ~StreakIn(Larges(s), since, n + 1, EntryN)
    BY <1>11, <1>15
  <2>3. QuietIn(s, spikes, spike')
    <3>1. Len(s) + 1 = n + 2 /\ BeforeIn(spikes, Len(s) + 1) = since
      BY <1>1, <1>5, <1>7
    <3>2. \A i \in since + 1 .. Len(s) : ~StreakIn(Larges(s), since, i, EntryN)
      BY <1>1, <1>5, <1>7, <1>12, <2>2
    <3>3. /\ spike' = [active |-> FALSE, high |-> more, low |-> 0, neg |-> 0, worst |-> 0, count |-> 0]
          /\ Run(Larges(s), since, Len(s), more)
      BY <1>5, <1>10, <1>13, <1>15
    <3> HIDE DEF s, n
    <3>. QED
      BY <1>10, <2>1, <3>1, <3>2, <3>3 DEF QuietIn
  <2>4. Len(s) <= MaxStream
    BY <1>1, <1>5, <1>8
  <2>. QED
    BY <1>5, <1>9, <2>1, <2>3, <2>4 DEF SpikeInv
<1>. QED
  BY <1>14, <1>15

\* A residual in a spike.
LEMMA CountedKeeps ==
  ASSUME NEW x \in Residuals, SpikeInv, spike.active, Len(seen) < MaxStream,
         seen' = Append(seen, x), NEW k, k = Counted(spike, x),
         IF Closure(k) = "open"
         THEN spike' = k /\ UNCHANGED <<opened, spikes>>
         ELSE /\ spike' = Fresh /\ opened' = 0
              /\ spikes' = spikes \cup
                   {[from |-> opened, to |-> Len(seen'), why |-> Closure(k),
                     worst |-> k.worst, count |-> k.count]}
  PROVE  SpikeInv'
<1> DEFINE n == Len(seen)
           r == seen
           s == seen'
           at == opened
<1>1. r \in Seq(Residuals) /\ n \in Nat /\ \A t \in spikes : ClosedIn(r, spikes, t)
  BY LenProperties DEF SpikeInv
<1>2. OpenIn(r, spikes, spike, at)
  <2>1. ~QuietIn(r, spikes, spike)
    BY DEF QuietIn
  <2>. QED
    BY <2>1 DEF SpikeInv
<1>3. PICK low, neg, worst, count \in Nat :
        /\ spike = [active |-> TRUE, high |-> EntryN, low |-> low, neg |-> neg,
                    worst |-> worst, count |-> count]
        /\ low < ExitN /\ Run(Smalls(r), at, n, low)
        /\ neg < NegN /\ Run(Deeps(r), at, n, neg)
        /\ count = n - at + EntryN /\ Worst(r, at, n, worst)
  BY <1>2 DEF OpenIn
<1>4. at \in 1 .. n /\ EnteredIn(r, spikes, at) /\ Goes(r, at, n)
  BY <1>2 DEF OpenIn
<1>5. /\ s \in Seq(Residuals) /\ Len(s) = n + 1 /\ s[n + 1] = x
      /\ \A j \in 1 .. n : (j \in Smalls(r) <=> j \in Smalls(s)) /\ (j \in Deeps(r) <=> j \in Deeps(s))
      /\ n + 1 \in Smalls(s) <=> Small(x)
      /\ n + 1 \in Deeps(s) <=> Deep(x)
  BY <1>1, GoesOn
<1>6. \A t \in spikes : t.to \in 1 .. n
  BY <1>1 DEF ClosedIn
<1>7. EntryN \in Nat \ {0} /\ ExitN \in Nat \ {0} /\ NegN \in Nat \ {0} /\ x \in Int /\ MaxStream \in Nat
  BY SpikeAssumption
<1> DEFINE low2 == IF Small(x) THEN low + 1 ELSE 0
           neg2 == IF Deep(x) THEN neg + 1 ELSE 0
           worst2 == Larger(worst, Size(x))
<1>8. k = [active |-> TRUE, high |-> EntryN, low |-> low2, neg |-> neg2,
           worst |-> worst2, count |-> count + 1]
  BY <1>3 DEF Counted, Small, Deep
<1>9. Size(x) \in Nat /\ worst2 \in Nat /\ low2 \in Nat /\ neg2 \in Nat
  BY <1>7 DEF Size, Larger
<1>10. Run(Smalls(s), at, n + 1, low2) /\ Run(Deeps(s), at, n + 1, neg2)
  <2>1. at \in Nat
    BY <1>1, <1>4
  <2> HIDE DEF n, s, r, at
  <2>2. /\ n + 1 \in Smalls(s) => Run(Smalls(s), at, n + 1, low + 1)
        /\ n + 1 \notin Smalls(s) => Run(Smalls(s), at, n + 1, 0)
    BY <1>1, <1>3, <1>5, <2>1, RunGrows
  <2>3. /\ n + 1 \in Deeps(s) => Run(Deeps(s), at, n + 1, neg + 1)
        /\ n + 1 \notin Deeps(s) => Run(Deeps(s), at, n + 1, 0)
    BY <1>1, <1>3, <1>5, <2>1, RunGrows
  <2>4. Run(Smalls(s), at, n + 1, low2)
    <3>1. CASE Small(x)
      BY <1>5, <2>2, <3>1
    <3>2. CASE ~Small(x)
      BY <1>5, <2>2, <3>2
    <3>. QED
      BY <3>1, <3>2
  <2>5. Run(Deeps(s), at, n + 1, neg2)
    <3>1. CASE Deep(x)
      BY <1>5, <2>3, <3>1
    <3>2. CASE ~Deep(x)
      BY <1>5, <2>3, <3>2
    <3>. QED
      BY <3>1, <3>2
  <2>. QED
    BY <2>4, <2>5
<1>11. /\ CalmIn(s, at, n + 1) <=> low2 >= ExitN
       /\ MarginIn(s, at, n + 1) <=> neg2 >= NegN
  <2>1. at \in Nat /\ n + 1 \in Nat
    BY <1>1, <1>4
  <2> HIDE DEF n, s, r, at, low2, neg2
  <2>. QED
    BY <1>7, <1>10, <2>1, RunTells DEF CalmIn, MarginIn
<1>12. Goes(s, at, n) /\ Worst(s, at, n + 1, worst2)
  <2>1. at \in Nat /\ n \in Nat /\ n <= Len(r) /\ n \in 1 .. Len(r) /\ at \in 1 .. Len(r)
    BY <1>1, <1>4
  <2>2. Goes(Append(r, x), at, n)
    BY <1>1, <1>4, <2>1, GoesStays
  <2>3. Worst(Append(r, x), at, n + 1, worst2)
    BY <1>1, <1>3, <2>1, WorstStays
  <2>. QED
    BY <2>2, <2>3
<1>13. Closure(k) = IF low2 >= ExitN THEN "calmed"
                    ELSE IF neg2 >= NegN THEN "predictor_margin_exceeded" ELSE "open"
  BY <1>8 DEF Closure
<1>14. count + 1 = (n + 1) - at + EntryN /\ at \in Nat
  BY <1>1, <1>3, <1>4, <1>7
<1> HIDE DEF low2, neg2, worst2
<1>15. CASE Closure(k) = "open"
  <2>1. spike' = k /\ opened' = at /\ spikes' = spikes
    BY <1>15
  <2>2. low2 < ExitN /\ neg2 < NegN
    BY <1>7, <1>9, <1>13, <1>15
  <2>3. \A t \in spikes' : ClosedIn(s, spikes', t)
    <3>1. \A t \in spikes : ClosedIn(Append(r, x), spikes, t)
      BY <1>1, <1>6, ClosedStays
    <3>. QED
      BY <2>1, <3>1
  <2>4. EnteredIn(s, spikes, at)
    <3>1. EnteredIn(Append(r, x), spikes, at)
      BY <1>1, <1>4, <1>6, EnteredStays
    <3>. QED
      BY <3>1
  <2>5. Goes(s, at, n + 1)
    <3>1. ~CalmIn(s, at, n + 1) /\ ~MarginIn(s, at, n + 1)
      BY <1>7, <1>9, <1>11, <2>2
    <3>2. at + 1 .. n + 1 = (at + 1 .. n) \cup {n + 1}
      BY <1>1, <1>4
    <3>. QED
      BY <1>12, <3>1, <3>2 DEF Goes
  <2>6. OpenIn(s, spikes, k, at)
    <3>1. at \in 1 .. Len(s)
      BY <1>1, <1>4, <1>5
    <3>2. count + 1 \in Nat /\ count + 1 = Len(s) - at + EntryN
      BY <1>5, <1>14
    <3>3. Goes(s, at, Len(s)) /\ Run(Smalls(s), at, Len(s), low2)
          /\ Run(Deeps(s), at, Len(s), neg2) /\ Worst(s, at, Len(s), worst2)
      BY <1>5, <1>10, <1>12, <2>5
    <3> HIDE DEF s, n, at
    <3>. QED
      BY <1>8, <1>9, <2>2, <2>4, <3>1, <3>2, <3>3 DEF OpenIn
  <2>7. opened' > 0 /\ Len(s) <= MaxStream
    BY <1>1, <1>4, <1>5, <1>7, <2>1
  <2>8. OpenIn(s, spikes', spike', opened')
    BY <2>1, <2>6
  <2>. QED
    BY <1>5, <2>3, <2>7, <2>8 DEF SpikeInv
<1>16. CASE Closure(k) # "open"
  <2> DEFINE new == [from |-> at, to |-> n + 1, why |-> Closure(k),
                     worst |-> worst2, count |-> count + 1]
             T == spikes'
  <2>1. spike' = Fresh /\ opened' = 0 /\ T = spikes \cup {new}
    <3>1. k.worst = worst2 /\ k.count = count + 1 /\ Len(seen') = n + 1
      BY <1>5, <1>8
    <3>2. spike' = Fresh /\ opened' = 0
          /\ spikes' = spikes \cup
               {[from |-> opened, to |-> Len(seen'), why |-> Closure(k),
                 worst |-> k.worst, count |-> k.count]}
      BY <1>16
    <3>. QED
      BY <3>1, <3>2
  <2>2. /\ new.from = at /\ new.to = n + 1 /\ new.why = Closure(k)
        /\ new.worst = worst2 /\ new.count = count + 1
    OBVIOUS
  <2> HIDE DEF new, T
  <2>3. spikes \subseteq T /\ (\A t \in T : t \in spikes \/ t.to = n + 1) /\ new \in T
    BY <2>1, <2>2
  <2>4. \A t \in spikes : ClosedIn(s, T, t)
    <3>1. \A t \in spikes : ClosedIn(Append(r, x), T, t)
      BY <1>1, <1>6, <2>3, ClosedStays
    <3>. QED
      BY <3>1
  <2>5. EnteredIn(s, T, at)
    <3>1. EnteredIn(Append(r, x), T, at)
      BY <1>1, <1>4, <1>6, <2>3, EnteredStays
    <3>. QED
      BY <3>1
  <2>6. ClosedIn(s, T, new)
    <3>1. new.to \in 1 .. Len(s) /\ new.from \in 1 .. new.to /\ new.to - 1 = n
      BY <1>1, <1>4, <1>5, <2>2
    <3>2. EnteredIn(s, T, new.from) /\ Goes(s, new.from, new.to - 1)
          /\ Worst(s, new.from, new.to, new.worst) /\ new.worst \in Nat
      BY <1>9, <1>12, <2>2, <2>5, <3>1
    <3>3. new.count = new.to - new.from + EntryN
      BY <1>14, <2>2
    <3>4. IF CalmIn(s, at, n + 1) THEN Closure(k) = "calmed"
          ELSE MarginIn(s, at, n + 1) /\ Closure(k) = "predictor_margin_exceeded"
      BY <1>11, <1>13, <1>16
    <3>5. IF CalmIn(s, new.from, new.to) THEN new.why = "calmed"
          ELSE MarginIn(s, new.from, new.to) /\ new.why = "predictor_margin_exceeded"
      BY <2>2, <3>4
    <3> HIDE DEF s, n, at
    <3>. QED
      BY <3>1, <3>2, <3>3, <3>5 DEF ClosedIn
  <2>7. \A t \in T : t.to \in 1 .. n + 1
    BY <1>1, <1>6, <2>3
  <2>8. BeforeIn(T, Len(s) + 1) = n + 1
    <3>1. n + 1 \in Nat /\ Len(s) + 1 \in Nat \ {0} /\ n + 1 < Len(s) + 1
      BY <1>1, <1>5
    <3>2. /\ BeforeIn(T, Len(s) + 1) \in 0 .. n + 1
          /\ \A t \in T : t.to < Len(s) + 1 => t.to <= BeforeIn(T, Len(s) + 1)
      BY <2>7, <3>1, BeforeIs
    <3>3. n + 1 <= BeforeIn(T, Len(s) + 1)
      BY <2>2, <2>3, <3>1, <3>2
    <3>. QED
      BY <3>1, <3>2, <3>3
  <2>9. QuietIn(s, T, Fresh)
    <3>1. (n + 1) + 1 .. Len(s) = {} /\ 0 \in Nat /\ 0 < EntryN
      BY <1>1, <1>5, <1>7
    <3>2. Run(Larges(s), n + 1, Len(s), 0)
      <4>1. n + 1 \in Nat /\ n + 1 >= n + 1
        BY <1>1
      <4>. QED
        BY <1>5, <4>1, RunStays
    <3> HIDE DEF s, n
    <3>. QED
      BY <2>8, <3>1, <3>2 DEF QuietIn, Fresh
  <2>10. Len(s) <= MaxStream
    BY <1>1, <1>5, <1>7
  <2>11. \A t \in T : ClosedIn(s, T, t)
    <3>1. \A t \in T : t \in spikes \/ t = new
      BY <2>1
    <3>. QED
      BY <2>4, <2>6, <3>1
  <2>. QED
    BY <1>5, <2>1, <2>9, <2>10, <2>11 DEF SpikeInv, T
<1>. QED
  BY <1>15, <1>16

LEMMA SpikeSteps ==
  ASSUME SpikeInv, [SpikeNext]_spikeVars
  PROVE  SpikeInv'
<1>1. CASE UNCHANGED spikeVars
  <2>1. spike' = spike /\ seen' = seen /\ opened' = opened /\ spikes' = spikes
    BY <1>1 DEF spikeVars
  <2>. QED
    BY <2>1, Zenon DEF SpikeInv
<1>2. CASE SpikeUpdate
  <2>1. PICK x \in Residuals :
          /\ Len(seen) < MaxStream
          /\ seen' = Append(seen, x)
          /\ IF ~spike.active
             THEN /\ spike' = Waiting(spike, x)
                  /\ opened' = IF spike'.active THEN Len(seen') ELSE 0
                  /\ UNCHANGED spikes
             ELSE LET s == Counted(spike, x) IN
                  IF Closure(s) = "open"
                  THEN spike' = s /\ UNCHANGED <<opened, spikes>>
                  ELSE /\ spike' = Fresh /\ opened' = 0
                       /\ spikes' = spikes \cup
                            {[from |-> opened, to |-> Len(seen'), why |-> Closure(s),
                              worst |-> s.worst, count |-> s.count]}
    BY <1>2 DEF SpikeUpdate
  <2>2. CASE ~spike.active
    BY <2>1, <2>2, WaitingKeeps
  <2>3. CASE spike.active
    BY <2>1, <2>3, CountedKeeps
  <2>. QED
    BY <2>2, <2>3
<1>. QED
  BY <1>1, <1>2 DEF SpikeNext

\* The spike detector begins so, and then the definition holds.
LEMMA SpikeHolds ==
  /\ SpikeInit => SpikeInv
  /\ SpikeInv => SpikesAsDefined /\ SpikeTypeOK
<1>. EntryN \in Nat \ {0} /\ ExitN \in Nat \ {0} /\ NegN \in Nat \ {0} /\ MaxStream \in Nat
  BY SpikeAssumption
<1>1. ASSUME SpikeInit PROVE SpikeInv
  <2>1. spike = Fresh /\ seen = <<>> /\ opened = 0 /\ spikes = {}
    BY <1>1 DEF SpikeInit
  <2>2. seen \in Seq(Residuals) /\ Len(seen) = 0
    BY <2>1
  <2>3. BeforeIn(spikes, Len(seen) + 1) = 0
    BY <2>1 DEF BeforeIn
  <2>4. QuietIn(seen, spikes, spike)
    <3>1. Run(Larges(seen), 0, 0, 0)
      BY RunStays
    <3>2. 0 + 1 .. Len(seen) = {} /\ 0 \in Nat /\ 0 < EntryN
      BY <2>2
    <3>3. Run(Larges(seen), 0, Len(seen), 0)
      BY <2>2, <3>1
    <3>4. spike = [active |-> FALSE, high |-> 0, low |-> 0, neg |-> 0, worst |-> 0, count |-> 0]
      BY <2>1 DEF Fresh
    <3>. QED
      BY <2>3, <3>2, <3>3, <3>4 DEF QuietIn
  <2>. QED
    BY <2>1, <2>2, <2>4 DEF SpikeInv
<1>2. ASSUME SpikeInv PROVE SpikesAsDefined /\ SpikeTypeOK
  <2> DEFINE n == Len(seen)
  <2>1. seen \in Seq(Residuals) /\ n \in Nat /\ n <= MaxStream /\ DOMAIN seen = 1 .. n
        /\ \A s \in spikes : ClosedIn(seen, spikes, s)
    BY <1>2, LenProperties DEF SpikeInv
  <2>2. \A s \in spikes : s.to \in 1 .. n /\ s.from \in 1 .. s.to
    BY <2>1 DEF ClosedIn
  <2>3. ASSUME NEW start \in Nat, NEW i \in Nat, i <= n
        PROVE  /\ Streak(start, i, EntryN, Large) <=> StreakIn(Larges(seen), start, i, EntryN)
               /\ Calm(start, i) <=> CalmIn(seen, start, i)
               /\ Margin(start, i) <=> MarginIn(seen, start, i)
    <3>1. ASSUME NEW k \in Nat, i - k >= start
          PROVE  \A j \in (i - k) + 1 .. i : j \in DOMAIN seen
      BY <2>1, <2>3, <3>1
    <3>2. /\ Streak(start, i, EntryN, Large) <=>
               i - EntryN >= start /\ \A j \in (i - EntryN) + 1 .. i : Large(seen[j])
          /\ Calm(start, i) <=>
               i - ExitN >= start /\ \A j \in (i - ExitN) + 1 .. i : Small(seen[j])
          /\ Margin(start, i) <=>
               i - NegN >= start /\ \A j \in (i - NegN) + 1 .. i : Deep(seen[j])
      BY DEF Streak, Calm, Margin
    <3>3. Streak(start, i, EntryN, Large) <=> StreakIn(Larges(seen), start, i, EntryN)
      BY <3>1, <3>2 DEF StreakIn, Larges
    <3>4. Calm(start, i) <=> CalmIn(seen, start, i)
      BY <3>1, <3>2 DEF CalmIn, StreakIn, Smalls
    <3>5. Margin(start, i) <=> MarginIn(seen, start, i)
      BY <3>1, <3>2 DEF MarginIn, StreakIn, Deeps
    <3>. QED
      BY <3>3, <3>4, <3>5
  <2>4. \A from : Before(from) = BeforeIn(spikes, from)
    BY DEF Before, BeforeIn
  <2>5. ASSUME NEW from \in 1 .. n + 1
        PROVE  Before(from) \in Nat /\ Before(from) < from
    <3>1. n \in Nat /\ from \in Nat \ {0} /\ \A s \in spikes : s.to \in 1 .. n
      BY <2>1, <2>2
    <3> HIDE DEF n
    <3>2. BeforeIn(spikes, from) \in 0 .. n /\ BeforeIn(spikes, from) < from
      BY <3>1, BeforeIs
    <3>. QED
      BY <2>4, <3>1, <3>2
  <2>6. ASSUME NEW from \in 1 .. n, EnteredIn(seen, spikes, from)
        PROVE  Entered(from) /\ from >= EntryN
    <3>1. Before(from) \in Nat /\ from \in Nat /\ from <= n
      BY <2>1, <2>5
    <3>2. \A i \in Before(from) + 1 .. from - 1 : i \in Nat /\ i <= n
      BY <2>1, <3>1
    <3>3. /\ StreakIn(Larges(seen), Before(from), from, EntryN)
          /\ \A i \in Before(from) + 1 .. from - 1 :
               ~StreakIn(Larges(seen), Before(from), i, EntryN)
      BY <2>4, <2>6 DEF EnteredIn
    <3>4. from - EntryN >= Before(from)
      BY <3>3 DEF StreakIn
    <3>5. /\ Streak(Before(from), from, EntryN, Large)
          /\ \A i \in Before(from) + 1 .. from - 1 :
               ~Streak(Before(from), i, EntryN, Large)
      BY <2>3, <3>1, <3>2, <3>3
    <3>6. from >= EntryN
      BY <3>1, <3>4
    <3>. QED
      BY <3>5, <3>6 DEF Entered
  <2>7. ASSUME NEW from \in 1 .. n, NEW to \in 0 .. n, Goes(seen, from, to)
        PROVE  \A i \in from + 1 .. to : ~Calm(from, i) /\ ~Margin(from, i)
    <3>1. from \in Nat /\ \A i \in from + 1 .. to : i \in Nat /\ i <= n
      BY <2>1
    <3>. QED
      BY <2>3, <2>7, <3>1 DEF Goes
  <2>8. ASSUME NEW s \in spikes
        PROVE  /\ Entered(s.from)
               /\ \A i \in s.from + 1 .. s.to - 1 : ~Calm(s.from, i) /\ ~Margin(s.from, i)
               /\ IF Calm(s.from, s.to) THEN s.why = "calmed"
                  ELSE Margin(s.from, s.to) /\ s.why = "predictor_margin_exceeded"
               /\ s.count = s.to - s.from + EntryN
               /\ \A i \in s.from .. s.to : Size(seen[i]) <= s.worst
               /\ \E i \in s.from .. s.to : Size(seen[i]) = s.worst
    <3>1. ClosedIn(seen, spikes, s) /\ s.to \in 1 .. n /\ s.from \in 1 .. s.to
      BY <2>1, <2>2
    <3>2. s.from \in 1 .. n /\ s.to - 1 \in 0 .. n /\ s.from \in Nat /\ s.to \in Nat /\ s.to <= n
      BY <2>1, <3>1
    <3>3. Entered(s.from)
      BY <2>6, <3>1, <3>2 DEF ClosedIn
    <3>4. \A i \in s.from + 1 .. s.to - 1 : ~Calm(s.from, i) /\ ~Margin(s.from, i)
      <4>1. Goes(seen, s.from, s.to - 1)
        BY <3>1 DEF ClosedIn
      <4>. QED
        BY <2>7, <3>2, <4>1
    <3>5. IF Calm(s.from, s.to) THEN s.why = "calmed"
          ELSE Margin(s.from, s.to) /\ s.why = "predictor_margin_exceeded"
      <4>1. IF CalmIn(seen, s.from, s.to) THEN s.why = "calmed"
            ELSE MarginIn(seen, s.from, s.to) /\ s.why = "predictor_margin_exceeded"
        BY <3>1 DEF ClosedIn
      <4>. QED
        BY <2>3, <3>2, <4>1
    <3>. QED
      BY <3>1, <3>3, <3>4, <3>5 DEF ClosedIn, Worst
  <2>9. CASE opened > 0 /\ OpenIn(seen, spikes, spike, opened)
    <3>1. PICK low, neg, worst, count \in Nat :
            /\ spike = [active |-> TRUE, high |-> EntryN, low |-> low, neg |-> neg,
                        worst |-> worst, count |-> count]
            /\ low < ExitN /\ neg < NegN /\ count = n - opened + EntryN
      BY <2>9 DEF OpenIn
    <3>2. opened \in 1 .. n /\ EnteredIn(seen, spikes, opened) /\ Goes(seen, opened, n)
      BY <2>9 DEF OpenIn
    <3>3. Entered(opened) /\ opened >= EntryN
      BY <2>6, <3>2
    <3>4. \A i \in opened + 1 .. n : ~Calm(opened, i) /\ ~Margin(opened, i)
      <4>1. n \in 0 .. n
        BY <2>1
      <4>. QED
        BY <2>7, <3>2, <4>1
    <3>5. SpikesAsDefined
      BY <2>8, <3>1, <3>3, <3>4 DEF SpikesAsDefined
    <3>6. count <= MaxStream
      BY <2>1, <3>1, <3>2, <3>3
    <3>7. spike \in [active : BOOLEAN, high : 0 .. EntryN, low : 0 .. ExitN,
                     neg : 0 .. NegN, worst : Nat, count : 0 .. MaxStream]
      <4>1. EntryN \in 0 .. EntryN /\ low \in 0 .. ExitN /\ neg \in 0 .. NegN
            /\ count \in 0 .. MaxStream
        BY <3>1, <3>6
      <4>. QED
        BY <3>1, <4>1
    <3>8. opened \in 0 .. n /\ opened > 0
      BY <2>1, <3>2
    <3>9. \A s \in spikes : s.to \in 1 .. n /\ s.from <= s.to
      BY <2>1, <2>2
    <3>. QED
      BY <2>1, <3>5, <3>7, <3>8, <3>9 DEF SpikeTypeOK
  <2>10. CASE opened = 0 /\ QuietIn(seen, spikes, spike)
    <3> DEFINE since == Before(n + 1)
    <3>1. PICK high \in Nat :
            /\ spike = [active |-> FALSE, high |-> high, low |-> 0, neg |-> 0,
                        worst |-> 0, count |-> 0]
            /\ high < EntryN
      BY <2>10 DEF QuietIn
    <3>2. \A i \in since + 1 .. n : ~StreakIn(Larges(seen), since, i, EntryN)
      BY <2>4, <2>10 DEF QuietIn
    <3>3. since \in Nat
      <4>1. n + 1 \in 1 .. n + 1
        BY <2>1
      <4>. QED
        BY <2>5, <4>1
    <3>4. \A i \in since + 1 .. n : i \in Nat /\ i <= n
      BY <2>1, <3>3
    <3>5. \A i \in since + 1 .. n : ~Streak(since, i, EntryN, Large)
      <4> HIDE DEF since
      <4>. QED
        BY <2>3, <3>2, <3>3, <3>4
    <3>6. SpikesAsDefined
      BY <2>8, <3>1, <3>5 DEF SpikesAsDefined
    <3>7. spike \in [active : BOOLEAN, high : 0 .. EntryN, low : 0 .. ExitN,
                     neg : 0 .. NegN, worst : Nat, count : 0 .. MaxStream]
      <4>1. high \in 0 .. EntryN /\ 0 \in 0 .. ExitN /\ 0 \in 0 .. NegN /\ 0 \in 0 .. MaxStream
        BY <3>1
      <4>. QED
        BY <3>1, <4>1
    <3>8. opened \in 0 .. n /\ ~spike.active
      BY <2>1, <2>10, <3>1
    <3>9. \A s \in spikes : s.to \in 1 .. n /\ s.from <= s.to
      BY <2>1, <2>2
    <3>. QED
      BY <2>1, <3>6, <3>7, <3>8, <3>9 DEF SpikeTypeOK
  <2>. QED
    BY <1>2, <2>9, <2>10 DEF SpikeInv
<1>. QED
  BY <1>1, <1>2

\* Every state of the detector is one of the stream, and so is every state of the segmenter.
LEMMA SpikesHeld == SpikeInit /\ [][SpikeNext]_spikeVars => []SpikeInv
BY SpikeHolds, SpikeSteps, PTL

LEMMA SessionsHeld == SegmenterInit /\ [][SegmenterNext]_segmenterVars => []SegmenterInv
BY SegmenterHolds, SegmenterSteps, PTL

\* StreamsAsDefined, for every stream, streak and window: the counters of
\* SpikeDetector.update open and close a spike exactly where the whole stream has its
\* streaks, and the window of EventSegmenter.feed starts a session exactly where the whole
\* stream has a boundary.
THEOREM StreamsFollow ==
  /\ SpikeInit /\ [][SpikeNext]_spikeVars
  /\ SegmenterInit /\ [][SegmenterNext]_segmenterVars
  => []StreamsAsDefined
<1>1. SpikeInv /\ SegmenterInv => StreamsAsDefined
  BY SpikeHolds, SegmenterHolds DEF StreamsAsDefined
<1>. QED
  BY <1>1, SpikesHeld, SessionsHeld, PTL

\* WellTyped, for every bound: no machine that the daemon feeds leaves its records' types;
\* the detector's counters stay under their streaks, the window within its size, and the
\* files of the log within their lines.
THEOREM FedWellTyped ==
  /\ Spec /\ ResidualInit /\ [][ResidualNext]_residualVars
  /\ SpikeInit /\ [][SpikeNext]_spikeVars
  /\ SegmenterInit /\ [][SegmenterNext]_segmenterVars
  => []WellTyped
<1>1. SpikeInv => SpikeTypeOK
  BY SpikeHolds
<1>2. SegmenterInv => SegmenterTypeOK
  BY SegmenterHolds
<1>3. TypeOK /\ ResidualTypeOK /\ SpikeTypeOK /\ SegmenterTypeOK => WellTyped
  BY DEF WellTyped
<1>. QED
  BY <1>1, <1>2, <1>3, TypeCorrect, LogWellTyped, SpikesHeld, SessionsHeld, PTL

\* A run of the machines one at a time is a run of each.
machines == <<machine, vars, residualVars, spikeVars, segmenterVars, responseVars>>

LEMMA EachMachineRuns ==
  MCInit /\ [][MCNext]_machines =>
    /\ Init /\ ResidualInit /\ SpikeInit /\ SegmenterInit /\ ResponseInit
    /\ [][Next]_vars /\ [][ResidualNext]_residualVars /\ [][SpikeNext]_spikeVars
    /\ [][SegmenterNext]_segmenterVars /\ [][ResponseNext]_responseVars
<1>1. MCInit => Init /\ ResidualInit /\ SpikeInit /\ SegmenterInit /\ ResponseInit
  BY DEF MCInit
<1>2. [MCNext]_machines =>
        /\ [Next]_vars /\ [ResidualNext]_residualVars /\ [SpikeNext]_spikeVars
        /\ [SegmenterNext]_segmenterVars /\ [ResponseNext]_responseVars
  BY DEF MCNext, machines
<1>. QED
  BY <1>1, <1>2, PTL

\* The run of Forecast.cfg, with whatever constants: the machines' theorems together.
THEOREM ForecastSound ==
  MCInit /\ [][MCNext]_machines =>
    [](/\ WellTyped /\ StaleBound /\ FlaggedWhenControlled /\ KeepsNewest /\ LearnsInOrder
       /\ StreamsAsDefined /\ RespondsSoundly)
<1>1. Spec <=> Init /\ [][Next]_vars
  BY DEF Spec
<1>. QED
  BY <1>1, EachMachineRuns, FedWellTyped, BasisBounded, SamplesFlagged, LogKeepsNewest,
     BankLearnsInOrder, StreamsFollow, RespondsWell, PTL
===============================================================================
