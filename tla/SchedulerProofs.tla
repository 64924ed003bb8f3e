--------------------------- MODULE SchedulerProofs ---------------------------
(***************************************************************************)
(* TLAPS proofs about scheduler.c, for every number of slots, every tick   *)
(* width and every mix of tasks: first the default build, then the one     *)
(* with statistics and trace, which implements it.  What concerns release  *)
(* times assumes periods and delays of at most half the tick range.        *)
(***************************************************************************)
EXTENDS SchedulerStats, SelectScan, FiniteSetTheorems, TLAPS

-----------------------------------------------------------------------------
(* Modular arithmetic.                                                     *)

(* Adding whole turns of the counter changes nothing.                      *)
LEMMA ModShift ==
  ASSUME NEW m \in Nat \ {0}, NEW x \in Int, NEW q \in Int
  PROVE  (x + m * q) % m = x % m
<1> DEFINE k == x \div m
           d == x % m
<1>1. x = m * k + d /\ k \in Int /\ d \in 0..(m - 1)
  OBVIOUS
<1> HIDE DEF k, d
<1>2. x + m * q = m * (k + q) + d
  BY <1>1
<1>3. (m * (k + q) + d) % m = d
  BY <1>1
<1> QED BY <1>2, <1>3 DEF d

(* Reducing the operands first does not change a reduced sum or difference. *)
LEMMA ModAdd ==
  ASSUME NEW m \in Nat \ {0}, NEW a \in Int, NEW b \in Int
  PROVE  /\ ((a % m) + (b % m)) % m = (a + b) % m
         /\ ((a % m) + b) % m = (a + b) % m
         /\ ((a % m) - (b % m)) % m = (a - b) % m
<1> DEFINE j == a \div m
           k == b \div m
           c == a % m
           d == b % m
<1>1. a = m * j + c /\ j \in Int /\ c \in 0..(m - 1)
  OBVIOUS
<1>2. b = m * k + d /\ k \in Int /\ d \in 0..(m - 1)
  OBVIOUS
<1> HIDE DEF j, k, c, d
<1>3. a + b = (c + d) + m * (j + k)
  BY <1>1, <1>2
<1>0. c + d \in Int /\ c + b \in Int /\ c - d \in Int /\ j + k \in Int /\ j - k \in Int
  BY <1>1, <1>2
<1>4. ((c + d) + m * (j + k)) % m = (c + d) % m
  BY <1>0, ModShift, Zenon
<1>5. a + b = (c + b) + m * j
  BY <1>1, <1>2
<1>6. ((c + b) + m * j) % m = (c + b) % m
  BY <1>0, <1>1, ModShift, Zenon
<1>7. a - b = (c - d) + m * (j - k)
  BY <1>1, <1>2
<1>8. ((c - d) + m * (j - k)) % m = (c - d) % m
  BY <1>0, ModShift, Zenon
<1> QED BY <1>3, <1>4, <1>5, <1>6, <1>7, <1>8 DEF c, d

(* The signed difference of two reduced times is their real difference, as *)
(* long as that fits int32_t.                                              *)
LEMMA SignedDifference ==
  ASSUME NEW t \in Nat, NEW r \in Nat, t - r < HalfRange, r - t <= HalfRange
  PROVE  I32(U32(t) - U32(r)) = t - r
<1> DEFINE m == TickMod
           d == t - r
<1>1. m \in Nat \ {0} /\ m = 2 * HalfRange /\ HalfRange \in Nat \ {0}
  BY TicksAssumption DEF TickMod
<1>2. d \in Int /\ d < HalfRange /\ -d <= HalfRange
  BY <1>1
<1>3. U32(U32(t) - U32(r)) = d % m
  <2>1. t \in Int /\ r \in Int
    OBVIOUS
  <2>2. ((t % m) - (r % m)) % m = (t - r) % m
    BY <1>1, <2>1, ModAdd, Zenon
  <2> QED BY <2>2 DEF U32
<1> HIDE DEF m, d
<1>4. CASE d >= 0
  <2>1. d % m = d
    BY <1>1, <1>2, <1>4
  <2> QED BY <1>1, <1>2, <1>3, <2>1 DEF I32, d
<1>5. CASE d < 0
  <2>1. d = (d + m) + m * (-1)
    BY <1>1, <1>2
  <2>2. d % m = (d + m) % m
    <3>1. d + m \in Int /\ -1 \in Int
      BY <1>1, <1>2
    <3>2. ((d + m) + m * (-1)) % m = (d + m) % m
      BY <1>1, <3>1, ModShift, Zenon
    <3> QED BY <2>1, <3>2, Zenon
  <2>3. (d + m) % m = d + m
    BY <1>1, <1>2, <1>5
  <2>4. d + m >= HalfRange
    BY <1>1, <1>2
  <2> QED BY <1>1, <1>2, <1>3, <2>2, <2>3, <2>4 DEF I32, d, m
<1> QED BY <1>2, <1>4, <1>5

(* sch_time_reached answers the question about real time.                  *)
LEMMA TimeReachedExact ==
  ASSUME NEW t \in Nat, NEW r \in Nat, t - r < HalfRange, r - t <= HalfRange
  PROVE  SchTimeReached(U32(t), U32(r)) <=> r <= t
BY SignedDifference DEF SchTimeReached

(* A nonzero multiple of p is at least p away from zero.                   *)
LEMMA MultipleFar ==
  ASSUME NEW p \in Nat \ {0}, NEW z \in Int, p * z < p, -p < p * z
  PROVE  z = 0
<1>1. z >= 1 => p * z >= p
  OBVIOUS
<1>2. z <= -1 => p * z <= -p
  OBVIOUS
<1> QED BY <1>1, <1>2

(* The first grid point after t, in closed form.                           *)
LEMMA GridStep ==
  ASSUME NEW t \in Nat, NEW r \in Nat, NEW p \in Nat \ {0}
  PROVE  /\ FirstReleaseAfter(t, r, p) = r + (((t - r) \div p) + 1) * p
         /\ FirstReleaseAfter(t, r, p) \in (t + 1)..(t + p)
<1> DEFINE d == t - r
           k == d \div p
           e == d % p
           y == r + (k + 1) * p
           G == {x \in (t + 1)..(t + p) : (x - r) % p = 0}
<1>1. d \in Int
  OBVIOUS
<1>2. d = p * k + e /\ k \in Int /\ e \in 0..(p - 1)
  <2> HIDE DEF d
  <2> QED BY <1>1
<1> HIDE DEF k, e
<1>3. y = t - e + p
  BY <1>2
<1>4. y \in (t + 1)..(t + p)
  BY <1>2, <1>3
<1>5. (y - r) % p = 0
  <2>1. y - r = 0 + p * (k + 1)
    BY <1>2
  <2>2. 0 \in Int /\ k + 1 \in Int
    BY <1>2
  <2>3. (0 + p * (k + 1)) % p = 0 % p
    BY <2>2, ModShift, Zenon
  <2>4. 0 % p = 0
    OBVIOUS
  <2> QED BY <2>1, <2>3, <2>4, Zenon
<1>6. ASSUME NEW x \in (t + 1)..(t + p), (x - r) % p = 0
      PROVE  x = y
  <2> DEFINE c == x - r
             j == c \div p
  <2>1. c \in Int /\ c % p = 0
    BY <1>6
  <2>2. c = p * j + 0 /\ j \in Int
    <3> HIDE DEF c
    <3> QED BY <2>1
  <2> HIDE DEF j
  <2>3. x - y = p * j - p * (k + 1)
    BY <1>2, <2>2
  <2>4. p * j - p * (k + 1) = p * (j - (k + 1))
    BY <1>2, <2>2
  <2>5. j - (k + 1) \in Int
    BY <1>2, <2>2
  <2>6. x - y < p /\ -p < x - y
    BY <1>2, <1>3
  <2> DEFINE z == j - (k + 1)
  <2> HIDE DEF z
  <2>7. z \in Int /\ p * z < p /\ -p < p * z
    BY <2>3, <2>4, <2>5, <2>6 DEF z
  <2>8. z = 0
    BY <2>7, MultipleFar
  <2>9. p * z = 0
    BY <2>8
  <2> QED BY <1>2, <1>3, <2>3, <2>4, <2>9 DEF z
<1> HIDE DEF y
<1>7. FirstReleaseAfter(t, r, p) = y
  BY <1>4, <1>5, <1>6 DEF FirstReleaseAfter
<1> QED BY <1>4, <1>7 DEF y, k, d

(* sch_advance_next_release computes the reduced first grid point after t, *)
(* for every lateness that fits int32_t.                                   *)
LEMMA AdvanceExact ==
  ASSUME NEW t \in Nat, NEW r \in Nat, r <= t, t - r < HalfRange, NEW p \in Nat \ {0}
  PROVE  SchAdvanceNextRelease(U32(t), U32(r), p) = U32(FirstReleaseAfter(t, r, p))
<1> DEFINE x == (((t - r) \div p) + 1) * p
<1>1. TickMod \in Nat \ {0} /\ HalfRange \in Nat \ {0}
  BY TicksAssumption DEF TickMod
<1>2. I32(U32(t) - U32(r)) = t - r
  BY <1>1, SignedDifference
<1>3. SchAdvanceNextRelease(U32(t), U32(r), p) = U32(U32(r) + U32(x))
  <2>1. ~(t - r < 0) /\ p # 0
    OBVIOUS
  <2> QED BY <1>2, <2>1, Zenon DEF SchAdvanceNextRelease
<1>4. x \in Int /\ r \in Int
  OBVIOUS
<1>5. FirstReleaseAfter(t, r, p) = r + x
  BY GridStep, Zenon
<1> HIDE DEF x
<1>6. U32(U32(r) + U32(x)) = U32(r + x)
  BY <1>1, <1>4, ModAdd, Zenon DEF U32
<1> QED BY <1>3, <1>5, <1>6

-----------------------------------------------------------------------------
(* The scans have a unique result.                                         *)

(* A nonempty set of naturals has a least element.                         *)
LEMMA LeastNatural ==
  ASSUME NEW T, T \subseteq Nat, T # {}
  PROVE  \E x \in T : \A y \in T : x <= y
<1> DEFINE R == OpToRel(<, Nat)
<1>1. IsWellFoundedOn(R, Nat)
  BY NatLessThanWellFounded, Zenon
<1>2. PICK x \in T : \A y \in T : ~(<<y, x>> \in R)
  BY <1>1, WFMin, Zenon
<1>3. \A y \in T : ~(y < x)
  BY <1>2 DEF OpToRel
<1> QED BY <1>3

(* sch_select_pending_task: the most urgent pending task, first slot first. *)
LEMMA PendingChoice ==
  ASSUME TypeOK, Candidates # {}
  PROVE  /\ SchSelectPendingTask \in Candidates
         /\ \A j \in Candidates \ {SchSelectPendingTask} : Precedes(SchSelectPendingTask, j)
<1>1. Candidates \subseteq Slots /\ Slots \subseteq Nat
  BY SchedulerAssumption DEF Candidates, PeriodicTasks, Slots
<1>2. \A i \in Slots : priority[i] \in Nat
  BY SchedulerAssumption DEF TypeOK
<1> DEFINE P == {priority[i] : i \in Candidates}
<1>3. PICK b \in P : \A y \in P : b <= y
  BY <1>1, <1>2, LeastNatural
<1> DEFINE B == {i \in Candidates : priority[i] = b}
<1>4. PICK s \in B : \A y \in B : s <= y
  BY <1>1, <1>3, LeastNatural
<1>5. s \in Candidates /\ \A j \in Candidates \ {s} : Precedes(s, j)
  <2> SUFFICES ASSUME NEW j \in Candidates \ {s} PROVE Precedes(s, j)
    BY <1>4
  <2>1. priority[s] = b /\ b <= priority[j] /\ b \in Nat /\ priority[j] \in Nat
    BY <1>1, <1>2, <1>3, <1>4
  <2>2. priority[j] = b => s <= j
    BY <1>4
  <2> QED BY <1>1, <1>4, <2>1, <2>2 DEF Precedes
<1> QED BY <1>5, Zenon DEF SchSelectPendingTask

(* sch_select_background_task: the first background task from the cursor.  *)
LEMMA BackgroundChoice ==
  ASSUME TypeOK, BackgroundTasks # {}
  PROVE  /\ SchSelectBackgroundTask \in BackgroundTasks
         /\ \A j \in BackgroundTasks : Offset(SchSelectBackgroundTask) <= Offset(j)
<1>1. BackgroundTasks \subseteq Slots
  BY DEF BackgroundTasks
<1>2. \A i \in Slots : Offset(i) \in Nat
  BY SchedulerAssumption DEF TypeOK, Offset, Slots
<1> DEFINE P == {Offset(i) : i \in BackgroundTasks}
<1>3. PICK b \in P : \A y \in P : b <= y
  BY <1>1, <1>2, LeastNatural
<1>4. PICK s \in BackgroundTasks : Offset(s) = b
  BY <1>3
<1>5. \A j \in BackgroundTasks : Offset(s) <= Offset(j)
  BY <1>3, <1>4
<1> QED BY <1>4, <1>5, Zenon DEF SchSelectBackgroundTask

(* sch_add_task takes the slot numbered by the old task count.             *)
LEMMA FreeSlotIsCount ==
  ASSUME TypeOK, SlotsDense, taskCount < MaxTasks
  PROVE  FreeSlot = taskCount /\ taskCount \in Slots
<1>1. taskCount \in Slots /\ Slots \subseteq Nat
  BY SchedulerAssumption DEF TypeOK, Slots
<1>2. \A i \in Slots : inUse[i] <=> i < taskCount
  BY DEF SlotsDense
<1>3. ~inUse[taskCount] /\ \A j \in Slots : j < taskCount => inUse[j]
  BY <1>1, <1>2
<1>4. \A i \in Slots : ~inUse[i] /\ (\A j \in Slots : j < i => inUse[j]) => i = taskCount
  BY <1>1, <1>2
<1> QED BY <1>1, <1>3, <1>4 DEF FreeSlot

-----------------------------------------------------------------------------
(* The table and the loop, for any arguments of sch_add_task: what does    *)
(* not depend on how ticks compare.                                        *)

(* What the loop has run or will run is periodic, it runs nothing twice,   *)
(* it counts what it runs, and no pending flag outlives it.                *)
RunInv ==
  /\ done \cup {i \in Slots : pending[i]} \subseteq PeriodicTasks
  /\ \A i \in Slots : pending[i] => pc \in {"loop", "callback"} /\ i \notin done
  /\ pc = "outside" => done = {}
  /\ pc = "loop" => executed = Cardinality(done)
  /\ pc = "callback" => executed < MaxTasks /\ executed + 1 = Cardinality(done)

(* PriorityOrder needs that a new task takes no slot already run or still  *)
(* pending (RunInv, SlotsDense); round robin needs the order PassedBehind  *)
(* records.                                                                *)
TableInv == TypeOK /\ SlotsDense /\ RunInv /\ PriorityOrder /\ PassedBehind

(* Facts about the constants.                                              *)
LEMMA Constants ==
  /\ MaxTasks \in Nat \ {0} /\ TickMod \in Nat \ {0} /\ HalfRange \in Nat \ {0}
  /\ Slots \subseteq Nat /\ \A i \in Slots : i < MaxTasks
  /\ NoTask \notin Slots
  /\ 0 \in 0..(TickMod - 1) /\ 0 \in Slots
BY SchedulerAssumption, TicksAssumption DEF TickMod, Slots, NoTask

(* A reduced tick is a 32-bit value.                                       *)
LEMMA U32Type ==
  ASSUME NEW x \in Int
  PROVE  U32(x) \in 0..(TickMod - 1)
BY Constants DEF U32

(* The advanced release is one, too.                                       *)
LEMMA AdvanceType ==
  ASSUME NEW t \in 0..(TickMod - 1), NEW r \in 0..(TickMod - 1), NEW p \in Nat \ {0}
  PROVE  SchAdvanceNextRelease(t, r, p) \in 0..(TickMod - 1)
<1> DEFINE late == I32(t - r)
           n == U32(((late \div p) + 1) * p)
<1>1. late \in Int
  <2>1. t - r \in Int
    BY Constants
  <2>2. U32(t - r) \in Int
    BY <2>1, U32Type, Constants
  <2> QED BY <2>2, Constants DEF I32
<1> HIDE DEF late
<1>2. ((late \div p) + 1) * p \in Int
  BY <1>1
<1>3. n \in Int
  BY <1>2, U32Type, Constants
<1> HIDE DEF n
<1>4. r + n \in Int
  BY <1>3, Constants
<1>5. U32(r + n) \in 0..(TickMod - 1)
  BY <1>4, U32Type
<1>6. SchAdvanceNextRelease(t, r, p) = IF p = 0 \/ late < 0 THEN r ELSE U32(r + n)
  BY DEF SchAdvanceNextRelease, late, n
<1> QED BY <1>5, <1>6

(* The table without tasks.                                                *)
LEMMA TableInit == Init => TableInv
<1> SUFFICES ASSUME Init PROVE TableInv
  OBVIOUS
<1>1. TypeOK
  BY Constants, SchedulerAssumption DEF Init, TypeOK
<1>2. SlotsDense
  BY Constants DEF Init, SlotsDense
<1>3. RunInv
  BY DEF Init, RunInv
<1>4. PriorityOrder /\ PassedBehind
  BY DEF Init, PriorityOrder, PassedBehind, BackgroundTasks
<1> QED BY <1>1, <1>2, <1>3, <1>4 DEF TableInv

(* The table that a repeated sch_init leaves.                              *)
LEMMA TableSchInit == TableInv /\ SchInit => TableInv'
<1> SUFFICES ASSUME TableInv, SchInit PROVE TableInv'
  OBVIOUS
<1>1. TypeOK'
  BY Constants, SchedulerAssumption DEF TableInv, TypeOK, SchInit, runVars, cycleVars
<1>2. SlotsDense'
  BY Constants DEF SchInit, SlotsDense
<1>3. pc' = "outside" /\ done' = {} /\ (\A i \in Slots : ~pending'[i]) /\ BackgroundTasks' = {}
  BY DEF TableInv, RunInv, SchInit, runVars, cycleVars, BackgroundTasks
<1>4. RunInv' /\ PriorityOrder' /\ PassedBehind'
  BY <1>3 DEF RunInv, PriorityOrder, PassedBehind
<1> QED BY <1>1, <1>2, <1>4 DEF TableInv

(* Who the tasks are and whose turn it is.                                 *)
turnVars == <<period, priority, enabled, inUse, taskCount, nextBackgroundIdx, passed>>

(* The conjuncts about them survive a step that leaves them alone.         *)
LEMMA TurnKept ==
  ASSUME TableInv, UNCHANGED turnVars
  PROVE  /\ period' = period /\ priority' = priority /\ enabled' = enabled /\ inUse' = inUse
         /\ taskCount' = taskCount /\ nextBackgroundIdx' = nextBackgroundIdx /\ passed' = passed
         /\ PeriodicTasks' = PeriodicTasks /\ BackgroundTasks' = BackgroundTasks
         /\ SlotsDense' /\ PassedBehind'
         /\ \A i, j \in Slots : Precedes(i, j)' <=> Precedes(i, j)
<1> USE DEF turnVars
<1>1. PeriodicTasks' = PeriodicTasks /\ BackgroundTasks' = BackgroundTasks
  BY DEF PeriodicTasks, BackgroundTasks
<1>2. SlotsDense'
  BY DEF TableInv, SlotsDense
<1>3. PassedBehind'
  BY <1>1 DEF TableInv, PassedBehind, Offset
<1>4. \A i, j \in Slots : Precedes(i, j)' <=> Precedes(i, j)
  BY DEF Precedes
<1> QED BY <1>1, <1>2, <1>3, <1>4

(* No pending task is outside the candidates of the scan.                  *)
LEMMA PendingAreCandidates == RunInv => Candidates = {i \in Slots : pending[i]}
BY DEF RunInv, Candidates, PeriodicTasks

(* The steps that set no pending flag and run no task: a callback or       *)
(* sch_run returns, the loop ends, there is no background task, time       *)
(* passes, or nothing happens.                                             *)
LEMMA TableQuiet ==
  ASSUME TableInv,
         \/ SchRunCallbackReturn \/ SchRunLoopEnd \/ SchRunNoBackground
         \/ SchRunBackgroundReturn \/ SchRunIdleReturn \/ Tick \/ UNCHANGED vars
  PROVE  TableInv'
<1>1. /\ UNCHANGED turnVars /\ pending' = pending /\ nextRelease' = nextRelease
      /\ release' = release /\ done' \in {done, {}}
  BY DEF SchRunCallbackReturn, SchRunLoopEnd, SchRunNoBackground, SchRunBackgroundReturn,
         SchRunIdleReturn, Tick, LeaveRun, vars, taskVars, runVars, cycleVars, turnVars
<1>2. TypeOK'
  <2>1. executed' \in 0..MaxTasks
    <3>1. executed \in 0..MaxTasks /\ (pc = "callback" => executed < MaxTasks)
      BY DEF TableInv, TypeOK, RunInv
    <3>2. executed' \in {0, executed} \/ (pc = "callback" /\ executed' = executed + 1)
      BY DEF SchRunCallbackReturn, SchRunLoopEnd, SchRunNoBackground, SchRunBackgroundReturn,
             SchRunIdleReturn, Tick, LeaveRun, vars, runVars
    <3> QED BY <3>1, <3>2, Constants
  <2>2. /\ pc' \in {pc, "outside", "loop", "background", "idle"} /\ now' \in {0, now}
        /\ selected' \in {selected, NoTask} /\ clock' \in {clock, clock + 1}
        /\ cycleStart' \in {0, cycleStart} /\ ready' \in {ready, {}}
    BY DEF SchRunCallbackReturn, SchRunLoopEnd, SchRunNoBackground, SchRunBackgroundReturn,
           SchRunIdleReturn, Tick, LeaveRun, vars, taskVars, runVars, cycleVars
  <2>3. /\ pc' \in {"outside", "loop", "callback", "background", "backgroundCallback", "idle"}
        /\ now' \in 0..(TickMod - 1) /\ selected' \in Slots \cup {NoTask} /\ clock' \in Nat
        /\ cycleStart' \in Nat /\ ready' \subseteq Slots /\ done' \subseteq Slots
    BY <1>1, <2>2, Constants DEF TableInv, TypeOK
  <2> QED BY <1>1, <2>1, <2>3, TurnKept DEF TableInv, TypeOK
<1>3. RunInv'
  <2>1. CASE SchRunLoopEnd
    <3>1. /\ pc = "loop" /\ pc' = "background" /\ done' = done
          /\ executed = MaxTasks \/ Candidates = {}
      BY <2>1 DEF SchRunLoopEnd, cycleVars
    <3>2. Candidates = {i \in Slots : pending[i]}
      BY PendingAreCandidates DEF TableInv
    <3>3. ASSUME executed = MaxTasks PROVE done = Slots
      <4>1. Cardinality(done) = MaxTasks /\ done \subseteq Slots
        BY <3>1, <3>3 DEF TableInv, RunInv, TypeOK
      <4>2. IsFiniteSet(Slots) /\ Cardinality(Slots) = MaxTasks
        BY Constants, FS_Interval DEF Slots
      <4> QED BY <4>1, <4>2, FS_Subset
    <3>4. \A i \in Slots : ~pending[i]
      BY <3>1, <3>2, <3>3 DEF TableInv, RunInv
    <3> QED BY <1>1, <3>1, <3>4, TurnKept DEF TableInv, RunInv
  <2>2. CASE SchRunCallbackReturn
    <3>1. pc = "callback" /\ pc' = "loop" /\ executed' = executed + 1 /\ done' = done
      BY <2>2 DEF SchRunCallbackReturn, cycleVars
    <3> QED BY <1>1, <3>1, TurnKept DEF TableInv, RunInv
  <2>3. CASE SchRunNoBackground \/ SchRunBackgroundReturn \/ SchRunIdleReturn
    <3>1. /\ pc \in {"background", "backgroundCallback", "idle"} /\ pc' \in {"idle", "outside"}
          /\ pc' = "outside" => done' = {}
      BY <2>3 DEF SchRunNoBackground, SchRunBackgroundReturn, SchRunIdleReturn, LeaveRun
    <3> QED BY <1>1, <3>1, TurnKept DEF TableInv, RunInv
  <2>4. CASE Tick \/ UNCHANGED vars
    <3>1. pc' = pc /\ executed' = executed /\ done' = done
      BY <2>4 DEF Tick, vars, runVars, cycleVars
    <3> QED BY <1>1, <3>1, TurnKept DEF TableInv, RunInv
  <2> QED BY <2>1, <2>2, <2>3, <2>4
<1>4. PriorityOrder'
  <2> SUFFICES ASSUME NEW i \in done', NEW j \in Slots, pending'[j] PROVE Precedes(i, j)'
    BY DEF PriorityOrder
  <2>1. i \in done /\ i \in Slots /\ pending[j]
    BY <1>1 DEF TableInv, TypeOK
  <2> QED BY <1>1, <2>1, TurnKept DEF TableInv, PriorityOrder
<1> QED BY <1>1, <1>2, <1>3, <1>4, TurnKept DEF TableInv

(* At entry only periodic tasks become pending.                            *)
LEMMA TableEnter == TableInv /\ SchRunEnter => TableInv'
<1> SUFFICES ASSUME TableInv, SchRunEnter PROVE TableInv'
  OBVIOUS
<1>1. /\ UNCHANGED turnVars /\ nextRelease' = nextRelease /\ release' = release
      /\ pc' = "loop" /\ now' = U32(clock) /\ executed' = 0 /\ selected' = selected
      /\ clock' = clock /\ cycleStart' = clock /\ done' = {}
      /\ ready' \subseteq PeriodicTasks
  BY DEF SchRunEnter, turnVars
<1>2. pending' = [i \in Slots |->
                    \/ pending[i]
                    \/ i \in PeriodicTasks /\ SchTimeReached(U32(clock), nextRelease[i])]
  BY DEF SchRunEnter, SchMarkPeriodicReady
<1>3. PeriodicTasks \subseteq Slots
  BY DEF PeriodicTasks
<1>4. pending' \in [Slots -> BOOLEAN]
  BY <1>2, Zenon
<1>5. TypeOK'
  <2>1. clock \in Nat /\ U32(clock) \in 0..(TickMod - 1) /\ 0 \in 0..MaxTasks
    BY U32Type, Constants DEF TableInv, TypeOK
  <2> QED BY <1>1, <1>3, <1>4, <2>1, TurnKept DEF TableInv, TypeOK
<1>6. RunInv' /\ PriorityOrder'
  <2>1. {i \in Slots : pending'[i]} \subseteq PeriodicTasks
    BY <1>2 DEF TableInv, RunInv
  <2> QED BY <1>1, <2>1, TurnKept, FS_EmptySet DEF RunInv, PriorityOrder
<1> QED BY <1>1, <1>5, <1>6, TurnKept DEF TableInv

(* A task added at any moment takes the next slot and joins no set that    *)
(* the current cycle is working on.                                        *)
LEMMA TableAddTask ==
  ASSUME TableInv, NEW p \in Periods, NEW d \in Delays, NEW q \in Priorities,
         SchAddTask(p, d, q)
  PROVE  /\ TableInv'
         /\ FreeSlot = taskCount /\ taskCount \in Slots
         /\ taskCount \notin done /\ ~pending[taskCount] /\ taskCount \notin PeriodicTasks
         /\ pending' = pending
         /\ PeriodicTasks \subseteq PeriodicTasks'
         /\ PeriodicTasks' \subseteq PeriodicTasks \cup {taskCount}
<1> DEFINE n == taskCount
<1>1. FreeSlot = n /\ n \in Slots /\ n \in Nat
  BY FreeSlotIsCount, Constants DEF TableInv, SchAddTask
<1>2. /\ period' = [period EXCEPT ![n] = p]
      /\ nextRelease' = [nextRelease EXCEPT ![n] = U32(U32(clock) + d)]
      /\ priority' = [priority EXCEPT ![n] = q]
      /\ enabled' = [enabled EXCEPT ![n] = TRUE]
      /\ pending' = [pending EXCEPT ![n] = FALSE]
      /\ inUse' = [inUse EXCEPT ![n] = TRUE]
      /\ release' = [release EXCEPT ![n] = clock + d]
      /\ passed' = [passed EXCEPT ![n] = {}]
      /\ taskCount' = n + 1
  BY <1>1 DEF SchAddTask
<1>3. /\ nextBackgroundIdx' = nextBackgroundIdx /\ pc' = pc /\ now' = now
      /\ executed' = executed /\ selected' = selected /\ clock' = clock
      /\ cycleStart' = cycleStart /\ ready' = ready /\ done' = done
  BY DEF SchAddTask, runVars, cycleVars
<1>4. /\ p \in 0..(TickMod - 1) /\ q \in 0..LowestPriority
      /\ U32(U32(clock) + d) \in 0..(TickMod - 1) /\ clock + d \in Nat /\ taskCount < MaxTasks
  <2>1. p \in 0..(TickMod - 1) /\ d \in Nat /\ q \in 0..LowestPriority
    BY SchedulerAssumption, Constants
  <2>2. clock \in Nat /\ clock \in Int /\ clock + d \in Nat
    BY <2>1 DEF TableInv, TypeOK
  <2>3. U32(clock) + d \in Int
    BY <2>1, <2>2, U32Type, Constants
  <2>4. U32(U32(clock) + d) \in 0..(TickMod - 1)
    BY <2>3, U32Type
  <2> QED BY <2>1, <2>2, <2>4 DEF SchAddTask
<1>5. n \notin PeriodicTasks /\ n \notin BackgroundTasks
  BY <1>1 DEF PeriodicTasks, BackgroundTasks, TableInv, SlotsDense
<1>6. TypeOK'
  <2>1. n + 1 \in 0..MaxTasks
    BY <1>1, <1>4, Constants
  <2> QED BY <1>1, <1>2, <1>3, <1>4, <2>1 DEF TableInv, TypeOK
<1>7. /\ PeriodicTasks \subseteq PeriodicTasks' /\ PeriodicTasks' \subseteq PeriodicTasks \cup {n}
      /\ BackgroundTasks' \subseteq BackgroundTasks \cup {n}
  BY <1>1, <1>2, <1>5 DEF TableInv, TypeOK, PeriodicTasks, BackgroundTasks
<1>8. SlotsDense'
  BY <1>1, <1>2, Constants DEF TableInv, TypeOK, SlotsDense
<1>9. n \notin done /\ ~pending[n]
  BY <1>1, <1>5 DEF TableInv, RunInv
<1>10. pending' = pending
  BY <1>1, <1>2, <1>9 DEF TableInv, TypeOK
<1>11. RunInv'
  BY <1>3, <1>7, <1>10 DEF TableInv, RunInv
<1>12. PriorityOrder'
  <2> SUFFICES ASSUME NEW i \in done, NEW j \in Slots, pending[j]
               PROVE  Precedes(i, j)'
    BY <1>3, <1>10 DEF PriorityOrder
  <2>1. i \in Slots /\ i # n /\ j # n
    BY <1>9 DEF TableInv, TypeOK
  <2>2. priority'[i] = priority[i] /\ priority'[j] = priority[j]
    BY <1>2, <2>1 DEF TableInv, TypeOK
  <2>3. Precedes(i, j)
    BY DEF TableInv, PriorityOrder
  <2> QED BY <2>2, <2>3 DEF Precedes
<1>13. PassedBehind'
  <2> SUFFICES ASSUME NEW i \in BackgroundTasks', NEW j \in passed'[i]
               PROVE  Offset(i) < Offset(j)
    BY <1>3 DEF PassedBehind, Offset
  <2>1. i \in Slots
    BY DEF BackgroundTasks
  <2>2. i # n
    BY <1>1, <1>2, <2>1 DEF TableInv, TypeOK
  <2>3. i \in BackgroundTasks /\ j \in passed[i]
    BY <1>2, <1>7, <2>1, <2>2 DEF TableInv, TypeOK
  <2> QED BY <2>3 DEF TableInv, PassedBehind
<1> QED BY <1>1, <1>5, <1>6, <1>7, <1>8, <1>9, <1>10, <1>11, <1>12, <1>13 DEF TableInv

(* The loop runs the most urgent of the pending tasks.                     *)
LEMMA TableSelect == TableInv /\ SchRunSelect => TableInv'
<1> SUFFICES ASSUME TableInv, SchRunSelect PROVE TableInv'
  OBVIOUS
<1> DEFINE s == SchSelectPendingTask
           f == FirstReleaseAfter(cycleStart, release[s], period[s])
           r == SchAdvanceNextRelease(now, nextRelease[s], period[s])
<1>1. /\ UNCHANGED turnVars /\ pc = "loop" /\ pc' = "callback" /\ executed < MaxTasks
      /\ Candidates # {} /\ selected' = s /\ pending' = [pending EXCEPT ![s] = FALSE]
      /\ nextRelease' = [nextRelease EXCEPT ![s] = r] /\ release' = [release EXCEPT ![s] = f]
      /\ done' = done \cup {s} /\ now' = now /\ executed' = executed /\ clock' = clock
      /\ cycleStart' = cycleStart /\ ready' = ready
  BY DEF SchRunSelect, turnVars
<1>2. s \in Candidates /\ \A j \in Candidates \ {s} : Precedes(s, j)
  BY <1>1, PendingChoice DEF TableInv
<1>3. Candidates = {i \in Slots : pending[i]}
  BY PendingAreCandidates DEF TableInv
<1>4. f \in Nat /\ r \in 0..(TickMod - 1)
  <2>1. /\ s \in Slots /\ period[s] \in 0..(TickMod - 1) /\ period[s] # 0
        /\ release[s] \in Nat /\ cycleStart \in Nat
        /\ now \in 0..(TickMod - 1) /\ nextRelease[s] \in 0..(TickMod - 1)
    BY <1>2 DEF Candidates, PeriodicTasks, TableInv, TypeOK
  <2>2. period[s] \in Nat \ {0}
    BY <2>1, Constants
  <2>3. f \in (cycleStart + 1)..(cycleStart + period[s])
    BY <2>1, <2>2, GridStep
  <2>4. r \in 0..(TickMod - 1)
    BY <2>1, <2>2, AdvanceType
  <2> HIDE DEF s, f, r
  <2> QED BY <2>1, <2>2, <2>3, <2>4
<1>5. s \in PeriodicTasks /\ s \in Slots
  BY <1>2 DEF Candidates, PeriodicTasks
<1> HIDE DEF s, f, r
<1>6. TypeOK'
  <2>1. done \cup {s} \subseteq Slots
    BY <1>5 DEF TableInv, TypeOK
  <2> QED BY <1>1, <1>4, <1>5, <2>1, TurnKept DEF TableInv, TypeOK
<1>7. RunInv'
  <2>1. \A i \in Slots : pending'[i] => pending[i] /\ i # s
    BY <1>1, <1>5 DEF TableInv, TypeOK
  <2>2. s \notin done
    BY <1>2, <1>3 DEF TableInv, RunInv
  <2>3. IsFiniteSet(done)
    <3>1. IsFiniteSet(Slots) /\ done \subseteq Slots
      BY Constants, FS_Interval DEF Slots, TableInv, TypeOK
    <3> QED BY <3>1, FS_Subset
  <2>4. Cardinality(done \cup {s}) = Cardinality(done) + 1
    BY <2>2, <2>3, FS_AddElement
  <2>5. executed' + 1 = Cardinality(done')
    BY <1>1, <2>4 DEF TableInv, RunInv
  <2> QED BY <1>1, <1>5, <2>1, <2>5, TurnKept DEF TableInv, RunInv
<1>8. PriorityOrder'
  <2> SUFFICES ASSUME NEW i \in done \cup {s}, NEW j \in Slots, pending'[j]
               PROVE  Precedes(i, j)'
    BY <1>1 DEF PriorityOrder
  <2>1. j # s /\ pending[j] /\ i \in Slots
    BY <1>1, <1>5 DEF TableInv, TypeOK
  <2>2. j \in Candidates \ {s}
    BY <1>3, <2>1
  <2>3. Precedes(i, j)
    BY <1>2, <2>1, <2>2 DEF TableInv, PriorityOrder
  <2> QED BY <1>1, <2>1, <2>3, TurnKept
<1> QED BY <1>1, <1>6, <1>7, <1>8, TurnKept DEF TableInv

(* How the cursor's move past slot s renumbers the scan: s goes last and   *)
(* the slots after it keep their order.                                    *)
LEMMA OffsetShift ==
  ASSUME NEW m \in Nat \ {0}, NEW c \in 0..(m - 1), NEW s \in 0..(m - 1), NEW i \in 0..(m - 1)
  PROVE  /\ (i - c) % m \in 0..(m - 1)
         /\ (s - ((s + 1) % m)) % m = m - 1
         /\ (i - c) % m > (s - c) % m =>
              (i - ((s + 1) % m)) % m = (((i - c) % m) - ((s - c) % m)) - 1
<1> DEFINE R(x, y) == IF x >= y THEN x - y ELSE (x - y) + m
<1>1. ASSUME NEW x \in 0..(m - 1), NEW y \in 0..(m - 1)
      PROVE  (x - y) % m = R(x, y)
  <2>1. CASE x >= y
    BY <2>1
  <2>2. CASE x < y
    <3>1. (x - y) + m \in 0..(m - 1) /\ x - y \in Int /\ 1 \in Int /\ m * 1 = m
      BY <2>2
    <3>2. ((x - y) + m * 1) % m = (x - y) % m
      BY <3>1, ModShift, Zenon
    <3>3. ((x - y) + m) % m = (x - y) + m
      <4> DEFINE w == (x - y) + m
      <4> HIDE DEF w
      <4>1. w \in 0..(m - 1)
        BY <3>1 DEF w
      <4>2. w % m = w
        BY <4>1
      <4> QED BY <4>2 DEF w
    <3> QED BY <2>2, <3>1, <3>2, <3>3
  <2> QED BY <2>1, <2>2
<1> DEFINE e == (s + 1) % m
<1>2. e \in 0..(m - 1) /\ e = IF s + 1 = m THEN 0 ELSE s + 1
  OBVIOUS
<1> HIDE DEF e
<1>3. /\ (i - c) % m = R(i, c) /\ (s - c) % m = R(s, c)
      /\ (i - e) % m = R(i, e) /\ (s - e) % m = R(s, e)
  BY <1>1, <1>2
<1>4. R(i, c) \in 0..(m - 1) /\ R(s, e) = m - 1
  BY <1>2
<1>5. R(i, c) > R(s, c) => R(i, e) = (R(i, c) - R(s, c)) - 1
  BY <1>2
<1> QED BY <1>3, <1>4, <1>5 DEF e

(* Picking a background task keeps the ones it has passed behind the others. *)
LEMMA TableBackground == TableInv /\ SchRunBackground => TableInv'
<1> SUFFICES ASSUME TableInv, SchRunBackground PROVE TableInv'
  OBVIOUS
<1>0. BackgroundTasks # {}
  BY DEF SchRunBackground
<1>2. PICK s \in BackgroundTasks :
        s = SchSelectBackgroundTask /\ \A j \in BackgroundTasks : Offset(s) <= Offset(j)
  BY <1>0, BackgroundChoice DEF TableInv
<1>1. /\ pc = "background" /\ pc' = "backgroundCallback" /\ BackgroundTasks # {}
      /\ selected' = s /\ nextBackgroundIdx' = (s + 1) % MaxTasks
      /\ passed' = [j \in Slots |-> IF j = s THEN {}
                                    ELSE IF j \in BackgroundTasks THEN passed[j] \cup {s}
                                    ELSE passed[j]]
      /\ now' = now /\ executed' = executed /\ clock' = clock /\ release' = release
      /\ cycleStart' = cycleStart /\ ready' = ready /\ done' = done
      /\ period' = period /\ nextRelease' = nextRelease /\ priority' = priority
      /\ enabled' = enabled /\ pending' = pending /\ inUse' = inUse
      /\ taskCount' = taskCount
  BY <1>2 DEF SchRunBackground, NextCursor, taskVars, cycleVars
<1>3. PeriodicTasks' = PeriodicTasks /\ BackgroundTasks' = BackgroundTasks
  BY <1>1 DEF PeriodicTasks, BackgroundTasks
<1>4. s \in Slots /\ BackgroundTasks \subseteq Slots
  BY <1>2 DEF BackgroundTasks
<1>5. (s + 1) % MaxTasks \in Slots
  BY <1>4, Constants DEF Slots
<1>6. TypeOK'
  <2>1. passed' \in [Slots -> SUBSET Slots]
    BY <1>1, <1>4 DEF TableInv, TypeOK
  <2> QED BY <1>1, <1>4, <1>5, <2>1 DEF TableInv, TypeOK
<1>7. SlotsDense'
  BY <1>1 DEF TableInv, SlotsDense
<1>8. RunInv'
  BY <1>1, <1>3 DEF TableInv, RunInv
<1>9. PriorityOrder'
  BY <1>1 DEF TableInv, PriorityOrder, Precedes
<1>10. PassedBehind'
  <2> SUFFICES ASSUME NEW i \in BackgroundTasks, NEW j \in passed'[i]
               PROVE  Offset(i)' < Offset(j)'
    BY <1>3 DEF PassedBehind
  <2>1. i # s /\ j \in passed[i] \cup {s} /\ i \in Slots
    BY <1>1, <1>4
  <2>2. j \in Slots /\ Slots = 0..(MaxTasks - 1) /\ nextBackgroundIdx \in 0..(MaxTasks - 1)
    BY <1>4, <2>1 DEF TableInv, TypeOK, Slots
  <2>3. /\ Offset(i) \in 0..(MaxTasks - 1) /\ Offset(j) \in 0..(MaxTasks - 1)
        /\ Offset(s) \in 0..(MaxTasks - 1)
        /\ Offset(s)' = MaxTasks - 1
        /\ Offset(i) > Offset(s) => Offset(i)' = (Offset(i) - Offset(s)) - 1
        /\ Offset(j) > Offset(s) => Offset(j)' = (Offset(j) - Offset(s)) - 1
    <3> DEFINE c == nextBackgroundIdx
               e == (s + 1) % MaxTasks
    <3>1. \A x \in 0..(MaxTasks - 1) :
            /\ (x - c) % MaxTasks \in 0..(MaxTasks - 1)
            /\ (s - e) % MaxTasks = MaxTasks - 1
            /\ (x - c) % MaxTasks > (s - c) % MaxTasks =>
                 (x - e) % MaxTasks = (((x - c) % MaxTasks) - ((s - c) % MaxTasks)) - 1
      BY <1>4, <2>2, OffsetShift, Constants, Zenon
    <3> HIDE DEF e
    <3>2. \A x : Offset(x)' = (x - e) % MaxTasks
      BY <1>1 DEF Offset, e
    <3>3. \A x : Offset(x) = (x - c) % MaxTasks
      BY DEF Offset
    <3> HIDE DEF c
    <3> QED BY <1>4, <2>1, <2>2, <3>1, <3>2, <3>3
  <2>4. Offset(s) # Offset(i)
    <3>1. ASSUME Offset(s) = Offset(i) PROVE FALSE
      BY <1>4, <2>1, <2>2, <3>1, Constants DEF Offset
    <3> QED BY <3>1
  <2>5. Offset(i) > Offset(s)
    BY <1>2, <2>3, <2>4
  <2>6. CASE j = s
    BY <2>3, <2>5, <2>6, Constants
  <2>7. CASE j \in passed[i]
    <3>1. Offset(i) < Offset(j)
      BY <2>7 DEF TableInv, PassedBehind
    <3> QED BY <2>3, <2>5, <3>1
  <2> QED BY <2>1, <2>6, <2>7
<1> QED BY <1>6, <1>7, <1>8, <1>9, <1>10 DEF TableInv

(* Every step keeps the table's invariant, whatever sch_add_task is given. *)
LEMMA TableStep ==
  ASSUME TableInv, [Next]_vars
  PROVE  TableInv'
<1>1. ASSUME NEW p \in Periods, NEW d \in Delays, NEW q \in Priorities, SchAddTask(p, d, q)
      PROVE  TableInv'
  BY <1>1, TableAddTask
<1> QED BY <1>1, TableSchInit, TableEnter, TableSelect, TableBackground, TableQuiet
        DEF Next, SchRun

(* The scheduler never leaves it.                                          *)
LEMMA TableInvariant == Spec => []TableInv
<1>1. TableInv /\ [Next]_vars => TableInv'
  BY TableStep
<1> QED BY <1>1, TableInit, PTL DEF Spec

-----------------------------------------------------------------------------
(* The inductive invariant.  ReleaseOnGrid is preserved only because the   *)
(* lateness fits int32_t (WithinHalfRange); CycleServesReadySet only       *)
(* because the pending flags were set from real due times (ReleaseOnGrid)  *)
(* and the entry tick is still the one they were compared with             *)
(* (CycleSample).                                                          *)
IInv ==
  /\ TypeOK /\ SlotsDense /\ ReleaseOnGrid /\ WithinHalfRange /\ CycleSample
  /\ NoEarlyRelease /\ CycleServesReadySet /\ PriorityOrder /\ PassedBehind

(* It contains the table's invariant.                                      *)
LEMMA IInvTable == IInv => TableInv
<1> SUFFICES ASSUME IInv PROVE TableInv
  OBVIOUS
<1>1. done \subseteq PeriodicTasks /\ {i \in Slots : pending[i]} \subseteq PeriodicTasks
  BY DEF IInv, NoEarlyRelease, CycleSample, CycleServesReadySet
<1>2. RunInv
  BY <1>1 DEF IInv, CycleSample, CycleServesReadySet, RunInv
<1> QED BY <1>2 DEF IInv, TableInv

(* The table without tasks satisfies every conjunct.                       *)
LEMMA InitIInv == Init => IInv
<1> SUFFICES ASSUME Init PROVE IInv
  OBVIOUS
<1>1. TableInv
  BY TableInit
<1>2. PeriodicTasks = {}
  BY DEF Init, PeriodicTasks
<1>3. CycleServesReadySet
  BY DEF Init, CycleServesReadySet
<1> QED BY <1>1, <1>2, <1>3
        DEF Init, IInv, TableInv, ReleaseOnGrid, WithinHalfRange, CycleSample, NoEarlyRelease

(* So does the table that a repeated sch_init leaves.                      *)
LEMMA SchInitIInv == IInv /\ SchInit => IInv'
<1> SUFFICES ASSUME IInv, SchInit PROVE IInv'
  OBVIOUS
<1>1. TableInv'
  BY IInvTable, TableSchInit
<1>2. PeriodicTasks' = {}
  BY DEF SchInit, PeriodicTasks
<1>3. pc' = "outside" /\ ready' = {} /\ done' = {} /\ \A i \in Slots : ~pending'[i]
  BY DEF IInv, CycleSample, SchInit, runVars, cycleVars
<1>4. CycleServesReadySet'
  BY <1>3 DEF CycleServesReadySet
<1> QED BY <1>1, <1>2, <1>3, <1>4
        DEF IInv, TableInv, ReleaseOnGrid, WithinHalfRange, CycleSample, NoEarlyRelease

(* A tick moves real time on, at most to the edge of the half range.       *)
LEMMA TickIInv == IInv /\ Tick => IInv'
<1> SUFFICES ASSUME IInv, Tick PROVE IInv'
  OBVIOUS
<1>0. TableInv'
  BY IInvTable, TableQuiet
<1> USE DEF Tick, taskVars, runVars, cycleVars
<1>1. PeriodicTasks' = PeriodicTasks
  BY DEF PeriodicTasks
<1>2. WithinHalfRange'
  <2> SUFFICES ASSUME NEW i \in PeriodicTasks
               PROVE  /\ period[i] <= HalfRange
                      /\ (clock + 1) - release[i] < HalfRange
                      /\ release[i] - (clock + 1) <= HalfRange
    BY <1>1 DEF WithinHalfRange
  <2>1. clock \in Nat /\ release[i] \in Nat /\ HalfRange \in Nat
    BY Constants DEF IInv, TypeOK, PeriodicTasks
  <2>2. period[i] <= HalfRange /\ release[i] - clock <= HalfRange
    BY DEF IInv, WithinHalfRange
  <2>3. (clock + 1) - release[i] < HalfRange
    BY DEF Polled
  <2> QED BY <2>1, <2>2, <2>3
<1>3. CycleSample'
  <2>1. clock \in Nat /\ cycleStart \in Nat
    BY DEF IInv, TypeOK
  <2> QED BY <1>1, <2>1 DEF IInv, CycleSample
<1>4. ReleaseOnGrid' /\ NoEarlyRelease'
  BY <1>1 DEF IInv, ReleaseOnGrid, NoEarlyRelease
<1>5. CycleServesReadySet'
  BY DEF IInv, CycleServesReadySet
<1> QED BY <1>0, <1>2, <1>3, <1>4, <1>5 DEF IInv, TableInv

(* What a step that leaves the task table alone preserves.                 *)
TableUnchanged == UNCHANGED <<taskVars, nextBackgroundIdx, clock, release, passed>>

(* The conjuncts about release times survive such a step.                  *)
LEMMA TablePreserved ==
  ASSUME IInv, TableUnchanged
  PROVE  /\ PeriodicTasks' = PeriodicTasks /\ ReleaseOnGrid' /\ WithinHalfRange'
         /\ pending' = pending /\ clock' = clock /\ release' = release
<1> USE DEF TableUnchanged, taskVars
<1>1. PeriodicTasks' = PeriodicTasks
  BY DEF PeriodicTasks
<1>2. ReleaseOnGrid' /\ WithinHalfRange'
  BY <1>1 DEF IInv, ReleaseOnGrid, WithinHalfRange
<1> QED BY <1>1, <1>2

(* A returning callback moves the loop counter up to the tasks run.        *)
LEMMA SchRunCallbackReturnIInv == IInv /\ SchRunCallbackReturn => IInv'
<1> SUFFICES ASSUME IInv, SchRunCallbackReturn PROVE IInv'
  OBVIOUS
<1>0. TableUnchanged /\ TableInv'
  BY IInvTable, TableQuiet DEF SchRunCallbackReturn, TableUnchanged
<1>1. /\ pc = "callback" /\ pc' = "loop" /\ executed' = executed + 1
      /\ now' = now /\ cycleStart' = cycleStart /\ ready' = ready /\ done' = done
  BY DEF SchRunCallbackReturn, cycleVars
<1>2. CycleSample' /\ NoEarlyRelease'
  BY <1>0, <1>1, TablePreserved DEF IInv, CycleSample, NoEarlyRelease
<1>3. CycleServesReadySet'
  BY <1>0, <1>1, TablePreserved DEF IInv, CycleServesReadySet
<1> QED BY <1>0, <1>2, <1>3, TablePreserved DEF IInv, TableInv

(* While the loop runs, its candidates are the ready tasks it has not run. *)
LEMMA CandidatesAreReady ==
  ASSUME IInv, pc = "loop"
  PROVE  Candidates = {i \in Slots : pending[i]} /\ Candidates = ready \ done
BY IInvTable, PendingAreCandidates DEF IInv, TableInv, CycleServesReadySet

(* The loop ends only when every ready task has run.                       *)
LEMMA SchRunLoopEndIInv == IInv /\ SchRunLoopEnd => IInv'
<1> SUFFICES ASSUME IInv, SchRunLoopEnd PROVE IInv'
  OBVIOUS
<1>0. TableUnchanged /\ TableInv'
  BY IInvTable, TableQuiet DEF SchRunLoopEnd, TableUnchanged
<1>1. /\ pc = "loop" /\ pc' = "background"
      /\ now' = now /\ cycleStart' = cycleStart /\ ready' = ready /\ done' = done
      /\ executed = MaxTasks \/ Candidates = {}
  BY DEF SchRunLoopEnd, cycleVars
<1>2. Candidates = {i \in Slots : pending[i]} /\ Candidates = ready \ done
  BY <1>1, CandidatesAreReady
<1>3. \A i \in Slots : ~pending[i]
  BY <1>0, <1>1, TablePreserved DEF TableInv, RunInv
<1>4. done = ready
  BY <1>2, <1>3 DEF IInv, NoEarlyRelease
<1>5. CycleSample' /\ NoEarlyRelease'
  BY <1>0, <1>1, TablePreserved DEF IInv, CycleSample, NoEarlyRelease
<1>6. CycleServesReadySet'
  BY <1>0, <1>1, <1>3, <1>4, TablePreserved DEF CycleServesReadySet
<1> QED BY <1>0, <1>5, <1>6, TablePreserved DEF IInv, TableInv

(* The step to sch_port_idle changes no scheduler state.                   *)
LEMMA SchRunNoBackgroundIInv == IInv /\ SchRunNoBackground => IInv'
<1> SUFFICES ASSUME IInv, SchRunNoBackground PROVE IInv'
  OBVIOUS
<1>0. TableUnchanged /\ TableInv'
  BY IInvTable, TableQuiet DEF SchRunNoBackground, TableUnchanged
<1>1. /\ pc = "background" /\ pc' = "idle"
      /\ now' = now /\ cycleStart' = cycleStart /\ ready' = ready /\ done' = done
  BY DEF SchRunNoBackground, cycleVars
<1>2. CycleSample' /\ NoEarlyRelease'
  BY <1>0, <1>1, TablePreserved DEF IInv, CycleSample, NoEarlyRelease
<1>3. CycleServesReadySet'
  BY <1>0, <1>1, TablePreserved DEF IInv, CycleServesReadySet
<1> QED BY <1>0, <1>2, <1>3, TablePreserved DEF IInv, TableInv

(* sch_run returns after a background callback or after sch_port_idle.     *)
LEMMA SchRunReturnIInv == IInv /\ (SchRunBackgroundReturn \/ SchRunIdleReturn) => IInv'
<1> SUFFICES ASSUME IInv, SchRunBackgroundReturn \/ SchRunIdleReturn PROVE IInv'
  OBVIOUS
<1>0. TableUnchanged /\ TableInv'
  BY IInvTable, TableQuiet DEF SchRunBackgroundReturn, SchRunIdleReturn, TableUnchanged
<1>1. /\ pc \in {"backgroundCallback", "idle"} /\ pc' = "outside" /\ ready' = {} /\ done' = {}
  BY DEF SchRunBackgroundReturn, SchRunIdleReturn, LeaveRun
<1>2. {i \in Slots : pending'[i]} = {}
  BY <1>0, <1>1, TablePreserved DEF IInv, CycleServesReadySet
<1>3. CycleSample' /\ NoEarlyRelease'
  BY <1>1 DEF CycleSample, NoEarlyRelease
<1>4. CycleServesReadySet'
  BY <1>1, <1>2 DEF CycleServesReadySet
<1> QED BY <1>0, <1>3, <1>4, TablePreserved DEF IInv, TableInv

(* At entry the pending flags become exactly the set of due tasks.         *)
LEMMA SchRunEnterIInv == IInv /\ SchRunEnter => IInv'
<1> SUFFICES ASSUME IInv, SchRunEnter PROVE IInv'
  OBVIOUS
<1>0. TableInv'
  BY IInvTable, TableEnter
<1>1. /\ pc = "outside" /\ pc' = "loop" /\ now' = U32(clock) /\ executed' = 0
      /\ cycleStart' = clock /\ done' = {}
      /\ ready' = {i \in PeriodicTasks : release[i] <= clock}
      /\ period' = period /\ nextRelease' = nextRelease /\ enabled' = enabled
      /\ inUse' = inUse /\ clock' = clock /\ release' = release
  BY DEF SchRunEnter
<1>2. pending' = [i \in Slots |->
                    \/ pending[i]
                    \/ i \in PeriodicTasks /\ SchTimeReached(U32(clock), nextRelease[i])]
  BY DEF SchRunEnter, SchMarkPeriodicReady
<1>3. PeriodicTasks' = PeriodicTasks
  BY <1>1 DEF PeriodicTasks
<1>4. \A i \in Slots : ~pending[i]
  BY <1>1 DEF IInv, CycleServesReadySet
<1>5. \A i \in PeriodicTasks : SchTimeReached(U32(clock), nextRelease[i]) <=> release[i] <= clock
  <2> SUFFICES ASSUME NEW i \in PeriodicTasks
               PROVE  SchTimeReached(U32(clock), nextRelease[i]) <=> release[i] <= clock
    OBVIOUS
  <2>1. /\ clock \in Nat /\ release[i] \in Nat
        /\ clock - release[i] < HalfRange /\ release[i] - clock <= HalfRange
        /\ nextRelease[i] = U32(release[i])
    BY DEF IInv, TypeOK, PeriodicTasks, WithinHalfRange, ReleaseOnGrid
  <2> QED BY <2>1, TimeReachedExact
<1>6. PeriodicTasks \subseteq Slots
  BY DEF PeriodicTasks
<1>7. {i \in Slots : pending'[i]} = ready'
  BY <1>1, <1>2, <1>4, <1>5, <1>6
<1>8. ReleaseOnGrid' /\ WithinHalfRange'
  BY <1>1, <1>3 DEF IInv, ReleaseOnGrid, WithinHalfRange
<1>9. CycleSample' /\ NoEarlyRelease'
  <2>1. clock <= clock
    BY DEF IInv, TypeOK
  <2> QED BY <1>1, <1>3, <2>1 DEF CycleSample, NoEarlyRelease
<1>10. CycleServesReadySet'
  BY <1>1, <1>7, FS_EmptySet DEF CycleServesReadySet
<1> QED BY <1>0, <1>8, <1>9, <1>10 DEF IInv, TableInv

(* A task with arguments within half the range starts on its grid.         *)
LEMMA SchAddTaskIInv ==
  ASSUME HalfRangeArguments, IInv, NEW p \in Periods, NEW d \in Delays, NEW q \in Priorities,
         SchAddTask(p, d, q)
  PROVE  IInv'
<1> DEFINE n == taskCount
<1>0. /\ TableInv' /\ FreeSlot = n /\ n \in Slots /\ n \notin PeriodicTasks
      /\ pending' = pending
      /\ PeriodicTasks \subseteq PeriodicTasks' /\ PeriodicTasks' \subseteq PeriodicTasks \cup {n}
  BY IInvTable, TableAddTask
<1>1. /\ period' = [period EXCEPT ![n] = p]
      /\ nextRelease' = [nextRelease EXCEPT ![n] = U32(U32(clock) + d)]
      /\ release' = [release EXCEPT ![n] = clock + d]
  BY <1>0 DEF SchAddTask
<1>2. /\ pc' = pc /\ now' = now /\ executed' = executed /\ selected' = selected
      /\ clock' = clock /\ cycleStart' = cycleStart /\ ready' = ready /\ done' = done
  BY DEF SchAddTask, runVars, cycleVars
<1>3. /\ p \in Nat /\ p <= HalfRange /\ d \in Nat /\ d <= HalfRange
      /\ clock \in Nat /\ HalfRange \in Nat /\ U32(U32(clock) + d) = U32(clock + d)
  <2>1. p \in 0..(TickMod - 1) /\ p <= HalfRange /\ d <= HalfRange /\ d \in 0..(TickMod - 1)
    BY SchedulerAssumption, Constants DEF HalfRangeArguments
  <2>2. p \in Nat /\ d \in Nat /\ d \in Int
    BY <2>1, Constants
  <2>3. clock \in Nat /\ clock \in Int
    BY DEF IInv, TypeOK
  <2>4. U32(U32(clock) + d) = U32(clock + d)
    BY <2>2, <2>3, ModAdd, Constants, Zenon DEF U32
  <2> QED BY <2>1, <2>2, <2>3, <2>4, Constants
<1>4. ReleaseOnGrid' /\ WithinHalfRange'
  <2> SUFFICES ASSUME NEW i \in PeriodicTasks'
               PROVE  /\ nextRelease'[i] = U32(release'[i]) /\ period'[i] <= HalfRange
                      /\ clock - release'[i] < HalfRange
                      /\ release'[i] - clock <= HalfRange
    BY <1>2 DEF ReleaseOnGrid, WithinHalfRange
  <2>1. CASE i = n
    <3>1. /\ nextRelease'[i] = U32(clock + d) /\ release'[i] = clock + d /\ period'[i] = p
      BY <1>0, <1>1, <1>3, <2>1 DEF IInv, TypeOK
    <3>2. clock - (clock + d) < HalfRange /\ (clock + d) - clock <= HalfRange
      BY <1>3, Constants
    <3> QED BY <1>3, <3>1, <3>2
  <2>2. CASE i # n
    <3>1. i \in PeriodicTasks /\ i \in Slots
      BY <1>0, <2>2 DEF PeriodicTasks
    <3>2. nextRelease'[i] = nextRelease[i] /\ release'[i] = release[i] /\ period'[i] = period[i]
      BY <1>1, <2>2, <3>1 DEF IInv, TypeOK
    <3> QED BY <3>1, <3>2 DEF IInv, ReleaseOnGrid, WithinHalfRange
  <2> QED BY <2>1, <2>2
<1>5. n \notin ready
  BY <1>0 DEF IInv, CycleSample
<1>6. CycleSample'
  <2>1. \A i \in ready \ done : release'[i] <= cycleStart
    BY <1>0, <1>1, <1>5 DEF IInv, TypeOK, CycleSample
  <2> QED BY <1>0, <1>2, <2>1 DEF IInv, CycleSample
<1>7. NoEarlyRelease' /\ CycleServesReadySet'
  BY <1>0, <1>2 DEF IInv, NoEarlyRelease, CycleServesReadySet
<1> QED BY <1>0, <1>4, <1>6, <1>7 DEF IInv, TableInv

(* The loop runs a due task and moves it to its next release.              *)
LEMMA SchRunSelectIInv == IInv /\ SchRunSelect => IInv'
<1> SUFFICES ASSUME IInv, SchRunSelect PROVE IInv'
  OBVIOUS
<1>0. TableInv'
  BY IInvTable, TableSelect
<1> DEFINE s == SchSelectPendingTask
           f == FirstReleaseAfter(cycleStart, release[s], period[s])
<1>1. /\ pc = "loop" /\ pc' = "callback" /\ executed < MaxTasks /\ Candidates # {}
      /\ selected' = s
      /\ pending' = [pending EXCEPT ![s] = FALSE]
      /\ nextRelease' = [nextRelease EXCEPT
                           ![s] = SchAdvanceNextRelease(now, nextRelease[s], period[s])]
      /\ release' = [release EXCEPT ![s] = f]
      /\ done' = done \cup {s}
      /\ period' = period /\ enabled' = enabled /\ inUse' = inUse /\ now' = now
      /\ executed' = executed /\ clock' = clock /\ cycleStart' = cycleStart /\ ready' = ready
  BY DEF SchRunSelect
<1>2. s \in Candidates
  BY <1>1, PendingChoice DEF IInv
<1>3. Candidates = {i \in Slots : pending[i]} /\ Candidates = ready \ done
  BY <1>1, CandidatesAreReady
<1>4. PeriodicTasks' = PeriodicTasks
  BY <1>1 DEF PeriodicTasks
<1> HIDE DEF s, f
<1>5. /\ s \in Slots /\ s \in PeriodicTasks /\ s \in ready /\ s \notin done
      /\ period[s] \in Nat \ {0} /\ period[s] <= HalfRange
      /\ release[s] \in Nat /\ cycleStart \in Nat /\ clock \in Nat /\ HalfRange \in Nat
      /\ release[s] <= cycleStart /\ cycleStart <= clock
      /\ clock - release[s] < HalfRange
      /\ now = U32(cycleStart) /\ nextRelease[s] = U32(release[s])
  <2>1. s \in PeriodicTasks /\ s \in ready \ done
    BY <1>2, <1>3 DEF Candidates
  <2>2. s \in Slots /\ period[s] # 0
    BY <2>1 DEF PeriodicTasks
  <2>3. period[s] \in Nat /\ release[s] \in Nat /\ cycleStart \in Nat /\ clock \in Nat
    BY <2>2, Constants DEF IInv, TypeOK
  <2>4. release[s] <= cycleStart /\ cycleStart <= clock /\ now = U32(cycleStart)
    BY <1>1, <2>1 DEF IInv, CycleSample
  <2>5. /\ period[s] <= HalfRange /\ clock - release[s] < HalfRange
        /\ nextRelease[s] = U32(release[s])
    BY <2>1 DEF IInv, WithinHalfRange, ReleaseOnGrid
  <2> QED BY <2>1, <2>2, <2>3, <2>4, <2>5, Constants
<1>6. /\ f \in (cycleStart + 1)..(cycleStart + period[s])
      /\ SchAdvanceNextRelease(now, nextRelease[s], period[s]) = U32(f)
  <2>1. f \in (cycleStart + 1)..(cycleStart + period[s])
    BY <1>5, GridStep DEF f
  <2>2. cycleStart - release[s] < HalfRange
    BY <1>5
  <2>3. SchAdvanceNextRelease(U32(cycleStart), U32(release[s]), period[s]) = U32(f)
    BY <1>5, <2>2, AdvanceExact DEF f
  <2> QED BY <1>5, <2>1, <2>3
<1>7. ReleaseOnGrid' /\ WithinHalfRange'
  <2> SUFFICES ASSUME NEW i \in PeriodicTasks
               PROVE  /\ nextRelease'[i] = U32(release'[i]) /\ period[i] <= HalfRange
                      /\ clock - release'[i] < HalfRange
                      /\ release'[i] - clock <= HalfRange
    BY <1>1, <1>4 DEF ReleaseOnGrid, WithinHalfRange
  <2>0. i \in Slots
    BY DEF PeriodicTasks
  <2>1. CASE i = s
    <3>1. nextRelease'[i] = U32(f) /\ release'[i] = f
      BY <1>1, <1>5, <1>6, <2>1 DEF IInv, TypeOK
    <3>2. clock - f < HalfRange /\ f - clock <= HalfRange
      BY <1>5, <1>6
    <3> QED BY <1>5, <2>1, <3>1, <3>2
  <2>2. CASE i # s
    <3>1. nextRelease'[i] = nextRelease[i] /\ release'[i] = release[i]
      BY <1>1, <2>0, <2>2 DEF IInv, TypeOK
    <3> QED BY <3>1 DEF IInv, ReleaseOnGrid, WithinHalfRange
  <2> QED BY <2>1, <2>2
<1>8. CycleSample'
  <2>1. \A i \in ready' \ done' : release'[i] <= cycleStart
    <3> SUFFICES ASSUME NEW i \in ready \ (done \cup {s}) PROVE release'[i] <= cycleStart
      BY <1>1
    <3>1. i \in Slots /\ i # s
      BY DEF IInv, TypeOK
    <3>2. release'[i] = release[i]
      BY <1>1, <3>1 DEF IInv, TypeOK
    <3> QED BY <3>2 DEF IInv, CycleSample
  <2> QED BY <1>1, <1>4, <1>5, <2>1 DEF IInv, CycleSample
<1>9. NoEarlyRelease'
  BY <1>1, <1>5 DEF IInv, NoEarlyRelease
<1>10. CycleServesReadySet'
  <2>1. {i \in Slots : pending'[i]} = ready \ (done \cup {s})
    BY <1>1, <1>3, <1>5 DEF IInv, TypeOK
  <2>2. executed' + 1 = Cardinality(done')
    BY <1>0, <1>1 DEF TableInv, RunInv
  <2> QED BY <1>1, <2>1, <2>2 DEF CycleServesReadySet
<1> QED BY <1>0, <1>7, <1>8, <1>9, <1>10 DEF IInv, TableInv

(* Picking a background task touches no release.                           *)
LEMMA SchRunBackgroundIInv == IInv /\ SchRunBackground => IInv'
<1> SUFFICES ASSUME IInv, SchRunBackground PROVE IInv'
  OBVIOUS
<1>0. TableInv'
  BY IInvTable, TableBackground
<1>1. /\ pc = "background" /\ pc' = "backgroundCallback" /\ now' = now /\ executed' = executed
      /\ clock' = clock /\ release' = release /\ cycleStart' = cycleStart /\ ready' = ready
      /\ done' = done /\ period' = period /\ nextRelease' = nextRelease /\ enabled' = enabled
      /\ pending' = pending /\ inUse' = inUse
  BY DEF SchRunBackground, taskVars, cycleVars
<1>2. PeriodicTasks' = PeriodicTasks
  BY <1>1 DEF PeriodicTasks
<1>3. ReleaseOnGrid' /\ WithinHalfRange'
  BY <1>1, <1>2 DEF IInv, ReleaseOnGrid, WithinHalfRange
<1>4. CycleSample' /\ NoEarlyRelease'
  BY <1>1, <1>2 DEF IInv, CycleSample, NoEarlyRelease
<1>5. CycleServesReadySet'
  BY <1>1 DEF IInv, CycleServesReadySet
<1> QED BY <1>0, <1>3, <1>4, <1>5 DEF IInv, TableInv

-----------------------------------------------------------------------------
(* Every step preserves the inductive invariant.                           *)
LEMMA NextIInv ==
  ASSUME HalfRangeArguments
  PROVE  IInv /\ [Next]_vars => IInv'
<1> SUFFICES ASSUME IInv, [Next]_vars PROVE IInv'
  OBVIOUS
<1>1. CASE SchInit
  BY <1>1, SchInitIInv
<1>2. CASE \E p \in Periods, d \in Delays, q \in Priorities : SchAddTask(p, d, q)
  BY <1>2, SchAddTaskIInv
<1>3. CASE SchRun
  BY <1>3, SchRunEnterIInv, SchRunSelectIInv, SchRunCallbackReturnIInv, SchRunLoopEndIInv,
     SchRunBackgroundIInv, SchRunReturnIInv, SchRunNoBackgroundIInv
     DEF SchRun
<1>4. CASE Tick
  BY <1>4, TickIInv
<1>5. CASE UNCHANGED vars
  <2>1. /\ TableUnchanged /\ pc' = pc /\ now' = now /\ executed' = executed
        /\ selected' = selected /\ cycleStart' = cycleStart /\ ready' = ready /\ done' = done
    BY <1>5 DEF vars, TableUnchanged, runVars, cycleVars
  <2>2. TableInv'
    BY <1>5, IInvTable, TableQuiet
  <2>3. CycleSample' /\ NoEarlyRelease'
    BY <2>1, TablePreserved DEF IInv, CycleSample, NoEarlyRelease
  <2>4. CycleServesReadySet'
    BY <2>1, TablePreserved DEF IInv, CycleServesReadySet
  <2> QED BY <2>1, <2>2, <2>3, <2>4, TablePreserved DEF IInv, TableInv
<1> QED BY <1>1, <1>2, <1>3, <1>4, <1>5 DEF Next

(* The scheduler never leaves the inductive invariant.                     *)
THEOREM InductiveInvariant ==
  ASSUME HalfRangeArguments
  PROVE  Spec => []IInv
<1>1. IInv /\ [Next]_vars => IInv'
  BY NextIInv
<1> QED BY <1>1, InitIInv, PTL DEF Spec

(* Type correctness of the scheduler: indices stay in the table, ticks in  *)
(* 32 bits, the loop counter within SCH_MAX_TASKS.                         *)
THEOREM SchedulerTypeCorrect == Spec => []TypeOK
<1>1. TableInv => TypeOK
  BY DEF TableInv
<1> QED BY <1>1, TableInvariant, PTL

(* task_count and the in_use flags agree, so sch_add_task fails only when  *)
(* the table is full.                                                      *)
THEOREM SchedulerSlotsDense == Spec => []SlotsDense
<1>1. TableInv => SlotsDense
  BY DEF TableInv
<1> QED BY <1>1, TableInvariant, PTL

(* Wrap-around and skipped releases never move a task off its grid.        *)
THEOREM SchedulerReleaseOnGrid ==
  ASSUME HalfRangeArguments
  PROVE  Spec => []ReleaseOnGrid
<1>1. IInv => ReleaseOnGrid
  BY DEF IInv
<1> QED BY <1>1, InductiveInvariant, PTL

(* No periodic callback runs before its release time.                      *)
THEOREM SchedulerNoEarlyRelease ==
  ASSUME HalfRangeArguments
  PROVE  Spec => []NoEarlyRelease
<1>1. IInv => NoEarlyRelease
  BY DEF IInv
<1> QED BY <1>1, InductiveInvariant, PTL

(* One sch_run serves exactly the set that was ready at its entry.         *)
THEOREM SchedulerCycleServesReadySet ==
  ASSUME HalfRangeArguments
  PROVE  Spec => []CycleServesReadySet
<1>1. IInv => CycleServesReadySet
  BY DEF IInv
<1> QED BY <1>1, InductiveInvariant, PTL

(* Callbacks of one sch_run come in order of priority, then of slot.       *)
THEOREM SchedulerPriorityOrder == Spec => []PriorityOrder
<1>1. TableInv => PriorityOrder
  BY DEF TableInv
<1> QED BY <1>1, TableInvariant, PTL

(* Between two runs of a background task no other one runs twice.          *)
THEOREM SchedulerNoDoubleService == Spec => NoDoubleService
<1> DEFINE A == \A i \in BackgroundTasks :
                  pc = "background" /\ pc' = "backgroundCallback" => selected' \notin passed[i]
<1>1. TableInv /\ [Next]_vars => [A]_vars
  <2> SUFFICES ASSUME TableInv, Next, pc = "background", pc' = "backgroundCallback",
                      NEW i \in BackgroundTasks
               PROVE  selected' \notin passed[i]
    OBVIOUS
  <2>1. SchRunBackground
    BY DEF Next, SchInit, SchAddTask, Tick, SchRun, SchRunEnter, SchRunSelect,
           SchRunCallbackReturn, SchRunLoopEnd, SchRunBackgroundReturn, SchRunNoBackground,
           SchRunIdleReturn, LeaveRun, runVars
  <2>2. selected' \in BackgroundTasks /\ Offset(selected') <= Offset(i)
    BY <2>1, BackgroundChoice DEF TableInv, SchRunBackground
  <2>3. \A j \in passed[i] : Offset(i) < Offset(j)
    BY DEF TableInv, PassedBehind
  <2>4. selected' \in Slots /\ i \in Slots /\ nextBackgroundIdx \in Slots
    BY <2>2 DEF TableInv, TypeOK, BackgroundTasks
  <2>5. Offset(selected') \in Int /\ Offset(i) \in Int
    BY <2>4, Constants DEF Offset
  <2> QED BY <2>2, <2>3, <2>5
<1> QED BY <1>1, TableInvariant, PTL DEF NoDoubleService, Spec

-----------------------------------------------------------------------------
(* The selection loops.  A loop is a recursive function of its turns; that *)
(* the function exists, and what it holds after each turn, follow by       *)
(* taking the least turn at which either fails (LeastNatural).             *)

(* One turn of the loop in sch_select_pending_task.                        *)
ScanTurn(scan, i) ==
  IF inUse[i] /\ enabled[i] /\ pending[i] /\ period[i] # 0 /\ Better(scan, i)
    THEN [selected |-> i, best |-> priority[i]] ELSE scan

ScanStart == [selected |-> NoTask, best |-> LowestPriority]

(* The first n turns as a function of the turn.                            *)
ScanTurns(f, n) ==
  f = [k \in 0..n |-> IF k = 0 THEN ScanStart ELSE ScanTurn(f[k - 1], k - 1)]

(* The loop is well defined: what a turn leaves depends only on what the   *)
(* turn before has left.                                                   *)
LEMMA PendingScanTurns == ScanTurns(PendingScan, MaxTasks)
<1> DEFINE T == {n \in Nat : ~\E f : ScanTurns(f, n)}
<1>1. T = {}
  <2> SUFFICES ASSUME T # {} PROVE FALSE
    OBVIOUS
  <2>1. PICK n \in T : \A y \in T : n <= y
    <3> HIDE DEF T
    <3>1. T \subseteq Nat
      BY DEF T
    <3> QED BY <3>1, LeastNatural
  <2>2. CASE n = 0
    <3> DEFINE g == [k \in 0..0 |-> ScanStart]
    <3>1. ScanTurns(g, 0)
      BY DEF ScanTurns
    <3> QED BY <2>2, <3>1
  <2>3. CASE n # 0
    <3>1. n - 1 \in Nat /\ n - 1 \notin T
      BY <2>1, <2>3
    <3>2. PICK f : ScanTurns(f, n - 1)
      BY <3>1
    <3> DEFINE g == [k \in 0..n |-> IF k = n THEN ScanTurn(f[n - 1], n - 1) ELSE f[k]]
    <3>3. \A k \in 0..(n - 1) : f[k] = IF k = 0 THEN ScanStart ELSE ScanTurn(f[k - 1], k - 1)
      BY <3>2 DEF ScanTurns
    <3>4. \A k \in 0..n : g[k] = IF k = 0 THEN ScanStart ELSE ScanTurn(g[k - 1], k - 1)
      <4> SUFFICES ASSUME NEW k \in 0..n
                   PROVE  g[k] = IF k = 0 THEN ScanStart ELSE ScanTurn(g[k - 1], k - 1)
        OBVIOUS
      <4>1. CASE k = n
        <5>1. g[k] = ScanTurn(f[n - 1], n - 1) /\ g[n - 1] = f[n - 1]
          BY <2>3, <3>1, <4>1
        <5> QED BY <2>3, <4>1, <5>1
      <4>2. CASE k # n
        <5>1. g[k] = f[k] /\ k \in 0..(n - 1)
          BY <4>2, <3>1
        <5>2. k # 0 => g[k - 1] = f[k - 1]
          BY <5>1, <3>1
        <5> QED BY <3>3, <5>1, <5>2
      <4> QED BY <4>1, <4>2
    <3>5. ScanTurns(g, n)
      <4>1. g = [k \in 0..n |-> g[k]]
        OBVIOUS
      <4> HIDE DEF g
      <4> QED BY <3>4, <4>1 DEF ScanTurns
    <3> QED BY <3>5, <2>1
  <2> QED BY <2>2, <2>3
<1>2. \E f : ScanTurns(f, MaxTasks)
  BY <1>1, Constants
<1>3. PendingScan = CHOOSE f : ScanTurns(f, MaxTasks)
  BY Zenon DEF PendingScan, ScanTurns, ScanTurn, ScanStart
<1> QED BY <1>2, <1>3, Zenon

(* The most urgent candidate below slot n, if there is one.                *)
Found(scan, n) ==
  LET below == {i \in Candidates : i < n}
      s == scan.selected
  IN IF below = {} THEN s = NoTask
     ELSE /\ s \in below /\ scan.best = priority[s]
          /\ \A j \in below \ {s} : Precedes(s, j)

(* A turn at slot i extends what is known of the slots below i to i.       *)
LEMMA TurnFinds ==
  ASSUME priority \in [Slots -> 0..LowestPriority], NEW i \in Slots, NEW scan, Found(scan, i)
  PROVE  Found(ScanTurn(scan, i), i + 1)
<1> DEFINE C(n) == {j \in Candidates : j < n}
           s == scan.selected
           new == [selected |-> i, best |-> priority[i]]
<1>1. /\ Slots \subseteq Nat /\ NoTask \notin Slots /\ Candidates \subseteq Slots
      /\ \A j \in Slots : priority[j] \in Nat
  BY Constants, SchedulerAssumption DEF Candidates, PeriodicTasks
<1>2. i \in Candidates <=> inUse[i] /\ enabled[i] /\ pending[i] /\ period[i] # 0
  BY DEF Candidates, PeriodicTasks
<1>3. C(i + 1) = IF i \in Candidates THEN C(i) \cup {i} ELSE C(i)
  <2>1. \A j \in Candidates : j < i + 1 <=> j < i \/ j = i
    BY <1>1
  <2>2. ~(i < i)
    BY <1>1
  <2> QED BY <2>1, <2>2, Zenon
<1>4. /\ C(i) = {} => s = NoTask
      /\ C(i) # {} => s \in C(i) /\ scan.best = priority[s] /\ \A j \in C(i) \ {s} : Precedes(s, j)
  BY DEF Found
<1>5. CASE i \notin Candidates
  <2>1. ScanTurn(scan, i) = scan /\ C(i + 1) = C(i)
    BY <1>2, <1>3, <1>5 DEF ScanTurn
  <2> QED BY <1>4, <2>1 DEF Found
<1>6. CASE i \in Candidates /\ Better(scan, i)
  <2>1. ScanTurn(scan, i) = new /\ new.selected = i /\ new.best = priority[i]
    BY <1>2, <1>6 DEF ScanTurn
  <2>2. \A j \in C(i) : Precedes(i, j)
    <3> SUFFICES ASSUME NEW j \in C(i) PROVE Precedes(i, j)
      OBVIOUS
    <3>1. s \in C(i) /\ scan.best = priority[s] /\ (j # s => Precedes(s, j)) /\ s # NoTask
      BY <1>1, <1>4
    <3>2. priority[i] < priority[s]
      <4>1. s < i /\ s \in Nat /\ i \in Nat
        BY <1>1, <3>1
      <4> QED BY <1>6, <3>1, <4>1 DEF Better
    <3>3. priority[i] \in Nat /\ priority[s] \in Nat /\ priority[j] \in Nat
      BY <1>1, <3>1
    <3> QED BY <3>1, <3>2, <3>3 DEF Precedes
  <2>3. i \in C(i + 1) /\ C(i + 1) \ {i} \subseteq C(i)
    BY <1>1, <1>3, <1>6
  <2> QED BY <2>1, <2>2, <2>3 DEF Found
<1>7. CASE i \in Candidates /\ ~Better(scan, i)
  <2>1. ScanTurn(scan, i) = scan
    BY <1>2, <1>7 DEF ScanTurn
  <2>2. s # NoTask /\ ~(priority[i] < scan.best) /\ ~(priority[i] = scan.best /\ i < s)
    BY <1>7 DEF Better
  <2>3. s \in C(i) /\ scan.best = priority[s] /\ \A j \in C(i) \ {s} : Precedes(s, j)
    BY <1>4, <2>2
  <2>4. Precedes(s, i)
    <3>1. s \in Nat /\ i \in Nat /\ s < i /\ priority[i] \in Nat /\ priority[s] \in Nat
      BY <1>1, <2>3
    <3> QED BY <2>2, <2>3, <3>1 DEF Precedes
  <2>5. C(i + 1) # {} /\ s \in C(i + 1) /\ \A j \in C(i + 1) \ {s} : Precedes(s, j)
    BY <1>3, <1>7, <2>3, <2>4
  <2> QED BY <2>1, <2>3, <2>5 DEF Found
<1> QED BY <1>5, <1>6, <1>7

(* After its last turn the loop holds what Scheduler selects.              *)
LEMMA PendingScanResult ==
  ASSUME priority \in [Slots -> 0..LowestPriority]
  PROVE  /\ Candidates = {} => PendingScan[MaxTasks].selected = NoTask
         /\ Candidates # {} => /\ PendingScan[MaxTasks].selected \in Candidates
                               /\ SchSelectPendingTask = PendingScan[MaxTasks].selected
<1> DEFINE T == {n \in 0..MaxTasks : ~Found(PendingScan[n], n)}
<1>0. /\ MaxTasks \in Nat \ {0} /\ Slots \subseteq Nat /\ Slots = 0..(MaxTasks - 1)
      /\ Candidates \subseteq Slots /\ NoTask \notin Slots
      /\ \A j \in Slots : priority[j] \in Nat
  BY Constants, SchedulerAssumption DEF Slots, Candidates, PeriodicTasks
<1>1. \A k \in 0..MaxTasks :
        PendingScan[k] = IF k = 0 THEN ScanStart ELSE ScanTurn(PendingScan[k - 1], k - 1)
  BY PendingScanTurns DEF ScanTurns
<1>2. T = {}
  <2> SUFFICES ASSUME T # {} PROVE FALSE
    OBVIOUS
  <2>1. PICK n \in T : \A y \in T : n <= y
    <3>1. T \subseteq Nat
      BY <1>0
    <3> HIDE DEF T
    <3> QED BY <3>1, LeastNatural
  <2>2. CASE n = 0
    <3>1. {i \in Candidates : i < 0} = {}
      <4>1. \A i \in Candidates : ~(i < 0)
        BY <1>0
      <4> QED BY <4>1, Zenon
    <3>2. PendingScan[0].selected = NoTask
      BY <1>0, <1>1 DEF ScanStart
    <3>3. Found(PendingScan[0], 0)
      BY <3>1, <3>2 DEF Found
    <3> QED BY <2>1, <2>2, <3>3
  <2>3. CASE n # 0
    <3>1. n - 1 \in Slots /\ n - 1 \in 0..MaxTasks /\ n - 1 \notin T /\ (n - 1) + 1 = n
      BY <1>0, <2>1, <2>3
    <3>2. Found(PendingScan[n - 1], n - 1)
      BY <3>1
    <3>3. Found(ScanTurn(PendingScan[n - 1], n - 1), (n - 1) + 1)
      BY <3>1, <3>2, TurnFinds
    <3>4. PendingScan[n] = ScanTurn(PendingScan[n - 1], n - 1)
      BY <1>1, <2>1, <2>3
    <3> QED BY <2>1, <3>1, <3>3, <3>4
  <2> QED BY <2>2, <2>3
<1>3. Found(PendingScan[MaxTasks], MaxTasks)
  BY <1>0, <1>2
<1>4. {i \in Candidates : i < MaxTasks} = Candidates
  <2>1. \A i \in Candidates : i < MaxTasks
    BY <1>0
  <2> QED BY <2>1, Zenon
<1> DEFINE s == PendingScan[MaxTasks].selected
<1>5. /\ Candidates = {} => s = NoTask
      /\ Candidates # {} => s \in Candidates /\ \A j \in Candidates \ {s} : Precedes(s, j)
  BY <1>3, <1>4 DEF Found
<1>6. ASSUME Candidates # {} PROVE SchSelectPendingTask = s
  <2>1. ASSUME NEW t \in Candidates, \A j \in Candidates \ {t} : Precedes(t, j) PROVE t = s
    <3>1. s \in Candidates /\ (t # s => Precedes(s, t) /\ Precedes(t, s))
      BY <1>5, <1>6, <2>1
    <3>2. s \in Nat /\ t \in Nat /\ priority[s] \in Nat /\ priority[t] \in Nat
      BY <1>0, <3>1
    <3> QED BY <3>1, <3>2 DEF Precedes
  <2> HIDE DEF s
  <2> QED BY <1>5, <1>6, <2>1 DEF SchSelectPendingTask
<1> QED BY <1>5, <1>6

(* One turn of the loop in sch_select_background_task, before the rest.    *)
BackgroundTurn(rest, k) ==
  LET idx == (nextBackgroundIdx + k) % MaxTasks
  IN IF inUse[idx] /\ enabled[idx] /\ period[idx] = 0 THEN idx ELSE rest

(* The turns from offset n on as a function of the offset.                 *)
BackgroundTurns(f, n) ==
  f = [k \in n..MaxTasks |-> IF k = MaxTasks THEN NoTask ELSE BackgroundTurn(f[k + 1], k)]

(* This loop is well defined too, from its last turn backwards.            *)
LEMMA BackgroundScanTurns == BackgroundTurns(BackgroundScan, 0)
<1> DEFINE T == {m \in 0..MaxTasks : ~\E f : BackgroundTurns(f, MaxTasks - m)}
<1>0. MaxTasks \in Nat \ {0}
  BY Constants
<1>1. T = {}
  <2> SUFFICES ASSUME T # {} PROVE FALSE
    OBVIOUS
  <2>1. PICK m \in T : \A y \in T : m <= y
    <3>1. T \subseteq Nat
      BY <1>0
    <3> HIDE DEF T
    <3> QED BY <3>1, LeastNatural
  <2>2. CASE m = 0
    <3> DEFINE g == [k \in MaxTasks..MaxTasks |-> NoTask]
    <3>1. BackgroundTurns(g, MaxTasks)
      BY <1>0 DEF BackgroundTurns
    <3>2. MaxTasks - 0 = MaxTasks
      BY <1>0
    <3> QED BY <2>1, <2>2, <3>1, <3>2
  <2>3. CASE m # 0
    <3> DEFINE n == MaxTasks - m
    <3>1. m - 1 \in 0..MaxTasks /\ m - 1 \notin T /\ MaxTasks - (m - 1) = n + 1
      BY <1>0, <2>1, <2>3
    <3>2. PICK f : BackgroundTurns(f, n + 1)
      BY <3>1
    <3>3. n \in 0..(MaxTasks - 1)
      BY <1>0, <2>1, <2>3
    <3> HIDE DEF n
    <3> DEFINE g == [k \in n..MaxTasks |-> IF k = n THEN BackgroundTurn(f[n + 1], n) ELSE f[k]]
               Turn(h, k) == IF k = MaxTasks THEN NoTask ELSE BackgroundTurn(h[k + 1], k)
    <3>4. \A k \in (n + 1)..MaxTasks : f[k] = Turn(f, k)
      BY <3>2 DEF BackgroundTurns
    <3>5. \A k \in n..MaxTasks : g[k] = Turn(g, k)
      <4> SUFFICES ASSUME NEW k \in n..MaxTasks PROVE g[k] = Turn(g, k)
        OBVIOUS
      <4>1. CASE k = n
        <5>1. g[k] = BackgroundTurn(f[n + 1], n) /\ g[n + 1] = f[n + 1] /\ k # MaxTasks
          BY <1>0, <3>3, <4>1
        <5> QED BY <4>1, <5>1
      <4>2. CASE k # n
        <5>1. g[k] = f[k] /\ k \in (n + 1)..MaxTasks
          BY <1>0, <3>3, <4>2
        <5>2. k # MaxTasks => g[k + 1] = f[k + 1]
          BY <1>0, <3>3, <5>1
        <5> QED BY <3>4, <5>1, <5>2
      <4> QED BY <4>1, <4>2
    <3>6. BackgroundTurns(g, n)
      <4>1. g = [k \in n..MaxTasks |-> g[k]]
        OBVIOUS
      <4> HIDE DEF g
      <4> QED BY <3>5, <4>1 DEF BackgroundTurns
    <3> QED BY <3>6, <2>1 DEF n
  <2> QED BY <2>2, <2>3
<1>2. \E f : BackgroundTurns(f, 0)
  <2>1. MaxTasks \in 0..MaxTasks /\ MaxTasks - MaxTasks = 0
    BY <1>0
  <2> QED BY <1>1, <2>1
<1>3. BackgroundScan = CHOOSE f : BackgroundTurns(f, 0)
  BY Zenon DEF BackgroundScan, BackgroundTurns, BackgroundTurn
<1> QED BY <1>2, <1>3, Zenon

(* With m slots and the cursor at c, the turn for offset k visits slot i   *)
(* exactly when i is at offset k.                                          *)
VisitedAt(m, c, k, i) ==
  /\ (c + k) % m \in 0..(m - 1)
  /\ (i - c) % m \in 0..(m - 1)
  /\ i = (c + k) % m <=> (i - c) % m = k

LEMMA VisitedAtOffset ==
  ASSUME NEW m \in Nat \ {0}, NEW c \in 0..(m - 1), NEW k \in 0..(m - 1), NEW i \in 0..(m - 1)
  PROVE  VisitedAt(m, c, k, i)
<1> DEFINE a == IF c + k < m THEN c + k ELSE (c + k) - m
           b == IF i >= c THEN i - c ELSE (i - c) + m
<1>1. (c + k) % m = a
  <2>1. CASE c + k < m
    BY <2>1
  <2>2. CASE ~(c + k < m)
    <3>1. /\ (c + k) - m \in 0..(m - 1) /\ (c + k) - m \in Int /\ 1 \in Int
          /\ ((c + k) - m) + m * 1 = c + k
      BY <2>2
    <3>2. (((c + k) - m) + m * 1) % m = ((c + k) - m) % m
      BY <3>1, ModShift, Zenon
    <3>3. ((c + k) - m) % m = (c + k) - m
      <4> DEFINE w == (c + k) - m
      <4> HIDE DEF w
      <4>1. w \in 0..(m - 1)
        BY <3>1 DEF w
      <4> QED BY <4>1 DEF w
    <3> QED BY <2>2, <3>1, <3>2, <3>3
  <2> QED BY <2>1, <2>2
<1>2. (i - c) % m = b
  <2>1. CASE i >= c
    BY <2>1
  <2>2. CASE i < c
    <3>1. (i - c) + m \in 0..(m - 1) /\ i - c \in Int /\ 1 \in Int /\ m * 1 = m
      BY <2>2
    <3>2. ((i - c) + m * 1) % m = (i - c) % m
      BY <3>1, ModShift, Zenon
    <3>3. ((i - c) + m) % m = (i - c) + m
      <4> DEFINE w == (i - c) + m
      <4> HIDE DEF w
      <4>1. w \in 0..(m - 1)
        BY <3>1 DEF w
      <4> QED BY <4>1 DEF w
    <3> QED BY <2>2, <3>1, <3>2, <3>3
  <2> QED BY <2>1, <2>2
<1>3. a \in 0..(m - 1) /\ b \in 0..(m - 1) /\ (i = a <=> b = k)
  OBVIOUS
<1> QED BY <1>1, <1>2, <1>3 DEF VisitedAt

(* The slot the turn for offset k visits.                                  *)
Visited(k) == (nextBackgroundIdx + k) % MaxTasks

(* The slot that the turn for an offset visits is the one at that offset.  *)
LEMMA SlotAtOffset ==
  ASSUME nextBackgroundIdx \in Slots, NEW k \in Slots, NEW i \in Slots
  PROVE  Visited(k) \in Slots /\ Offset(i) \in Slots /\ (i = Visited(k) <=> Offset(i) = k)
<1>1. VisitedAt(MaxTasks, nextBackgroundIdx, k, i)
  <2>1. /\ MaxTasks \in Nat \ {0} /\ nextBackgroundIdx \in 0..(MaxTasks - 1)
        /\ k \in 0..(MaxTasks - 1) /\ i \in 0..(MaxTasks - 1)
    BY Constants DEF Slots
  <2> QED BY <2>1, VisitedAtOffset, Zenon
<1> QED BY <1>1 DEF VisitedAt, Visited, Offset, Slots

(* The background task at the least offset from n on, if there is one.     *)
Reached(t, n) ==
  LET ahead == {i \in BackgroundTasks : Offset(i) >= n}
  IN IF ahead = {} THEN t = NoTask
     ELSE t \in ahead /\ \A j \in ahead : Offset(t) <= Offset(j)

(* A turn extends what the rest of the loop reaches by one offset.         *)
LEMMA TurnReaches ==
  ASSUME nextBackgroundIdx \in Slots, NEW k \in Slots, NEW rest, Reached(rest, k + 1)
  PROVE  Reached(BackgroundTurn(rest, k), k)
<1> DEFINE idx == Visited(k)
           A(n) == {i \in BackgroundTasks : Offset(i) >= n}
<1>1. /\ MaxTasks \in Nat \ {0} /\ Slots = 0..(MaxTasks - 1) /\ BackgroundTasks \subseteq Slots
      /\ k \in Nat
  BY Constants DEF Slots, BackgroundTasks
<1>2. idx \in Slots /\ \A i \in Slots : Offset(i) \in Nat /\ (i = idx <=> Offset(i) = k)
  BY <1>1, SlotAtOffset
<1>3. idx \in BackgroundTasks <=> inUse[idx] /\ enabled[idx] /\ period[idx] = 0
  BY <1>2 DEF BackgroundTasks
<1>4. BackgroundTurn(rest, k) = IF idx \in BackgroundTasks THEN idx ELSE rest
  BY <1>3 DEF BackgroundTurn, Visited
<1> HIDE DEF idx
<1>5. CASE idx \in BackgroundTasks
  <2>1. idx \in A(k) /\ \A j \in A(k) : Offset(idx) <= Offset(j)
    <3>1. Offset(idx) = k
      BY <1>2
    <3> QED BY <1>1, <1>5, <3>1
  <2> QED BY <1>4, <1>5, <2>1 DEF Reached
<1>6. CASE idx \notin BackgroundTasks
  <2>1. \A i \in BackgroundTasks : Offset(i) >= k <=> Offset(i) >= k + 1
    <3> SUFFICES ASSUME NEW i \in BackgroundTasks PROVE Offset(i) >= k <=> Offset(i) >= k + 1
      OBVIOUS
    <3>1. Offset(i) \in Nat /\ Offset(i) # k
      BY <1>1, <1>2, <1>6
    <3> QED BY <1>1, <3>1
  <2>2. A(k) = A(k + 1)
    BY <2>1, Zenon
  <2> QED BY <1>4, <1>6, <2>2 DEF Reached
<1> QED BY <1>5, <1>6

(* From its first turn on the loop reaches what Scheduler selects.         *)
LEMMA BackgroundScanResult ==
  ASSUME nextBackgroundIdx \in Slots
  PROVE  /\ BackgroundTasks = {} => BackgroundScan[0] = NoTask
         /\ BackgroundTasks # {} => /\ BackgroundScan[0] \in BackgroundTasks
                                    /\ SchSelectBackgroundTask = BackgroundScan[0]
<1> DEFINE T == {m \in 0..MaxTasks : ~Reached(BackgroundScan[MaxTasks - m], MaxTasks - m)}
<1>0. /\ MaxTasks \in Nat \ {0} /\ Slots = 0..(MaxTasks - 1) /\ BackgroundTasks \subseteq Slots
  BY Constants DEF Slots, BackgroundTasks
<1>1. \A k \in 0..MaxTasks :
        BackgroundScan[k] = IF k = MaxTasks THEN NoTask
                            ELSE BackgroundTurn(BackgroundScan[k + 1], k)
  BY BackgroundScanTurns DEF BackgroundTurns
<1>2. \A i \in Slots : Offset(i) \in 0..(MaxTasks - 1)
  BY <1>0, Constants, SlotAtOffset
<1>3. T = {}
  <2> SUFFICES ASSUME T # {} PROVE FALSE
    OBVIOUS
  <2>1. PICK m \in T : \A y \in T : m <= y
    <3>1. T \subseteq Nat
      BY <1>0
    <3> HIDE DEF T
    <3> QED BY <3>1, LeastNatural
  <2>2. CASE m = 0
    <3>1. {i \in BackgroundTasks : Offset(i) >= MaxTasks} = {}
      <4>1. \A i \in BackgroundTasks : ~(Offset(i) >= MaxTasks)
        BY <1>0, <1>2
      <4> QED BY <4>1, Zenon
    <3>2. BackgroundScan[MaxTasks] = NoTask /\ MaxTasks - 0 = MaxTasks
      BY <1>0, <1>1
    <3>3. Reached(BackgroundScan[MaxTasks], MaxTasks)
      BY <3>1, <3>2 DEF Reached
    <3> QED BY <2>1, <2>2, <3>2, <3>3
  <2>3. CASE m # 0
    <3> DEFINE n == MaxTasks - m
    <3>1. /\ m - 1 \in 0..MaxTasks /\ m - 1 \notin T /\ MaxTasks - (m - 1) = n + 1
          /\ n \in Slots /\ n \in 0..MaxTasks /\ n # MaxTasks
      BY <1>0, <2>1, <2>3
    <3>2. Reached(BackgroundScan[n + 1], n + 1)
      BY <3>1
    <3>3. ~Reached(BackgroundScan[n], n)
      BY <2>1
    <3> HIDE DEF n
    <3>4. Reached(BackgroundTurn(BackgroundScan[n + 1], n), n)
      BY <3>1, <3>2, TurnReaches
    <3>5. BackgroundScan[n] = BackgroundTurn(BackgroundScan[n + 1], n)
      BY <1>1, <3>1
    <3> QED BY <3>3, <3>4, <3>5
  <2> QED BY <2>2, <2>3
<1>4. Reached(BackgroundScan[0], 0)
  <2>1. MaxTasks \in 0..MaxTasks /\ MaxTasks - MaxTasks = 0
    BY <1>0
  <2> QED BY <1>3, <2>1
<1>5. {i \in BackgroundTasks : Offset(i) >= 0} = BackgroundTasks
  <2>1. \A i \in BackgroundTasks : Offset(i) >= 0
    BY <1>0, <1>2
  <2> QED BY <2>1, Zenon
<1> DEFINE t == BackgroundScan[0]
<1>6. /\ BackgroundTasks = {} => t = NoTask
      /\ BackgroundTasks # {} => /\ t \in BackgroundTasks
                                 /\ \A j \in BackgroundTasks : Offset(t) <= Offset(j)
  BY <1>4, <1>5 DEF Reached
<1>7. ASSUME BackgroundTasks # {} PROVE SchSelectBackgroundTask = t
  <2>1. ASSUME NEW u \in BackgroundTasks, \A j \in BackgroundTasks : Offset(u) <= Offset(j)
        PROVE  u = t
    <3>1. t \in BackgroundTasks /\ Offset(t) <= Offset(u) /\ Offset(u) <= Offset(t)
      BY <1>6, <1>7, <2>1
    <3> HIDE DEF t
    <3>2. Offset(t) = Offset(u) /\ Offset(t) \in 0..(MaxTasks - 1) /\ t \in Slots /\ u \in Slots
      BY <1>0, <1>2, <3>1
    <3> QED BY <1>0, <3>2, SlotAtOffset
  <2> HIDE DEF t
  <2> QED BY <1>6, <1>7, <2>1 DEF SchSelectBackgroundTask
<1> QED BY <1>6, <1>7

(* The loops of sch_select_pending_task and sch_select_background_task     *)
(* find, turn by turn, exactly the task the specification of sch_run picks *)
(* by the order it promises, for any number of slots, any arguments of     *)
(* sch_add_task and any cursor.                                            *)
THEOREM SchedulerScansAgree == Spec => ScansAgree
<1> DEFINE Agree ==
      /\ pc = "loop" /\ pc' = "callback" => selected' = PendingScan[MaxTasks].selected
      /\ pc = "loop" /\ pc' = "background" =>
           executed = MaxTasks \/ PendingScan[MaxTasks].selected = NoTask
      /\ pc = "background" /\ pc' = "backgroundCallback" => selected' = BackgroundScan[0]
      /\ pc = "background" /\ pc' = "idle" => BackgroundScan[0] = NoTask
<1>1. TableInv /\ [Next]_vars => [Agree]_vars
  <2> SUFFICES ASSUME TableInv, Next PROVE Agree
    BY Zenon
  <2>1. /\ Candidates = {} => PendingScan[MaxTasks].selected = NoTask
        /\ Candidates # {} => SchSelectPendingTask = PendingScan[MaxTasks].selected
    BY PendingScanResult DEF TableInv, TypeOK
  <2>2. /\ BackgroundTasks = {} => BackgroundScan[0] = NoTask
        /\ BackgroundTasks # {} => SchSelectBackgroundTask = BackgroundScan[0]
    BY BackgroundScanResult DEF TableInv, TypeOK
  <2> DEFINE P == PendingScan[MaxTasks].selected
             B == BackgroundScan[0]
  <2> HIDE DEF P, B
  <2>3. /\ pc = "loop" /\ pc' = "callback" => Candidates # {} /\ selected' = SchSelectPendingTask
        /\ pc = "loop" /\ pc' = "background" => executed = MaxTasks \/ Candidates = {}
        /\ pc = "background" /\ pc' = "backgroundCallback" =>
             BackgroundTasks # {} /\ selected' = SchSelectBackgroundTask
        /\ pc = "background" /\ pc' = "idle" => BackgroundTasks = {}
    BY DEF Next, SchInit, SchAddTask, SchRun, SchRunEnter, SchRunSelect, SchRunCallbackReturn,
       SchRunLoopEnd, SchRunBackground, SchRunBackgroundReturn, SchRunNoBackground,
       SchRunIdleReturn, Tick, LeaveRun, runVars
  <2> QED BY <2>1, <2>2, <2>3
<1> QED BY <1>1, TableInvariant, PTL DEF Spec, ScansAgree

-----------------------------------------------------------------------------
(* The scheduler inside the instrumented build.                            *)

(* A step of the instrumented build is a step of Scheduler or leaves the   *)
(* scheduler alone.                                                        *)
LEMMA StatsStepRefines == [StatsNext]_statsVars => [Next]_vars
<1> SUFFICES ASSUME [StatsNext]_statsVars PROVE [Next]_vars
  OBVIOUS
<1>1. CASE StatsSchInit
  BY <1>1 DEF StatsSchInit, Next
<1>2. ASSUME NEW p \in Periods, NEW d \in Delays, NEW q \in Priorities, StatsAddTask(p, d, q)
      PROVE  Next
  BY <1>2 DEF StatsAddTask, Next
<1>3. CASE StatsEnter
  BY <1>3 DEF StatsEnter, SchRun, Next
<1>4. CASE StatsSelect
  BY <1>4 DEF StatsSelect, SchRun, Next
<1>5. CASE ExecStart \/ ExecEnd \/ StatsUpdate
  BY <1>5 DEF ExecStart, ExecEnd, StatsUpdate
<1>6. CASE StatsOverrun
  BY <1>6 DEF StatsOverrun, SchRun, Next
<1>7. CASE StatsInTime
  BY <1>7 DEF StatsInTime, SchRun, Next
<1>8. CASE StatsBackgroundReturn
  BY <1>8 DEF StatsBackgroundReturn, SchRun, Next
<1>9. CASE StatsNoBackground
  BY <1>9 DEF StatsNoBackground, SchRun, Next
<1>10. CASE StatsPlainStep
  BY <1>10 DEF StatsPlainStep, SchRun, Next
<1>11. CASE SchResetStats
  BY <1>11 DEF SchResetStats
<1>12. ASSUME NEW h \in BOOLEAN, SchSetTraceHook(h) PROVE UNCHANGED vars
  BY <1>12 DEF SchSetTraceHook
<1>13. CASE UNCHANGED statsVars
  BY <1>13 DEF statsVars
<1> QED
  BY <1>1, <1>2, <1>3, <1>4, <1>5, <1>6, <1>7, <1>8, <1>9, <1>10, <1>11, <1>12, <1>13
  DEF StatsNext

(* What is known of the scheduler: the table whatever the arguments of     *)
(* sch_add_task, the release times if they are within half a range.        *)
SchInv == TableInv /\ (HalfRangeArguments => IInv)

(* The invariants of the scheduler therefore hold here, too.               *)
LEMMA SchedulerInvariant == StatsSpec => []SchInv
<1>1. StatsInit => SchInv
  BY TableInit, InitIInv DEF SchInv, StatsInit
<1>2. SchInv /\ [StatsNext]_statsVars => SchInv'
  BY StatsStepRefines, TableStep, NextIInv DEF SchInv
<1> QED BY <1>1, <1>2, PTL DEF StatsSpec

-----------------------------------------------------------------------------
(* Records of counters.                                                    *)

Counters == [DOMAIN ClearSlot -> 0..(TickMod - 1)]

Truths == [runs : Nat, overruns : Nat, start : Nat, end : Nat, longest : Nat, total : Nat]

(* The cleared records.                                                    *)
LEMMA ClearSlotFields ==
  /\ DOMAIN ClearSlot = {"run_count", "miss_count", "overrun_count", "last_start_tick",
                         "last_end_tick", "last_exec_ticks", "max_exec_ticks", "total_exec_ticks"}
  /\ ClearSlot \in Counters
  /\ ClearSlot.run_count = 0 /\ ClearSlot.miss_count = 0 /\ ClearSlot.overrun_count = 0
  /\ ClearSlot.last_start_tick = 0 /\ ClearSlot.last_end_tick = 0
  /\ ClearSlot.last_exec_ticks = 0 /\ ClearSlot.max_exec_ticks = 0
  /\ ClearSlot.total_exec_ticks = 0
<1>1. 0 \in 0..(TickMod - 1)
  BY Constants
<1>2. DOMAIN ClearSlot = {"run_count", "miss_count", "overrun_count", "last_start_tick",
                          "last_end_tick", "last_exec_ticks", "max_exec_ticks", "total_exec_ticks"}
  BY DEF ClearSlot
<1>3. ClearSlot \in Counters
  BY <1>1, <1>2 DEF ClearSlot, Counters
<1> QED BY <1>2, <1>3 DEF ClearSlot

(* Nothing has happened in a cleared slot.                                 *)
LEMMA NoTruthFields ==
  /\ NoTruth \in Truths
  /\ NoTruth.runs = 0 /\ NoTruth.overruns = 0 /\ NoTruth.start = 0 /\ NoTruth.end = 0
  /\ NoTruth.longest = 0 /\ NoTruth.total = 0
  /\ U32(0) = 0
<1>1. U32(0) = 0
  BY Constants DEF U32
<1> QED BY <1>1 DEF NoTruth, Truths

(* A single counter is stored.                                             *)
LEMMA StoreStart ==
  ASSUME NEW c \in Counters, NEW v \in 0..(TickMod - 1),
         NEW d, d = [c EXCEPT !.last_start_tick = v]
  PROVE  /\ d \in Counters /\ d.last_start_tick = v
         /\ d.run_count = c.run_count /\ d.miss_count = c.miss_count
         /\ d.overrun_count = c.overrun_count /\ d.last_end_tick = c.last_end_tick
         /\ d.last_exec_ticks = c.last_exec_ticks /\ d.max_exec_ticks = c.max_exec_ticks
         /\ d.total_exec_ticks = c.total_exec_ticks
BY ClearSlotFields DEF Counters

(* The same for the overrun counter.                                       *)
LEMMA StoreOverrun ==
  ASSUME NEW c \in Counters, NEW v \in 0..(TickMod - 1),
         NEW d, d = [c EXCEPT !.overrun_count = v]
  PROVE  /\ d \in Counters /\ d.overrun_count = v
         /\ d.run_count = c.run_count /\ d.miss_count = c.miss_count
         /\ d.last_start_tick = c.last_start_tick /\ d.last_end_tick = c.last_end_tick
         /\ d.last_exec_ticks = c.last_exec_ticks /\ d.max_exec_ticks = c.max_exec_ticks
         /\ d.total_exec_ticks = c.total_exec_ticks
BY ClearSlotFields DEF Counters

(* The history gains an overrun, or not.                                   *)
LEMMA TruthOverrun ==
  ASSUME NEW t \in Truths, NEW n \in Nat, NEW d, d = [t EXCEPT !.overruns = n]
  PROVE  /\ d \in Truths /\ d.overruns = n
         /\ d.runs = t.runs /\ d.start = t.start /\ d.end = t.end /\ d.total = t.total
         /\ d.longest = t.longest
BY DEF Truths

-----------------------------------------------------------------------------
(* The inductive invariant of the instrumentation.                         *)

TruthOK == truth \in [Slots -> Truths]

(* A callback belongs to a slot in use, which no sch_add_task clears.      *)
RunningSlot == phase # "none" => selected \in Slots /\ inUse[selected]

(* An update no reset has hit works on the counters as they are.           *)
LoadedInv == phase \in {"update", "ended"} /\ hit # "update" => loaded = stats[selected]

(* Slot i is not the one whose update is half done.                        *)
Settled(i) == ~(phase = "update" /\ selected = i)

(* The counts, and what the update in progress will make of them.          *)
CountInv ==
  \A i \in Slots :
    /\ stats[i].miss_count = 0
    /\ "count" \notin spoilt[i] =>
         /\ HalfRangeArguments => stats[i].overrun_count = U32(truth[i].overruns)
         /\ Settled(i) => stats[i].run_count = U32(truth[i].runs)

CountPending ==
  phase = "update" /\ hit # "update" /\ "count" \notin spoilt[selected] =>
    Increment(stats[selected].run_count) = U32(truth[selected].runs)

(* What the hook last heard, by where the callback is.                     *)
Heard(e, i) == [event |-> e, id |-> i]

TraceInv ==
  /\ ~hook => trace = NoEvent
  /\ trace # NoEvent =>
       /\ phase \in {"body", "update"} => trace = Heard("START", selected)
       /\ phase = "ended" => trace = Heard("END", selected)
       /\ phase \in {"none", "start"} =>
            trace.event \in {"END", "OVERRUN"} \/ trace = Heard("IDLE", NoTask)

StatsInv ==
  /\ StatsTypeOK /\ TruthOK /\ RunningSlot /\ LoadedInv
  /\ CountInv /\ CountPending /\ TraceInv

(* The times, and what the update in progress will make of them.           *)
TimeInv ==
  \A i \in Slots : Settled(i) =>
    /\ "time" \notin spoilt[i] => /\ stats[i].total_exec_ticks = U32(truth[i].total)
                                  /\ stats[i].max_exec_ticks = truth[i].longest
    /\ "last" \notin spoilt[i] =>
         /\ stats[i].last_end_tick = U32(truth[i].end)
         /\ stats[i].last_exec_ticks = U32(truth[i].end - truth[i].start)
         /\ ~(phase = "body" /\ selected = i) => stats[i].last_start_tick = U32(truth[i].start)

TimePending ==
  /\ phase = "body" /\ hit = "none" => stats[selected].last_start_tick = U32(startedAt)
  /\ phase = "update" /\ hit = "none" =>
       /\ execEnd = U32(truth[selected].end)
       /\ execTicks = U32(truth[selected].end - truth[selected].start)
       /\ stats[selected].last_start_tick = U32(truth[selected].start)
       /\ "time" \notin spoilt[selected] =>
            /\ Accumulate(stats[selected].total_exec_ticks) = U32(truth[selected].total)
            /\ Larger(stats[selected].max_exec_ticks) = truth[selected].longest

(* The words of the state.                                                 *)
LEMMA StatsTypes ==
  ASSUME SchInv, StatsInv
  PROVE  /\ stats \in [Slots -> Counters] /\ loaded \in Counters
         /\ execEnd \in 0..(TickMod - 1) /\ execTicks \in 0..(TickMod - 1)
         /\ truth \in [Slots -> Truths] /\ executions \in Nat
         /\ clock \in Nat /\ startedAt \in Nat /\ startedAt <= clock
         /\ U32(clock) \in 0..(TickMod - 1)
         /\ spoilt \in [Slots -> SUBSET {"count", "time", "last"}]
<1>1. clock \in Nat /\ StatsTypeOK /\ TruthOK
  BY DEF SchInv, TableInv, TypeOK, StatsInv
<1>2. U32(clock) \in 0..(TickMod - 1)
  BY <1>1, U32Type
<1>3. execEnd \in 0..(TickMod - 1) /\ execTicks \in 0..(TickMod - 1)
  BY <1>1 DEF StatsTypeOK
<1>4. startedAt \in 0..clock
  BY <1>1 DEF StatsTypeOK
<1> QED BY <1>1, <1>2, <1>3, <1>4 DEF StatsTypeOK, TruthOK, Counters

(* The value of a counter.                                                 *)
LEMMA CounterValue ==
  ASSUME NEW c \in Counters
  PROVE  /\ c.run_count \in 0..(TickMod - 1) /\ c.overrun_count \in 0..(TickMod - 1)
         /\ c.total_exec_ticks \in 0..(TickMod - 1) /\ c.max_exec_ticks \in 0..(TickMod - 1)
         /\ c.last_start_tick \in 0..(TickMod - 1)
BY ClearSlotFields DEF Counters

(* A 32-bit sum is the reduced sum.                                        *)
LEMMA U32Sum ==
  ASSUME NEW a \in Int, NEW b \in Int
  PROVE  /\ U32(U32(a) + b) = U32(a + b) /\ U32(U32(a) + U32(b)) = U32(a + b)
         /\ U32(U32(a) - U32(b)) = U32(a - b)
<1>1. TickMod \in Nat \ {0}
  BY Constants
<1> QED BY <1>1, ModAdd DEF U32

-----------------------------------------------------------------------------
(* How the steps change the instrumentation.                               *)

InCallback == pc \in {"callback", "backgroundCallback"}

(* The invariant at start.                                                 *)
LEMMA StatsInitInv == StatsInit => StatsInv
<1> SUFFICES ASSUME StatsInit PROVE StatsInv
  OBVIOUS
<1>1. /\ stats = [i \in Slots |-> ClearSlot] /\ hook = FALSE /\ phase = "none"
      /\ loaded = ClearSlot /\ execEnd = 0 /\ execTicks = 0 /\ trace = NoEvent
      /\ executions = 0 /\ truth = [i \in Slots |-> NoTruth] /\ startedAt = 0
      /\ hit = "none" /\ spoilt = [i \in Slots |-> {}] /\ pc = "outside" /\ clock \in Nat
  BY SchedulerAssumption DEF StatsInit, Init
<1>2. StatsTypeOK
  <2>1. stats \in [Slots -> Counters] /\ loaded \in Counters
    BY <1>1, ClearSlotFields
  <2>2. {execEnd, execTicks} \subseteq 0..(TickMod - 1) /\ startedAt \in 0..clock
    BY <1>1, Constants
  <2>3. trace.event = "none" /\ trace.id = NoTask
    BY <1>1 DEF NoEvent
  <2>4. spoilt \in [Slots -> SUBSET {"count", "time", "last"}] /\ DOMAIN truth = Slots
    BY <1>1
  <2> QED BY <1>1, <2>1, <2>2, <2>3, <2>4 DEF StatsTypeOK, Counters
<1>3. TruthOK
  BY <1>1, NoTruthFields DEF TruthOK
<1>4. CountInv
  BY <1>1, ClearSlotFields, NoTruthFields DEF CountInv
<1>5. TraceInv
  BY <1>1 DEF TraceInv
<1> QED BY <1>1, <1>2, <1>3, <1>4, <1>5 DEF StatsInv, RunningSlot, LoadedInv, CountPending

(* A step that changes no counter keeps what is said of them, whatever the *)
(* hook hears of it.                                                       *)
LEMMA QuietStep ==
  ASSUME StatsInv,
         UNCHANGED <<stats, phase, loaded, execEnd, execTicks, executions, truth, startedAt,
                     hit, spoilt>>,
         InCallback' <=> InCallback,
         phase # "none" => selected' = selected /\ inUse'[selected],
         clock \in Nat, clock' \in Nat, clock <= clock',
         hook' \in BOOLEAN,
         trace'.event \in {"none", "START", "END", "MISS", "OVERRUN", "IDLE"},
         trace'.id \in Slots \cup {NoTask},
         TraceInv'
  PROVE  StatsInv'
<1>1. StatsTypeOK'
  BY DEF StatsInv, StatsTypeOK, InCallback
<1>2. TruthOK' /\ RunningSlot' /\ LoadedInv' /\ CountPending'
  BY DEF StatsInv, TruthOK, RunningSlot, LoadedInv, CountPending, Increment
<1>3. CountInv'
  BY DEF StatsInv, CountInv, Settled
<1> QED BY <1>1, <1>2, <1>3 DEF StatsInv

(* The same for the times.                                                 *)
LEMMA QuietTimes ==
  ASSUME TimeInv, TimePending,
         UNCHANGED <<stats, phase, execEnd, execTicks, truth, startedAt, hit, spoilt>>,
         phase # "none" => selected' = selected
  PROVE  TimeInv' /\ TimePending'
<1>1. TimeInv'
  BY DEF TimeInv, Settled
<1>2. TimePending'
  BY DEF TimePending, Accumulate, Larger
<1> QED BY <1>1, <1>2

(* What an unchanged trace still says.                                     *)
LEMMA SameTrace ==
  ASSUME StatsInv, UNCHANGED <<trace, hook, phase>>, phase # "none" => selected' = selected
  PROVE  /\ TraceInv' /\ hook' \in BOOLEAN
         /\ trace'.event \in {"none", "START", "END", "MISS", "OVERRUN", "IDLE"}
         /\ trace'.id \in Slots \cup {NoTask}
<1>1. TraceInv'
  BY DEF StatsInv, TraceInv
<1> QED BY <1>1 DEF StatsInv, StatsTypeOK

(* sch_init and sch_reset_stats clear every counter.                       *)
LEMMA ClearedStep ==
  ASSUME StatsInv,
         stats' = [i \in Slots |-> ClearSlot], truth' = [i \in Slots |-> NoTruth],
         spoilt' = [i \in Slots |-> {}],
         UNCHANGED <<phase, loaded, execEnd, execTicks, startedAt, pc, selected, clock>>,
         executions' \in Nat,
         hit' \in {"none", "body", "update"},
         phase \in {"update", "ended"} => hit' = "update",
         phase # "none" => inUse'[selected],
         hook' \in BOOLEAN,
         trace'.event \in {"none", "START", "END", "MISS", "OVERRUN", "IDLE"},
         trace'.id \in Slots \cup {NoTask},
         TraceInv'
  PROVE  StatsInv'
<1>1. StatsTypeOK'
  BY ClearSlotFields DEF StatsInv, StatsTypeOK, Counters
<1>2. TruthOK'
  BY NoTruthFields DEF TruthOK
<1>3. RunningSlot' /\ LoadedInv' /\ CountPending'
  BY DEF StatsInv, RunningSlot, LoadedInv, CountPending
<1>4. CountInv'
  BY ClearSlotFields, NoTruthFields DEF CountInv
<1> QED BY <1>1, <1>2, <1>3, <1>4 DEF StatsInv

(* Cleared times are the times of no execution.                            *)
LEMMA ClearedTimes ==
  ASSUME TimePending,
         stats' = [i \in Slots |-> ClearSlot], truth' = [i \in Slots |-> NoTruth],
         UNCHANGED phase, phase \in {"body", "update"} => hit' # "none"
  PROVE  TimeInv' /\ TimePending'
<1>1. TimeInv'
  BY ClearSlotFields, NoTruthFields DEF TimeInv
<1>2. TimePending'
  BY DEF TimePending
<1> QED BY <1>1, <1>2

(* sch_reset_stats.                                                        *)
LEMMA ResetStep ==
  ASSUME SchInv, StatsInv, SchResetStats
  PROVE  StatsInv' /\ (TimePending => TimeInv' /\ TimePending')
<1>1. /\ stats' = [i \in Slots |-> ClearSlot] /\ truth' = [i \in Slots |-> NoTruth]
      /\ spoilt' = [i \in Slots |-> {}]
      /\ UNCHANGED <<phase, loaded, execEnd, execTicks, startedAt, pc, selected, clock, inUse,
                     hook, trace, executions>>
  BY DEF SchResetStats, vars, runVars, taskVars
<1>2. hit \in {"none", "body", "update"} /\ executions \in Nat
  BY DEF StatsInv, StatsTypeOK
<1>3. /\ phase \in {"update", "ended"} => hit' = "update"
      /\ phase = "body" => hit' = "body"
      /\ hit' \in {"none", "body", "update"}
  BY <1>2 DEF SchResetStats
<1>4. /\ TraceInv' /\ hook' \in BOOLEAN
      /\ trace'.event \in {"none", "START", "END", "MISS", "OVERRUN", "IDLE"}
      /\ trace'.id \in Slots \cup {NoTask}
  BY <1>1, SameTrace
<1>5. phase # "none" => inUse'[selected]
  BY <1>1 DEF StatsInv, RunningSlot
<1>6. StatsInv'
  BY <1>1, <1>2, <1>3, <1>4, <1>5, ClearedStep
<1>7. phase \in {"body", "update"} => hit' # "none"
  BY <1>3
<1> QED BY <1>1, <1>6, <1>7, ClearedTimes

(* sch_init, between two runs.                                             *)
LEMMA StatsSchInitStep ==
  ASSUME SchInv, StatsInv, StatsSchInit
  PROVE  StatsInv' /\ (TimePending => TimeInv' /\ TimePending')
<1>1. /\ stats' = [i \in Slots |-> ClearSlot] /\ truth' = [i \in Slots |-> NoTruth]
      /\ spoilt' = [i \in Slots |-> {}] /\ pc = "outside"
      /\ UNCHANGED <<phase, loaded, execEnd, execTicks, startedAt, hit, pc, selected, clock>>
      /\ hook' = FALSE /\ trace' = NoEvent /\ executions' = 0
  BY DEF StatsSchInit, SchInit, runVars
<1>2. phase = "none" /\ hit \in {"none", "body", "update"}
  BY <1>1 DEF StatsInv, StatsTypeOK
<1>3. /\ TraceInv' /\ hook' \in BOOLEAN
      /\ trace'.event \in {"none", "START", "END", "MISS", "OVERRUN", "IDLE"}
      /\ trace'.id \in Slots \cup {NoTask}
  BY <1>1 DEF TraceInv, NoEvent
<1>4. StatsInv'
  BY <1>1, <1>2, <1>3, ClearedStep
<1> QED BY <1>1, <1>2, <1>4, ClearedTimes

(* The entry of a run finds no task pending, so it counts no miss.         *)
LEMMA EnterStep ==
  ASSUME SchInv, StatsInv, StatsEnter
  PROVE  /\ StatsInv' /\ (TimeInv /\ TimePending => TimeInv' /\ TimePending')
         /\ trace' = trace
<1>1. pc = "outside" /\ pc' = "loop" /\ clock' = clock /\ selected' = selected /\ inUse' = inUse
  BY DEF StatsEnter, SchRunEnter
<1>2. \A i \in Slots : ~pending[i]
  BY <1>1 DEF SchInv, TableInv, RunInv
<1>3. Missed(now') = {}
  BY <1>2 DEF Missed, PeriodicTasks
<1>4. stats' = stats
  <2>1. stats \in [Slots -> Counters]
    BY StatsTypes
  <2>2. stats' = [i \in Slots |-> stats[i]]
    BY <1>3 DEF StatsEnter
  <2> QED BY <2>1, <2>2
<1>5. UNCHANGED <<trace, hook, phase, loaded, execEnd, execTicks, executions, truth, startedAt,
                  hit, spoilt>>
  BY <1>3 DEF StatsEnter
<1>6. phase = "none" /\ clock \in Nat
  BY <1>1 DEF StatsInv, StatsTypeOK, SchInv, TableInv, TypeOK
<1>7. InCallback' <=> InCallback
  BY <1>1 DEF InCallback
<1>8. StatsInv'
  BY <1>1, <1>4, <1>5, <1>6, <1>7, SameTrace, QuietStep
<1> QED BY <1>4, <1>5, <1>6, <1>8, QuietTimes

(* No background task: the hook hears IDLE.                                *)
LEMMA NoBackgroundStep ==
  ASSUME SchInv, StatsInv, StatsNoBackground
  PROVE  StatsInv' /\ (TimeInv /\ TimePending => TimeInv' /\ TimePending')
<1>1. /\ pc = "background" /\ pc' = "idle" /\ clock' = clock
      /\ UNCHANGED <<stats, hook, phase, loaded, execEnd, execTicks, executions, truth,
                     startedAt, hit, spoilt>>
      /\ trace' = IF hook THEN [event |-> "IDLE", id |-> NoTask] ELSE trace
  BY DEF StatsNoBackground, SchRunNoBackground, instrVars, SchTraceEmit
<1>2. phase = "none" /\ clock \in Nat /\ hook \in BOOLEAN /\ TraceInv
  BY <1>1 DEF StatsInv, StatsTypeOK, SchInv, TableInv, TypeOK
<1>3. TraceInv'
  BY <1>1, <1>2 DEF TraceInv, Heard
<1>4. /\ trace'.event \in {"none", "START", "END", "MISS", "OVERRUN", "IDLE"}
      /\ trace'.id \in Slots \cup {NoTask}
  BY <1>1 DEF StatsInv, StatsTypeOK
<1>5. InCallback' <=> InCallback
  BY <1>1 DEF InCallback
<1>6. StatsInv'
  BY <1>1, <1>2, <1>3, <1>4, <1>5, QuietStep
<1> QED BY <1>1, <1>2, <1>6, QuietTimes

(* The steps without instrumentation, the timer's included.                *)
LEMMA PlainStep ==
  ASSUME SchInv, StatsInv, StatsPlainStep \/ UNCHANGED statsVars
  PROVE  /\ StatsInv' /\ (TimeInv /\ TimePending => TimeInv' /\ TimePending')
         /\ trace' = trace
<1>1. UNCHANGED <<stats, hook, phase, loaded, execEnd, execTicks, trace, executions, truth,
                  startedAt, hit, spoilt>>
  BY DEF StatsPlainStep, statsVars, instrVars, statsHist
<1>2. clock \in Nat
  BY DEF SchInv, TableInv, TypeOK
<1>3. /\ InCallback' <=> InCallback
      /\ InCallback => selected' = selected /\ inUse' = inUse
      /\ clock' \in Nat /\ clock <= clock'
  <2>1. CASE SchRunLoopEnd
    BY <1>2, <2>1 DEF SchRunLoopEnd, InCallback, taskVars
  <2>2. CASE SchRunIdleReturn
    BY <1>2, <2>2 DEF SchRunIdleReturn, LeaveRun, InCallback, taskVars
  <2>3. CASE Tick
    BY <1>2, <2>3 DEF Tick, InCallback, taskVars, runVars
  <2>4. CASE UNCHANGED statsVars
    BY <1>2, <2>4 DEF statsVars, vars, InCallback, taskVars, runVars
  <2> QED BY <2>1, <2>2, <2>3, <2>4 DEF StatsPlainStep
<1>4. phase # "none" => selected' = selected /\ inUse'[selected]
  BY <1>3 DEF StatsInv, StatsTypeOK, RunningSlot, InCallback
<1>5. StatsInv'
  BY <1>1, <1>2, <1>3, <1>4, SameTrace, QuietStep
<1> QED BY <1>1, <1>4, <1>5, QuietTimes

(* A hook is registered or removed: nothing has been heard yet.            *)
LEMMA HookStep ==
  ASSUME SchInv, StatsInv, NEW h \in BOOLEAN, SchSetTraceHook(h)
  PROVE  StatsInv' /\ (TimeInv /\ TimePending => TimeInv' /\ TimePending')
<1>1. /\ UNCHANGED <<stats, phase, loaded, execEnd, execTicks, executions, truth, startedAt,
                     hit, spoilt, pc, selected, inUse, clock>>
      /\ hook' = h /\ trace' = NoEvent
  BY DEF SchSetTraceHook, vars, taskVars, runVars
<1>2. clock \in Nat /\ (phase # "none" => inUse'[selected])
  BY <1>1 DEF SchInv, TableInv, TypeOK, StatsInv, RunningSlot
<1>3. /\ TraceInv' /\ trace'.event = "none" /\ trace'.id = NoTask
  BY <1>1 DEF TraceInv, NoEvent
<1>4. InCallback' <=> InCallback
  BY <1>1 DEF InCallback
<1>5. StatsInv'
  BY <1>1, <1>2, <1>3, <1>4, QuietStep
<1> QED BY <1>1, <1>5, QuietTimes

(* sch_add_task clears a slot that is not in use, so not the one of a      *)
(* callback in progress.                                                   *)
LEMMA AddTaskStep ==
  ASSUME SchInv, StatsInv, NEW p \in Periods, NEW d \in Delays, NEW q \in Priorities,
         StatsAddTask(p, d, q)
  PROVE  /\ StatsInv' /\ (TimeInv /\ TimePending => TimeInv' /\ TimePending')
         /\ trace' = trace
<1> DEFINE f == FreeSlot
<1>1. f \in Slots /\ ~inUse[f] /\ inUse' = [inUse EXCEPT ![f] = TRUE]
  <2>1. SchAddTask(p, d, q) /\ taskCount < MaxTasks
    BY DEF StatsAddTask, SchAddTask
  <2>2. f = taskCount /\ taskCount \in Slots
    BY <2>1, FreeSlotIsCount DEF SchInv, TableInv
  <2>3. ~inUse[taskCount]
    BY <2>2, Constants DEF SchInv, TableInv, SlotsDense
  <2>4. inUse' = [inUse EXCEPT ![f] = TRUE]
    BY <2>1 DEF SchAddTask
  <2> QED BY <2>2, <2>3, <2>4
<1>2. /\ UNCHANGED <<pc, selected, clock, hook, phase, loaded, execEnd, execTicks, trace,
                     executions, startedAt, hit>>
      /\ stats' = [stats EXCEPT ![f] = ClearSlot] /\ truth' = [truth EXCEPT ![f] = NoTruth]
      /\ spoilt' = [spoilt EXCEPT ![f] = {}]
  BY DEF StatsAddTask, SchAddTask, runVars
<1>3. /\ stats \in [Slots -> Counters] /\ truth \in [Slots -> Truths]
      /\ spoilt \in [Slots -> SUBSET {"count", "time", "last"}] /\ inUse \in [Slots -> BOOLEAN]
  BY StatsTypes DEF SchInv, TableInv, TypeOK
<1> HIDE DEF f
<1>4. phase # "none" => selected \in Slots /\ inUse[selected] /\ selected # f
  BY <1>1 DEF StatsInv, RunningSlot
<1>5. /\ stats'[f] = ClearSlot /\ truth'[f] = NoTruth
      /\ \A i \in Slots \ {f} :
           stats'[i] = stats[i] /\ truth'[i] = truth[i] /\ spoilt'[i] = spoilt[i]
  BY <1>1, <1>2, <1>3
<1>6. StatsTypeOK'
  <2>1. stats' \in [Slots -> Counters] /\ spoilt' \in [Slots -> SUBSET {"count", "time", "last"}]
        /\ DOMAIN truth' = Slots
    BY <1>2, <1>3, ClearSlotFields
  <2> QED BY <1>2, <2>1 DEF StatsInv, StatsTypeOK, Counters
<1>7. TruthOK'
  BY <1>2, <1>3, NoTruthFields DEF TruthOK
<1>8. RunningSlot' /\ LoadedInv'
  BY <1>1, <1>2, <1>3, <1>4, <1>5 DEF StatsInv, RunningSlot, LoadedInv
<1>9. CountInv'
  BY <1>2, <1>5, ClearSlotFields, NoTruthFields DEF StatsInv, CountInv, Settled
<1>10. CountPending'
  BY <1>2, <1>4, <1>5 DEF StatsInv, CountPending, Increment
<1>11. TraceInv'
  BY <1>2, SameTrace
<1>12. TimeInv => TimeInv'
  BY <1>2, <1>5, ClearSlotFields, NoTruthFields DEF TimeInv, Settled
<1>13. TimePending => TimePending'
  BY <1>2, <1>4, <1>5 DEF TimePending, Accumulate, Larger
<1> QED BY <1>2, <1>6, <1>7, <1>8, <1>9, <1>10, <1>11, <1>12, <1>13 DEF StatsInv

-----------------------------------------------------------------------------
(* The steps of one execution.                                             *)

(* A callback is selected: its slot is in use.                             *)
LEMMA SelectStep ==
  ASSUME SchInv, StatsInv, StatsSelect
  PROVE  /\ StatsInv' /\ (TimeInv /\ TimePending => TimeInv' /\ TimePending')
         /\ trace' = trace
<1>1. /\ UNCHANGED <<stats, hook, loaded, execEnd, execTicks, trace, executions, truth,
                     startedAt, hit, spoilt>>
      /\ phase' = "start"
  BY DEF StatsSelect, statsHist
<1>2. /\ selected' \in Slots /\ inUse[selected'] /\ inUse' = inUse /\ clock' = clock
      /\ ~InCallback /\ InCallback'
  <2>1. CASE SchRunSelect
    <3>1. /\ selected' = SchSelectPendingTask /\ inUse' = inUse /\ clock' = clock
          /\ pc = "loop" /\ pc' = "callback" /\ Candidates # {}
      BY <2>1 DEF SchRunSelect
    <3>2. SchSelectPendingTask \in Candidates
      BY <3>1, PendingChoice DEF SchInv, TableInv
    <3> QED BY <3>1, <3>2 DEF Candidates, PeriodicTasks, InCallback
  <2>2. CASE SchRunBackground
    <3>1. /\ selected' = SchSelectBackgroundTask /\ inUse' = inUse /\ clock' = clock
          /\ pc = "background" /\ pc' = "backgroundCallback" /\ BackgroundTasks # {}
      BY <2>2 DEF SchRunBackground, taskVars
    <3>2. SchSelectBackgroundTask \in BackgroundTasks
      BY <3>1, BackgroundChoice DEF SchInv, TableInv
    <3> QED BY <3>1, <3>2 DEF BackgroundTasks, InCallback
  <2> QED BY <2>1, <2>2 DEF StatsSelect
<1>3. phase = "none"
  BY <1>2 DEF StatsInv, StatsTypeOK, InCallback
<1>4. StatsTypeOK'
  BY <1>1, <1>2 DEF StatsInv, StatsTypeOK, InCallback
<1>5. TruthOK' /\ RunningSlot' /\ LoadedInv' /\ CountPending'
  BY <1>1, <1>2 DEF StatsInv, TruthOK, RunningSlot, LoadedInv, CountPending
<1>6. CountInv'
  BY <1>1, <1>3 DEF StatsInv, CountInv, Settled
<1>7. TraceInv'
  BY <1>1, <1>3 DEF StatsInv, TraceInv
<1>8. TimeInv => TimeInv'
  BY <1>1, <1>3 DEF TimeInv, Settled
<1>9. TimePending'
  BY <1>1 DEF TimePending
<1> QED BY <1>1, <1>4, <1>5, <1>6, <1>7, <1>8, <1>9 DEF StatsInv

(* The callback begins.                                                    *)
LEMMA ExecStartStep ==
  ASSUME SchInv, StatsInv, ExecStart
  PROVE  StatsInv' /\ (TimeInv /\ TimePending => TimeInv' /\ TimePending')
<1> DEFINE c == stats[selected]
           d == [c EXCEPT !.last_start_tick = U32(clock)]
<1>1. /\ UNCHANGED <<pc, selected, inUse, clock, hook, loaded, execEnd, execTicks, executions,
                     truth, spoilt>>
      /\ phase = "start" /\ phase' = "body" /\ startedAt' = clock /\ hit' = "none"
      /\ stats' = [stats EXCEPT ![selected] = d]
      /\ trace' = IF hook THEN [event |-> "START", id |-> selected] ELSE trace
  BY DEF ExecStart, vars, taskVars, runVars, TraceStart, SchTraceEmit
<1>2. /\ stats \in [Slots -> Counters] /\ clock \in Nat /\ U32(clock) \in 0..(TickMod - 1)
      /\ selected \in Slots /\ inUse[selected]
  BY <1>1, StatsTypes DEF StatsInv, RunningSlot
<1>3. c \in Counters
  BY <1>2
<1>4. /\ stats'[selected] = d /\ \A i \in Slots \ {selected} : stats'[i] = stats[i]
  BY <1>1, <1>2
<1>5. /\ d \in Counters /\ d.last_start_tick = U32(clock)
      /\ d.run_count = c.run_count /\ d.miss_count = c.miss_count
      /\ d.overrun_count = c.overrun_count /\ d.last_end_tick = c.last_end_tick
      /\ d.last_exec_ticks = c.last_exec_ticks /\ d.max_exec_ticks = c.max_exec_ticks
      /\ d.total_exec_ticks = c.total_exec_ticks
  <2> HIDE DEF c
  <2> QED BY <1>2, <1>3, StoreStart
<1> HIDE DEF d
<1>6. StatsTypeOK'
  <2>1. stats' \in [Slots -> Counters]
    BY <1>1, <1>2, <1>5
  <2>2. /\ trace'.event \in {"none", "START", "END", "MISS", "OVERRUN", "IDLE"}
        /\ trace'.id \in Slots \cup {NoTask}
    BY <1>1, <1>2 DEF StatsInv, StatsTypeOK
  <2>3. startedAt' \in 0..clock
    BY <1>1, <1>2
  <2> QED BY <1>1, <2>1, <2>2, <2>3 DEF StatsInv, StatsTypeOK, Counters
<1>7. TruthOK' /\ RunningSlot' /\ LoadedInv' /\ CountPending'
  BY <1>1 DEF StatsInv, TruthOK, RunningSlot, LoadedInv, CountPending
<1>8. CountInv'
  BY <1>1, <1>4, <1>5 DEF StatsInv, CountInv, Settled
<1>9. TraceInv'
  BY <1>1 DEF StatsInv, StatsTypeOK, TraceInv, Heard
<1>10. TimeInv => TimeInv'
  BY <1>1, <1>4, <1>5 DEF TimeInv, Settled
<1>11. TimePending'
  BY <1>1, <1>2, <1>4, <1>5 DEF TimePending
<1> QED BY <1>6, <1>7, <1>8, <1>9, <1>10, <1>11 DEF StatsInv

(* No execution lasts a whole turn of the tick counter.                    *)
ShortExecution == phase = "body" => clock - startedAt < TickMod

(* The callback returns and its duration is computed.                      *)
LEMMA ExecEndStep ==
  ASSUME SchInv, StatsInv, ExecEnd
  PROVE  /\ StatsInv'
         /\ (TimeInv /\ TimePending /\ ShortExecution => TimeInv' /\ TimePending')
         /\ trace' = trace
<1> DEFINE t == truth[selected]
           took == clock - startedAt
           long == IF took > t.longest THEN took ELSE t.longest
           u == [t EXCEPT !.runs = t.runs + 1, !.start = startedAt, !.end = clock,
                          !.total = t.total + took, !.longest = long]
<1>1. /\ UNCHANGED <<pc, selected, inUse, clock, stats, hook, trace, startedAt, hit, spoilt>>
      /\ phase = "body" /\ phase' = "update" /\ executions' = executions + 1
      /\ execEnd' = U32(clock) /\ loaded' = stats[selected]
      /\ execTicks' = U32(U32(clock) - stats[selected].last_start_tick)
  BY DEF ExecEnd, vars, taskVars, runVars
<1>2. truth' = [truth EXCEPT ![selected] = u]
  BY DEF ExecEnd
<1>3. /\ stats \in [Slots -> Counters] /\ truth \in [Slots -> Truths] /\ executions \in Nat
      /\ clock \in Nat /\ startedAt \in Nat /\ startedAt <= clock
      /\ U32(clock) \in 0..(TickMod - 1) /\ selected \in Slots /\ inUse[selected]
  BY <1>1, StatsTypes DEF StatsInv, RunningSlot
<1>4. t \in Truths /\ stats[selected] \in Counters /\ took \in Nat
  BY <1>3
<1>5. t.runs \in Nat /\ t.longest \in Nat /\ t.total \in Nat
  BY <1>4 DEF Truths
<1>6. t.runs + 1 \in Nat /\ t.total + took \in Nat /\ long \in Nat
  BY <1>4, <1>5
<1>7. /\ u \in Truths /\ u.runs = t.runs + 1 /\ u.start = startedAt /\ u.end = clock
      /\ u.total = t.total + took /\ u.longest = long /\ u.overruns = t.overruns
  <2> DEFINE runs == t.runs + 1
             total == t.total + took
  <2>1. u = [t EXCEPT !.runs = runs, !.start = startedAt, !.end = clock,
                      !.total = total, !.longest = long]
    OBVIOUS
  <2>2. runs \in Nat /\ total \in Nat
    BY <1>6
  <2> HIDE DEF runs, total, long, u, t
  <2>3. /\ u \in Truths /\ u.runs = runs /\ u.start = startedAt /\ u.end = clock
        /\ u.total = total /\ u.longest = long /\ u.overruns = t.overruns
    <3>1. startedAt \in Nat /\ clock \in Nat /\ t \in Truths /\ long \in Nat
      BY <1>3, <1>4, <1>6
    <3> QED BY <2>1, <2>2, <3>1 DEF Truths
  <2> QED BY <2>3 DEF runs, total
<1> HIDE DEF u
<1>8. truth'[selected] = u /\ \A i \in Slots \ {selected} : truth'[i] = truth[i]
  BY <1>2, <1>3
<1>9. /\ stats[selected].last_start_tick \in 0..(TickMod - 1)
      /\ execTicks' \in 0..(TickMod - 1)
  <2>1. stats[selected].last_start_tick \in 0..(TickMod - 1)
    BY <1>4, CounterValue
  <2>2. U32(clock) - stats[selected].last_start_tick \in Int
    BY <1>3, <2>1, Constants
  <2> QED BY <1>1, <2>1, <2>2, U32Type
<1>10. TruthOK'
  BY <1>2, <1>3, <1>7 DEF TruthOK
<1>11. StatsTypeOK'
  <2>1. {execEnd', execTicks'} \subseteq 0..(TickMod - 1) /\ executions' \in Nat
    BY <1>1, <1>3, <1>9
  <2>2. DOMAIN truth' = Slots /\ loaded' \in Counters
    BY <1>1, <1>4, <1>10 DEF TruthOK
  <2> QED BY <1>1, <2>1, <2>2 DEF StatsInv, StatsTypeOK, Counters
<1>12. RunningSlot' /\ LoadedInv'
  BY <1>1, <1>3 DEF RunningSlot, LoadedInv
<1>13. Settled(selected)
  BY <1>1 DEF Settled
<1>14. CountInv'
  BY <1>1, <1>7, <1>8 DEF StatsInv, CountInv, Settled
<1>15. CountPending'
  <2>1. "count" \notin spoilt[selected] => stats[selected].run_count = U32(t.runs)
    BY <1>3, <1>13 DEF StatsInv, CountInv
  <2>2. U32(U32(t.runs) + 1) = U32(t.runs + 1)
    <3>1. t.runs \in Int /\ 1 \in Int
      BY <1>5
    <3> HIDE DEF t
    <3> QED BY <3>1, U32Sum
  <2> QED BY <1>1, <1>7, <1>8, <2>1, <2>2 DEF CountPending, Increment
<1>16. TraceInv'
  BY <1>1 DEF StatsInv, TraceInv
<1>17. TimeInv => TimeInv'
  BY <1>1, <1>8 DEF TimeInv, Settled
<1>18. ASSUME TimeInv, TimePending, ShortExecution PROVE TimePending'
  <2>1. CASE hit # "none"
    BY <1>1, <2>1 DEF TimePending
  <2>2. CASE hit = "none"
    <3>1. stats[selected].last_start_tick = U32(startedAt)
      BY <1>1, <1>18, <2>2 DEF TimePending
    <3>2. execTicks' = U32(took)
      BY <1>1, <1>3, <3>1, U32Sum
    <3>3. took < TickMod
      BY <1>1, <1>18 DEF ShortExecution
    <3>4. U32(took) = took
      BY <1>4, <3>3, Constants DEF U32
    <3>5. ASSUME "time" \notin spoilt[selected]
          PROVE  /\ U32(stats[selected].total_exec_ticks + execTicks') = U32(t.total + took)
                 /\ (IF execTicks' > stats[selected].max_exec_ticks THEN execTicks'
                     ELSE stats[selected].max_exec_ticks) = long
      <4>1. /\ stats[selected].total_exec_ticks = U32(t.total)
            /\ stats[selected].max_exec_ticks = t.longest
        BY <1>3, <1>13, <1>18, <3>5 DEF TimeInv
      <4>2. U32(U32(t.total) + took) = U32(t.total + took)
        <5>1. t.total \in Int /\ took \in Int
          BY <1>4, <1>5
        <5> HIDE DEF t, took
        <5> QED BY <5>1, U32Sum
      <4> QED BY <3>2, <3>4, <4>1, <4>2
    <3> HIDE DEF took, long, t
    <3>6. took = clock - startedAt
      BY DEF took
    <3> QED BY <1>1, <1>7, <1>8, <3>1, <3>2, <3>5, <3>6 DEF TimePending, Accumulate, Larger
  <2> QED BY <2>1, <2>2
<1> QED BY <1>1, <1>10, <1>11, <1>12, <1>14, <1>15, <1>16, <1>17, <1>18 DEF StatsInv

(* What an unguarded store may leave is a counter value.                   *)
LEMMA StoredValues ==
  ASSUME NEW a \in 0..(TickMod - 1), NEW b \in 0..(TickMod - 1), NEW x \in Stored(a, b)
  PROVE  /\ x \in 0..(TickMod - 1)
         /\ hit # "update" /\ a = b => x = b
BY Constants DEF Stored

(* The computed values are counter values, too.                            *)
LEMMA ComputedValues ==
  ASSUME NEW c \in Counters, execTicks \in 0..(TickMod - 1)
  PROVE  /\ Increment(c.run_count) \in 0..(TickMod - 1)
         /\ Increment(c.overrun_count) \in 0..(TickMod - 1)
         /\ Accumulate(c.total_exec_ticks) \in 0..(TickMod - 1)
         /\ Larger(c.max_exec_ticks) \in 0..(TickMod - 1)
<1>1. /\ c.run_count \in 0..(TickMod - 1) /\ c.overrun_count \in 0..(TickMod - 1)
      /\ c.total_exec_ticks \in 0..(TickMod - 1) /\ c.max_exec_ticks \in 0..(TickMod - 1)
      /\ TickMod \in Nat
  BY CounterValue, Constants
<1>2. /\ c.run_count + 1 \in Int /\ c.overrun_count + 1 \in Int
      /\ c.total_exec_ticks + execTicks \in Int
  BY <1>1
<1>3. Larger(c.max_exec_ticks) \in 0..(TickMod - 1)
  BY <1>1 DEF Larger
<1> QED BY <1>2, <1>3, U32Type DEF Increment, Accumulate

(* The stores at the end of an execution: exact unless a reset fell among  *)
(* them, and then marked as spoilt.                                        *)
LEMMA UpdateStep ==
  ASSUME SchInv, StatsInv, StatsUpdate
  PROVE  StatsInv' /\ (TimeInv /\ TimePending => TimeInv' /\ TimePending')
<1> DEFINE c == stats[selected]
           t == truth[selected]
<1>1. /\ UNCHANGED <<pc, selected, inUse, clock, hook, executions, truth, startedAt>>
      /\ phase = "update" /\ phase' = "ended" /\ execEnd' = 0 /\ execTicks' = 0 /\ hit' = "none"
      /\ spoilt' = [spoilt EXCEPT ![selected] = (spoilt[selected] \ {"last"}) \cup Spoils(hit)]
      /\ loaded' = stats'[selected]
      /\ trace' = IF hook THEN [event |-> "END", id |-> selected] ELSE trace
  BY DEF StatsUpdate, vars, taskVars, runVars, SchTraceEmit
<1>2. /\ stats \in [Slots -> Counters] /\ truth \in [Slots -> Truths] /\ loaded \in Counters
      /\ spoilt \in [Slots -> SUBSET {"count", "time", "last"}]
      /\ execEnd \in 0..(TickMod - 1) /\ execTicks \in 0..(TickMod - 1)
      /\ selected \in Slots /\ inUse[selected] /\ c \in Counters
  BY <1>1, StatsTypes DEF StatsInv, RunningSlot
<1>3. hit # "update" => loaded = c
  BY <1>1 DEF StatsInv, LoadedInv
<1>4. PICK runs \in Stored(Increment(loaded.run_count), Increment(stats[selected].run_count)),
           end \in Stored(execEnd, execEnd), ticks \in Stored(execTicks, execTicks),
           total \in Stored(Accumulate(loaded.total_exec_ticks),
                            Accumulate(stats[selected].total_exec_ticks)),
           longest \in Stored(Larger(loaded.max_exec_ticks),
                              Larger(stats[selected].max_exec_ticks)) :
             /\ stats' = [stats EXCEPT ![selected] =
                           [stats[selected] EXCEPT !.run_count = runs, !.last_end_tick = end,
                                     !.last_exec_ticks = ticks, !.total_exec_ticks = total,
                                     !.max_exec_ticks = longest]]
             /\ loaded' = stats'[selected]
  BY Zenon DEF StatsUpdate
<1> DEFINE d == [c EXCEPT !.run_count = runs, !.last_end_tick = end,
                          !.last_exec_ticks = ticks, !.total_exec_ticks = total,
                          !.max_exec_ticks = longest]
<1>5. /\ Increment(loaded.run_count) \in 0..(TickMod - 1)
      /\ Increment(c.run_count) \in 0..(TickMod - 1)
      /\ Accumulate(loaded.total_exec_ticks) \in 0..(TickMod - 1)
      /\ Accumulate(c.total_exec_ticks) \in 0..(TickMod - 1)
      /\ Larger(loaded.max_exec_ticks) \in 0..(TickMod - 1)
      /\ Larger(c.max_exec_ticks) \in 0..(TickMod - 1)
  BY <1>2, ComputedValues
<1>6. /\ runs \in 0..(TickMod - 1) /\ end \in 0..(TickMod - 1) /\ ticks \in 0..(TickMod - 1)
      /\ total \in 0..(TickMod - 1) /\ longest \in 0..(TickMod - 1)
  BY <1>2, <1>5, StoredValues
<1>7. hit # "update" =>
        /\ runs = Increment(c.run_count) /\ end = execEnd /\ ticks = execTicks
        /\ total = Accumulate(c.total_exec_ticks) /\ longest = Larger(c.max_exec_ticks)
  BY <1>2, <1>3, <1>5, StoredValues
<1>8. /\ d \in Counters
      /\ d.run_count = runs /\ d.last_end_tick = end /\ d.last_exec_ticks = ticks
      /\ d.total_exec_ticks = total /\ d.max_exec_ticks = longest
      /\ d.miss_count = c.miss_count /\ d.overrun_count = c.overrun_count
      /\ d.last_start_tick = c.last_start_tick
  <2> HIDE DEF c
  <2> QED BY <1>2, <1>6, ClearSlotFields DEF Counters
<1>9. /\ stats' = [stats EXCEPT ![selected] = d] /\ stats'[selected] = d
      /\ \A i \in Slots \ {selected} : stats'[i] = stats[i]
  BY <1>2, <1>4
<1> HIDE DEF d
<1>10. /\ spoilt'[selected] = (spoilt[selected] \ {"last"}) \cup Spoils(hit)
       /\ \A i \in Slots \ {selected} : spoilt'[i] = spoilt[i]
       /\ Spoils(hit) \subseteq {"count", "time", "last"}
  BY <1>1, <1>2 DEF Spoils
<1>11. hit \in {"none", "body", "update"}
  BY DEF StatsInv, StatsTypeOK
<1>12. /\ "count" \notin spoilt'[selected] => hit # "update" /\ "count" \notin spoilt[selected]
       /\ "time" \notin spoilt'[selected] => hit = "none" /\ "time" \notin spoilt[selected]
       /\ "last" \notin spoilt'[selected] => hit = "none"
  BY <1>10, <1>11 DEF Spoils
<1>13. StatsTypeOK'
  <2>1. /\ stats' \in [Slots -> Counters] /\ loaded' \in Counters
        /\ {execEnd', execTicks'} \subseteq 0..(TickMod - 1)
    BY <1>1, <1>2, <1>8, <1>9, Constants
  <2>2. spoilt' \in [Slots -> SUBSET {"count", "time", "last"}]
    BY <1>1, <1>2, <1>10
  <2>3. /\ trace'.event \in {"none", "START", "END", "MISS", "OVERRUN", "IDLE"}
        /\ trace'.id \in Slots \cup {NoTask}
    BY <1>1, <1>2 DEF StatsInv, StatsTypeOK
  <2> QED BY <1>1, <2>1, <2>2, <2>3 DEF StatsInv, StatsTypeOK, Counters
<1>14. TruthOK' /\ RunningSlot' /\ LoadedInv' /\ CountPending'
  BY <1>1 DEF StatsInv, TruthOK, RunningSlot, LoadedInv, CountPending
<1>15. CountInv'
  <2> SUFFICES ASSUME NEW i \in Slots
               PROVE  /\ stats'[i].miss_count = 0
                      /\ "count" \notin spoilt'[i] =>
                           /\ HalfRangeArguments =>
                                stats'[i].overrun_count = U32(truth[i].overruns)
                           /\ stats'[i].run_count = U32(truth[i].runs)
    BY <1>1 DEF CountInv
  <2>1. CASE i # selected
    BY <1>9, <1>10, <2>1 DEF StatsInv, CountInv, Settled
  <2>2. CASE i = selected
    <3>1. "count" \notin spoilt'[selected] => runs = U32(t.runs)
      BY <1>1, <1>7, <1>12 DEF StatsInv, CountPending
    <3> QED BY <1>2, <1>8, <1>9, <1>12, <2>2, <3>1 DEF StatsInv, CountInv
  <2> QED BY <2>1, <2>2
<1>16. TraceInv'
  BY <1>1 DEF StatsInv, StatsTypeOK, TraceInv, Heard
<1>17. TimePending'
  BY <1>1 DEF TimePending
<1>18. ASSUME TimeInv, TimePending PROVE TimeInv'
  <2> SUFFICES ASSUME NEW i \in Slots
               PROVE  /\ "time" \notin spoilt'[i] =>
                           /\ stats'[i].total_exec_ticks = U32(truth[i].total)
                           /\ stats'[i].max_exec_ticks = truth[i].longest
                      /\ "last" \notin spoilt'[i] =>
                           /\ stats'[i].last_end_tick = U32(truth[i].end)
                           /\ stats'[i].last_exec_ticks = U32(truth[i].end - truth[i].start)
                           /\ stats'[i].last_start_tick = U32(truth[i].start)
    BY <1>1 DEF TimeInv
  <2>1. CASE i # selected
    BY <1>1, <1>9, <1>10, <1>18, <2>1 DEF TimeInv, Settled
  <2>2. CASE i = selected
    <3>1. hit = "none" => /\ execEnd = U32(t.end) /\ execTicks = U32(t.end - t.start)
                          /\ c.last_start_tick = U32(t.start)
                          /\ "time" \notin spoilt[selected] =>
                               /\ Accumulate(c.total_exec_ticks) = U32(t.total)
                               /\ Larger(c.max_exec_ticks) = t.longest
      BY <1>1, <1>18 DEF TimePending
    <3> QED BY <1>7, <1>8, <1>9, <1>12, <2>2, <3>1
  <2> QED BY <2>1, <2>2
<1> QED BY <1>13, <1>14, <1>15, <1>16, <1>17, <1>18 DEF StatsInv

(* The 32-bit overrun test agrees with real time.                          *)
LEMMA OverrunExact ==
  ASSUME IInv, pc = "callback"
  PROVE  Overran <=> release[selected] <= clock
<1>1. selected \in PeriodicTasks
  BY DEF IInv, CycleServesReadySet, NoEarlyRelease, CycleSample
<1>2. selected \in Slots
  BY <1>1 DEF PeriodicTasks
<1>3. /\ nextRelease[selected] = U32(release[selected])
      /\ clock - release[selected] < HalfRange /\ release[selected] - clock <= HalfRange
  BY <1>1 DEF IInv, ReleaseOnGrid, WithinHalfRange
<1>4. clock \in Nat /\ release[selected] \in Nat
  BY <1>2 DEF IInv, TypeOK
<1> QED BY <1>3, <1>4, TimeReachedExact DEF Overran

(* The true overruns of the slot after its callback has returned.          *)
LEMMA TrueOverrun ==
  ASSUME SchInv, StatsInv, phase = "ended", pc = "callback", CountTrueOverrun
  PROVE  /\ TruthOK'
         /\ \A i \in Slots \ {selected} : truth'[i] = truth[i]
         /\ HalfRangeArguments =>
              truth'[selected].overruns = truth[selected].overruns + (IF Overran THEN 1 ELSE 0)
         /\ truth'[selected].runs = truth[selected].runs
         /\ truth'[selected].start = truth[selected].start
         /\ truth'[selected].end = truth[selected].end
         /\ truth'[selected].total = truth[selected].total
         /\ truth'[selected].longest = truth[selected].longest
<1> DEFINE t == truth[selected]
           n == IF release[selected] <= clock THEN t.overruns + 1 ELSE t.overruns
           u == [t EXCEPT !.overruns = n]
<1>1. truth' = [truth EXCEPT ![selected] = u]
  BY DEF CountTrueOverrun
<1>2. truth \in [Slots -> Truths] /\ selected \in Slots /\ t \in Truths
  BY StatsTypes DEF StatsInv, RunningSlot
<1>3. t.overruns \in Nat /\ n \in Nat
  <2>1. t.overruns \in Nat
    BY <1>2 DEF Truths
  <2> QED BY <2>1
<1>4. HalfRangeArguments => n = t.overruns + (IF Overran THEN 1 ELSE 0)
  BY <1>3, OverrunExact DEF SchInv
<1>5. /\ u \in Truths /\ u.overruns = n
      /\ u.runs = t.runs /\ u.start = t.start /\ u.end = t.end /\ u.total = t.total
      /\ u.longest = t.longest
  <2> HIDE DEF t, n
  <2> QED BY <1>2, <1>3, TruthOverrun
<1> HIDE DEF u, n
<1>6. truth'[selected] = u /\ \A i \in Slots \ {selected} : truth'[i] = truth[i]
  BY <1>1, <1>2
<1>7. TruthOK'
  BY <1>1, <1>2, <1>5 DEF TruthOK
<1> QED BY <1>4, <1>5, <1>6, <1>7

(* The end of a callback, as far as the counters are concerned: the        *)
(* overrun counter of the slot may change, no time does.                   *)
LEMMA FinishedStep ==
  ASSUME SchInv, StatsInv, phase = "ended", Finished, TruthOK',
         ~InCallback', clock' = clock,
         stats' \in [Slots -> Counters],
         spoilt' \in [Slots -> SUBSET {"count", "time", "last"}],
         \A i \in Slots :
           /\ "time" \in spoilt[i] <=> "time" \in spoilt'[i]
           /\ "last" \in spoilt[i] <=> "last" \in spoilt'[i]
           /\ "count" \in spoilt[i] => "count" \in spoilt'[i]
           /\ stats'[i].run_count = stats[i].run_count
           /\ stats'[i].miss_count = stats[i].miss_count
           /\ stats'[i].total_exec_ticks = stats[i].total_exec_ticks
           /\ stats'[i].max_exec_ticks = stats[i].max_exec_ticks
           /\ stats'[i].last_end_tick = stats[i].last_end_tick
           /\ stats'[i].last_exec_ticks = stats[i].last_exec_ticks
           /\ stats'[i].last_start_tick = stats[i].last_start_tick
           /\ truth'[i].runs = truth[i].runs
           /\ truth'[i].total = truth[i].total /\ truth'[i].longest = truth[i].longest
           /\ truth'[i].start = truth[i].start /\ truth'[i].end = truth[i].end
           /\ HalfRangeArguments /\ "count" \notin spoilt'[i] =>
                stats'[i].overrun_count = U32(truth'[i].overruns),
         TraceInv',
         trace'.event \in {"none", "START", "END", "MISS", "OVERRUN", "IDLE"},
         trace'.id \in Slots \cup {NoTask}
  PROVE  StatsInv' /\ (TimeInv => TimeInv') /\ TimePending'
<1>1. /\ phase' = "none" /\ loaded' = ClearSlot /\ startedAt' = 0 /\ hit' = "none"
      /\ UNCHANGED <<hook, execEnd, execTicks, executions>>
  BY DEF Finished
<1>2. clock \in Nat
  BY DEF SchInv, TableInv, TypeOK
<1>3. StatsTypeOK'
  <2>1. startedAt' \in 0..clock' /\ DOMAIN truth' = Slots /\ loaded' \in Counters
    BY <1>1, <1>2, ClearSlotFields DEF TruthOK
  <2> QED BY <1>1, <2>1 DEF StatsInv, StatsTypeOK, Counters, InCallback
<1>4. RunningSlot' /\ LoadedInv' /\ CountPending' /\ TimePending'
  BY <1>1 DEF RunningSlot, LoadedInv, CountPending, TimePending
<1>5. CountInv'
  BY DEF StatsInv, CountInv, Settled
<1>6. TimeInv => TimeInv'
  BY DEF TimeInv, Settled
<1> QED BY <1>3, <1>4, <1>5, <1>6 DEF StatsInv

(* A callback that outlasted its task's next release.                      *)
LEMMA OverrunStep ==
  ASSUME SchInv, StatsInv, StatsOverrun
  PROVE  StatsInv' /\ (TimeInv => TimeInv') /\ TimePending'
<1> DEFINE c == stats[selected]
<1>1. /\ phase = "ended" /\ pc = "callback" /\ Overran /\ CountTrueOverrun /\ Finished
      /\ pc' = "loop" /\ clock' = clock /\ phase' = "none" /\ hook' = hook
      /\ spoilt' = [spoilt EXCEPT ![selected] =
                      spoilt[selected] \cup (IF hit = "update" THEN {"count"} ELSE {})]
      /\ trace' = IF hook THEN [event |-> "OVERRUN", id |-> selected] ELSE trace
  BY DEF StatsOverrun, SchRunCallbackReturn, Finished, SchTraceEmit
<1>2. /\ stats \in [Slots -> Counters] /\ truth \in [Slots -> Truths] /\ loaded \in Counters
      /\ spoilt \in [Slots -> SUBSET {"count", "time", "last"}]
      /\ execTicks \in 0..(TickMod - 1)
      /\ selected \in Slots /\ c \in Counters
  BY <1>1, StatsTypes DEF StatsInv, RunningSlot
<1>3. PICK n \in Stored(Increment(loaded.overrun_count), Increment(c.overrun_count)) :
        stats' = [stats EXCEPT ![selected] = [c EXCEPT !.overrun_count = n]]
  BY DEF StatsOverrun
<1> DEFINE d == [c EXCEPT !.overrun_count = n]
<1>4. /\ Increment(loaded.overrun_count) \in 0..(TickMod - 1)
      /\ Increment(c.overrun_count) \in 0..(TickMod - 1)
  BY <1>2, ComputedValues
<1>5. n \in 0..(TickMod - 1)
  BY <1>4, StoredValues
<1>6. hit # "update" => n = Increment(c.overrun_count)
  <2>1. hit # "update" => loaded = c
    BY <1>1 DEF StatsInv, LoadedInv
  <2> QED BY <1>4, <2>1, StoredValues
<1>7. /\ d \in Counters /\ d.overrun_count = n
      /\ d.run_count = c.run_count /\ d.miss_count = c.miss_count
      /\ d.last_start_tick = c.last_start_tick /\ d.last_end_tick = c.last_end_tick
      /\ d.last_exec_ticks = c.last_exec_ticks /\ d.max_exec_ticks = c.max_exec_ticks
      /\ d.total_exec_ticks = c.total_exec_ticks
  <2> HIDE DEF c
  <2> QED BY <1>2, <1>5, StoreOverrun
<1>8. /\ stats' = [stats EXCEPT ![selected] = d] /\ stats'[selected] = d
      /\ \A i \in Slots \ {selected} : stats'[i] = stats[i]
  BY <1>2, <1>3
<1> HIDE DEF d
<1>9. stats' \in [Slots -> Counters] /\ spoilt' \in [Slots -> SUBSET {"count", "time", "last"}]
  BY <1>1, <1>2, <1>7, <1>8
<1>10. /\ spoilt'[selected] = spoilt[selected] \cup (IF hit = "update" THEN {"count"} ELSE {})
       /\ \A i \in Slots \ {selected} : spoilt'[i] = spoilt[i]
  BY <1>1, <1>2
<1>11. /\ TruthOK' /\ \A i \in Slots \ {selected} : truth'[i] = truth[i]
       /\ HalfRangeArguments =>
            truth'[selected].overruns = truth[selected].overruns + (IF Overran THEN 1 ELSE 0)
       /\ truth'[selected].runs = truth[selected].runs
       /\ truth'[selected].start = truth[selected].start
       /\ truth'[selected].end = truth[selected].end
       /\ truth'[selected].total = truth[selected].total
       /\ truth'[selected].longest = truth[selected].longest
  BY <1>1, TrueOverrun
<1>12. HalfRangeArguments /\ "count" \notin spoilt'[selected] =>
         d.overrun_count = U32(truth'[selected].overruns)
  <2> SUFFICES ASSUME HalfRangeArguments, "count" \notin spoilt'[selected]
               PROVE  d.overrun_count = U32(truth'[selected].overruns)
    OBVIOUS
  <2>1. hit # "update" /\ "count" \notin spoilt[selected]
    BY <1>10
  <2>2. c.overrun_count = U32(truth[selected].overruns)
    BY <1>2, <2>1 DEF StatsInv, CountInv
  <2>3. truth[selected].overruns \in Nat
    BY <1>2 DEF Truths
  <2>4. U32(U32(truth[selected].overruns) + 1) = U32(truth[selected].overruns + 1)
    <3> DEFINE k == truth[selected].overruns
    <3>1. k \in Int /\ 1 \in Int
      BY <2>3
    <3> HIDE DEF k
    <3>2. U32(U32(k) + 1) = U32(k + 1)
      BY <3>1, U32Sum
    <3> QED BY <3>2 DEF k
  <2>5. truth'[selected].overruns = truth[selected].overruns + 1
    BY <1>1, <1>11
  <2> QED BY <1>6, <1>7, <2>1, <2>2, <2>4, <2>5 DEF Increment
<1>13. \A i \in Slots :
        HalfRangeArguments /\ "count" \notin spoilt'[i] =>
          stats'[i].overrun_count = U32(truth'[i].overruns)
  BY <1>8, <1>10, <1>11, <1>12 DEF StatsInv, CountInv
<1>14. /\ TraceInv'
       /\ trace'.event \in {"none", "START", "END", "MISS", "OVERRUN", "IDLE"}
       /\ trace'.id \in Slots \cup {NoTask}
  BY <1>1, <1>2 DEF StatsInv, StatsTypeOK, TraceInv
<1>15. ~InCallback'
  BY <1>1 DEF InCallback
<1>16. \A i \in Slots :
         /\ "time" \in spoilt[i] <=> "time" \in spoilt'[i]
         /\ "last" \in spoilt[i] <=> "last" \in spoilt'[i]
         /\ "count" \in spoilt[i] => "count" \in spoilt'[i]
         /\ stats'[i].run_count = stats[i].run_count
         /\ stats'[i].miss_count = stats[i].miss_count
         /\ stats'[i].total_exec_ticks = stats[i].total_exec_ticks
         /\ stats'[i].max_exec_ticks = stats[i].max_exec_ticks
         /\ stats'[i].last_end_tick = stats[i].last_end_tick
         /\ stats'[i].last_exec_ticks = stats[i].last_exec_ticks
         /\ stats'[i].last_start_tick = stats[i].last_start_tick
         /\ truth'[i].runs = truth[i].runs
         /\ truth'[i].total = truth[i].total /\ truth'[i].longest = truth[i].longest
         /\ truth'[i].start = truth[i].start /\ truth'[i].end = truth[i].end
  BY <1>7, <1>8, <1>10, <1>11
<1> QED BY <1>1, <1>9, <1>11, <1>13, <1>14, <1>15, <1>16, FinishedStep

(* A callback that ended in time, and a background callback.               *)
LEMMA InTimeStep ==
  ASSUME SchInv, StatsInv, StatsInTime \/ StatsBackgroundReturn
  PROVE  StatsInv' /\ (TimeInv => TimeInv') /\ TimePending' /\ trace' = trace
<1>1. /\ phase = "ended" /\ Finished /\ clock' = clock /\ phase' = "none" /\ hook' = hook
      /\ UNCHANGED <<stats, trace, spoilt>> /\ pc' \in {"loop", "outside"}
  BY DEF StatsInTime, StatsBackgroundReturn, SchRunCallbackReturn, SchRunBackgroundReturn,
         LeaveRun, Finished
<1>2. /\ stats \in [Slots -> Counters] /\ truth \in [Slots -> Truths]
      /\ spoilt \in [Slots -> SUBSET {"count", "time", "last"}]
  BY StatsTypes
<1>3. TruthOK' /\ \A i \in Slots :
                    /\ truth'[i].runs = truth[i].runs
                    /\ truth'[i].total = truth[i].total /\ truth'[i].longest = truth[i].longest
                    /\ truth'[i].start = truth[i].start /\ truth'[i].end = truth[i].end
                    /\ HalfRangeArguments => truth'[i].overruns = truth[i].overruns
  <2>1. CASE StatsInTime
    <3>1. CountTrueOverrun /\ pc = "callback" /\ ~Overran
      BY <2>1 DEF StatsInTime
    <3>2. /\ TruthOK' /\ \A i \in Slots \ {selected} : truth'[i] = truth[i]
          /\ HalfRangeArguments =>
               truth'[selected].overruns = truth[selected].overruns + (IF Overran THEN 1 ELSE 0)
          /\ truth'[selected].runs = truth[selected].runs
          /\ truth'[selected].start = truth[selected].start
          /\ truth'[selected].end = truth[selected].end
          /\ truth'[selected].total = truth[selected].total
          /\ truth'[selected].longest = truth[selected].longest
      BY <1>1, <3>1, TrueOverrun
    <3>3. selected \in Slots
      BY <1>1 DEF StatsInv, RunningSlot
    <3>4. truth[selected].overruns \in Nat
      BY <1>2, <3>3 DEF Truths
    <3>5. HalfRangeArguments => truth'[selected].overruns = truth[selected].overruns
      BY <3>1, <3>2, <3>4
    <3> QED BY <1>2, <3>2, <3>5
  <2>2. CASE StatsBackgroundReturn
    <3>1. truth' = truth
      BY <2>2 DEF StatsBackgroundReturn
    <3> QED BY <1>2, <3>1 DEF TruthOK
  <2> QED BY <2>1, <2>2
<1>4. \A i \in Slots :
        HalfRangeArguments /\ "count" \notin spoilt'[i] =>
          stats'[i].overrun_count = U32(truth'[i].overruns)
  BY <1>1, <1>3 DEF StatsInv, CountInv
<1>5. /\ TraceInv'
      /\ trace'.event \in {"none", "START", "END", "MISS", "OVERRUN", "IDLE"}
      /\ trace'.id \in Slots \cup {NoTask}
  BY <1>1 DEF StatsInv, StatsTypeOK, TraceInv, Heard
<1>6. ~InCallback'
  BY <1>1 DEF InCallback
<1>7. StatsInv' /\ (TimeInv => TimeInv') /\ TimePending'
  BY <1>1, <1>2, <1>3, <1>4, <1>5, <1>6, FinishedStep
<1> QED BY <1>1, <1>7

-----------------------------------------------------------------------------
(* The results.                                                            *)

(* Every step keeps the invariant of the counts and of the trace, and,     *)
(* when no callback lasts a turn of the tick counter, that of the times.   *)
LEMMA StatsNextInv ==
  ASSUME SchInv, StatsInv, [StatsNext]_statsVars
  PROVE  /\ StatsInv'
         /\ (TimeInv /\ TimePending /\ ShortExecution => TimeInv' /\ TimePending')
<1>1. CASE StatsSchInit
  BY <1>1, StatsSchInitStep
<1>2. CASE \E p \in Periods, d \in Delays, q \in Priorities : StatsAddTask(p, d, q)
  BY <1>2, AddTaskStep
<1>3. CASE StatsEnter
  BY <1>3, EnterStep
<1>4. CASE StatsSelect
  BY <1>4, SelectStep
<1>5. CASE ExecStart
  BY <1>5, ExecStartStep
<1>6. CASE ExecEnd
  BY <1>6, ExecEndStep
<1>7. CASE StatsUpdate
  BY <1>7, UpdateStep
<1>8. CASE StatsOverrun
  BY <1>8, OverrunStep
<1>9. CASE StatsInTime \/ StatsBackgroundReturn
  BY <1>9, InTimeStep
<1>10. CASE StatsNoBackground
  BY <1>10, NoBackgroundStep
<1>11. CASE StatsPlainStep \/ UNCHANGED statsVars
  BY <1>11, PlainStep
<1>12. CASE SchResetStats
  BY <1>12, ResetStep
<1>13. CASE \E h \in BOOLEAN : SchSetTraceHook(h)
  BY <1>13, HookStep
<1> QED BY <1>1, <1>2, <1>3, <1>4, <1>5, <1>6, <1>7, <1>8, <1>9, <1>10, <1>11, <1>12, <1>13
        DEF StatsNext

(* The invariant of the instrumented build.                                *)
LEMMA StatsInvariant == StatsSpec => []StatsInv
<1>1. SchInv /\ StatsInv /\ [StatsNext]_statsVars => StatsInv'
  BY StatsNextInv
<1> QED BY <1>1, StatsInitInv, SchedulerInvariant, PTL DEF StatsSpec

(* The instrumentation is type correct: every counter stays in its word,   *)
(* whichever interrupt resets it, and a callback is in progress exactly    *)
(* while sch_run is in one.                                                *)
THEOREM StatsTypeCorrect == StatsSpec => []StatsTypeOK
<1>1. StatsInv => StatsTypeOK
  BY DEF StatsInv
<1> QED BY <1>1, StatsInvariant, PTL

(* Run and overrun counts are those of real time unless a reset fell into  *)
(* an update, and sch_run never finds a release missed.                    *)
THEOREM StatsCountsExact ==
  ASSUME HalfRangeArguments
  PROVE  StatsSpec => []CountsExact
<1>1. StatsInv => CountsExact
  BY DEF StatsInv, CountInv, CountsExact, Readable, Settled, SchGetTaskStats
<1> QED BY <1>1, StatsInvariant, PTL

(* Execution times are those of real time for a slot no reset has hit, and *)
(* right again after the first execution none hits, as long as no callback *)
(* lasts a whole turn of the tick counter.                                 *)
THEOREM StatsTimesExact == StatsSpec /\ []ShortExecution => []TimesExact
<1>1. StatsInit => TimeInv /\ TimePending
  <2> SUFFICES ASSUME StatsInit PROVE TimeInv /\ TimePending
    OBVIOUS
  <2>1. /\ stats = [i \in Slots |-> ClearSlot] /\ truth = [i \in Slots |-> NoTruth]
        /\ phase = "none"
    BY DEF StatsInit
  <2>2. TimePending
    BY <2>1 DEF TimePending
  <2>3. TimeInv
    <3> SUFFICES ASSUME NEW i \in Slots PROVE
                 /\ stats[i].total_exec_ticks = U32(truth[i].total)
                 /\ stats[i].max_exec_ticks = truth[i].longest
                 /\ stats[i].last_end_tick = U32(truth[i].end)
                 /\ stats[i].last_exec_ticks = U32(truth[i].end - truth[i].start)
                 /\ stats[i].last_start_tick = U32(truth[i].start)
      BY DEF TimeInv
    <3>1. stats[i] = ClearSlot /\ truth[i] = NoTruth
      BY <2>1
    <3> QED BY <3>1, ClearSlotFields, NoTruthFields
  <2> QED BY <2>2, <2>3
<1>2. SchInv /\ StatsInv /\ TimeInv /\ TimePending /\ ShortExecution /\ [StatsNext]_statsVars
        => TimeInv' /\ TimePending'
  BY StatsNextInv
<1>3. TimeInv => TimesExact
  BY DEF TimeInv, TimesExact, Readable, Settled, SchGetTaskStats
<1> QED BY <1>1, <1>2, <1>3, StatsInvariant, SchedulerInvariant, PTL DEF StatsSpec

(* A hook hears executions one after the other, each as START, END and at  *)
(* most one OVERRUN, and idle only between them.                           *)
THEOREM StatsTraceOrder == StatsSpec => TraceOrder
<1> DEFINE A == trace' # trace /\ NoEvent \notin {trace, trace'} =>
                  CASE trace'.event = "START"   -> trace.event # "START"
                    [] trace'.event = "END"     -> trace = [event |-> "START", id |-> trace'.id]
                    [] trace'.event = "OVERRUN" -> trace = [event |-> "END", id |-> trace'.id]
                    [] trace'.event = "IDLE"    -> trace.event \in {"END", "OVERRUN"}
                    [] OTHER                    -> FALSE
<1>1. SchInv /\ StatsInv /\ [StatsNext]_statsVars => [A]_trace
  <2> SUFFICES ASSUME SchInv, StatsInv, [StatsNext]_statsVars, trace' # trace,
                      trace # NoEvent, trace' # NoEvent
               PROVE  A
    OBVIOUS
  <2>1. \/ StatsSchInit \/ ExecStart \/ StatsUpdate \/ StatsOverrun \/ StatsNoBackground
        \/ SchResetStats \/ \E h \in BOOLEAN : SchSetTraceHook(h)
    BY AddTaskStep, EnterStep, SelectStep, ExecEndStep, InTimeStep, PlainStep DEF StatsNext
  <2>2. ExecStart \/ StatsUpdate \/ StatsOverrun \/ StatsNoBackground
    BY <2>1 DEF StatsSchInit, SchResetStats, SchSetTraceHook
  <2>3. TraceInv /\ StatsTypeOK
    BY DEF StatsInv
  <2>4. CASE ExecStart
    <3>1. phase = "start" /\ trace' = [event |-> "START", id |-> selected]
      BY <2>4 DEF ExecStart, TraceStart, SchTraceEmit
    <3>2. trace'.event = "START"
      BY <3>1
    <3>3. trace.event \in {"END", "OVERRUN", "IDLE"}
      BY <2>3, <3>1 DEF TraceInv, Heard
    <3>4. trace.event # "START"
      BY <3>3
    <3> QED BY <3>2, <3>4
  <2>5. CASE StatsUpdate
    <3>1. phase = "update" /\ trace' = [event |-> "END", id |-> selected]
      BY <2>5 DEF StatsUpdate, SchTraceEmit
    <3>2. trace'.event = "END" /\ trace'.id = selected
      BY <3>1
    <3>3. trace = [event |-> "START", id |-> selected]
      BY <2>3, <3>1 DEF TraceInv, Heard
    <3> QED BY <3>2, <3>3
  <2>6. CASE StatsOverrun
    <3>1. phase = "ended" /\ trace' = [event |-> "OVERRUN", id |-> selected]
      BY <2>6 DEF StatsOverrun, SchTraceEmit
    <3>2. trace'.event = "OVERRUN" /\ trace'.id = selected
      BY <3>1
    <3>3. trace = [event |-> "END", id |-> selected]
      BY <2>3, <3>1 DEF TraceInv, Heard
    <3> QED BY <3>2, <3>3
  <2>7. CASE StatsNoBackground
    <3>1. pc = "background" /\ trace' = [event |-> "IDLE", id |-> NoTask]
      BY <2>7 DEF StatsNoBackground, SchRunNoBackground, SchTraceEmit
    <3>2. trace'.event = "IDLE" /\ phase = "none"
      BY <2>3, <3>1 DEF StatsTypeOK
    <3>3. trace # Heard("IDLE", NoTask)
      BY <3>1 DEF Heard
    <3>4. trace.event \in {"END", "OVERRUN"}
      BY <2>3, <3>2, <3>3 DEF TraceInv
    <3> QED BY <3>2, <3>4
  <2> QED BY <2>2, <2>4, <2>5, <2>6, <2>7
<1> QED BY <1>1, StatsInvariant, SchedulerInvariant, PTL DEF TraceOrder, StatsSpec
=============================================================================
