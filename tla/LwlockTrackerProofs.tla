------------------------ MODULE LwlockTrackerProofs -------------------------
(***************************************************************************)
(* Proofs about LwlockTracker, for every number of processes and locks,    *)
(* all settings, and any number of calls, waits and changes of settings.   *)
(***************************************************************************)
EXTENDS LwlockTracker, TLAPS, FiniteSetTheorems, WellFoundedInduction

-----------------------------------------------------------------------------
(* Sums over the processes.                                                *)

\* A set of naturals has a least element: the induction of the proofs about sums.
LEMMA LeastNatural ==
    ASSUME NEW T, T \subseteq Nat, T # {}
    PROVE  \E n \in T : \A m \in T : ~ (m < n)
<1>1. \E n \in T : \A m \in T : ~ (<<m, n>> \in OpToRel(<, Nat))
  BY WFMin, NatLessThanWellFounded, Zenon
<1> QED
  BY <1>1, Zenon DEF OpToRel

\* The element with which the sum over s begins.
Pick(s) == CHOOSE x \in s : TRUE

\* What the sum of h over s is, if g has it for the rest of s.
SumStep(h, g, s) == IF s = {} THEN 0 ELSE h[Pick(s)] + g[s \ {Pick(s)}]

\* g has the sums of h.
Sums(h, g) == g = [s \in SUBSET Pids |-> SumStep(h, g, s)]

\* Sets of processes are finite, and without the first element one smaller.
LEMMA SmallerSet ==
    ASSUME NEW s \in SUBSET Pids
    PROVE  /\ IsFiniteSet(s) /\ Cardinality(s) \in Nat
           /\ s = {} <=> Cardinality(s) = 0
           /\ s # {} => /\ Pick(s) \in s /\ s \ {Pick(s)} \in SUBSET Pids
                        /\ Cardinality(s \ {Pick(s)}) = Cardinality(s) - 1
<1>1. IsFiniteSet(s)
  BY LwlockAssumption, FS_Subset
<1>2. Cardinality(s) \in Nat /\ (s = {} <=> Cardinality(s) = 0)
  BY <1>1, FS_CardinalityType, FS_EmptySet
<1>3. s # {} => Pick(s) \in s
  BY DEF Pick
<1>4. ASSUME s # {} PROVE Cardinality(s \ {Pick(s)}) = Cardinality(s) - 1
  BY <1>1, <1>3, <1>4, FS_RemoveElement
<1> QED
  BY <1>1, <1>2, <1>3, <1>4

\* Every function on the processes has sums.
LEMMA SumsExist ==
    ASSUME NEW h \in [Pids -> Nat]
    PROVE  \E g \in [SUBSET Pids -> Nat] : Sums(h, g)
<1> DEFINE Upto(n) == {s \in SUBSET Pids : Cardinality(s) <= n}
           Good(n) == \E g \in [Upto(n) -> Nat] : \A s \in Upto(n) : g[s] = SumStep(h, g, s)
<1>1. Good(0)
  <2> DEFINE g == [s \in Upto(0) |-> 0]
  <2>1. g \in [Upto(0) -> Nat]
    OBVIOUS
  <2>2. ASSUME NEW s \in Upto(0) PROVE g[s] = SumStep(h, g, s)
    <3>1. s = {}
      <4>1. s \in SUBSET Pids /\ Cardinality(s) <= 0
        OBVIOUS
      <4>2. Cardinality(s) \in Nat /\ (Cardinality(s) = 0 => s = {})
        BY <4>1, SmallerSet
      <4> QED
        BY <4>1, <4>2
    <3>2. SumStep(h, g, s) = 0
      BY <3>1, Zenon DEF SumStep
    <3> QED
      BY <2>2, <3>2
  <2> QED
    BY <2>1, <2>2
<1>2. ASSUME NEW n \in Nat, Good(n) PROVE Good(n + 1)
  <2>1. PICK g \in [Upto(n) -> Nat] : \A s \in Upto(n) : g[s] = SumStep(h, g, s)
    BY <1>2
  <2> DEFINE f == [s \in Upto(n + 1) |-> SumStep(h, g, s)]
  <2>2. ASSUME NEW s \in Upto(n + 1), s # {}
        PROVE  Pick(s) \in Pids /\ s \ {Pick(s)} \in Upto(n)
    <3>1. s \in SUBSET Pids /\ Cardinality(s) <= n + 1
      OBVIOUS
    <3>2. /\ Pick(s) \in s /\ s \ {Pick(s)} \in SUBSET Pids
          /\ Cardinality(s \ {Pick(s)}) = Cardinality(s) - 1 /\ Cardinality(s) \in Nat
      BY <2>2, <3>1, SmallerSet
    <3> QED
      BY <3>1, <3>2
  <2>3. f \in [Upto(n + 1) -> Nat]
    <3>1. ASSUME NEW s \in Upto(n + 1) PROVE SumStep(h, g, s) \in Nat
      <4>1. CASE s = {}
        BY <4>1 DEF SumStep
      <4>2. CASE s # {}
        <5>1. h[Pick(s)] \in Nat /\ g[s \ {Pick(s)}] \in Nat
          BY <2>1, <2>2, <4>2
        <5> QED
          BY <4>2, <5>1 DEF SumStep
      <4> QED
        BY <4>1, <4>2
    <3> QED
      BY <3>1
  <2>4. ASSUME NEW s \in Upto(n + 1) PROVE f[s] = SumStep(h, f, s)
    <3>1. CASE s = {}
      BY <3>1 DEF SumStep
    <3>2. CASE s # {}
      <4> DEFINE t == s \ {Pick(s)}
      <4>1. t \in Upto(n)
        BY <2>2, <3>2
      <4>2. t \in Upto(n + 1)
        <5>1. t \in SUBSET Pids /\ Cardinality(t) <= n /\ Cardinality(t) \in Nat
          BY <4>1, SmallerSet
        <5> QED
          BY <5>1
      <4>3. f[t] = g[t]
        BY <2>1, <4>1, <4>2
      <4> QED
        BY <3>2, <4>3 DEF SumStep
    <3> QED
      BY <3>1, <3>2
  <2> HIDE DEF f
  <2> QED
    BY <2>3, <2>4
<1>3. ASSUME NEW n \in Nat PROVE Good(n)
  <2> DEFINE T == {m \in Nat : ~ Good(m)}
  <2> HIDE DEF Good
  <2>1. SUFFICES ASSUME T # {} PROVE FALSE
    OBVIOUS
  <2>2. PICK m \in T : \A k \in T : ~ (k < m)
    <3>1. T \subseteq Nat
      OBVIOUS
    <3> HIDE DEF T
    <3> QED
      BY <2>1, <3>1, LeastNatural
  <2>3. m \in Nat /\ ~ Good(m) /\ m # 0
    BY <1>1
  <2>4. m - 1 \in Nat /\ m - 1 \notin T
    BY <2>2, <2>3
  <2>5. Good(m - 1)
    BY <2>4
  <2>6. Good((m - 1) + 1)
    BY <1>2, <2>4, <2>5
  <2>7. (m - 1) + 1 = m
    BY <2>3
  <2> QED
    BY <2>3, <2>6, <2>7
<1>4. Cardinality(Pids) \in Nat /\ Upto(Cardinality(Pids)) = SUBSET Pids
  <2>1. Cardinality(Pids) \in Nat
    BY LwlockAssumption, FS_CardinalityType
  <2>2. \A s \in SUBSET Pids : Cardinality(s) <= Cardinality(Pids)
    BY LwlockAssumption, FS_Subset
  <2> QED
    BY <2>1, <2>2
<1>5. PICK g \in [SUBSET Pids -> Nat] : \A s \in SUBSET Pids : g[s] = SumStep(h, g, s)
  <2>1. Good(Cardinality(Pids))
    BY <1>3, <1>4
  <2> HIDE DEF Upto
  <2> QED
    BY <1>4, <2>1
<1>6. Sums(h, g)
  BY <1>5 DEF Sums
<1> QED
  BY <1>6

\* Two functions that differ at one process have sums that differ by as much.
LEMMA SumsDiffer ==
    ASSUME NEW h \in [Pids -> Nat], NEW f \in [Pids -> Nat], NEW p \in Pids, NEW d \in Int,
           f[p] = h[p] + d, \A q \in Pids : q # p => f[q] = h[q],
           NEW a, Sums(h, a), NEW b, Sums(f, b)
    PROVE  \A s \in SUBSET Pids : a[s] \in Nat /\ b[s] = a[s] + (IF p \in s THEN d ELSE 0)
<1> DEFINE Right(s) == a[s] \in Nat /\ b[s] = a[s] + (IF p \in s THEN d ELSE 0)
           T == {n \in Nat : \E s \in SUBSET Pids : Cardinality(s) = n /\ ~ Right(s)}
<1> HIDE DEF Right
<1>1. \A s \in SUBSET Pids : a[s] = SumStep(h, a, s) /\ b[s] = SumStep(f, b, s)
  BY DEF Sums
<1>2. SUFFICES ASSUME T # {} PROVE FALSE
  <2>1. \A s \in SUBSET Pids : Cardinality(s) \in Nat
    BY SmallerSet
  <2>2. \A s \in SUBSET Pids : Right(s)
    BY <1>2, <2>1
  <2> QED
    BY <2>2 DEF Right
<1>3. PICK n \in T : \A m \in T : ~ (m < n)
  <2>1. T \subseteq Nat
    OBVIOUS
  <2> HIDE DEF T
  <2> QED
    BY <1>2, <2>1, LeastNatural
<1>4. PICK s \in SUBSET Pids : Cardinality(s) = n /\ ~ Right(s)
  BY <1>3
<1>5. CASE s = {}
  <2>1. SumStep(h, a, s) = 0 /\ SumStep(f, b, s) = 0 /\ p \notin s
    BY <1>5, Zenon DEF SumStep
  <2>2. a[s] = 0 /\ b[s] = 0
    BY <1>1, <2>1
  <2> QED
    BY <1>4, <2>1, <2>2 DEF Right
<1>6. CASE s # {}
  <2> DEFINE x == Pick(s)
             t == s \ {x}
  <2>1. x \in s /\ t \in SUBSET Pids /\ Cardinality(t) = n - 1 /\ n \in Nat /\ n # 0 /\ x \in Pids
    BY <1>4, <1>6, SmallerSet
  <2>2. Right(t)
    <3>1. n - 1 \in Nat /\ n - 1 < n
      BY <2>1
    <3>2. n - 1 \notin T
      BY <1>3, <3>1
    <3> QED
      BY <2>1, <3>1, <3>2
  <2>3. a[s] = h[x] + a[t] /\ b[s] = f[x] + b[t]
    BY <1>1, <1>6 DEF SumStep
  <2> HIDE DEF x
  <2>4. CASE x = p
    <3>1. p \notin t /\ p \in s
      BY <2>1, <2>4
    <3>2. a[t] \in Nat /\ b[t] = a[t]
      BY <2>2, <3>1 DEF Right
    <3> QED
      BY <1>4, <2>1, <2>3, <2>4, <3>1, <3>2 DEF Right
  <2>5. CASE x # p
    <3>1. p \in t <=> p \in s
      BY <2>5
    <3>2. f[x] = h[x] /\ h[x] \in Nat
      BY <2>1, <2>5
    <3>3. a[t] \in Nat /\ b[t] = a[t] + (IF p \in s THEN d ELSE 0)
      BY <2>2, <3>1 DEF Right
    <3> HIDE DEF t
    <3> QED
      BY <1>4, <2>3, <3>2, <3>3 DEF Right
  <2> QED
    BY <2>4, <2>5
<1> QED
  BY <1>5, <1>6

\* The samples of the processes, added up, as SamplesAddUp has it.
Held(a) == [p \in Pids |-> a[p].held_durations_pid]
HeldSum(a) == MapThenSumSet(LAMBDA p : a[p].held_durations_pid, Pids)

\* This is the sum in the sense of the lemmas above.
LEMMA HeldSums ==
    ASSUME NEW a, \A p \in Pids : a[p].held_durations_pid \in Nat
    PROVE  \E g : Sums(Held(a), g) /\ HeldSum(a) = g[Pids]
<1> DEFINE IsSum(g) == g = [s \in SUBSET Pids |-> IF s = {} THEN 0
                                ELSE a[CHOOSE x \in s : TRUE].held_durations_pid
                                        + g[s \ {CHOOSE x \in s : TRUE}]]
           gg == CHOOSE g : IsSum(g)
<1>1. \A g : IsSum(g) <=> Sums(Held(a), g)
  <2> SUFFICES ASSUME NEW g PROVE IsSum(g) <=> Sums(Held(a), g)
    OBVIOUS
  <2>1. ASSUME NEW s \in SUBSET Pids
        PROVE  (IF s = {} THEN 0 ELSE a[CHOOSE x \in s : TRUE].held_durations_pid
                                        + g[s \ {CHOOSE x \in s : TRUE}])
                = SumStep(Held(a), g, s)
    <3>1. s # {} => Pick(s) \in Pids
      BY SmallerSet
    <3>2. s # {} => Held(a)[Pick(s)] = a[Pick(s)].held_durations_pid
      BY <3>1 DEF Held
    <3> QED
      BY <3>2 DEF SumStep, Pick
  <2>2. [s \in SUBSET Pids |-> IF s = {} THEN 0
                                ELSE a[CHOOSE x \in s : TRUE].held_durations_pid
                                        + g[s \ {CHOOSE x \in s : TRUE}]]
         = [s \in SUBSET Pids |-> SumStep(Held(a), g, s)]
    BY <2>1, Zenon
  <2> QED
    BY <2>2 DEF Sums
<1>2. \E g : IsSum(g)
  <2>1. Held(a) \in [Pids -> Nat]
    BY DEF Held
  <2>2. PICK g : Sums(Held(a), g)
    BY <2>1, SumsExist
  <2> HIDE DEF IsSum
  <2> QED
    BY <1>1, <2>2
<1>3. IsSum(gg)
  <2> HIDE DEF IsSum
  <2> QED
    BY <1>2
<1>4. HeldSum(a) = gg[Pids]
  BY DEF HeldSum, MapThenSumSet, MapThenFoldSet
<1> HIDE DEF gg, IsSum
<1> QED
  BY <1>1, <1>3, <1>4

\* Two states of the arrays that differ in the samples of one process.
LEMMA HeldSumDiffers ==
    ASSUME NEW a, NEW b, NEW p \in Pids, NEW d \in Int,
           \A q \in Pids : a[q].held_durations_pid \in Nat /\ b[q].held_durations_pid \in Nat,
           b[p].held_durations_pid = a[p].held_durations_pid + d,
           \A q \in Pids : q # p => b[q].held_durations_pid = a[q].held_durations_pid
    PROVE  HeldSum(a) \in Nat /\ HeldSum(b) = HeldSum(a) + d
<1>1. PICK g : Sums(Held(a), g) /\ HeldSum(a) = g[Pids]
  BY HeldSums
<1>2. PICK f : Sums(Held(b), f) /\ HeldSum(b) = f[Pids]
  BY HeldSums
<1>3. /\ Held(a) \in [Pids -> Nat] /\ Held(b) \in [Pids -> Nat]
      /\ Held(b)[p] = Held(a)[p] + d /\ \A q \in Pids : q # p => Held(b)[q] = Held(a)[q]
  BY DEF Held
<1>4. \A s \in SUBSET Pids : g[s] \in Nat /\ f[s] = g[s] + (IF p \in s THEN d ELSE 0)
  BY <1>1, <1>2, <1>3, SumsDiffer
<1>5. g[Pids] \in Nat /\ f[Pids] = g[Pids] + d
  BY <1>4
<1> QED
  BY <1>1, <1>2, <1>5

\* The sum of nothing but zeros.
LEMMA HeldSumZero ==
    ASSUME NEW a, \A p \in Pids : a[p].held_durations_pid = 0
    PROVE  HeldSum(a) = 0
<1>1. PICK g : Sums(Held(a), g) /\ HeldSum(a) = g[Pids]
  BY HeldSums
<1>2. Held(a) \in [Pids -> Nat] /\ \A p \in Pids : Held(a)[p] = 0
  BY DEF Held
<1>3. CASE Pids = {}
  <2>1. SumStep(Held(a), g, Pids) = 0
    BY <1>3, Zenon DEF SumStep
  <2> QED
    BY <1>1, <2>1 DEF Sums
<1>4. CASE Pids # {}
  <2>1. PICK p \in Pids : TRUE
    BY <1>4
  <2> DEFINE z == [s \in SUBSET Pids |-> 0]
  <2>2. Sums(Held(a), z)
    <3>1. ASSUME NEW s \in SUBSET Pids PROVE SumStep(Held(a), z, s) = 0
      <4>1. CASE s = {}
        BY <4>1, Zenon DEF SumStep
      <4>2. CASE s # {}
        <5>1. Pick(s) \in Pids /\ s \ {Pick(s)} \in SUBSET Pids
          BY <4>2, SmallerSet
        <5>2. Held(a)[Pick(s)] = 0 /\ z[s \ {Pick(s)}] = 0
          BY <1>2, <5>1
        <5> QED
          BY <4>2, <5>2 DEF SumStep
      <4> QED
        BY <4>1, <4>2
    <3> QED
      BY <3>1 DEF Sums
  <2> HIDE DEF z
  <2>3. Held(a)[p] = Held(a)[p] + 0
    BY <1>2
  <2>4. \A s \in SUBSET Pids : z[s] \in Nat /\ g[s] = z[s] + (IF p \in s THEN 0 ELSE 0)
    BY <1>1, <1>2, <2>2, <2>3, SumsDiffer
  <2>5. z[Pids] = 0
    BY DEF z
  <2> QED
    BY <1>1, <2>4, <2>5
<1> QED
  BY <1>3, <1>4

\* The sum is a number.
LEMMA HeldSumNat ==
    ASSUME NEW a, \A p \in Pids : a[p].held_durations_pid \in Nat
    PROVE  HeldSum(a) \in Nat
<1>1. CASE Pids = {}
  <2>1. \A p \in Pids : a[p].held_durations_pid = 0
    BY <1>1
  <2> QED
    BY <2>1, HeldSumZero
<1>2. CASE Pids # {}
  <2>1. PICK p \in Pids : TRUE
    BY <1>2
  <2> DEFINE d == 0
  <2>2. d \in Int /\ a[p].held_durations_pid = a[p].held_durations_pid + d
    BY <2>1
  <2>3. \A q \in Pids : a[q].held_durations_pid \in Nat /\ a[q].held_durations_pid \in Nat
    OBVIOUS
  <2>4. \A q \in Pids : q # p => a[q].held_durations_pid = a[q].held_durations_pid
    OBVIOUS
  <2> HIDE DEF d
  <2> QED
    BY <2>1, <2>2, <2>3, <2>4, HeldSumDiffers
<1> QED
  BY <1>1, <1>2

-----------------------------------------------------------------------------
(* The server's processes.                                                 *)

PcType == Lives \cup {"exit", "exit2", "dead"}
OpType == [func : Funcs, lock : Locks \cup {NoLock}, mode : Modes]

\* A process has a lock once, and not the one it is asking for or has just released.
Calls(p) ==
    /\ pc[p] \notin Lives => mine[p] = {}
    /\ \A e, f \in mine[p] : e[1] = f[1] => e = f
    /\ pc[p] \in {"queue", "sleep", "fail", "release"} => \A e \in mine[p] : e[1] # op[p].lock
    /\ pc[p] \in {"got", "got2"} => <<op[p].lock, op[p].mode>> \in mine[p]
    /\ pc[p] \in InAcquire \cup {"release"} => op[p].lock \in Locks

ServerTypes ==
    /\ pc \in [Pids -> PcType] /\ op \in [Pids -> OpType]
    /\ mine \in [Pids -> SUBSET (Locks \X Modes)]
    /\ nwaits \in [Pids -> 0..MaxWaits] /\ ops \in 0..MaxOps
    /\ late \in BOOLEAN /\ opt \in OptionType /\ tweaks \in 0..MaxTweaks

\* A setting that is not in off is on, and has been all along.
OffInv == off \subseteq SettingNames /\ \A o \in SettingNames : opt[o] \/ o \in off

ServerInv == ServerTypes /\ OffInv /\ \A p \in Pids : Calls(p)

\* What that means for the settings on which the handlers depend.
LEMMA OnAllAlong ==
    ASSUME OffInv, opt \in OptionType
    PROVE  /\ "track_per_process" \notin off => opt.track_per_process
           /\ "track_blockers" \notin off => opt.track_blockers
           /\ "track_application_names" \notin off => opt.track_application_names
           /\ Tracked => TracksHeld
<1>1. /\ "track_per_process" \in SettingNames /\ "track_blockers" \in SettingNames
      /\ "track_application_names" \in SettingNames /\ "track_holds" \in SettingNames
  BY DEF SettingNames
<1>2. /\ opt.track_per_process \/ "track_per_process" \in off
      /\ opt.track_blockers \/ "track_blockers" \in off
      /\ opt.track_application_names \/ "track_application_names" \in off
      /\ opt.track_holds \/ "track_holds" \in off
  BY <1>1 DEF OffInv
<1> QED
  BY <1>2 DEF Tracked, TracksHeld

\* The invariant of the server holds at the start.
LEMMA ServerInit == Init => ServerInv
<1> SUFFICES ASSUME Init PROVE ServerInv
  OBVIOUS
<1>1. NoCall \in OpType /\ "dead" \in PcType /\ "dead" \notin Lives
  BY DEF NoCall, OpType, Funcs, Modes, PcType, Lives
<1>2. ops \in 0..MaxOps /\ tweaks \in 0..MaxTweaks /\ nwaits \in [Pids -> 0..MaxWaits]
  BY LwlockAssumption DEF Init
<1>3. late \in BOOLEAN /\ opt \in OptionType
  BY LwlockAssumption, Zenon DEF Init
<1>4. pc \in [Pids -> PcType] /\ op \in [Pids -> OpType] /\ mine \in [Pids -> SUBSET (Locks \X Modes)]
  BY <1>1 DEF Init
<1>5. ASSUME NEW p \in Pids PROVE Calls(p)
  BY <1>1 DEF Init, Calls, InAcquire
<1>6. OffInv
  BY DEF Init, OffInv
<1> QED
  BY <1>2, <1>3, <1>4, <1>5, <1>6 DEF ServerInv, ServerTypes

\* A step of p is about p.
LEMMA ServerOwn ==
    ASSUME ServerInv, NEW p \in Pids, NEW l \in PcType, Goto(p, l),
           NEW c \in OpType, op' = [op EXCEPT ![p] = c],
           NEW m \in SUBSET (Locks \X Modes), mine' = [mine EXCEPT ![p] = m],
           NEW n \in 0..MaxWaits, nwaits' = [nwaits EXCEPT ![p] = n],
           ops' \in 0..MaxOps, UNCHANGED Settings,
           l \notin Lives => m = {},
           \A e, f \in m : e[1] = f[1] => e = f,
           l \in {"queue", "sleep", "fail", "release"} => \A e \in m : e[1] # c.lock,
           l \in {"got", "got2"} => <<c.lock, c.mode>> \in m,
           l \in InAcquire \cup {"release"} => c.lock \in Locks
    PROVE  ServerInv'
<1>1. ServerTypes' /\ OffInv'
  <2>1. OffInv'
    BY DEF ServerInv, OffInv, Settings
  <2> QED
    BY <2>1 DEF ServerInv, ServerTypes, Goto, Settings
<1>2. /\ pc'[p] = l /\ op'[p] = c /\ mine'[p] = m
      /\ \A q \in Pids : q # p => pc'[q] = pc[q] /\ op'[q] = op[q] /\ mine'[q] = mine[q]
  BY DEF ServerInv, ServerTypes, Goto
<1>3. ASSUME NEW q \in Pids, q # p PROVE Calls(q)'
  <2>1. Calls(q) /\ pc'[q] = pc[q] /\ op'[q] = op[q] /\ mine'[q] = mine[q]
    BY <1>2, <1>3 DEF ServerInv
  <2> QED
    BY <2>1 DEF Calls
<1>4. Calls(p)'
  BY <1>2 DEF Calls
<1> QED
  BY <1>1, <1>3, <1>4 DEF ServerInv

\* A process that goes on with what it does.
LEMMA ServerGoes ==
    ASSUME ServerInv, NEW p \in Pids, NEW l \in PcType, Goto(p, l),
           UNCHANGED <<op, mine, ops, Settings>>,
           NEW n \in 0..MaxWaits, nwaits' = [nwaits EXCEPT ![p] = n],
           l \notin Lives => mine[p] = {},
           l \in {"queue", "sleep", "fail", "release"} => pc[p] \in {"queue", "sleep", "fail", "release"},
           l \in {"got", "got2"} => pc[p] \in {"got", "got2"},
           l \in InAcquire \cup {"release"} => pc[p] \in InAcquire \cup {"release"}
    PROVE  ServerInv'
<1>1. /\ op[p] \in OpType /\ mine[p] \in SUBSET (Locks \X Modes) /\ Calls(p) /\ ops' \in 0..MaxOps
      /\ op' = [op EXCEPT ![p] = op[p]] /\ mine' = [mine EXCEPT ![p] = mine[p]]
      /\ UNCHANGED Settings
  BY DEF ServerInv, ServerTypes
<1> QED
  BY <1>1, ServerOwn DEF Calls

\* An attempt gets the lock, or leaves things as they are.
LEMMA ServerAttempt ==
    ASSUME ServerInv, NEW p \in Pids, NEW c \in OpType, Attempt(p, c), c.lock \in Locks,
           op' = [op EXCEPT ![p] = c], \A e \in mine[p] : e[1] # c.lock,
           NEW n \in 0..MaxWaits, nwaits' = [nwaits EXCEPT ![p] = n],
           ops' \in 0..MaxOps, UNCHANGED Settings
    PROVE  /\ ServerInv' /\ pc'[p] \in {"got", "fail", "queue"}
           /\ \A q \in Pids : q # p => pc'[q] = pc[q]
           /\ mine' = IF pc'[p] = "got" THEN [mine EXCEPT ![p] = @ \cup {<<c.lock, c.mode>>}] ELSE mine
<1>1. mine \in [Pids -> SUBSET (Locks \X Modes)] /\ pc \in [Pids -> PcType] /\ Calls(p) /\ c.mode \in Modes
  BY DEF ServerInv, ServerTypes, OpType
<1>2. CASE Goto(p, "got") /\ mine' = [mine EXCEPT ![p] = @ \cup {<<c.lock, c.mode>>}]
  <2> DEFINE m == mine[p] \cup {<<c.lock, c.mode>>}
  <2>1. mine' = [mine EXCEPT ![p] = m] /\ m \in SUBSET (Locks \X Modes)
    BY <1>1, <1>2
  <2>2. \A e, f \in m : e[1] = f[1] => e = f
    BY <1>1 DEF Calls
  <2>3. <<c.lock, c.mode>> \in m
    OBVIOUS
  <2>4. pc'[p] = "got" /\ \A q \in Pids : q # p => pc'[q] = pc[q]
    BY <1>1, <1>2 DEF Goto
  <2>5. ServerInv'
    <3>1. "got" \in PcType /\ "got" \in Lives
      BY DEF PcType, Lives
    <3> HIDE DEF m
    <3> QED
      BY <1>2, <2>1, <2>2, <2>3, <3>1, ServerOwn
  <2> QED
    BY <1>2, <2>4, <2>5
<1>3. CASE \E l \in {"fail", "queue"} : Goto(p, l) /\ UNCHANGED mine
  <2>1. PICK l \in {"fail", "queue"} : Goto(p, l) /\ UNCHANGED mine
    BY <1>3
  <2>2. mine' = [mine EXCEPT ![p] = mine[p]] /\ mine[p] \in SUBSET (Locks \X Modes)
    BY <1>1, <2>1
  <2>3. pc'[p] = l /\ \A q \in Pids : q # p => pc'[q] = pc[q]
    BY <1>1, <2>1 DEF Goto
  <2>4. ServerInv'
    BY <1>1, <2>1, <2>2, ServerOwn DEF PcType, Lives, InAcquire, Calls
  <2> QED
    BY <2>1, <2>3, <2>4
<1> QED
  BY <1>2, <1>3 DEF Attempt

\* The steps of a process but for those that ask for a lock or give it back.
LEMMA PlainStep ==
    ASSUME ServerInv, NEW p \in Pids,
           \/ BackendStarts(p) \/ NameAssigned(p) \/ WaitStart(p) \/ Acquired(p) \/ WaitDone(p)
           \/ AcquireEnd(p) \/ Release(p) \/ Exit(p) \/ ExitReported(p)
    PROVE  ServerInv'
<1>1. /\ nwaits[p] \in 0..MaxWaits /\ nwaits \in [Pids -> 0..MaxWaits] /\ Calls(p)
      /\ pc \in [Pids -> PcType] /\ pc[p] \in PcType /\ MaxWaits \in Nat
  BY LwlockAssumption DEF ServerInv, ServerTypes
<1>2. PICK l \in PcType, n \in 0..MaxWaits :
          /\ Goto(p, l) /\ UNCHANGED <<op, mine, ops, Settings>> /\ nwaits' = [nwaits EXCEPT ![p] = n]
          /\ l \notin Lives => mine[p] = {}
          /\ l \in {"queue", "sleep", "fail", "release"} => pc[p] \in {"queue", "sleep", "fail", "release"}
          /\ l \in {"got", "got2"} => pc[p] \in {"got", "got2"}
          /\ l \in InAcquire \cup {"release"} => pc[p] \in InAcquire \cup {"release"}
  <2>1. ASSUME NEW l \in {"idle", "sleep", "got2", "end", "exit", "exit2"}, Goto(p, l),
               UNCHANGED <<op, mine, ops, Settings>>,
               NEW n \in 0..MaxWaits, nwaits' = [nwaits EXCEPT ![p] = n],
               l = "sleep" => pc[p] = "queue", l = "got2" => pc[p] = "got",
               l \in {"exit", "exit2"} => mine[p] = {}
        PROVE  ServerInv'
    BY <2>1, ServerGoes DEF PcType, Lives, InAcquire
  <2>2. nwaits' = nwaits => nwaits' = [nwaits EXCEPT ![p] = nwaits[p]]
    BY <1>1
  <2>3. CASE WaitStart(p)
    <3>1. /\ pc[p] = "queue" /\ Goto(p, "sleep") /\ UNCHANGED <<op, mine, ops, Settings>>
          /\ nwaits[p] + 1 \in 0..MaxWaits
          /\ nwaits' = [nwaits EXCEPT ![p] = nwaits[p] + 1] \/ nwaits' = nwaits
      BY <1>1, <2>3 DEF WaitStart
    <3> QED
      BY <1>1, <2>2, <3>1 DEF PcType, Lives, InAcquire
  <2>4. CASE NameAssigned(p)
    <3>1. Goto(p, "idle") /\ pc[p] = "idle" /\ UNCHANGED <<op, mine, nwaits, ops, Settings>>
      BY <1>1, <2>4 DEF NameAssigned, server, Goto
    <3> QED
      BY <1>1, <2>2, <3>1 DEF PcType, Lives, InAcquire
  <2>5. CASE BackendStarts(p) \/ WaitDone(p) \/ AcquireEnd(p) \/ Release(p)
    <3>1. PICK l \in {"idle", "end"} : Goto(p, l) /\ UNCHANGED <<op, mine, nwaits, ops, Settings>>
      BY <2>5 DEF BackendStarts, WaitDone, AcquireEnd, Release
    <3> QED
      BY <1>1, <2>2, <3>1 DEF PcType, Lives, InAcquire
  <2>6. CASE Acquired(p)
    <3>1. Goto(p, "got2") /\ pc[p] = "got" /\ UNCHANGED <<op, mine, nwaits, ops, Settings>>
      BY <2>6 DEF Acquired
    <3> QED
      BY <1>1, <2>2, <3>1 DEF PcType, Lives, InAcquire
  <2>7. CASE Exit(p) \/ ExitReported(p)
    <3>1. PICK l \in {"exit", "exit2"} : Goto(p, l) /\ UNCHANGED <<op, mine, nwaits, ops, Settings>>
      BY <2>7 DEF Exit, ExitReported
    <3>2. mine[p] = {}
      BY <1>1, <2>7 DEF Exit, ExitReported, Calls, Lives
    <3> QED
      BY <1>1, <2>2, <3>1, <3>2 DEF PcType, Lives, InAcquire
  <2> QED
    BY <2>3, <2>4, <2>5, <2>6, <2>7
<1> QED
  BY <1>2, ServerGoes

\* The steps that change which locks a process has, or its call.
LEMMA LockStep ==
    ASSUME ServerInv, NEW p \in Pids, Call(p) \/ Wake(p) \/ Unlock(p) \/ ExitForgotten(p)
    PROVE  ServerInv'
<1>1. /\ nwaits[p] \in 0..MaxWaits /\ nwaits \in [Pids -> 0..MaxWaits] /\ Calls(p)
      /\ op[p] \in OpType /\ op \in [Pids -> OpType] /\ 0 \in 0..MaxWaits
      /\ mine \in [Pids -> SUBSET (Locks \X Modes)] /\ mine[p] \in SUBSET (Locks \X Modes)
      /\ ops \in 0..MaxOps /\ MaxOps \in Nat
  BY LwlockAssumption DEF ServerInv, ServerTypes
<1>2. CASE Call(p)
  <2>1. PICK c \in [func : Funcs, lock : Locks, mode : Modes] :
            /\ \A e \in mine[p] : e[1] # c.lock
            /\ op' = [op EXCEPT ![p] = c] /\ Attempt(p, c)
    BY <1>2 DEF Call
  <2>2. /\ ops' \in 0..MaxOps /\ nwaits' = [nwaits EXCEPT ![p] = 0] /\ UNCHANGED Settings
        /\ c \in OpType /\ c.lock \in Locks
    BY <1>1, <1>2 DEF Call, OpType
  <2> QED
    BY <1>1, <2>1, <2>2, ServerAttempt
<1>3. CASE Wake(p)
  <2>1. /\ pc[p] = "sleep" /\ UNCHANGED <<op, nwaits, ops, Settings>> /\ op[p].lock \in Locks
        /\ \A e \in mine[p] : e[1] # op[p].lock
        /\ op' = [op EXCEPT ![p] = op[p]] /\ nwaits' = [nwaits EXCEPT ![p] = nwaits[p]]
        /\ ops' \in 0..MaxOps
    BY <1>1, <1>3 DEF Wake, Calls, InAcquire
  <2>2. CASE Attempt(p, op[p])
    BY <1>1, <2>1, <2>2, ServerAttempt
  <2>3. CASE Goto(p, "fail") /\ UNCHANGED mine
    <3>1. "fail" \in PcType /\ "fail" \in Lives /\ "sleep" \in InAcquire
      BY DEF PcType, Lives, InAcquire
    <3>2. UNCHANGED <<op, mine, ops, Settings>>
      BY <2>1, <2>3
    <3> QED
      BY <1>1, <2>1, <2>3, <3>1, <3>2, ServerGoes
  <2> QED
    BY <1>3, <2>2, <2>3 DEF Wake
<1>4. CASE Unlock(p)
  <2>1. PICK e \in mine[p] : /\ mine' = [mine EXCEPT ![p] = @ \ {e}]
                             /\ op' = [op EXCEPT ![p].lock = e[1], ![p].mode = e[2]]
    BY <1>4 DEF Unlock
  <2>2. /\ Goto(p, "release") /\ UNCHANGED <<nwaits, ops, Settings>>
        /\ nwaits' = [nwaits EXCEPT ![p] = nwaits[p]] /\ ops' \in 0..MaxOps
    BY <1>1, <1>4 DEF Unlock
  <2> DEFINE c == [op[p] EXCEPT !.lock = e[1], !.mode = e[2]]
             m == mine[p] \ {e}
  <2>3. e[1] \in Locks /\ e[2] \in Modes
    BY <1>1
  <2>4. c \in OpType /\ c.lock = e[1] /\ op' = [op EXCEPT ![p] = c]
    BY <1>1, <2>1, <2>3 DEF OpType
  <2>5. /\ mine' = [mine EXCEPT ![p] = m] /\ m \in SUBSET (Locks \X Modes)
        /\ \A x, y \in m : x[1] = y[1] => x = y
        /\ \A x \in m : x[1] # e[1]
    BY <1>1, <2>1 DEF Calls
  <2>6. "release" \in PcType /\ "release" \in Lives
    BY DEF PcType, Lives
  <2> HIDE DEF c, m
  <2> QED
    <3>1. UNCHANGED Settings
      BY <2>2
    <3> QED
      <4>1. \A x \in m : x[1] # c.lock
        BY <2>4, <2>5
      <4>2. PICK n \in 0..MaxWaits : nwaits' = [nwaits EXCEPT ![p] = n]
        BY <1>1, <2>2
      <4>3. PICK l \in PcType : Goto(p, l) /\ l \in Lives /\ l \notin {"got", "got2"}
        BY <2>2, <2>6
      <4>4. c.lock \in Locks /\ \A x, y \in m : x[1] = y[1] => x = y
        BY <2>3, <2>4, <2>5
      <4>5. m \in SUBSET (Locks \X Modes) /\ c \in OpType /\ ops' \in 0..MaxOps
        BY <2>2, <2>4, <2>5
      <4>6. mine' = [mine EXCEPT ![p] = m] /\ op' = [op EXCEPT ![p] = c]
        BY <2>4, <2>5
      <4> QED
        BY <3>1, <4>1, <4>2, <4>3, <4>4, <4>5, <4>6, ServerOwn
<1>5. CASE ExitForgotten(p)
  <2>1. /\ Goto(p, "dead") /\ op' = [op EXCEPT ![p] = NoCall] /\ nwaits' = [nwaits EXCEPT ![p] = 0]
        /\ UNCHANGED <<mine, ops, Settings>> /\ pc[p] = "exit2"
    BY <1>5 DEF ExitForgotten
  <2>2. NoCall \in OpType /\ "dead" \in PcType /\ "dead" \notin Lives \cup InAcquire
    BY DEF NoCall, OpType, Funcs, Modes, PcType, Lives, InAcquire
  <2>3. mine[p] = {} /\ mine' = [mine EXCEPT ![p] = {}] /\ ops' \in 0..MaxOps
    BY <1>1, <2>1 DEF Calls, Lives
  <2> QED
    <3>1. UNCHANGED Settings /\ {} \in SUBSET (Locks \X Modes)
      BY <2>1
    <3> QED
      <4>1. PICK n \in 0..MaxWaits : nwaits' = [nwaits EXCEPT ![p] = n]
        BY <1>1, <2>1
      <4>2. PICK l \in PcType : /\ Goto(p, l) /\ l \notin InAcquire \cup {"release"}
                               /\ l \notin {"queue", "sleep", "fail", "release"} /\ l \notin {"got", "got2"}
        BY <2>1, <2>2
      <4>3. PICK m \in SUBSET (Locks \X Modes) : m = {} /\ mine' = [mine EXCEPT ![p] = m]
        BY <2>3, <3>1
      <4>4. \A e, f \in m : e[1] = f[1] => e = f
        BY <4>3
      <4> QED
        BY <2>1, <2>2, <2>3, <3>1, <4>1, <4>2, <4>3, <4>4, ServerOwn
<1> QED
  BY <1>2, <1>3, <1>4, <1>5

\* Every step keeps the invariant of the server.
LEMMA ServerNext == ASSUME ServerInv, [Next]_vars PROVE ServerInv'
<1>1. ASSUME NEW p \in Pids, Backend(p) PROVE ServerInv'
  BY <1>1, PlainStep, LockStep DEF Backend
<1>2. CASE ServerCrash
  <2>1. /\ \A p \in Pids : /\ pc'[p] \in {"exit", "exit2", "dead"} /\ mine'[p] = {}
        /\ UNCHANGED <<op, nwaits, ops, late, opt, tweaks, off>>
    BY <1>2 DEF ServerCrash, ServerInv, ServerTypes, PcType, Settings
  <2>2. ServerTypes'
    BY <1>2, <2>1 DEF ServerInv, ServerTypes, ServerCrash, PcType, Lives
  <2>3. \A p \in Pids : Calls(p)'
    BY <2>1 DEF Calls, Lives, InAcquire
  <2>4. OffInv'
    BY <2>1 DEF ServerInv, OffInv
  <2> QED
    BY <2>2, <2>3, <2>4 DEF ServerInv
<1>3. CASE Tweak
  <2>1. UNCHANGED <<pc, op, mine, nwaits, ops, late>>
    BY <1>3 DEF Tweak, server
  <2>2. opt' \in OptionType
    BY <1>3, LwlockAssumption DEF Tweak, OptionType, ServerInv, ServerTypes
  <2>3. tweaks' \in 0..MaxTweaks
    BY <1>3, LwlockAssumption DEF Tweak, ServerInv, ServerTypes
  <2>4. OffInv'
    BY <1>3 DEF Tweak, ServerInv, OffInv
  <2> QED
    BY <2>1, <2>2, <2>3, <2>4 DEF ServerInv, ServerTypes, Calls
<1>4. CASE UNCHANGED <<pc, op, mine, nwaits, ops, late, opt, tweaks, off>>
  BY <1>4 DEF ServerInv, ServerTypes, OffInv, Calls
<1> QED
  BY <1>1, <1>2, <1>3, <1>4 DEF Next, ScriptStarts, Timer, server, Settings, vars

-----------------------------------------------------------------------------
(* The script's arrays follow the server.                                  *)

EntryType == [pid : Pids, lock : Locks, mode : Modes]

\* The entries of a process, samples without their bound.
ArrType ==
    [lock_wait_start_us : 0..MaxWaits, lock_wait_lwlock_p : Locks \cup {NoLock},
     lock_wait_blocker : Pids \cup {NoPid, "none"}, acquire_func : BOOLEAN,
     application_names : BOOLEAN, held_durations_pid : Nat, wait_durations_pid : Nat]
SampleType == [held : Nat, wait : Nat]

ScriptTypes ==
    /\ tracing \in {"off", "on", "aborted"}
    /\ locks_held_by_pid \subseteq EntryType /\ arrays \in [Pids -> ArrType]
    /\ failed \in {"none", "busy", "blocker", "mismatch", "unfinished"}
    /\ allprocs \in SampleType /\ dropped \in SampleType
    /\ printed \in Nat /\ contended \in Nat

\* A process in none of the lock functions' waits, or not there.
Quiet == {"idle", "end", "release", "dead"}

\* The entries a of a process that is at l and has waited n times for the lock k: of a
\* wait only while it lasts, of a blocker also later, if track_blockers was turned off
\* meanwhile; and what is left of a process that has gone, unless settings were off.
Waits(a, l, n, k) ==
    /\ l \in Lives => a.lock_wait_start_us = IF l \in InAcquire /\ n > 0 THEN 1 ELSE 0
    /\ l \in Quiet => a.lock_wait_start_us = 0 /\ a.lock_wait_lwlock_p = NoLock /\ ~ a.acquire_func
    /\ l \in Quiet /\ tweaks <= 1 /\ opt.track_blockers => a.lock_wait_blocker = "none"
    /\ l \in InAcquire => a.lock_wait_lwlock_p = IF a.lock_wait_start_us # 0 THEN k ELSE NoLock
    /\ tweaks = 0 /\ ~ opt.track_blockers => a.lock_wait_blocker = "none"
    /\ l = "dead" /\ "track_blockers" \notin off => a.lock_wait_blocker = "none"
    /\ l = "dead" /\ "track_application_names" \notin off => ~ a.application_names
    /\ l \in {"exit2", "dead"} /\ "track_per_process" \notin off => a.held_durations_pid = 0

\* Whether p has lock l in mode m, seen from the acquired and release events; and
\* whether the script says so.
Has(p, l, m) ==
    LET this == l = op[p].lock /\ m = op[p].mode IN
    /\ pc[p] = "got" => <<l, m>> \in mine[p] /\ ~ this
    /\ pc[p] = "release" => <<l, m>> \in mine[p] \/ this
    /\ pc[p] \notin {"got", "release"} => <<l, m>> \in mine[p]
In(p, l, m) == Entry(p, l, m) \in locks_held_by_pid

Holds(p) ==
    Tracked => \A l \in Locks, m \in Modes :
        /\ pc[p] \in Lives => (In(p, l, m) => Has(p, l, m)) /\ (late \/ (Has(p, l, m) => In(p, l, m)))
        /\ pc[p] = "dead" => ~ In(p, l, m)

\* One process, as the script sees it.
Followed(p) == Waits(arrays[p], pc[p], nwaits[p], op[p].lock) /\ Holds(p)

TraceInv ==
    /\ tracing = "on" => \A p \in Pids : Followed(p)
    /\ tracing = "off" => /\ late /\ locks_held_by_pid = {}
                          /\ \A p \in Pids : arrays[p] = NoEntries /\ nwaits[p] = 0
    /\ tracing = "aborted" => failed # "none"
    /\ failed = "none" \/ (failed = "blocker" /\ tweaks > 1)

\* The entries of a process the script knows nothing of.
LEMMA NoEntriesType ==
    /\ NoEntries \in ArrType /\ NoEntries.lock_wait_start_us = 0
    /\ NoEntries.lock_wait_lwlock_p = NoLock /\ NoEntries.lock_wait_blocker = "none"
    /\ ~ NoEntries.acquire_func /\ ~ NoEntries.application_names
    /\ NoEntries.held_durations_pid = 0 /\ NoEntries.wait_durations_pid = 0
BY LwlockAssumption DEF NoEntries, ArrType

\* They are right wherever the process is, when the script has seen no wait.
LEMMA NothingKnown == ASSUME NEW l, NEW k PROVE Waits(NoEntries, l, 0, k)
BY NoEntriesType DEF Waits

\* The invariant holds at the start.
LEMMA TraceInit == Init => ScriptTypes /\ TraceInv
<1> SUFFICES ASSUME Init PROVE ScriptTypes /\ TraceInv
  OBVIOUS
<1>1. /\ locks_held_by_pid = {} /\ failed = "none" /\ tracing \in {"off", "on"}
      /\ tracing = "off" => late
      /\ \A p \in Pids : arrays[p] = NoEntries /\ nwaits[p] = 0 /\ pc[p] = "dead"
  BY DEF Init
<1>2. arrays \in [Pids -> ArrType]
  BY NoEntriesType DEF Init
<1>3. allprocs \in SampleType /\ dropped \in SampleType /\ printed \in Nat /\ contended \in Nat
  BY DEF Init, SampleType
<1>4. ASSUME NEW p \in Pids PROVE Followed(p)
  <2>1. Holds(p)
    BY <1>1 DEF Holds, In, Lives
  <2> QED
    BY <1>1, <2>1, NothingKnown DEF Followed
<1> QED
  BY <1>1, <1>2, <1>3, <1>4 DEF ScriptTypes, TraceInv

\* A step of p is not about anybody else.
OnlyMe(p) ==
    \A q \in Pids : q # p =>
        pc'[q] = pc[q] /\ op'[q] = op[q] /\ mine'[q] = mine[q] /\ nwaits'[q] = nwaits[q]
LEMMA Alone ==
    ASSUME ServerInv, NEW p \in Pids, Backend(p)
    PROVE  OnlyMe(p) /\ UNCHANGED <<late, opt, tweaks, off>>
<1> USE DEF ServerInv, ServerTypes, OnlyMe, Goto
<1>0. UNCHANGED <<late, opt, tweaks, off>>
  BY DEF Backend, BackendStarts, NameAssigned, Call, WaitStart, Wake, Acquired, WaitDone, AcquireEnd,
         Unlock, Release, Exit, ExitReported, ExitForgotten, Settings
<1>1. CASE BackendStarts(p) \/ Acquired(p) \/ WaitDone(p) \/ AcquireEnd(p) \/ Release(p) \/ Exit(p) \/ ExitReported(p)
  BY <1>0, <1>1 DEF BackendStarts, Acquired, WaitDone, AcquireEnd, Release, Exit, ExitReported
<1>2. CASE NameAssigned(p)
  BY <1>0, <1>2 DEF NameAssigned, server
<1>3. CASE Call(p)
  <2>1. PICK c : op' = [op EXCEPT ![p] = c] /\ Attempt(p, c) /\ nwaits' = [nwaits EXCEPT ![p] = 0]
    BY <1>3 DEF Call
  <2> QED
    BY <1>0, <2>1 DEF Attempt
<1>4. CASE WaitStart(p)
  BY <1>0, <1>4 DEF WaitStart
<1>5. CASE Wake(p)
  BY <1>0, <1>5 DEF Wake, Attempt
<1>6. CASE Unlock(p)
  BY <1>0, <1>6 DEF Unlock
<1>7. CASE ExitForgotten(p)
  BY <1>0, <1>7 DEF ExitForgotten
<1> QED
  BY <1>0, <1>1, <1>2, <1>3, <1>4, <1>5, <1>6, <1>7 DEF Backend

StatTypes == allprocs \in SampleType /\ dropped \in SampleType /\ printed \in Nat /\ contended \in Nat

\* A handler that changes the entries of its process only, and what that has to be.
LEMMA ScriptOwn ==
    ASSUME ServerInv, ScriptTypes, TraceInv, NEW p \in Pids, Backend(p), tracing = "on",
           UNCHANGED <<tracing, failed>>, StatTypes',
           NEW r \in ArrType, arrays' = [arrays EXCEPT ![p] = r],
           Waits(r, pc'[p], nwaits'[p], op'[p].lock),
           locks_held_by_pid' \subseteq EntryType, Holds(p)',
           \A q \in Pids, l \in Locks, m \in Modes : q # p => (In(q, l, m)' <=> In(q, l, m))
    PROVE  ScriptTypes' /\ TraceInv'
<1>1. OnlyMe(p) /\ UNCHANGED <<late, opt, tweaks, off>>
  BY Alone
<1>2. arrays \in [Pids -> ArrType] /\ arrays'[p] = r /\ \A q \in Pids : q # p => arrays'[q] = arrays[q]
  BY DEF ScriptTypes
<1>3. ScriptTypes'
  BY DEF ScriptTypes, StatTypes
<1>4. ASSUME NEW q \in Pids, q # p PROVE Followed(q)'
  <2>1. /\ pc'[q] = pc[q] /\ op'[q] = op[q] /\ mine'[q] = mine[q] /\ nwaits'[q] = nwaits[q]
        /\ arrays'[q] = arrays[q]
    BY <1>1, <1>2, <1>4 DEF OnlyMe
  <2>2. Waits(arrays[q], pc[q], nwaits[q], op[q].lock) /\ Holds(q)
    BY DEF TraceInv, Followed
  <2>3. Waits(arrays[q], pc[q], nwaits[q], op[q].lock)'
    BY <1>1, <2>1, <2>2 DEF Waits
  <2>4. Holds(q)'
    <3>1. Tracked' <=> Tracked
      BY <1>1 DEF Tracked
    <3>2. \A l \in Locks, m \in Modes : (In(q, l, m)' <=> In(q, l, m)) /\ (Has(q, l, m)' <=> Has(q, l, m))
      BY <1>4, <2>1 DEF Has
    <3> QED
      BY <1>1, <2>1, <2>2, <3>1, <3>2 DEF Holds
  <2> QED
    BY <2>3, <2>4 DEF Followed
<1>5. Followed(p)'
  BY <1>1, <1>2 DEF Followed, Waits
<1>6. TraceInv'
  <2>1. \A q \in Pids : Followed(q)'
    BY <1>4, <1>5
  <2> QED
    BY <1>1, <2>1 DEF TraceInv
<1> QED
  BY <1>3, <1>6

\* A handler that changes entries, but not the locks.
LEMMA ScriptEntries ==
    ASSUME ServerInv, ScriptTypes, TraceInv, NEW p \in Pids, Backend(p), tracing = "on",
           UNCHANGED <<tracing, failed, locks_held_by_pid>>, StatTypes',
           NEW r \in ArrType, arrays' = [arrays EXCEPT ![p] = r],
           Waits(r, pc'[p], nwaits'[p], op'[p].lock),
           pc'[p] \in Lives => pc[p] \in Lives \/ (pc[p] = "dead" /\ mine[p] = {} /\ pc'[p] = "idle" /\ mine'[p] = {}),
           pc'[p] = "dead" => pc[p] = "dead",
           pc[p] \in Lives /\ pc'[p] \in Lives => \A l \in Locks, m \in Modes : Has(p, l, m)' <=> Has(p, l, m)
    PROVE  ScriptTypes' /\ TraceInv'
<1>1. UNCHANGED <<late, opt, tweaks, off>> /\ (Tracked' <=> Tracked)
  BY Alone DEF Tracked
<1>2. \A q \in Pids, l \in Locks, m \in Modes : In(q, l, m)' <=> In(q, l, m)
  BY DEF In
<1>3. Holds(p)
  BY DEF TraceInv, Followed
<1>4. Holds(p)'
  <2>1. CASE pc'[p] \in Lives /\ pc[p] \in Lives
    BY <1>1, <1>2, <1>3, <2>1 DEF Holds, Lives
  <2>2. CASE pc'[p] \in Lives /\ pc[p] = "dead" /\ pc'[p] = "idle" /\ mine'[p] = {}
    <3>1. \A l \in Locks, m \in Modes : ~ Has(p, l, m)'
      BY <2>2 DEF Has
    <3> QED
      BY <1>1, <1>2, <1>3, <2>2, <3>1 DEF Holds
  <2>3. CASE pc'[p] \notin Lives
    BY <1>1, <1>2, <1>3, <2>3 DEF Holds
  <2> QED
    BY <2>1, <2>2, <2>3
<1>5. locks_held_by_pid' \subseteq EntryType
  BY DEF ScriptTypes
<1> QED
  BY <1>2, <1>4, <1>5, ScriptOwn

\* When the script does not run, it does not change.
LEMMA ScriptIdle ==
    ASSUME ServerInv, ScriptTypes, TraceInv, NEW p \in Pids, Backend(p), tracing # "on",
           UNCHANGED script, nwaits'[p] \in {nwaits[p], 0}
    PROVE  ScriptTypes' /\ TraceInv'
<1>1. OnlyMe(p) /\ UNCHANGED <<late, opt, tweaks, off>>
  BY Alone
<1>2. UNCHANGED <<locks_held_by_pid, arrays, failed, tracing, allprocs, dropped, printed, contended>>
  BY DEF script, stats
<1>3. ScriptTypes'
  BY <1>2 DEF ScriptTypes
<1>4. TraceInv'
  BY <1>1, <1>2 DEF TraceInv, OnlyMe
<1> QED
  BY <1>3, <1>4

\* What the handlers make of the entries of a process.
LEMMA StartedEntries ==
    ASSUME NEW p \in Pids, arrays[p] \in ArrType, nwaits[p] \in Nat, nwaits[p] < MaxWaits,
           op[p].lock \in Locks, NEW b \in Pids \cup {NoPid}
    PROVE  /\ Started(p, b) \in ArrType
           /\ Started(p, b).lock_wait_start_us = nwaits[p] + 1
           /\ Started(p, b).lock_wait_lwlock_p = op[p].lock
           /\ ~ opt.track_blockers /\ arrays[p].lock_wait_blocker = "none" => Started(p, b).lock_wait_blocker = "none"
           /\ ~ arrays[p].application_names => ~ Started(p, b).application_names
           /\ Started(p, b).held_durations_pid = arrays[p].held_durations_pid
           /\ Started(p, b).wait_durations_pid = arrays[p].wait_durations_pid
<1> DEFINE v == IF opt.track_blockers THEN b ELSE arrays[p].lock_wait_blocker
<1>1. v \in Pids \cup {NoPid, "none"} /\ (~ opt.track_blockers => v = arrays[p].lock_wait_blocker)
  BY DEF ArrType
<1>2. nwaits[p] + 1 \in 0..MaxWaits
  BY LwlockAssumption
<1>3. Started(p, b) = [arrays[p] EXCEPT !.lock_wait_start_us = nwaits[p] + 1, !.lock_wait_lwlock_p = op[p].lock,
                                        !.lock_wait_blocker = v]
  BY DEF Started, ArrType
<1> HIDE DEF v
<1> QED
  BY <1>1, <1>2, <1>3 DEF ArrType

LEMMA ClearedEntries ==
    ASSUME NEW a \in ArrType
    PROVE  /\ Cleared(a) \in ArrType
           /\ Cleared(a).lock_wait_start_us = 0 /\ Cleared(a).lock_wait_lwlock_p = NoLock
           /\ ~ Cleared(a).acquire_func
           /\ opt.track_blockers \/ a.lock_wait_blocker = "none" => Cleared(a).lock_wait_blocker = "none"
           /\ ~ a.application_names => ~ Cleared(a).application_names
           /\ Cleared(a).held_durations_pid = a.held_durations_pid
           /\ Cleared(a).wait_durations_pid = a.wait_durations_pid
<1> DEFINE v == IF opt.track_blockers THEN "none" ELSE a.lock_wait_blocker
<1>1. /\ v \in Pids \cup {NoPid, "none"}
      /\ opt.track_blockers \/ a.lock_wait_blocker = "none" => v = "none"
  BY DEF ArrType
<1>2. 0 \in 0..MaxWaits
  BY LwlockAssumption
<1>3. Cleared(a) = [a EXCEPT !.lock_wait_start_us = 0, !.lock_wait_lwlock_p = NoLock, !.acquire_func = FALSE,
                             !.lock_wait_blocker = v]
  BY DEF Cleared, ArrType
<1> HIDE DEF v
<1> QED
  BY <1>1, <1>2, <1>3 DEF ArrType

LEMMA ForgottenEntries ==
    ASSUME NEW a \in ArrType
    PROVE  /\ Forgotten(a) \in ArrType
           /\ Forgotten(a).lock_wait_start_us = 0 /\ Forgotten(a).lock_wait_lwlock_p = NoLock
           /\ ~ Forgotten(a).acquire_func
           /\ opt.track_blockers \/ a.lock_wait_blocker = "none" => Forgotten(a).lock_wait_blocker = "none"
           /\ opt.track_application_names \/ ~ a.application_names => ~ Forgotten(a).application_names
           /\ Forgotten(a).held_durations_pid = a.held_durations_pid
           /\ Forgotten(a).wait_durations_pid = a.wait_durations_pid
<1> DEFINE c == Cleared(a)
<1>1. /\ c \in ArrType
      /\ c.lock_wait_start_us = 0 /\ c.lock_wait_lwlock_p = NoLock /\ ~ c.acquire_func
      /\ opt.track_blockers \/ a.lock_wait_blocker = "none" => c.lock_wait_blocker = "none"
      /\ ~ a.application_names => ~ c.application_names
      /\ c.held_durations_pid = a.held_durations_pid /\ c.wait_durations_pid = a.wait_durations_pid
  BY ClearedEntries
<1>2. Forgotten(a) = [c EXCEPT !.application_names = IF opt.track_application_names THEN FALSE ELSE @]
  BY DEF Forgotten
<1> HIDE DEF c
<1> QED
  BY <1>1, <1>2 DEF ArrType

\* What is known of a process while the script runs.
LEMMA Running ==
    ASSUME ServerInv, ScriptTypes, TraceInv, NEW p \in Pids, tracing = "on"
    PROVE  /\ arrays[p] \in ArrType /\ Waits(arrays[p], pc[p], nwaits[p], op[p].lock) /\ Holds(p)
           /\ nwaits[p] \in Nat /\ tweaks \in Nat /\ Calls(p) /\ StatTypes
           /\ OffInv /\ opt \in OptionType
           /\ pc \in [Pids -> PcType] /\ pc[p] \in PcType
           /\ mine \in [Pids -> SUBSET (Locks \X Modes)] /\ mine[p] \in SUBSET (Locks \X Modes)
           /\ op[p] \in OpType /\ op \in [Pids -> OpType] /\ nwaits \in [Pids -> 0..MaxWaits]
           /\ arrays = [arrays EXCEPT ![p] = arrays[p]]
BY LwlockAssumption DEF ServerInv, ServerTypes, ScriptTypes, StatTypes, TraceInv, Followed

\* A step that changes neither the script nor what the process has.
LEMMA ScriptSame ==
    ASSUME ServerInv, ScriptTypes, TraceInv, NEW p \in Pids, Backend(p), tracing = "on",
           UNCHANGED <<tracing, failed, locks_held_by_pid, arrays>>, StatTypes',
           Waits(arrays[p], pc'[p], nwaits'[p], op'[p].lock),
           pc[p] \in Lives, pc'[p] # "dead",
           \A l \in Locks, m \in Modes : Has(p, l, m)' <=> Has(p, l, m)
    PROVE  ScriptTypes' /\ TraceInv'
<1>1. arrays[p] \in ArrType /\ arrays' = [arrays EXCEPT ![p] = arrays[p]]
  BY Running
<1> QED
  BY <1>1, ScriptEntries

\* An attempt changes nothing of what the process has had since the events.
LEMMA HasAttempt ==
    ASSUME ServerInv, NEW p \in Pids, pc[p] \notin {"got", "release"}, op'[p].lock \in Locks,
           \A e \in mine[p] : e[1] # op'[p].lock,
           pc'[p] \in {"got", "fail", "queue"},
           mine' = IF pc'[p] = "got" THEN [mine EXCEPT ![p] = @ \cup {<<op'[p].lock, op'[p].mode>>}] ELSE mine
    PROVE  \A l \in Locks, m \in Modes : Has(p, l, m)' <=> Has(p, l, m)
<1> SUFFICES ASSUME NEW l \in Locks, NEW m \in Modes PROVE Has(p, l, m)' <=> Has(p, l, m)
  OBVIOUS
<1>1. Has(p, l, m) <=> <<l, m>> \in mine[p]
  BY DEF Has
<1>2. mine \in [Pids -> SUBSET (Locks \X Modes)]
  BY DEF ServerInv, ServerTypes
<1>3. CASE pc'[p] = "got"
  <2>1. mine'[p] = mine[p] \cup {<<op'[p].lock, op'[p].mode>>}
    BY <1>2, <1>3
  <2>2. Has(p, l, m)' <=> <<l, m>> \in mine'[p] /\ ~ (l = op'[p].lock /\ m = op'[p].mode)
    BY <1>3 DEF Has
  <2>3. <<l, m>> \in mine[p] => l # op'[p].lock
    OBVIOUS
  <2> QED
    BY <1>1, <2>1, <2>2, <2>3
<1>4. CASE pc'[p] # "got"
  BY <1>1, <1>4 DEF Has
<1> QED
  BY <1>3, <1>4

\* Starting, and being given a name.
LEMMA NameStep ==
    ASSUME ServerInv, ScriptTypes, TraceInv, NEW p \in Pids, BackendStarts(p) \/ NameAssigned(p)
    PROVE  ScriptTypes' /\ TraceInv'
<1>1. /\ Backend(p) /\ Fires(BackendTypeProbe(p)) /\ UNCHANGED <<op, mine, nwaits>>
      /\ pc[p] \in {"dead", "idle"} /\ pc'[p] = "idle"
  BY DEF BackendStarts, NameAssigned, Backend, Goto, server, ServerInv, ServerTypes
<1>2. CASE tracing # "on"
  BY <1>1, <1>2, ScriptIdle DEF Fires
<1>3. CASE tracing = "on"
  <2>1. /\ arrays[p] \in ArrType /\ Waits(arrays[p], pc[p], nwaits[p], op[p].lock) /\ Calls(p) /\ StatTypes
    BY <1>3, Running
  <2> DEFINE r == [arrays[p] EXCEPT !.application_names = @ \/ opt.track_application_names]
  <2>2. /\ arrays' = [arrays EXCEPT ![p] = r]
        /\ UNCHANGED <<locks_held_by_pid, failed, tracing, allprocs, dropped, printed, contended>>
    BY <1>1, <1>3 DEF Fires, BackendTypeProbe, stats
  <2>3. /\ r \in ArrType
        /\ r.lock_wait_start_us = arrays[p].lock_wait_start_us
        /\ r.lock_wait_lwlock_p = arrays[p].lock_wait_lwlock_p
        /\ r.lock_wait_blocker = arrays[p].lock_wait_blocker
        /\ ~ arrays[p].acquire_func => ~ r.acquire_func
        /\ ~ arrays[p].application_names /\ ~ opt.track_application_names => ~ r.application_names
        /\ r.held_durations_pid = arrays[p].held_durations_pid
    <3> DEFINE v == arrays[p].application_names \/ opt.track_application_names
    <3>1. v \in BOOLEAN /\ (~ arrays[p].application_names /\ ~ opt.track_application_names => ~ v)
      OBVIOUS
    <3>2. r = [arrays[p] EXCEPT !.application_names = v]
      BY <2>1 DEF ArrType
    <3> HIDE DEF v, r
    <3> QED
      BY <2>1, <3>1, <3>2 DEF ArrType
  <2> HIDE DEF r
  <2>4. Waits(r, pc'[p], nwaits'[p], op'[p].lock)
    <3>1. pc[p] \in Quiet /\ pc'[p] = "idle" /\ "idle" \in Lives /\ "idle" \notin InAcquire
      BY <1>1 DEF Quiet, Lives, InAcquire
    <3>2. pc[p] \in Lives => arrays[p].lock_wait_start_us = 0
      BY <2>1, <3>1 DEF Waits
    <3> QED
      BY <2>1, <2>3, <3>1, <3>2 DEF Waits
  <2>5. pc[p] = "dead" => mine[p] = {}
    BY <2>1 DEF Calls, Lives
  <2>6. pc[p] \in Lives => \A l \in Locks, m \in Modes : Has(p, l, m)' <=> Has(p, l, m)
    BY <1>1 DEF Has, Lives
  <2>7. StatTypes'
    BY <2>1, <2>2 DEF StatTypes
  <2> QED
    BY <1>1, <1>3, <2>2, <2>3, <2>4, <2>5, <2>6, <2>7, ScriptEntries DEF Lives
<1> QED
  BY <1>2, <1>3

\* A call: the SANITY CHECKs find nothing left of the calls before it, but for a
\* blocker after track_blockers was turned off and on again.
LEMMA CallStep ==
    ASSUME ServerInv, ScriptTypes, TraceInv, failed = "none", NEW p \in Pids, Call(p)
    PROVE  ScriptTypes' /\ TraceInv'
<1>1. PICK c \in [func : Funcs, lock : Locks, mode : Modes] :
            /\ \A e \in mine[p] : e[1] # c.lock
            /\ op' = [op EXCEPT ![p] = c] /\ Attempt(p, c) /\ Fires(AcquireStartProbe(p, c.func))
  BY DEF Call
<1>2. /\ Backend(p) /\ pc[p] = "idle" /\ ops' \in 0..MaxOps /\ nwaits' = [nwaits EXCEPT ![p] = 0]
      /\ UNCHANGED Settings /\ c \in OpType /\ c.lock \in Locks /\ 0 \in 0..MaxWaits
      /\ op \in [Pids -> OpType] /\ nwaits \in [Pids -> 0..MaxWaits]
  <2>1. ops' \in 0..MaxOps
    BY LwlockAssumption DEF Call, ServerInv, ServerTypes
  <2>2. op \in [Pids -> OpType] /\ nwaits \in [Pids -> 0..MaxWaits] /\ 0 \in 0..MaxWaits
    BY LwlockAssumption DEF ServerInv, ServerTypes
  <2> QED
    BY <2>1, <2>2 DEF Call, Backend, OpType
<1>3. /\ pc'[p] \in {"got", "fail", "queue"} /\ op'[p] = c /\ nwaits'[p] = 0
      /\ mine' = IF pc'[p] = "got" THEN [mine EXCEPT ![p] = @ \cup {<<c.lock, c.mode>>}] ELSE mine
  BY <1>1, <1>2, ServerAttempt
<1>4. \A l \in Locks, m \in Modes : Has(p, l, m)' <=> Has(p, l, m)
  BY <1>1, <1>2, <1>3, HasAttempt
<1>5. CASE tracing # "on"
  BY <1>1, <1>2, <1>3, <1>5, ScriptIdle DEF Fires
<1>6. CASE tracing = "on"
  <2> DEFINE a == arrays[p]
  <2>1. a \in ArrType /\ Waits(a, "idle", nwaits[p], op[p].lock) /\ StatTypes /\ tweaks \in Nat
    BY <1>2, <1>6, Running
  <2>2. /\ a.lock_wait_start_us = 0 /\ a.lock_wait_lwlock_p = NoLock /\ ~ a.acquire_func
        /\ tweaks <= 1 /\ opt.track_blockers => a.lock_wait_blocker = "none"
    BY <2>1 DEF Waits, Quiet
  <2>3. AcquireStartProbe(p, c.func)
    BY <1>1, <1>6 DEF Fires
  <2>4. \/ UNCHANGED script
        \/ Aborts("blocker") /\ opt.track_blockers /\ a.lock_wait_blocker # "none"
        \/ /\ Change(p, [a EXCEPT !.acquire_func = TRUE])
           /\ UNCHANGED <<locks_held_by_pid, failed, tracing, stats>>
    BY <2>2, <2>3 DEF AcquireStartProbe
  <2>5. ASSUME NEW r \in ArrType, r.lock_wait_start_us = 0, r.lock_wait_lwlock_p = NoLock,
               r.lock_wait_blocker = a.lock_wait_blocker,
               ~ a.application_names => ~ r.application_names,
               r.held_durations_pid = a.held_durations_pid
        PROVE  Waits(r, pc'[p], nwaits'[p], op'[p].lock)
    <3>1. pc'[p] \notin Quiet /\ pc'[p] \notin {"dead", "exit2"} /\ ~ (nwaits'[p] > 0)
      BY <1>3 DEF Quiet
    <3> QED
      BY <2>1, <2>5, <3>1 DEF Waits
  <2>6. CASE UNCHANGED script
    <3>1. Waits(a, pc'[p], nwaits'[p], op'[p].lock)
      BY <2>1, <2>2, <2>5
    <3>2. UNCHANGED <<tracing, failed, locks_held_by_pid, arrays>> /\ StatTypes'
      BY <2>1, <2>6 DEF script, stats, StatTypes
    <3> QED
      BY <1>2, <1>3, <1>4, <1>6, <3>1, <3>2, ScriptSame DEF Lives
  <2>7. CASE Aborts("blocker") /\ opt.track_blockers /\ a.lock_wait_blocker # "none"
    <3>1. tweaks > 1 /\ tweaks' = tweaks
      BY <1>2, <2>1, <2>2, <2>7 DEF Settings
    <3>2. ScriptTypes'
      BY <2>7 DEF Aborts, ScriptTypes, stats
    <3> QED
      BY <2>7, <3>1, <3>2 DEF Aborts, TraceInv
  <2>8. CASE /\ Change(p, [a EXCEPT !.acquire_func = TRUE])
             /\ UNCHANGED <<locks_held_by_pid, failed, tracing, stats>>
    <3> DEFINE r == [a EXCEPT !.acquire_func = TRUE]
    <3>1. /\ r \in ArrType /\ r.lock_wait_start_us = 0 /\ r.lock_wait_lwlock_p = NoLock
          /\ r.lock_wait_blocker = a.lock_wait_blocker
          /\ (~ a.application_names => ~ r.application_names)
          /\ r.held_durations_pid = a.held_durations_pid
      BY <2>1, <2>2 DEF ArrType
    <3>2. arrays' = [arrays EXCEPT ![p] = r]
      BY <2>8 DEF Change
    <3>3. UNCHANGED <<tracing, failed, locks_held_by_pid>> /\ StatTypes'
      BY <2>1, <2>8 DEF stats, StatTypes
    <3> HIDE DEF r, a
    <3>4. Waits(r, pc'[p], nwaits'[p], op'[p].lock)
      BY <2>5, <3>1
    <3> QED
      BY <1>2, <1>3, <1>4, <1>6, <3>1, <3>2, <3>3, <3>4, ScriptEntries DEF Lives
  <2> QED
    BY <2>4, <2>6, <2>7, <2>8
<1> QED
  BY <1>5, <1>6

\* The start of a wait: only the first one is new, and the others are of the lock of
\* the first.
LEMMA WaitStartStep ==
    ASSUME ServerInv, ScriptTypes, TraceInv, failed = "none", NEW p \in Pids, WaitStart(p)
    PROVE  ScriptTypes' /\ TraceInv'
<1>1. /\ Backend(p) /\ Fires(WaitStartProbe(p)) /\ UNCHANGED <<op, mine>> /\ nwaits[p] < MaxWaits
      /\ pc[p] = "queue" /\ pc'[p] = "sleep" /\ op[p].lock \in Locks
      /\ nwaits'[p] = IF tracing = "on" THEN nwaits[p] + 1 ELSE nwaits[p]
  <2>1. pc \in [Pids -> PcType] /\ nwaits \in [Pids -> 0..MaxWaits] /\ Calls(p)
    BY DEF ServerInv, ServerTypes
  <2> QED
    BY <2>1 DEF WaitStart, Backend, Goto, Calls, InAcquire
<1>2. CASE tracing # "on"
  BY <1>1, <1>2, ScriptIdle DEF Fires
<1>3. CASE tracing = "on"
  <2> DEFINE a == arrays[p]
  <2>1. /\ a \in ArrType /\ Waits(a, "queue", nwaits[p], op[p].lock) /\ StatTypes
        /\ tweaks \in Nat /\ nwaits[p] \in Nat
    BY <1>1, <1>3, Running
  <2>2. /\ a.lock_wait_start_us = IF nwaits[p] > 0 THEN 1 ELSE 0
        /\ a.lock_wait_start_us # 0 => a.lock_wait_lwlock_p = op[p].lock
    BY <2>1 DEF Waits, InAcquire, Lives
  <2>3. \A l \in Locks, m \in Modes : Has(p, l, m)' <=> Has(p, l, m)
    BY <1>1 DEF Has
  <2>4. ASSUME NEW r \in ArrType, r.lock_wait_start_us = 1, r.lock_wait_lwlock_p = op[p].lock,
               ~ opt.track_blockers /\ a.lock_wait_blocker = "none" => r.lock_wait_blocker = "none",
               ~ a.application_names => ~ r.application_names,
               r.held_durations_pid = a.held_durations_pid
        PROVE  Waits(r, pc'[p], nwaits'[p], op'[p].lock)
    <3>1. /\ pc'[p] \notin Quiet /\ pc'[p] \notin {"dead", "exit2"} /\ pc'[p] \in InAcquire /\ nwaits'[p] > 0
          /\ op'[p] = op[p]
      BY <1>1, <1>3, <2>1 DEF Quiet, InAcquire
    <3> QED
      BY <2>1, <2>4, <3>1 DEF Waits
  <2>5. CASE nwaits[p] > 0
    <3>1. UNCHANGED script
      BY <1>1, <1>3, <2>2, <2>5 DEF Fires, WaitStartProbe
    <3>2. UNCHANGED <<tracing, failed, locks_held_by_pid, arrays>> /\ StatTypes'
      BY <2>1, <3>1 DEF script, stats, StatTypes
    <3>3. Waits(a, pc'[p], nwaits'[p], op'[p].lock)
      BY <2>1, <2>2, <2>4, <2>5
    <3> QED
      BY <1>1, <1>3, <2>3, <3>2, <3>3, ScriptSame DEF Lives
  <2>6. CASE ~ (nwaits[p] > 0)
    <3>1. PICK b \in Blockers(op[p].lock, op[p].func = "acquire" /\ op[p].mode = "S") :
              /\ Change(p, Started(p, b)) /\ UNCHANGED <<locks_held_by_pid, failed, tracing, stats>>
      BY <1>1, <1>3, <2>2, <2>6 DEF Fires, WaitStartProbe
    <3>2. b \in Pids \cup {NoPid}
      BY <3>1 DEF Blockers, ScriptTypes, EntryType
    <3>3. nwaits[p] + 1 = 1
      BY <2>1, <2>6
    <3> DEFINE r == Started(p, b)
    <3>4. /\ r \in ArrType /\ r.lock_wait_start_us = 1 /\ r.lock_wait_lwlock_p = op[p].lock
          /\ (~ opt.track_blockers /\ a.lock_wait_blocker = "none" => r.lock_wait_blocker = "none")
          /\ (~ a.application_names => ~ r.application_names)
          /\ r.held_durations_pid = a.held_durations_pid
      BY <1>1, <2>1, <3>2, <3>3, StartedEntries
    <3>5. arrays' = [arrays EXCEPT ![p] = r]
      BY <3>1 DEF Change
    <3>6. UNCHANGED <<tracing, failed, locks_held_by_pid>> /\ StatTypes'
      BY <2>1, <3>1 DEF stats, StatTypes
    <3> HIDE DEF r, a
    <3>7. Waits(r, pc'[p], nwaits'[p], op'[p].lock)
      BY <2>4, <3>4
    <3> QED
      BY <1>1, <1>3, <2>3, <3>4, <3>5, <3>6, <3>7, ScriptEntries DEF Lives
  <2> QED
    BY <2>5, <2>6
<1> QED
  BY <1>2, <1>3

\* Waking up is nothing the script sees.
LEMMA WakeStep ==
    ASSUME ServerInv, ScriptTypes, TraceInv, NEW p \in Pids, Wake(p)
    PROVE  ScriptTypes' /\ TraceInv'
<1>1. /\ Backend(p) /\ pc[p] = "sleep" /\ UNCHANGED <<op, nwaits, ops, script>> /\ UNCHANGED Settings
      /\ Calls(p) /\ op[p] \in OpType /\ nwaits[p] \in 0..MaxWaits
      /\ op' = [op EXCEPT ![p] = op[p]] /\ nwaits' = [nwaits EXCEPT ![p] = nwaits[p]] /\ ops' \in 0..MaxOps
  BY DEF Wake, Backend, ServerInv, ServerTypes
<1>2. op[p].lock \in Locks /\ \A e \in mine[p] : e[1] # op[p].lock
  BY <1>1 DEF Calls, InAcquire
<1>3. /\ pc'[p] \in {"got", "fail", "queue"}
      /\ mine' = IF pc'[p] = "got" THEN [mine EXCEPT ![p] = @ \cup {<<op[p].lock, op[p].mode>>}] ELSE mine
  <2>1. CASE Attempt(p, op[p])
    BY <1>1, <1>2, <2>1, ServerAttempt
  <2>2. CASE Goto(p, "fail") /\ UNCHANGED mine
    BY <2>2 DEF Goto, ServerInv, ServerTypes
  <2> QED
    BY <2>1, <2>2 DEF Wake
<1>4. CASE tracing # "on"
  BY <1>1, <1>4, ScriptIdle
<1>5. CASE tracing = "on"
  <2>1. \A l \in Locks, m \in Modes : Has(p, l, m)' <=> Has(p, l, m)
    <3>1. op'[p] = op[p]
      BY <1>1
    <3> QED
      BY <1>1, <1>2, <1>3, <3>1, HasAttempt
  <2>2. Waits(arrays[p], "sleep", nwaits[p], op[p].lock) /\ StatTypes
    BY <1>1, <1>5, Running
  <2>3. Waits(arrays[p], pc'[p], nwaits'[p], op'[p].lock)
    BY <1>1, <1>3, <2>2 DEF Waits, Lives, InAcquire, Quiet
  <2>4. UNCHANGED <<tracing, failed, locks_held_by_pid, arrays>> /\ StatTypes'
    BY <1>1, <2>2 DEF script, stats, StatTypes
  <2> QED
    BY <1>1, <1>3, <1>5, <2>1, <2>3, <2>4, ScriptSame DEF Lives
<1> QED
  BY <1>4, <1>5

\* The acquired event: the script notes what the process has.
LEMMA AcquiredStep ==
    ASSUME ServerInv, ScriptTypes, TraceInv, NEW p \in Pids, Acquired(p)
    PROVE  ScriptTypes' /\ TraceInv'
<1>1. /\ Backend(p) /\ Fires(AcquiredHold(p)) /\ UNCHANGED <<op, mine, nwaits>> /\ UNCHANGED Settings
      /\ pc[p] = "got" /\ pc'[p] = "got2" /\ Calls(p)
  BY DEF Acquired, Backend, Goto, ServerInv, ServerTypes
<1>2. /\ op[p].lock \in Locks /\ op[p].mode \in Modes /\ <<op[p].lock, op[p].mode>> \in mine[p]
  BY <1>1 DEF Calls, InAcquire, ServerInv, ServerTypes, OpType
<1>3. CASE tracing # "on"
  BY <1>1, <1>3, ScriptIdle DEF Fires
<1>4. CASE tracing = "on"
  <2> DEFINE new == Entry(p, op[p].lock, op[p].mode)
  <2>1. /\ arrays[p] \in ArrType /\ Waits(arrays[p], "got", nwaits[p], op[p].lock) /\ Holds(p) /\ StatTypes
        /\ arrays = [arrays EXCEPT ![p] = arrays[p]]
    BY <1>1, <1>4, Running
  <2>2. /\ locks_held_by_pid' = IF TracksHeld THEN locks_held_by_pid \cup {new} ELSE locks_held_by_pid
        /\ arrays' = [arrays EXCEPT ![p] = arrays[p]] /\ UNCHANGED <<tracing, failed>> /\ StatTypes'
    BY <1>1, <1>4, <2>1 DEF Fires, AcquiredHold, stats, StatTypes
  <2>3. locks_held_by_pid' \subseteq EntryType
    BY <1>2, <2>2 DEF ScriptTypes, EntryType, Entry
  <2>4. ASSUME NEW q \in Pids, NEW l \in Locks, NEW m \in Modes
        PROVE  In(q, l, m)' <=> In(q, l, m) \/ (TracksHeld /\ q = p /\ l = op[p].lock /\ m = op[p].mode)
    BY <2>2 DEF In, Entry
  <2>5. Waits(arrays[p], pc'[p], nwaits'[p], op'[p].lock)
    BY <1>1, <2>1 DEF Waits, Lives, InAcquire, Quiet
  <2>6. Holds(p)'
    <3>1. UNCHANGED <<opt, tweaks, late, off>> /\ (Tracked' <=> Tracked) /\ (Tracked => TracksHeld)
      BY <1>1, <1>4, Running, OnAllAlong DEF Settings, Tracked
    <3>2. ASSUME NEW l \in Locks, NEW m \in Modes
          PROVE  Has(p, l, m)' <=> Has(p, l, m) \/ (l = op[p].lock /\ m = op[p].mode)
      BY <1>1, <1>2 DEF Has
    <3>3. pc[p] \in Lives /\ pc'[p] \in Lives /\ pc[p] # "dead" /\ pc'[p] # "dead"
      BY <1>1 DEF Lives
    <3> QED
      BY <2>1, <2>4, <3>1, <3>2, <3>3 DEF Holds
  <2> QED
    BY <1>1, <1>4, <2>1, <2>2, <2>3, <2>4, <2>5, <2>6, ScriptOwn
<1> QED
  BY <1>3, <1>4

\* The end of a call's waits: what was kept of them is forgotten.
LEMMA WaitDoneStep ==
    ASSUME ServerInv, ScriptTypes, TraceInv, NEW p \in Pids, WaitDone(p)
    PROVE  ScriptTypes' /\ TraceInv'
<1>1. /\ Backend(p) /\ Fires(WaitDoneProbe(p)) /\ UNCHANGED <<op, mine, nwaits>> /\ UNCHANGED Settings
      /\ pc[p] \in {"got2", "fail"} /\ pc'[p] = (IF pc[p] = "got2" THEN "end" ELSE "idle")
  BY DEF WaitDone, Backend, Goto, ServerInv, ServerTypes
<1>2. CASE tracing # "on"
  BY <1>1, <1>2, ScriptIdle DEF Fires
<1>3. CASE tracing = "on"
  <2> DEFINE a == arrays[p]
             waited == a.lock_wait_start_us # 0
             c == Cleared(a)
             v == IF waited THEN Appended(c.wait_durations_pid) ELSE c.wait_durations_pid
             r == [c EXCEPT !.wait_durations_pid = v]
  <2>1. /\ a \in ArrType /\ Waits(a, pc[p], nwaits[p], op[p].lock) /\ StatTypes /\ tweaks \in Nat
    BY <1>3, Running
  <2>2. waited => a.lock_wait_lwlock_p = op[p].lock
    BY <1>1, <2>1 DEF Waits, InAcquire
  <2>3. /\ arrays' = [arrays EXCEPT ![p] = r]
        /\ UNCHANGED <<locks_held_by_pid, failed, tracing, dropped, printed>>
        /\ allprocs' = IF waited THEN [allprocs EXCEPT !.wait = @ + 1] ELSE allprocs
        /\ contended' = IF nwaits[p] > 0 THEN contended + 1 ELSE contended
    BY <1>1, <1>3, <2>2 DEF Fires, WaitDoneProbe, Change
  <2>4. /\ c \in ArrType /\ c.lock_wait_start_us = 0 /\ c.lock_wait_lwlock_p = NoLock /\ ~ c.acquire_func
        /\ (opt.track_blockers \/ a.lock_wait_blocker = "none" => c.lock_wait_blocker = "none")
        /\ (~ a.application_names => ~ c.application_names)
        /\ c.held_durations_pid = a.held_durations_pid
    BY <2>1, ClearedEntries
  <2>5. v \in Nat
    BY <2>4 DEF Appended, ArrType
  <2> HIDE DEF c, v
  <2>6. /\ r \in ArrType /\ r.lock_wait_start_us = 0 /\ r.lock_wait_lwlock_p = NoLock /\ ~ r.acquire_func
        /\ (opt.track_blockers \/ a.lock_wait_blocker = "none" => r.lock_wait_blocker = "none")
        /\ (~ a.application_names => ~ r.application_names)
        /\ r.held_durations_pid = a.held_durations_pid
    BY <2>4, <2>5 DEF ArrType
  <2> HIDE DEF r
  <2>7. Waits(r, pc'[p], nwaits'[p], op'[p].lock)
    <3>1. pc'[p] \in Quiet /\ pc'[p] \in Lives \ InAcquire /\ pc'[p] \notin {"exit2", "dead"}
          /\ pc[p] \notin {"exit2", "dead"}
      BY <1>1 DEF Quiet, Lives, InAcquire
    <3> QED
      BY <2>1, <2>6, <3>1 DEF Waits
  <2>8. StatTypes'
    BY <2>1, <2>3 DEF StatTypes, SampleType
  <2>9. \A l \in Locks, m \in Modes : Has(p, l, m)' <=> Has(p, l, m)
    BY <1>1 DEF Has
  <2>10. pc[p] \in Lives /\ pc'[p] # "dead"
    BY <1>1 DEF Lives
  <2> QED
    BY <1>1, <1>3, <2>3, <2>6, <2>7, <2>8, <2>9, <2>10, ScriptEntries
<1> QED
  BY <1>2, <1>3

\* The end of a call that got the lock: nothing is left of it.
LEMMA AcquireEndStep ==
    ASSUME ServerInv, ScriptTypes, TraceInv, NEW p \in Pids, AcquireEnd(p)
    PROVE  ScriptTypes' /\ TraceInv'
<1>1. /\ Backend(p) /\ Fires(AcquireEndProbe(p)) /\ UNCHANGED <<op, mine, nwaits>>
      /\ pc[p] = "end" /\ pc'[p] = "idle"
  BY DEF AcquireEnd, Backend, Goto, ServerInv, ServerTypes
<1>2. CASE tracing # "on"
  BY <1>1, <1>2, ScriptIdle DEF Fires
<1>3. CASE tracing = "on"
  <2>1. Waits(arrays[p], "end", nwaits[p], op[p].lock) /\ StatTypes
    BY <1>1, <1>3, Running
  <2>2. UNCHANGED script
    BY <1>1, <1>3, <2>1 DEF Fires, AcquireEndProbe, Waits, Quiet
  <2>3. UNCHANGED <<tracing, failed, locks_held_by_pid, arrays>> /\ StatTypes'
    BY <2>1, <2>2 DEF script, stats, StatTypes
  <2>4. Waits(arrays[p], pc'[p], nwaits'[p], op'[p].lock)
    BY <1>1, <2>1 DEF Waits, Lives, InAcquire, Quiet
  <2>5. \A l \in Locks, m \in Modes : Has(p, l, m)' <=> Has(p, l, m)
    BY <1>1 DEF Has
  <2> QED
    BY <1>1, <1>3, <2>3, <2>4, <2>5, ScriptSame DEF Lives
<1> QED
  BY <1>2, <1>3

\* A lock is given back before its release event.
LEMMA UnlockStep ==
    ASSUME ServerInv, ScriptTypes, TraceInv, NEW p \in Pids, Unlock(p)
    PROVE  ScriptTypes' /\ TraceInv'
<1>1. PICK e \in mine[p] : /\ mine' = [mine EXCEPT ![p] = @ \ {e}]
                           /\ op' = [op EXCEPT ![p].lock = e[1], ![p].mode = e[2]]
  BY DEF Unlock
<1>2. /\ Backend(p) /\ pc[p] = "idle" /\ pc'[p] = "release" /\ UNCHANGED <<nwaits, script>>
      /\ op \in [Pids -> OpType] /\ mine \in [Pids -> SUBSET (Locks \X Modes)]
  BY DEF Unlock, Backend, Goto, ServerInv, ServerTypes
<1>3. CASE tracing # "on"
  BY <1>2, <1>3, ScriptIdle
<1>4. CASE tracing = "on"
  <2>1. /\ Waits(arrays[p], "idle", nwaits[p], op[p].lock) /\ StatTypes
    BY <1>2, <1>4, Running
  <2>2. e \in Locks \X Modes /\ e = <<e[1], e[2]>>
    BY <1>2
  <2>3. /\ mine'[p] = mine[p] \ {e} /\ op'[p].lock = e[1] /\ op'[p].mode = e[2]
    BY <1>1, <1>2 DEF OpType
  <2>4. \A l \in Locks, m \in Modes : Has(p, l, m)' <=> Has(p, l, m)
    <3> SUFFICES ASSUME NEW l \in Locks, NEW m \in Modes PROVE Has(p, l, m)' <=> Has(p, l, m)
      OBVIOUS
    <3>1. Has(p, l, m) <=> <<l, m>> \in mine[p]
      BY <1>2 DEF Has
    <3>2. Has(p, l, m)' <=> <<l, m>> \in mine'[p] \/ (l = e[1] /\ m = e[2])
      BY <1>2, <2>3 DEF Has
    <3>3. <<l, m>> = e <=> (l = e[1] /\ m = e[2])
      BY <2>2
    <3> QED
      BY <2>3, <3>1, <3>2, <3>3
  <2>5. Waits(arrays[p], pc'[p], nwaits'[p], op'[p].lock)
    BY <1>2, <2>1 DEF Waits, Lives, InAcquire, Quiet
  <2>6. UNCHANGED <<tracing, failed, locks_held_by_pid, arrays>> /\ StatTypes'
    BY <1>2, <2>1 DEF script, stats, StatTypes
  <2> QED
    BY <1>2, <1>4, <2>4, <2>5, <2>6, ScriptSame DEF Lives
<1> QED
  BY <1>3, <1>4

\* The release event: the entries of the lock go, and leave a sample.
LEMMA ReleaseStep ==
    ASSUME ServerInv, ScriptTypes, TraceInv, NEW p \in Pids, Release(p)
    PROVE  ScriptTypes' /\ TraceInv'
<1>1. /\ Backend(p) /\ Fires(ReleaseProbe(p)) /\ UNCHANGED <<op, mine, nwaits>> /\ UNCHANGED Settings
      /\ pc[p] = "release" /\ pc'[p] = "idle" /\ Calls(p)
  BY DEF Release, Backend, Goto, ServerInv, ServerTypes
<1>2. /\ op[p].lock \in Locks /\ \A e \in mine[p] : e[1] # op[p].lock
      /\ pc[p] \in Lives /\ pc'[p] \in Lives /\ pc[p] # "dead" /\ pc'[p] # "dead"
      /\ (Tracked' <=> Tracked) /\ (Tracked => TracksHeld) /\ UNCHANGED <<opt, tweaks, late, off>>
  <2>1. Tracked => TracksHeld
    BY OnAllAlong DEF ServerInv, ServerTypes
  <2> QED
    BY <1>1, <2>1 DEF Calls, InAcquire, Lives, Settings, Tracked
<1>3. CASE tracing # "on"
  BY <1>1, <1>3, ScriptIdle DEF Fires
<1>4. CASE tracing = "on"
  <2> DEFINE a == arrays[p]
             sampled == TracksHeld /\ opt.track_holds /\ Entry(p, op[p].lock, op[p].mode) \in locks_held_by_pid
             v == IF sampled THEN Appended(a.held_durations_pid) ELSE a.held_durations_pid
             r == [a EXCEPT !.held_durations_pid = v]
  <2>1. /\ a \in ArrType /\ Waits(a, "release", nwaits[p], op[p].lock) /\ Holds(p) /\ StatTypes
        /\ arrays = [arrays EXCEPT ![p] = a] /\ arrays \in [Pids -> ArrType]
    BY <1>1, <1>4, Running DEF ScriptTypes
  <2>2. ReleaseProbe(p)
    BY <1>1, <1>4 DEF Fires
  <2>3. /\ UNCHANGED <<failed, tracing, dropped, printed, contended>>
        /\ allprocs' = IF sampled THEN [allprocs EXCEPT !.held = @ + 1] ELSE allprocs
        /\ arrays' = IF sampled THEN [arrays EXCEPT ![p].held_durations_pid = Appended(@)] ELSE arrays
        /\ locks_held_by_pid' = IF TracksHeld
                                THEN {e \in locks_held_by_pid : e.pid # p \/ e.lock # op[p].lock}
                                ELSE locks_held_by_pid
    BY <2>2 DEF ReleaseProbe, script, stats
  <2>4. arrays' = [arrays EXCEPT ![p] = r]
    <3>1. CASE sampled
      BY <2>1, <2>3, <3>1
    <3>2. CASE ~ sampled
      <4>1. r = a
        BY <2>1, <3>2 DEF ArrType
      <4> HIDE DEF r, a
      <4> QED
        BY <2>1, <2>3, <3>2, <4>1
    <3> QED
      BY <3>1, <3>2
  <2>5. v \in Nat /\ (~ opt.track_per_process => v = a.held_durations_pid)
    BY <2>1 DEF ArrType, Appended
  <2> HIDE DEF v
  <2>6. /\ r \in ArrType /\ r.lock_wait_start_us = a.lock_wait_start_us
        /\ r.lock_wait_lwlock_p = a.lock_wait_lwlock_p /\ (~ a.acquire_func => ~ r.acquire_func)
        /\ r.lock_wait_blocker = a.lock_wait_blocker
        /\ (~ a.application_names => ~ r.application_names)
        /\ (~ opt.track_per_process => r.held_durations_pid = a.held_durations_pid)
    BY <2>1, <2>5 DEF ArrType
  <2> HIDE DEF r
  <2>7. Waits(r, pc'[p], nwaits'[p], op'[p].lock)
    <3>1. pc'[p] \in Quiet /\ pc'[p] \in Lives \ InAcquire /\ pc'[p] \notin {"exit2", "dead"}
          /\ "release" \in Quiet /\ "release" \in Lives \ InAcquire
      BY <1>1 DEF Quiet, Lives, InAcquire
    <3> QED
      BY <1>2, <2>1, <2>6, <3>1 DEF Waits
  <2>8. StatTypes'
    BY <2>1, <2>3 DEF StatTypes, SampleType
  <2>9. locks_held_by_pid' \subseteq EntryType
    BY <2>3 DEF ScriptTypes
  <2>10. ASSUME NEW q \in Pids, NEW l \in Locks, NEW m \in Modes
         PROVE  In(q, l, m)' <=> In(q, l, m) /\ ~ (TracksHeld /\ q = p /\ l = op[p].lock)
    BY <2>3 DEF In, Entry
  <2>11. Holds(p)'
    <3>1. ASSUME NEW l \in Locks, NEW m \in Modes
          PROVE  Has(p, l, m)' <=> Has(p, l, m) /\ l # op[p].lock
      <4>1. Has(p, l, m) <=> <<l, m>> \in mine[p] \/ (l = op[p].lock /\ m = op[p].mode)
        BY <1>1 DEF Has
      <4>2. Has(p, l, m)' <=> <<l, m>> \in mine[p]
        BY <1>1 DEF Has
      <4>3. <<l, m>> \in mine[p] => l # op[p].lock
        BY <1>2
      <4> QED
        BY <4>1, <4>2, <4>3
    <3> QED
      BY <1>2, <2>1, <2>10, <3>1 DEF Holds
  <2> QED
    BY <1>1, <1>4, <2>3, <2>4, <2>6, <2>7, <2>8, <2>9, <2>10, <2>11, ScriptOwn
<1> QED
  BY <1>3, <1>4

\* A process that ends takes what it had, and the script does not know yet.
LEMMA ExitStep ==
    ASSUME ServerInv, ScriptTypes, TraceInv, NEW p \in Pids, Exit(p)
    PROVE  ScriptTypes' /\ TraceInv'
<1>1. /\ Backend(p) /\ UNCHANGED <<op, mine, nwaits, script>> /\ pc[p] = "idle" /\ pc'[p] = "exit"
  BY DEF Exit, Backend, Goto, ServerInv, ServerTypes
<1>2. CASE tracing # "on"
  BY <1>1, <1>2, ScriptIdle
<1>3. CASE tracing = "on"
  <2>1. /\ arrays[p] \in ArrType /\ Waits(arrays[p], "idle", nwaits[p], op[p].lock) /\ StatTypes
        /\ arrays' = [arrays EXCEPT ![p] = arrays[p]]
    BY <1>1, <1>3, Running DEF script
  <2>2. UNCHANGED <<tracing, failed, locks_held_by_pid>> /\ StatTypes'
    BY <1>1, <2>1 DEF script, stats, StatTypes
  <2>3. Waits(arrays[p], pc'[p], nwaits'[p], op'[p].lock)
    BY <1>1, <2>1 DEF Waits, Lives, InAcquire, Quiet
  <2>4. pc'[p] \notin Lives /\ pc'[p] # "dead"
    BY <1>1 DEF Lives
  <2> QED
    BY <1>1, <1>3, <2>1, <2>2, <2>3, <2>4, ScriptEntries
<1> QED
  BY <1>2, <1>3

\* The report of a process that ends: its hold samples are gone.
LEMMA ExitReportedStep ==
    ASSUME ServerInv, ScriptTypes, TraceInv, NEW p \in Pids, ExitReported(p)
    PROVE  ScriptTypes' /\ TraceInv'
<1>1. /\ Backend(p) /\ Fires(ReportProbe(p)) /\ UNCHANGED <<op, mine, nwaits>>
      /\ pc[p] = "exit" /\ pc'[p] = "exit2" /\ UNCHANGED <<opt, tweaks, late, off>>
  BY DEF ExitReported, Backend, Goto, Settings, ServerInv, ServerTypes
<1>2. CASE tracing # "on"
  BY <1>1, <1>2, ScriptIdle DEF Fires
<1>3. CASE tracing = "on"
  <2> DEFINE a == arrays[p]
             v == IF opt.track_per_process THEN 0 ELSE a.held_durations_pid
             r == [a EXCEPT !.held_durations_pid = v]
  <2>1. /\ a \in ArrType /\ Waits(a, "exit", nwaits[p], op[p].lock) /\ StatTypes
        /\ arrays = [arrays EXCEPT ![p] = a]
    BY <1>1, <1>3, Running
  <2>2. ReportProbe(p)
    BY <1>1, <1>3 DEF Fires
  <2>3. arrays' = [arrays EXCEPT ![p] = r]
    <3>1. CASE opt.track_per_process
      BY <2>2, <3>1 DEF ReportProbe, Change
    <3>2. CASE ~ opt.track_per_process
      <4>1. r = a
        BY <2>1, <3>2 DEF ArrType
      <4>2. arrays' = arrays
        BY <2>2, <3>2 DEF ReportProbe
      <4> HIDE DEF r, a
      <4> QED
        BY <2>1, <4>1, <4>2
    <3> QED
      BY <3>1, <3>2
  <2>4. UNCHANGED <<locks_held_by_pid, failed, tracing>> /\ StatTypes'
    BY <2>1, <2>2 DEF ReportProbe, StatTypes, ArrType
  <2>5. v \in Nat /\ (opt.track_per_process => v = 0)
    BY <2>1 DEF ArrType
  <2>6. v = 0 \/ "track_per_process" \in off
    BY <1>3, Running, OnAllAlong
  <2> HIDE DEF v
  <2>7. /\ r \in ArrType /\ r.lock_wait_start_us = a.lock_wait_start_us
        /\ r.lock_wait_lwlock_p = a.lock_wait_lwlock_p /\ (~ a.acquire_func => ~ r.acquire_func)
        /\ r.lock_wait_blocker = a.lock_wait_blocker
        /\ (~ a.application_names => ~ r.application_names)
        /\ r.held_durations_pid = v
    BY <2>1, <2>5 DEF ArrType
  <2> HIDE DEF r
  <2>8. Waits(r, pc'[p], nwaits'[p], op'[p].lock)
    <3>1. pc'[p] \notin Quiet /\ pc'[p] \notin Lives /\ pc'[p] \notin InAcquire /\ pc'[p] # "dead"
      BY <1>1 DEF Quiet, Lives, InAcquire
    <3> QED
      BY <1>1, <2>1, <2>6, <2>7, <3>1 DEF Waits
  <2>9. pc'[p] \notin Lives /\ pc'[p] # "dead"
    BY <1>1 DEF Lives
  <2> QED
    BY <1>1, <1>3, <2>3, <2>4, <2>7, <2>8, <2>9, ScriptEntries
<1> QED
  BY <1>2, <1>3

\* The last handler of a process: nothing is kept for its pid but what settings that
\* are off leave.
LEMMA ExitForgottenStep ==
    ASSUME ServerInv, ScriptTypes, TraceInv, NEW p \in Pids, ExitForgotten(p)
    PROVE  ScriptTypes' /\ TraceInv'
<1>1. /\ Backend(p) /\ Fires(DeletePerPidEntries(p)) /\ pc[p] = "exit2" /\ pc'[p] = "dead"
      /\ UNCHANGED <<opt, tweaks, late, off>> /\ (Tracked' <=> Tracked)
  BY DEF ExitForgotten, Backend, Goto, Settings, Tracked, ServerInv, ServerTypes
<1>2. nwaits'[p] = 0
  BY DEF ExitForgotten, ServerInv, ServerTypes
<1>3. CASE tracing # "on"
  BY <1>1, <1>2, <1>3, ScriptIdle DEF Fires
<1>4. CASE tracing = "on"
  <2> DEFINE a == arrays[p]
             r == Forgotten(a)
  <2>1. a \in ArrType /\ Waits(a, "exit2", nwaits[p], op[p].lock) /\ Holds(p) /\ StatTypes
    BY <1>1, <1>4, Running
  <2>2. /\ locks_held_by_pid' = IF TracksHeld THEN {e \in locks_held_by_pid : e.pid # p} ELSE locks_held_by_pid
        /\ arrays' = [arrays EXCEPT ![p] = r] /\ UNCHANGED <<failed, tracing>> /\ StatTypes'
    BY <1>1, <1>4, <2>1 DEF Fires, DeletePerPidEntries, Change, stats, StatTypes
  <2>3. /\ r \in ArrType /\ r.lock_wait_start_us = 0 /\ r.lock_wait_lwlock_p = NoLock /\ ~ r.acquire_func
        /\ (opt.track_blockers \/ a.lock_wait_blocker = "none" => r.lock_wait_blocker = "none")
        /\ (opt.track_application_names \/ ~ a.application_names => ~ r.application_names)
        /\ r.held_durations_pid = a.held_durations_pid
    BY <2>1, ForgottenEntries
  <2> HIDE DEF r
  <2>4. Waits(r, pc'[p], nwaits'[p], op'[p].lock)
    <3>1. pc'[p] \notin Lives /\ pc'[p] \notin InAcquire
      BY <1>1 DEF Lives, InAcquire
    <3>2. /\ "track_blockers" \notin off => opt.track_blockers
          /\ "track_application_names" \notin off => opt.track_application_names
      BY <1>4, Running, OnAllAlong
    <3> QED
      BY <1>1, <2>1, <2>3, <3>1, <3>2 DEF Waits
  <2>5. locks_held_by_pid' \subseteq EntryType
    BY <2>2 DEF ScriptTypes
  <2>6. ASSUME NEW q \in Pids, NEW l \in Locks, NEW m \in Modes
        PROVE  In(q, l, m)' <=> In(q, l, m) /\ ~ (TracksHeld /\ q = p)
    BY <2>2 DEF In, Entry
  <2>7. Holds(p)'
    <3>1. pc'[p] \notin Lives
      BY <1>1 DEF Lives
    <3>2. Tracked => TracksHeld
      BY <1>4, Running, OnAllAlong
    <3> QED
      BY <1>1, <2>1, <2>6, <3>1, <3>2 DEF Holds
  <2> QED
    BY <1>1, <1>4, <2>2, <2>3, <2>4, <2>5, <2>6, <2>7, ScriptOwn
<1> QED
  BY <1>3, <1>4

\* The server as a whole dies: the script goes on, and sees its processes end.
LEMMA CrashStep ==
    ASSUME ServerInv, ScriptTypes, TraceInv, ServerCrash
    PROVE  ScriptTypes' /\ TraceInv'
<1>1. UNCHANGED <<op, nwaits, late, opt, tweaks, off, locks_held_by_pid, arrays, failed, tracing>> /\ UNCHANGED stats
  BY DEF ServerCrash, Settings, script
<1>2. ScriptTypes'
  BY <1>1 DEF ScriptTypes, stats
<1>3. ASSUME NEW p \in Pids, tracing = "on" PROVE Followed(p)'
  <2>1. Waits(arrays[p], pc[p], nwaits[p], op[p].lock) /\ Holds(p)
    BY <1>3 DEF TraceInv, Followed
  <2>2. pc'[p] = (IF pc[p] \in Lives THEN "exit" ELSE pc[p])
    BY DEF ServerCrash
  <2>3. pc'[p] \notin Lives /\ (pc'[p] = pc[p] \/ (pc[p] \in Lives /\ pc'[p] = "exit"))
        /\ (pc'[p] = "dead" <=> pc[p] = "dead")
    BY <2>2 DEF Lives
  <2>4. Waits(arrays[p], pc'[p], nwaits[p], op[p].lock)
    BY <2>1, <2>3 DEF Waits, Lives, Quiet, InAcquire
  <2>5. Waits(arrays[p], pc[p], nwaits[p], op[p].lock)'
    BY <1>1, <2>4 DEF Waits
  <2>6. Holds(p)'
    BY <1>1, <2>1, <2>3 DEF Holds, In, Tracked
  <2> QED
    BY <2>5, <2>6 DEF Followed
<1>4. TraceInv'
  BY <1>1, <1>3 DEF TraceInv
<1> QED
  BY <1>2, <1>4

\* The script starts: it knows of nothing, and there is nothing it should know of yet.
LEMMA StartsStep ==
    ASSUME ServerInv, ScriptTypes, TraceInv, ScriptStarts
    PROVE  ScriptTypes' /\ TraceInv'
<1>1. /\ tracing = "off" /\ tracing' = "on"
      /\ UNCHANGED <<pc, op, nwaits, late, opt, tweaks, off, locks_held_by_pid, arrays, failed>> /\ UNCHANGED stats
  BY DEF ScriptStarts, Settings, server
<1>2. ScriptTypes'
  BY <1>1 DEF ScriptTypes, stats
<1>3. late /\ locks_held_by_pid = {} /\ \A p \in Pids : arrays[p] = NoEntries /\ nwaits[p] = 0
  BY <1>1 DEF TraceInv
<1>4. ASSUME NEW p \in Pids PROVE Followed(p)'
  <2>1. Waits(arrays[p], pc[p], nwaits[p], op[p].lock)
    BY <1>3, NothingKnown
  <2>2. Waits(arrays[p], pc[p], nwaits[p], op[p].lock)'
    BY <1>1, <2>1 DEF Waits
  <2>3. Holds(p)'
    BY <1>1, <1>3 DEF Holds, In
  <2> QED
    BY <2>2, <2>3 DEF Followed
<1>5. TraceInv'
  BY <1>1, <1>4 DEF TraceInv
<1> QED
  BY <1>2, <1>5

\* print_stats() takes the samples away, and nothing else.
LEMMA TimerStep ==
    ASSUME ServerInv, ScriptTypes, TraceInv, Timer
    PROVE  ScriptTypes' /\ TraceInv'
<1>1. /\ UNCHANGED <<pc, op, mine, nwaits, late, opt, tweaks, off, locks_held_by_pid, arrays, failed, tracing>>
      /\ UNCHANGED <<printed, contended>>
  BY DEF Timer, server, Settings
<1>2. allprocs' \in SampleType /\ dropped' \in SampleType
  BY DEF Timer, ScriptTypes, SampleType
<1>3. ScriptTypes'
  BY <1>1, <1>2 DEF ScriptTypes
<1>4. \A p \in Pids : Followed(p)' <=> Followed(p)
  BY <1>1 DEF Followed, Waits, Holds, Has, In, Tracked
<1>5. TraceInv'
  BY <1>1, <1>4 DEF TraceInv
<1> QED
  BY <1>3, <1>5

\* A change of a setting: what was left out before may be missing after, but for a
\* blocker of a process that waits for nothing.
LEMMA TweakStep ==
    ASSUME ServerInv, ScriptTypes, TraceInv, failed = "none", Tweak
    PROVE  ScriptTypes' /\ TraceInv'
<1>1. UNCHANGED <<pc, op, mine, nwaits, late, locks_held_by_pid, arrays, failed, tracing>> /\ UNCHANGED stats
  BY DEF Tweak, server, script
<1>2. tracing = "on" /\ tweaks \in Nat /\ tweaks' = tweaks + 1 /\ off \subseteq off' /\ (Tracked' => Tracked)
  <2>1. off \subseteq off'
    BY DEF Tweak
  <2> QED
    BY <2>1, LwlockAssumption DEF Tweak, ServerInv, ServerTypes, Tracked
<1>3. ScriptTypes'
  BY <1>1 DEF ScriptTypes, stats
<1>4. ASSUME NEW p \in Pids PROVE Followed(p)'
  <2>1. Waits(arrays[p], pc[p], nwaits[p], op[p].lock)
    BY <1>2 DEF TraceInv, Followed
  <2>2. tweaks' # 0 /\ (tweaks' <= 1 => tweaks = 0)
    BY <1>2
  <2>3. pc[p] \in Quiet /\ tweaks' <= 1 => arrays[p].lock_wait_blocker = "none"
    BY <2>1, <2>2 DEF Waits
  <2>4. Waits(arrays[p], pc[p], nwaits[p], op[p].lock)'
    BY <1>1, <1>2, <2>1, <2>2, <2>3 DEF Waits
  <2>5. Holds(p)'
    <3>1. Holds(p)
      BY <1>2 DEF TraceInv, Followed
    <3>2. \A l \in Locks, m \in Modes : (In(p, l, m)' <=> In(p, l, m)) /\ (Has(p, l, m)' <=> Has(p, l, m))
      BY <1>1 DEF In, Has
    <3> QED
      BY <1>1, <1>2, <3>1, <3>2 DEF Holds
  <2> QED
    BY <2>4, <2>5 DEF Followed
<1>5. TraceInv'
  BY <1>1, <1>2, <1>4 DEF TraceInv
<1> QED
  BY <1>3, <1>5

\* Every step keeps the invariant of the script.
LEMMA TraceNext ==
    ASSUME ServerInv, ScriptTypes, TraceInv, [Next]_vars
    PROVE  ScriptTypes' /\ TraceInv'
<1>1. ASSUME failed = "none", NEW p \in Pids, Backend(p) PROVE ScriptTypes' /\ TraceInv'
  BY <1>1, NameStep, CallStep, WaitStartStep, WakeStep, AcquiredStep, WaitDoneStep, AcquireEndStep,
     UnlockStep, ReleaseStep, ExitStep, ExitReportedStep, ExitForgottenStep DEF Backend
<1>2. CASE UNCHANGED vars
  <2>1. \A p \in Pids : Followed(p)' <=> Followed(p)
    BY <1>2 DEF vars, server, script, stats, Followed, Waits, Holds, Has, In, Tracked
  <2> QED
    BY <1>2, <2>1 DEF vars, server, script, stats, ScriptTypes, TraceInv
<1> QED
  BY <1>1, <1>2, CrashStep, StartsStep, TimerStep, TweakStep DEF Next

\* The invariant of the tracker: the server's part, and that the script follows it.
THEOREM TrackerInv == Spec => [](ServerInv /\ ScriptTypes /\ TraceInv)
<1>1. Init => ServerInv /\ ScriptTypes /\ TraceInv
  BY ServerInit, TraceInit
<1>2. ServerInv /\ ScriptTypes /\ TraceInv /\ [Next]_vars => (ServerInv /\ ScriptTypes /\ TraceInv)'
  BY ServerNext, TraceNext
<1> QED
  BY <1>1, <1>2, PTL DEF Spec

\* No SANITY CHECK of the script fails, for any interleaving of calls, waits and exits,
\* wherever the script comes in; but for the one about blockers, which takes two
\* changes of track_blockers.
THEOREM SanityChecksHold == Spec => []SanityHolds
<1>1. TraceInv => SanityHolds
  BY DEF TraceInv, SanityHolds
<1> QED
  BY <1>1, TrackerInv, PTL

\* While the script runs its arrays have what the server does: waits as long as they
\* last and with their lock; and, if holds have been tracked all along, the locks of a
\* process from the acquired to the release event.
THEOREM ArraysFollow == Spec => []TablesAgree
<1>1. ASSUME ServerInv, ScriptTypes, TraceInv PROVE TablesAgree
  <2> SUFFICES ASSUME tracing = "on", NEW p \in Pids, pc[p] \in Lives
      PROVE  LET waiting == pc[p] \in InAcquire /\ nwaits[p] > 0
                 this == {<<op[p].lock, op[p].mode>>}
                 seen == {<<e.lock, e.mode>> : e \in {x \in locks_held_by_pid : x.pid = p}}
                 real == CASE pc[p] = "got" -> mine[p] \ this
                           [] pc[p] = "release" -> mine[p] \cup this
                           [] OTHER -> mine[p]
             IN  /\ arrays[p].lock_wait_start_us = IF waiting THEN 1 ELSE 0
                 /\ arrays[p].lock_wait_lwlock_p = IF waiting THEN op[p].lock ELSE NoLock
                 /\ Tracked => seen \subseteq real /\ (late \/ real \subseteq seen)
    BY DEF TablesAgree
  <2>1. /\ Waits(arrays[p], pc[p], nwaits[p], op[p].lock) /\ Holds(p) /\ Calls(p)
        /\ mine[p] \in SUBSET (Locks \X Modes) /\ op[p] \in OpType
        /\ locks_held_by_pid \subseteq EntryType
    BY <1>1 DEF TraceInv, Followed, ServerInv, ServerTypes, ScriptTypes
  <2> DEFINE waiting == pc[p] \in InAcquire /\ nwaits[p] > 0
  <2>2. /\ arrays[p].lock_wait_start_us = IF waiting THEN 1 ELSE 0
        /\ arrays[p].lock_wait_lwlock_p = IF waiting THEN op[p].lock ELSE NoLock
    BY <2>1 DEF Waits, Lives, InAcquire, Quiet
  <2> DEFINE this == {<<op[p].lock, op[p].mode>>}
             seen == {<<e.lock, e.mode>> : e \in {x \in locks_held_by_pid : x.pid = p}}
             real == CASE pc[p] = "got" -> mine[p] \ this
                       [] pc[p] = "release" -> mine[p] \cup this
                       [] OTHER -> mine[p]
  <2>3. ASSUME Tracked
        PROVE  seen \subseteq real /\ (late \/ real \subseteq seen)
    <3>1. \A l \in Locks, m \in Modes : (In(p, l, m) => Has(p, l, m)) /\ (late \/ (Has(p, l, m) => In(p, l, m)))
      BY <2>1, <2>3 DEF Holds
    <3>2. pc[p] = "release" => op[p].lock \in Locks
      BY <2>1 DEF Calls
    <3>3. real \subseteq Locks \X Modes
      BY <2>1, <3>2 DEF OpType
    <3>4. seen \subseteq Locks \X Modes
      BY <2>1 DEF EntryType
    <3>5. \A l \in Locks, m \in Modes : <<l, m>> \in seen <=> In(p, l, m)
      BY <2>1 DEF In, Entry, EntryType
    <3>6. ASSUME NEW l \in Locks, NEW m \in Modes PROVE <<l, m>> \in real <=> Has(p, l, m)
      <4>1. <<l, m>> \in this <=> (l = op[p].lock /\ m = op[p].mode)
        OBVIOUS
      <4> HIDE DEF this
      <4>2. CASE pc[p] = "got"
        BY <4>1, <4>2 DEF Has
      <4>3. CASE pc[p] = "release"
        BY <4>1, <4>3 DEF Has
      <4>4. CASE pc[p] \notin {"got", "release"}
        BY <4>1, <4>4 DEF Has
      <4> QED
        BY <4>2, <4>3, <4>4
    <3> HIDE DEF real, seen
    <3>7. ASSUME NEW e \in Locks \X Modes PROVE (e \in seen => e \in real) /\ (late \/ (e \in real => e \in seen))
      <4>1. e[1] \in Locks /\ e[2] \in Modes /\ e = <<e[1], e[2]>>
        OBVIOUS
      <4> QED
        BY <3>1, <3>5, <3>6, <4>1
    <3> QED
      BY <3>3, <3>4, <3>7
  <2> QED
    BY <2>2, <2>3
<1> QED
  BY <1>1, TrackerInv, PTL

\* Of a process that is no more nothing is kept of waits and calls; a blocker, a name,
\* hold samples or locks only if what they are kept for is off or has been.
THEOREM NothingIsLeft == Spec => []ExitForgets
<1>1. ASSUME ServerInv, ScriptTypes, TraceInv PROVE ExitForgets
  <2> SUFFICES ASSUME tracing = "on", NEW p \in Pids, pc[p] = "dead"
      PROVE  /\ arrays[p].lock_wait_start_us = 0 /\ arrays[p].lock_wait_lwlock_p = NoLock
             /\ ~ arrays[p].acquire_func
             /\ arrays[p].lock_wait_blocker # "none" => "track_blockers" \in off
             /\ arrays[p].application_names => "track_application_names" \in off
             /\ arrays[p].held_durations_pid # 0 => "track_per_process" \in off
             /\ (\E e \in locks_held_by_pid : e.pid = p) => ~ Tracked
    BY DEF ExitForgets
  <2>1. /\ Waits(arrays[p], "dead", nwaits[p], op[p].lock) /\ Holds(p)
        /\ locks_held_by_pid \subseteq EntryType
    BY <1>1 DEF TraceInv, Followed, ScriptTypes
  <2>2. /\ arrays[p].lock_wait_start_us = 0 /\ arrays[p].lock_wait_lwlock_p = NoLock
        /\ ~ arrays[p].acquire_func
        /\ "track_application_names" \notin off => ~ arrays[p].application_names
        /\ "track_per_process" \notin off => arrays[p].held_durations_pid = 0
        /\ "track_blockers" \notin off => arrays[p].lock_wait_blocker = "none"
    BY <2>1 DEF Waits, Quiet
  <2>3. ASSUME Tracked, NEW e \in locks_held_by_pid PROVE e.pid # p
    <3>1. e \in EntryType /\ e = Entry(e.pid, e.lock, e.mode)
      BY <2>1 DEF EntryType, Entry
    <3>2. e.pid = p => In(p, e.lock, e.mode) /\ e.lock \in Locks /\ e.mode \in Modes
      BY <3>1 DEF In, EntryType
    <3> QED
      BY <2>1, <2>3, <3>2 DEF Holds
  <2> QED
    BY <2>2, <2>3
<1> QED
  BY <1>1, TrackerInv, PTL

-----------------------------------------------------------------------------
(* The samples add up.                                                     *)

\* The calls that may still get their lock, and those that are not over.
Asking == {"queue", "sleep", "got"}
At(s) == {q \in Pids : pc[q] \in s}
One(cond) == IF cond THEN 1 ELSE 0

\* All hold samples and all wait samples there have been.
HeldAll == allprocs.held + dropped.held
WaitAll == allprocs.wait + dropped.wait

\* Every call leaves at most one sample of each kind, and it leaves it in all places or,
\* of those that are kept for a process, when that is wanted.
StatInv ==
    /\ contended = WaitAll
    /\ printed + HeldSum(arrays) <= HeldAll
    /\ "track_per_process" \notin off => printed + HeldSum(arrays) = HeldAll
    /\ \A q \in Pids : arrays[q].held_durations_pid <= HeldAll /\ arrays[q].wait_durations_pid <= WaitAll
    /\ IsFiniteSet(locks_held_by_pid)
    /\ HeldAll + Cardinality(locks_held_by_pid) + Cardinality(At(Asking)) <= ops
    /\ WaitAll + Cardinality(At(InAcquire)) <= ops

\* Two sets of processes that differ in one.
LEMMA SetsDiffer ==
    ASSUME NEW s \in SUBSET Pids, NEW t \in SUBSET Pids, NEW p \in Pids,
           \A q \in Pids : q # p => (q \in t <=> q \in s)
    PROVE  /\ Cardinality(s) \in Nat /\ Cardinality(t) \in Nat
           /\ Cardinality(t) + One(p \in s) = Cardinality(s) + One(p \in t)
<1>1. IsFiniteSet(s) /\ IsFiniteSet(t) /\ Cardinality(s) \in Nat /\ Cardinality(t) \in Nat
  BY SmallerSet
<1>2. CASE p \in s /\ p \in t
  <2>1. s = t
    BY <1>2
  <2> QED
    BY <1>1, <1>2, <2>1
<1>3. CASE p \notin s /\ p \notin t
  <2>1. s = t
    BY <1>3
  <2> QED
    BY <1>1, <1>3, <2>1
<1>4. CASE p \in s /\ p \notin t
  <2>1. t = s \ {p}
    BY <1>4
  <2>2. Cardinality(t) = Cardinality(s) - 1
    BY <1>1, <1>4, <2>1, FS_RemoveElement
  <2> QED
    BY <1>1, <1>4, <2>2 DEF One
<1>5. CASE p \notin s /\ p \in t
  <2>1. t = s \cup {p}
    BY <1>5
  <2>2. Cardinality(t) = Cardinality(s) + 1
    BY <1>1, <1>5, <2>1, FS_AddElement
  <2> QED
    BY <1>1, <1>5, <2>2 DEF One
<1> QED
  BY <1>2, <1>3, <1>4, <1>5

\* The invariant holds at the start.
LEMMA StatInit == Init => StatInv
<1> SUFFICES ASSUME Init PROVE StatInv
  OBVIOUS
<1>1. /\ locks_held_by_pid = {} /\ printed = 0 /\ contended = 0 /\ ops = 0
      /\ \A q \in Pids : arrays[q] = NoEntries /\ pc[q] = "dead"
  BY DEF Init
<1>2. HeldAll = 0 /\ WaitAll = 0
  BY DEF Init, HeldAll, WaitAll
<1>3. HeldSum(arrays) = 0
  BY <1>1, NoEntriesType, HeldSumZero
<1>4. At(Asking) = {} /\ At(InAcquire) = {}
  BY <1>1 DEF At, Asking, InAcquire
<1>5. IsFiniteSet({}) /\ Cardinality({}) = 0
  BY FS_EmptySet
<1> QED
  BY <1>1, <1>2, <1>3, <1>4, <1>5, NoEntriesType DEF StatInv

\* A step of p adds h hold samples and w wait samples, prints k, and leaves r in the
\* arrays of p.
Adds(p, r, h, w, k) ==
    /\ arrays' = [arrays EXCEPT ![p] = r]
    /\ HeldAll' = HeldAll + h /\ WaitAll' = WaitAll + w
    /\ contended' = contended + w /\ printed' = printed + k
    /\ k + r.held_durations_pid <= arrays[p].held_durations_pid + h
    /\ "track_per_process" \notin off =>
            k + r.held_durations_pid = arrays[p].held_durations_pid + h
    /\ r.wait_durations_pid <= arrays[p].wait_durations_pid + w
    /\ IsFiniteSet(locks_held_by_pid')
    /\ Cardinality(locks_held_by_pid') + h + One(pc'[p] \in Asking) + ops
            <= Cardinality(locks_held_by_pid) + One(pc[p] \in Asking) + ops'
    /\ w + One(pc'[p] \in InAcquire) + ops <= One(pc[p] \in InAcquire) + ops'

\* Such a step keeps the invariant.
LEMMA StatOwn ==
    ASSUME ServerInv, ScriptTypes, StatInv, NEW p \in Pids, Backend(p), ops' \in Nat,
           NEW r \in ArrType, NEW h \in Nat, NEW w \in Nat, NEW k \in Nat, Adds(p, r, h, w, k)
    PROVE  StatInv'
<1> USE DEF Adds
<1>1. OnlyMe(p) /\ UNCHANGED <<opt, tweaks, off>>
  BY Alone
<1>2. /\ arrays \in [Pids -> ArrType] /\ arrays'[p] = r /\ \A q \in Pids : q # p => arrays'[q] = arrays[q]
      /\ \A q \in Pids : arrays[q] \in ArrType /\ arrays'[q] \in ArrType
  BY DEF ScriptTypes
<1>3. HeldAll \in Nat /\ WaitAll \in Nat /\ printed \in Nat /\ ops \in Nat
  BY LwlockAssumption DEF ScriptTypes, SampleType, HeldAll, WaitAll, ServerInv, ServerTypes
<1>4. \A q \in Pids : /\ arrays[q].held_durations_pid \in Nat /\ arrays'[q].held_durations_pid \in Nat
                      /\ arrays[q].wait_durations_pid \in Nat /\ arrays'[q].wait_durations_pid \in Nat
  BY <1>2 DEF ArrType
<1> DEFINE d == r.held_durations_pid - arrays[p].held_durations_pid
<1>5. d \in Int /\ r.held_durations_pid = arrays[p].held_durations_pid + d
  <2>1. r.held_durations_pid \in Nat /\ arrays[p].held_durations_pid \in Nat
    BY <1>2, <1>4
  <2> QED
    BY <2>1
<1> HIDE DEF d
<1>6. HeldSum(arrays) \in Nat /\ HeldSum(arrays') = HeldSum(arrays) + d
  <2>1. arrays'[p].held_durations_pid = arrays[p].held_durations_pid + d
    BY <1>2, <1>5
  <2>2. \A q \in Pids : q # p => arrays'[q].held_durations_pid = arrays[q].held_durations_pid
    BY <1>2
  <2>3. \A q \in Pids : arrays[q].held_durations_pid \in Nat /\ arrays'[q].held_durations_pid \in Nat
    BY <1>4
  <2> QED
    BY <1>5, <2>1, <2>2, <2>3, HeldSumDiffers
<1>7. /\ Cardinality(At(Asking)) \in Nat /\ Cardinality(At(Asking)') \in Nat
      /\ Cardinality(At(Asking)') + One(pc[p] \in Asking) = Cardinality(At(Asking)) + One(pc'[p] \in Asking)
  <2>1. /\ At(Asking) \in SUBSET Pids /\ At(Asking)' \in SUBSET Pids
        /\ \A q \in Pids : q # p => (q \in At(Asking)' <=> q \in At(Asking))
        /\ (p \in At(Asking) <=> pc[p] \in Asking) /\ (p \in At(Asking)' <=> pc'[p] \in Asking)
    BY <1>1 DEF At, OnlyMe
  <2> QED
    BY <2>1, SetsDiffer DEF One
<1>8. /\ Cardinality(At(InAcquire)) \in Nat /\ Cardinality(At(InAcquire)') \in Nat
      /\ Cardinality(At(InAcquire)') + One(pc[p] \in InAcquire)
            = Cardinality(At(InAcquire)) + One(pc'[p] \in InAcquire)
  <2>1. /\ At(InAcquire) \in SUBSET Pids /\ At(InAcquire)' \in SUBSET Pids
        /\ \A q \in Pids : q # p => (q \in At(InAcquire)' <=> q \in At(InAcquire))
        /\ (p \in At(InAcquire) <=> pc[p] \in InAcquire) /\ (p \in At(InAcquire)' <=> pc'[p] \in InAcquire)
    BY <1>1 DEF At, OnlyMe
  <2> QED
    BY <2>1, SetsDiffer DEF One
<1>9. Cardinality(locks_held_by_pid) \in Nat /\ Cardinality(locks_held_by_pid') \in Nat
  BY FS_CardinalityType DEF StatInv
<1>10. \A c : One(c) \in Nat
  BY DEF One
<1>11. contended' = WaitAll'
  BY DEF StatInv
<1>12. /\ printed' + HeldSum(arrays') <= HeldAll'
       /\ "track_per_process" \notin off' => printed' + HeldSum(arrays') = HeldAll'
  <2>1. arrays[p].held_durations_pid \in Nat
    BY <1>4
  <2>2. k + d <= h /\ ("track_per_process" \notin off => k + d = h)
    BY <1>5, <2>1
  <2>3. /\ printed + HeldSum(arrays) <= HeldAll
        /\ "track_per_process" \notin off => printed + HeldSum(arrays) = HeldAll
    BY DEF StatInv
  <2>4. printed' = printed + k /\ HeldAll' = HeldAll + h
    OBVIOUS
  <2> HIDE DEF Adds
  <2> QED
    BY <1>1, <1>3, <1>5, <1>6, <2>2, <2>3, <2>4
<1>13. ASSUME NEW q \in Pids
       PROVE  arrays'[q].held_durations_pid <= HeldAll' /\ arrays'[q].wait_durations_pid <= WaitAll'
  <2>1. arrays[q].held_durations_pid <= HeldAll /\ arrays[q].wait_durations_pid <= WaitAll
    BY DEF StatInv
  <2>2. CASE q = p
    <3>1. r.held_durations_pid \in Nat /\ r.wait_durations_pid \in Nat /\ arrays'[q] = r
      BY <1>2, <2>2 DEF ArrType
    <3> QED
      BY <1>3, <1>4, <2>1, <2>2, <3>1
  <2>3. CASE q # p
    BY <1>2, <1>3, <1>4, <2>1, <2>3
  <2> QED
    BY <2>2, <2>3
<1>14. HeldAll' + Cardinality(locks_held_by_pid') + Cardinality(At(Asking)') <= ops'
  <2>1. HeldAll + Cardinality(locks_held_by_pid) + Cardinality(At(Asking)) <= ops
    BY DEF StatInv
  <2> QED
    BY <1>3, <1>7, <1>9, <1>10, <2>1
<1>15. WaitAll' + Cardinality(At(InAcquire)') <= ops'
  <2>1. WaitAll + Cardinality(At(InAcquire)) <= ops
    BY DEF StatInv
  <2> QED
    BY <1>3, <1>8, <1>10, <2>1
<1> QED
  BY <1>11, <1>12, <1>13, <1>14, <1>15 DEF StatInv

\* A step that takes no sample and prints none.
LEMMA StatSame ==
    ASSUME ServerInv, ScriptTypes, StatInv, NEW p \in Pids, Backend(p), ops' \in Nat,
           NEW r \in ArrType, arrays' = [arrays EXCEPT ![p] = r],
           r.held_durations_pid = arrays[p].held_durations_pid,
           r.wait_durations_pid = arrays[p].wait_durations_pid,
           UNCHANGED <<allprocs, dropped, printed, contended>>,
           locks_held_by_pid' \subseteq locks_held_by_pid,
           One(pc'[p] \in Asking) + ops <= One(pc[p] \in Asking) + ops',
           One(pc'[p] \in InAcquire) + ops <= One(pc[p] \in InAcquire) + ops'
    PROVE  StatInv'
<1>1. HeldAll' = HeldAll + 0 /\ WaitAll' = WaitAll + 0 /\ contended' = contended + 0 /\ printed' = printed + 0
  BY DEF HeldAll, WaitAll, ScriptTypes, SampleType
<1>2. /\ IsFiniteSet(locks_held_by_pid') /\ Cardinality(locks_held_by_pid) \in Nat
      /\ Cardinality(locks_held_by_pid') \in Nat
      /\ Cardinality(locks_held_by_pid') <= Cardinality(locks_held_by_pid)
  BY FS_Subset, FS_CardinalityType DEF StatInv
<1>3. /\ r.held_durations_pid \in Nat /\ r.wait_durations_pid \in Nat /\ ops \in Nat
      /\ \A c : One(c) \in Nat
  BY LwlockAssumption DEF ArrType, One, ServerInv, ServerTypes
<1>4. /\ 0 + r.held_durations_pid = arrays[p].held_durations_pid + 0
      /\ 0 + r.held_durations_pid <= arrays[p].held_durations_pid + 0
      /\ r.wait_durations_pid <= arrays[p].wait_durations_pid + 0
  BY <1>3
<1>5. /\ Cardinality(locks_held_by_pid') + 0 + One(pc'[p] \in Asking) + ops
            <= Cardinality(locks_held_by_pid) + One(pc[p] \in Asking) + ops'
      /\ 0 + One(pc'[p] \in InAcquire) + ops <= One(pc[p] \in InAcquire) + ops'
  BY <1>2, <1>3
<1>6. Adds(p, r, 0, 0, 0)
  BY <1>1, <1>2, <1>4, <1>5 DEF Adds
<1> QED
  BY <1>6, StatOwn

\* Where a process goes, and whether that is a new call.
LEMMA Moves ==
    ASSUME ServerInv, NEW p \in Pids, Backend(p)
    PROVE  /\ ops' \in Nat /\ ops \in Nat
           /\ One(pc'[p] \in Asking) + ops <= One(pc[p] \in Asking) + ops'
           /\ One(pc'[p] \in InAcquire) + ops <= One(pc[p] \in InAcquire) + ops'
<1>1. ops \in Nat /\ pc \in [Pids -> PcType]
  BY LwlockAssumption DEF ServerInv, ServerTypes
<1> USE DEF One, Asking, InAcquire, Goto
<1>2. CASE BackendStarts(p) \/ Acquired(p) \/ WaitDone(p) \/ AcquireEnd(p) \/ Release(p) \/ Exit(p)
           \/ ExitReported(p) \/ ExitForgotten(p) \/ WaitStart(p) \/ Unlock(p)
  BY <1>1, <1>2 DEF BackendStarts, Acquired, WaitDone, AcquireEnd, Release, Exit, ExitReported, ExitForgotten,
                    WaitStart, Unlock
<1>3. CASE NameAssigned(p)
  BY <1>1, <1>3 DEF NameAssigned, server
<1>4. CASE Call(p)
  BY <1>1, <1>4 DEF Call
<1>5. CASE Wake(p)
  <2>1. pc[p] = "sleep" /\ ops' = ops
    BY <1>5 DEF Wake
  <2> QED
    BY <1>1, <2>1
<1> QED
  BY <1>2, <1>3, <1>4, <1>5 DEF Backend

\* The steps that leave the samples alone.
LEMMA StatPlain ==
    ASSUME ServerInv, ScriptTypes, TraceInv, StatInv, NEW p \in Pids,
           \/ BackendStarts(p) \/ NameAssigned(p) \/ Call(p) \/ WaitStart(p) \/ Wake(p)
           \/ AcquireEnd(p) \/ Unlock(p) \/ Exit(p) \/ ExitForgotten(p)
    PROVE  StatInv'
<1>1. Backend(p)
  BY DEF Backend
<1>2. /\ ops' \in Nat /\ One(pc'[p] \in Asking) + ops <= One(pc[p] \in Asking) + ops'
      /\ One(pc'[p] \in InAcquire) + ops <= One(pc[p] \in InAcquire) + ops'
  BY <1>1, Moves
<1>3. arrays[p] \in ArrType /\ arrays \in [Pids -> ArrType] /\ arrays = [arrays EXCEPT ![p] = arrays[p]]
  BY DEF ScriptTypes
<1>4. SUFFICES \E r \in ArrType :
                  /\ arrays' = [arrays EXCEPT ![p] = r] /\ UNCHANGED <<allprocs, dropped, printed, contended>>
                  /\ r.held_durations_pid = arrays[p].held_durations_pid
                  /\ r.wait_durations_pid = arrays[p].wait_durations_pid
                  /\ locks_held_by_pid' \subseteq locks_held_by_pid
  BY <1>1, <1>2, StatSame
<1>5. CASE UNCHANGED script \/ (\E a : Aborts(a))
  BY <1>3, <1>5 DEF script, stats, Aborts
<1>6. CASE BackendTypeProbe(p)
  <2> DEFINE v == arrays[p].application_names \/ opt.track_application_names
             r == [arrays[p] EXCEPT !.application_names = v]
  <2>1. v \in BOOLEAN
    OBVIOUS
  <2>2. arrays' = [arrays EXCEPT ![p] = r] /\ UNCHANGED <<allprocs, dropped, printed, contended, locks_held_by_pid>>
    BY <1>3, <1>6 DEF BackendTypeProbe, stats, ArrType
  <2> HIDE DEF v
  <2>3. /\ r \in ArrType /\ r.held_durations_pid = arrays[p].held_durations_pid
        /\ r.wait_durations_pid = arrays[p].wait_durations_pid
    BY <1>3, <2>1 DEF ArrType
  <2> HIDE DEF r
  <2> QED
    BY <2>2, <2>3
<1>7. CASE \E f \in Funcs : AcquireStartProbe(p, f)
  <2>1. \/ UNCHANGED script \/ Aborts("busy") \/ Aborts("blocker")
        \/ /\ Change(p, [arrays[p] EXCEPT !.acquire_func = TRUE])
           /\ UNCHANGED <<locks_held_by_pid, failed, tracing, stats>>
    BY <1>7 DEF AcquireStartProbe
  <2>2. CASE /\ Change(p, [arrays[p] EXCEPT !.acquire_func = TRUE])
             /\ UNCHANGED <<locks_held_by_pid, failed, tracing, stats>>
    <3> DEFINE r == [arrays[p] EXCEPT !.acquire_func = TRUE]
    <3>1. arrays' = [arrays EXCEPT ![p] = r] /\ UNCHANGED <<allprocs, dropped, printed, contended, locks_held_by_pid>>
      BY <2>2 DEF Change, stats
    <3>2. /\ r \in ArrType /\ r.held_durations_pid = arrays[p].held_durations_pid
          /\ r.wait_durations_pid = arrays[p].wait_durations_pid
      BY <1>3 DEF ArrType
    <3> HIDE DEF r
    <3> QED
      BY <3>1, <3>2
  <2> QED
    BY <1>5, <2>1, <2>2
<1>8. CASE pc[p] = "queue" /\ nwaits[p] < MaxWaits /\ WaitStartProbe(p)
  <2>1. CASE arrays[p].lock_wait_start_us # 0
    BY <1>5, <1>8, <2>1 DEF WaitStartProbe
  <2>2. CASE arrays[p].lock_wait_start_us = 0
    <3>1. PICK b \in Blockers(op[p].lock, op[p].func = "acquire" /\ op[p].mode = "S") :
              /\ Change(p, Started(p, b)) /\ UNCHANGED <<locks_held_by_pid, failed, tracing, stats>>
      BY <1>8, <2>2 DEF WaitStartProbe
    <3>2. b \in Pids \cup {NoPid} /\ nwaits[p] \in Nat /\ op[p].lock \in Locks
      <4>1. b \in Pids \cup {NoPid}
        BY <3>1 DEF Blockers, ScriptTypes, EntryType
      <4>2. nwaits[p] \in Nat /\ op[p].lock \in Locks
        <5>1. Calls(p) /\ nwaits[p] \in 0..MaxWaits
          BY DEF ServerInv, ServerTypes
        <5> QED
          BY <1>8, <5>1, LwlockAssumption DEF Calls, InAcquire
      <4> QED
        BY <4>1, <4>2
    <3> DEFINE r == Started(p, b)
    <3>3. /\ r \in ArrType /\ r.held_durations_pid = arrays[p].held_durations_pid
          /\ r.wait_durations_pid = arrays[p].wait_durations_pid
      BY <1>3, <1>8, <3>2, StartedEntries
    <3>4. arrays' = [arrays EXCEPT ![p] = r] /\ UNCHANGED <<allprocs, dropped, printed, contended, locks_held_by_pid>>
      BY <3>1 DEF Change, stats
    <3> HIDE DEF r
    <3> QED
      BY <3>3, <3>4
  <2> QED
    BY <2>1, <2>2
<1>9. CASE AcquireEndProbe(p)
  BY <1>5, <1>9 DEF AcquireEndProbe
<1>10. CASE DeletePerPidEntries(p)
  <2> DEFINE r == Forgotten(arrays[p])
  <2>1. /\ r \in ArrType /\ r.held_durations_pid = arrays[p].held_durations_pid
        /\ r.wait_durations_pid = arrays[p].wait_durations_pid
    BY <1>3, ForgottenEntries
  <2>2. arrays' = [arrays EXCEPT ![p] = r] /\ UNCHANGED <<allprocs, dropped, printed, contended>>
    BY <1>10 DEF DeletePerPidEntries, Change, stats
  <2>3. locks_held_by_pid' \subseteq locks_held_by_pid
    BY <1>10 DEF DeletePerPidEntries
  <2> HIDE DEF r
  <2> QED
    BY <2>1, <2>2, <2>3
<1>11. Call(p) => \E f \in Funcs : Fires(AcquireStartProbe(p, f))
  BY DEF Call
<1> QED
  BY <1>5, <1>6, <1>7, <1>8, <1>9, <1>10, <1>11
     DEF Fires, BackendStarts, NameAssigned, WaitStart, Wake, AcquireEnd, Unlock, Exit, ExitForgotten

\* The acquired event: one entry more, and one call less that may get its lock.
LEMMA StatAcquired ==
    ASSUME ServerInv, ScriptTypes, TraceInv, StatInv, NEW p \in Pids, Acquired(p)
    PROVE  StatInv'
<1>1. /\ Backend(p) /\ Fires(AcquiredHold(p)) /\ pc[p] = "got" /\ pc'[p] = "got2" /\ UNCHANGED ops
  BY DEF Acquired, Backend, Goto, ServerInv, ServerTypes
<1>2. ops \in Nat /\ ops' \in Nat /\ One(pc'[p] \in InAcquire) + ops <= One(pc[p] \in InAcquire) + ops'
      /\ One(pc'[p] \in Asking) = 0 /\ One(pc[p] \in Asking) = 1
  BY <1>1, Moves DEF One, Asking
<1> DEFINE new == Entry(p, op[p].lock, op[p].mode)
           r == arrays[p]
<1>3. /\ arrays' = [arrays EXCEPT ![p] = r] /\ UNCHANGED <<allprocs, dropped, printed, contended>>
      /\ locks_held_by_pid' \in {locks_held_by_pid, locks_held_by_pid \cup {new}} /\ r \in ArrType
  BY <1>1 DEF Fires, AcquiredHold, script, stats, ScriptTypes
<1>4. /\ IsFiniteSet(locks_held_by_pid') /\ Cardinality(locks_held_by_pid) \in Nat
      /\ Cardinality(locks_held_by_pid') \in Nat
      /\ Cardinality(locks_held_by_pid') <= Cardinality(locks_held_by_pid) + 1
  <2>1. IsFiniteSet(locks_held_by_pid)
    BY DEF StatInv
  <2>2. /\ IsFiniteSet(locks_held_by_pid \cup {new})
        /\ \/ Cardinality(locks_held_by_pid \cup {new}) = Cardinality(locks_held_by_pid)
           \/ Cardinality(locks_held_by_pid \cup {new}) = Cardinality(locks_held_by_pid) + 1
    BY <2>1, FS_AddElement
  <2>3. Cardinality(locks_held_by_pid) \in Nat
    BY <2>1, FS_CardinalityType
  <2> HIDE DEF new
  <2> QED
    BY <1>3, <2>1, <2>2, <2>3
<1>5. HeldAll' = HeldAll + 0 /\ WaitAll' = WaitAll + 0 /\ contended' = contended + 0 /\ printed' = printed + 0
  BY <1>3 DEF HeldAll, WaitAll, ScriptTypes, SampleType
<1>6. r.held_durations_pid \in Nat /\ r.wait_durations_pid \in Nat /\ \A c : One(c) \in Nat
  BY <1>3 DEF ArrType, One
<1>7. /\ 0 + r.held_durations_pid = arrays[p].held_durations_pid + 0
      /\ 0 + r.held_durations_pid <= arrays[p].held_durations_pid + 0
      /\ r.wait_durations_pid <= arrays[p].wait_durations_pid + 0
      /\ Cardinality(locks_held_by_pid') + 0 + One(pc'[p] \in Asking) + ops
            <= Cardinality(locks_held_by_pid) + One(pc[p] \in Asking) + ops'
      /\ 0 + One(pc'[p] \in InAcquire) + ops <= One(pc[p] \in InAcquire) + ops'
  BY <1>1, <1>2, <1>4, <1>6
<1> HIDE DEF new, r
<1>8. Adds(p, r, 0, 0, 0)
  BY <1>3, <1>4, <1>5, <1>7 DEF Adds
<1> QED
  BY <1>1, <1>2, <1>3, <1>8, StatOwn

\* The end of a call: one sample, if it has waited.
LEMMA StatWaitDone ==
    ASSUME ServerInv, ScriptTypes, TraceInv, StatInv, NEW p \in Pids, WaitDone(p)
    PROVE  StatInv'
<1>1. /\ Backend(p) /\ Fires(WaitDoneProbe(p)) /\ pc[p] \in {"got2", "fail"} /\ pc'[p] \in {"end", "idle"}
      /\ UNCHANGED ops
  BY DEF WaitDone, Backend, Goto, ServerInv, ServerTypes
<1>2. ops \in Nat /\ ops' \in Nat /\ One(pc'[p] \in InAcquire) = 0 /\ One(pc[p] \in InAcquire) = 1
      /\ One(pc'[p] \in Asking) = 0 /\ One(pc[p] \in Asking) = 0
  BY <1>1, Moves DEF One, Asking, InAcquire
<1> DEFINE a == arrays[p]
<1>3. a \in ArrType /\ arrays = [arrays EXCEPT ![p] = a] /\ StatTypes
  BY DEF ScriptTypes, StatTypes
<1>4. CASE tracing # "on"
  <2>1. UNCHANGED <<arrays, locks_held_by_pid, allprocs, dropped, printed, contended>>
    BY <1>1, <1>4 DEF Fires, script, stats
  <2>2. One(pc'[p] \in Asking) + ops <= One(pc[p] \in Asking) + ops'
        /\ One(pc'[p] \in InAcquire) + ops <= One(pc[p] \in InAcquire) + ops'
    BY <1>1, <1>2
  <2> QED
    BY <1>1, <1>2, <1>3, <2>1, <2>2, StatSame
<1>5. CASE tracing = "on"
  <2> DEFINE waited == a.lock_wait_start_us # 0
             c == Cleared(a)
             w == One(waited)
             v == IF waited THEN Appended(c.wait_durations_pid) ELSE c.wait_durations_pid
             r == [c EXCEPT !.wait_durations_pid = v]
  <2>1. Waits(a, pc[p], nwaits[p], op[p].lock) /\ nwaits[p] \in Nat
    BY <1>5, Running
  <2>2. /\ (waited => a.lock_wait_lwlock_p = op[p].lock) /\ (waited <=> nwaits[p] > 0)
    BY <1>1, <2>1 DEF Waits, InAcquire, Lives
  <2>3. /\ arrays' = [arrays EXCEPT ![p] = r] /\ UNCHANGED <<locks_held_by_pid, dropped, printed>>
        /\ allprocs' = IF waited THEN [allprocs EXCEPT !.wait = @ + 1] ELSE allprocs
        /\ contended' = IF waited THEN contended + 1 ELSE contended
    BY <1>1, <1>5, <2>2 DEF Fires, WaitDoneProbe, Change
  <2>4. /\ HeldAll' = HeldAll + 0 /\ WaitAll' = WaitAll + w /\ contended' = contended + w /\ printed' = printed + 0
        /\ w \in {0, 1}
    BY <1>3, <2>3 DEF HeldAll, WaitAll, StatTypes, SampleType, One
  <2>5. c \in ArrType /\ c.held_durations_pid = a.held_durations_pid /\ c.wait_durations_pid = a.wait_durations_pid
    BY <1>3, ClearedEntries
  <2>6. a.held_durations_pid \in Nat /\ a.wait_durations_pid \in Nat
    BY <1>3 DEF ArrType
  <2> HIDE DEF c
  <2>7. v \in Nat /\ v <= a.wait_durations_pid + w
    BY <2>5, <2>6 DEF One, Appended
  <2> HIDE DEF v, w
  <2>8. r \in ArrType /\ r.held_durations_pid = a.held_durations_pid /\ r.wait_durations_pid = v
    BY <2>5, <2>7 DEF ArrType
  <2> HIDE DEF r
  <2>9. /\ 0 + r.held_durations_pid = arrays[p].held_durations_pid + 0
        /\ 0 + r.held_durations_pid <= arrays[p].held_durations_pid + 0
        /\ r.wait_durations_pid <= arrays[p].wait_durations_pid + w
    BY <2>6, <2>7, <2>8
  <2>10. IsFiniteSet(locks_held_by_pid') /\ Cardinality(locks_held_by_pid) \in Nat
    BY <2>3, FS_CardinalityType DEF StatInv
  <2>11. /\ Cardinality(locks_held_by_pid') + 0 + One(pc'[p] \in Asking) + ops
              <= Cardinality(locks_held_by_pid) + One(pc[p] \in Asking) + ops'
         /\ w + One(pc'[p] \in InAcquire) + ops <= One(pc[p] \in InAcquire) + ops'
    BY <1>1, <1>2, <2>3, <2>4, <2>10
  <2>12. w \in Nat
    BY <2>4
  <2>13. Adds(p, r, 0, w, 0)
    BY <2>3, <2>4, <2>9, <2>10, <2>11 DEF Adds
  <2> QED
    BY <1>1, <1>2, <2>8, <2>12, <2>13, StatOwn
<1> QED
  BY <1>4, <1>5

\* The release event: one sample, for an entry that goes.
LEMMA StatRelease ==
    ASSUME ServerInv, ScriptTypes, TraceInv, StatInv, NEW p \in Pids, Release(p)
    PROVE  StatInv'
<1>1. /\ Backend(p) /\ Fires(ReleaseProbe(p)) /\ pc[p] = "release" /\ pc'[p] = "idle" /\ UNCHANGED ops
  BY DEF Release, Backend, Goto, ServerInv, ServerTypes
<1>2. ops \in Nat /\ ops' \in Nat /\ One(pc'[p] \in InAcquire) = 0 /\ One(pc[p] \in InAcquire) = 0
      /\ One(pc'[p] \in Asking) = 0 /\ One(pc[p] \in Asking) = 0
  BY <1>1, Moves DEF One, Asking, InAcquire
<1> DEFINE a == arrays[p]
<1>3. a \in ArrType /\ arrays \in [Pids -> ArrType] /\ arrays = [arrays EXCEPT ![p] = a] /\ StatTypes
  BY DEF ScriptTypes, StatTypes
<1>4. IsFiniteSet(locks_held_by_pid) /\ Cardinality(locks_held_by_pid) \in Nat
  BY FS_CardinalityType DEF StatInv
<1>5. CASE UNCHANGED script
  <2>1. UNCHANGED <<arrays, locks_held_by_pid, allprocs, dropped, printed, contended>>
    BY <1>5 DEF script, stats
  <2>2. One(pc'[p] \in Asking) + ops <= One(pc[p] \in Asking) + ops'
        /\ One(pc'[p] \in InAcquire) + ops <= One(pc[p] \in InAcquire) + ops'
    BY <1>1, <1>2
  <2> QED
    BY <1>1, <1>2, <1>3, <2>1, <2>2, StatSame
<1>6. CASE ReleaseProbe(p) /\ TracksHeld
  <2> DEFINE this == Entry(p, op[p].lock, op[p].mode)
             sampled == opt.track_holds /\ this \in locks_held_by_pid
             h == One(sampled)
             v == IF sampled THEN Appended(a.held_durations_pid) ELSE a.held_durations_pid
             r == [a EXCEPT !.held_durations_pid = v]
  <2>1. /\ UNCHANGED <<dropped, printed, contended>>
        /\ allprocs' = IF sampled THEN [allprocs EXCEPT !.held = @ + 1] ELSE allprocs
        /\ arrays' = IF sampled THEN [arrays EXCEPT ![p].held_durations_pid = Appended(@)] ELSE arrays
        /\ locks_held_by_pid' = {e \in locks_held_by_pid : e.pid # p \/ e.lock # op[p].lock}
    BY <1>6 DEF ReleaseProbe
  <2>2. arrays' = [arrays EXCEPT ![p] = r]
    <3>1. CASE sampled
      BY <1>3, <2>1, <3>1
    <3>2. CASE ~ sampled
      <4>1. r = a
        BY <1>3, <3>2 DEF ArrType
      <4> HIDE DEF r, a
      <4> QED
        BY <1>3, <2>1, <3>2, <4>1
    <3> QED
      BY <3>1, <3>2
  <2>3. /\ HeldAll' = HeldAll + h /\ WaitAll' = WaitAll + 0 /\ contended' = contended + 0 /\ printed' = printed + 0
        /\ h \in {0, 1}
    BY <1>3, <2>1 DEF HeldAll, WaitAll, StatTypes, SampleType, One
  <2>4. a.held_durations_pid \in Nat /\ a.wait_durations_pid \in Nat
    BY <1>3 DEF ArrType
  <2>5. /\ v \in Nat /\ v <= a.held_durations_pid + h
        /\ (opt.track_per_process => v = a.held_durations_pid + h)
    BY <2>4 DEF One, Appended
  <2>6. /\ IsFiniteSet(locks_held_by_pid') /\ Cardinality(locks_held_by_pid') \in Nat
        /\ Cardinality(locks_held_by_pid') + h <= Cardinality(locks_held_by_pid)
    <3>1. /\ IsFiniteSet(locks_held_by_pid') /\ Cardinality(locks_held_by_pid') \in Nat
          /\ Cardinality(locks_held_by_pid') <= Cardinality(locks_held_by_pid)
      <4>1. locks_held_by_pid' \subseteq locks_held_by_pid
        BY <2>1
      <4> QED
        BY <1>4, <4>1, FS_Subset, FS_CardinalityType
    <3>2. ASSUME this \in locks_held_by_pid
          PROVE  Cardinality(locks_held_by_pid') + 1 <= Cardinality(locks_held_by_pid)
      <4>1. this.pid = p /\ this.lock = op[p].lock
        BY DEF Entry
      <4> HIDE DEF this
      <4>2. locks_held_by_pid' \subseteq locks_held_by_pid \ {this}
        BY <2>1, <4>1
      <4>3. /\ IsFiniteSet(locks_held_by_pid \ {this})
            /\ Cardinality(locks_held_by_pid \ {this}) = Cardinality(locks_held_by_pid) - 1
        BY <1>4, <3>2, FS_RemoveElement
      <4>4. Cardinality(locks_held_by_pid') <= Cardinality(locks_held_by_pid \ {this})
        BY <4>2, <4>3, FS_Subset
      <4> QED
        BY <1>4, <3>1, <4>3, <4>4
    <3>3. sampled => this \in locks_held_by_pid
      OBVIOUS
    <3> HIDE DEF this
    <3> QED
      BY <1>4, <3>1, <3>2, <3>3 DEF One
  <2> HIDE DEF v, h
  <2>7. r \in ArrType /\ r.held_durations_pid = v /\ r.wait_durations_pid = a.wait_durations_pid
    BY <1>3, <2>5 DEF ArrType
  <2> HIDE DEF r
  <2>12. "track_per_process" \notin off => opt.track_per_process
    BY OnAllAlong DEF ServerInv, ServerTypes
  <2>8. /\ ("track_per_process" \notin off => 0 + r.held_durations_pid = arrays[p].held_durations_pid + h)
        /\ 0 + r.held_durations_pid <= arrays[p].held_durations_pid + h
        /\ r.wait_durations_pid <= arrays[p].wait_durations_pid + 0
    BY <2>3, <2>4, <2>5, <2>7, <2>12
  <2>9. /\ Cardinality(locks_held_by_pid') + h + One(pc'[p] \in Asking) + ops
              <= Cardinality(locks_held_by_pid) + One(pc[p] \in Asking) + ops'
        /\ 0 + One(pc'[p] \in InAcquire) + ops <= One(pc[p] \in InAcquire) + ops'
    BY <1>1, <1>2, <1>4, <2>3, <2>6
  <2>10. h \in Nat
    BY <2>3
  <2>11. Adds(p, r, h, 0, 0)
    BY <2>2, <2>3, <2>6, <2>8, <2>9 DEF Adds
  <2> QED
    BY <1>1, <1>2, <2>7, <2>10, <2>11, StatOwn
<1> QED
  BY <1>1, <1>5, <1>6 DEF Fires, ReleaseProbe

\* The report: what is printed is no longer kept.
LEMMA StatReported ==
    ASSUME ServerInv, ScriptTypes, TraceInv, StatInv, NEW p \in Pids, ExitReported(p)
    PROVE  StatInv'
<1>1. /\ Backend(p) /\ Fires(ReportProbe(p)) /\ pc[p] = "exit" /\ pc'[p] = "exit2" /\ UNCHANGED ops
  BY DEF ExitReported, Backend, Goto, ServerInv, ServerTypes
<1>2. /\ ops' \in Nat /\ ops \in Nat
      /\ One(pc'[p] \in Asking) + ops <= One(pc[p] \in Asking) + ops'
      /\ One(pc'[p] \in InAcquire) + ops <= One(pc[p] \in InAcquire) + ops'
  BY <1>1, Moves
<1> DEFINE a == arrays[p]
<1>3. a \in ArrType /\ arrays = [arrays EXCEPT ![p] = a] /\ StatTypes
  BY DEF ScriptTypes, StatTypes
<1>4. CASE UNCHANGED <<arrays, locks_held_by_pid, allprocs, dropped, printed, contended>>
  BY <1>1, <1>2, <1>3, <1>4, StatSame
<1>5. CASE ReportProbe(p) /\ opt.track_per_process
  <2> DEFINE k == a.held_durations_pid
             r == [a EXCEPT !.held_durations_pid = 0]
  <2>1. /\ arrays' = [arrays EXCEPT ![p] = r] /\ printed' = printed + k
        /\ UNCHANGED <<locks_held_by_pid, allprocs, dropped, contended>>
    BY <1>5 DEF ReportProbe, Change
  <2>2. /\ r \in ArrType /\ r.held_durations_pid = 0 /\ r.wait_durations_pid = a.wait_durations_pid
        /\ k \in Nat /\ a.wait_durations_pid \in Nat
    BY <1>3 DEF ArrType
  <2>3. HeldAll' = HeldAll + 0 /\ WaitAll' = WaitAll + 0 /\ contended' = contended + 0
    BY <1>3, <2>1 DEF HeldAll, WaitAll, StatTypes, SampleType
  <2>4. k + r.held_durations_pid = arrays[p].held_durations_pid + 0
        /\ k + r.held_durations_pid <= arrays[p].held_durations_pid + 0
        /\ r.wait_durations_pid <= arrays[p].wait_durations_pid + 0
    BY <2>2
  <2>5. IsFiniteSet(locks_held_by_pid') /\ Cardinality(locks_held_by_pid) \in Nat
    BY <2>1, FS_CardinalityType DEF StatInv
  <2>6. \A c : One(c) \in Nat
    BY DEF One
  <2>7. /\ Cardinality(locks_held_by_pid') + 0 + One(pc'[p] \in Asking) + ops
              <= Cardinality(locks_held_by_pid) + One(pc[p] \in Asking) + ops'
        /\ 0 + One(pc'[p] \in InAcquire) + ops <= One(pc[p] \in InAcquire) + ops'
    BY <1>2, <2>1, <2>5, <2>6
  <2> HIDE DEF r, k
  <2>8. Adds(p, r, 0, 0, k)
    BY <2>1, <2>3, <2>4, <2>5, <2>7 DEF Adds
  <2> QED
    BY <1>1, <1>2, <2>2, <2>8, StatOwn
<1> QED
  BY <1>1, <1>4, <1>5 DEF Fires, ReportProbe, script, stats

\* The steps of no process in particular.
LEMMA StatGlobal ==
    ASSUME ServerInv, ScriptTypes, TraceInv, StatInv,
           ServerCrash \/ ScriptStarts \/ Timer \/ Tweak \/ UNCHANGED vars
    PROVE  StatInv'
<1>1. UNCHANGED <<ops, arrays, locks_held_by_pid, printed, contended>>
  BY DEF ServerCrash, ScriptStarts, Timer, Tweak, vars, server, script, stats
<1>2. HeldAll' = HeldAll /\ WaitAll' = WaitAll
  BY DEF HeldAll, WaitAll, ScriptTypes, SampleType, ServerCrash, ScriptStarts, Timer, Tweak, vars, script, stats
<1>3. "track_per_process" \notin off' => "track_per_process" \notin off
  BY DEF Settings, ServerCrash, ScriptStarts, Timer, Tweak, vars
<1>4. ops \in Nat /\ HeldAll \in Nat /\ WaitAll \in Nat /\ Cardinality(locks_held_by_pid) \in Nat
  <2>1. Cardinality(locks_held_by_pid) \in Nat
    BY FS_CardinalityType DEF StatInv
  <2> QED
    BY <2>1, LwlockAssumption DEF ScriptTypes, SampleType, HeldAll, WaitAll, ServerInv, ServerTypes
<1>5. ASSUME NEW s \in {Asking, InAcquire}
      PROVE  /\ Cardinality(At(s)) \in Nat /\ Cardinality(At(s)') \in Nat
             /\ Cardinality(At(s)') <= Cardinality(At(s))
  <2>1. At(s)' \subseteq At(s)
    <3>1. CASE ServerCrash
      BY <3>1 DEF ServerCrash, At, Asking, InAcquire
    <3>2. CASE UNCHANGED pc
      BY <3>2 DEF At
    <3> QED
      BY <3>1, <3>2 DEF ScriptStarts, Timer, Tweak, vars, server
  <2>2. At(s) \in SUBSET Pids /\ At(s)' \in SUBSET Pids
    BY DEF At
  <2>3. IsFiniteSet(At(s)) /\ IsFiniteSet(At(s)') /\ Cardinality(At(s)) \in Nat /\ Cardinality(At(s)') \in Nat
    BY <2>2, SmallerSet
  <2> QED
    BY <2>1, <2>3, FS_Subset
<1>6. HeldSum(arrays)' = HeldSum(arrays)
  BY <1>1
<1>7. /\ HeldAll' + Cardinality(locks_held_by_pid') + Cardinality(At(Asking)') <= ops'
      /\ WaitAll' + Cardinality(At(InAcquire)') <= ops'
  BY <1>1, <1>2, <1>4, <1>5 DEF StatInv
<1> QED
  BY <1>1, <1>2, <1>3, <1>6, <1>7 DEF StatInv

\* The invariant of the samples, and the one of the tracker it needs.
THEOREM SampleInv == Spec => [](ServerInv /\ ScriptTypes /\ TraceInv /\ StatInv)
<1>1. Init => StatInv
  BY StatInit
<1>2. ServerInv /\ ScriptTypes /\ TraceInv /\ StatInv /\ [Next]_vars => StatInv'
  <2> SUFFICES ASSUME ServerInv, ScriptTypes, TraceInv, StatInv, [Next]_vars PROVE StatInv'
    OBVIOUS
  <2>1. ASSUME NEW p \in Pids, Backend(p) PROVE StatInv'
    BY <2>1, StatPlain, StatAcquired, StatWaitDone, StatRelease, StatReported DEF Backend
  <2> QED
    BY <2>1, StatGlobal DEF Next
<1> QED
  BY <1>1, <1>2, TrackerInv, PTL DEF Spec

\* The samples of holds against the locks that were given back meanwhile.
RelInv ==
    /\ released \in Nat
    /\ Tracked => HeldAll <= released /\ (late \/ HeldAll = released)

\* A release event is one lock more and, if the script knows of the lock, one sample
\* more; and it does, unless it came late.
LEMMA ReleaseCounts ==
    ASSUME ServerInv, ScriptTypes, TraceInv, RelInv, NEW p \in Pids, Release(p)
    PROVE  RelInv'
<1>1. /\ Fires(ReleaseProbe(p)) /\ pc[p] = "release" /\ UNCHANGED <<late, off>>
      /\ released' = IF tracing = "on" /\ opt.track_holds THEN released + 1 ELSE released
  BY DEF Release, Settings
<1>2. HeldAll \in Nat /\ released \in Nat /\ (Tracked' <=> Tracked) /\ (Tracked => TracksHeld)
  <2>1. Tracked => TracksHeld
    BY OnAllAlong DEF ServerInv, ServerTypes
  <2> QED
    BY <1>1, <2>1 DEF ScriptTypes, SampleType, HeldAll, RelInv, Tracked
<1> DEFINE known == Entry(p, op[p].lock, op[p].mode) \in locks_held_by_pid
           sampled == TracksHeld /\ opt.track_holds /\ known
<1>3. CASE tracing # "on"
  <2>1. HeldAll' = HeldAll /\ released' = released
    BY <1>1, <1>3 DEF Fires, script, stats, HeldAll
  <2> QED
    BY <1>1, <1>2, <2>1 DEF RelInv
<1>4. CASE tracing = "on"
  <2>1. HeldAll' = IF sampled THEN HeldAll + 1 ELSE HeldAll
    <3>1. ReleaseProbe(p)
      BY <1>1, <1>4 DEF Fires
    <3>2. /\ UNCHANGED dropped
          /\ allprocs' = IF sampled THEN [allprocs EXCEPT !.held = @ + 1] ELSE allprocs
      BY <3>1 DEF ReleaseProbe, script, stats
    <3>3. allprocs \in SampleType /\ dropped \in SampleType
      BY DEF ScriptTypes
    <3> HIDE DEF sampled
    <3> QED
      BY <3>2, <3>3 DEF HeldAll, SampleType
  <2>2. Tracked => late \/ known
    <3>1. Holds(p) /\ Calls(p) /\ op[p] \in OpType
      BY <1>4, Running
    <3>2. op[p].lock \in Locks /\ op[p].mode \in Modes /\ Has(p, op[p].lock, op[p].mode) /\ pc[p] \in Lives
      BY <1>1, <3>1 DEF Calls, OpType, Has, Lives
    <3>3. In(p, op[p].lock, op[p].mode) <=> known
      BY DEF In
    <3> HIDE DEF known
    <3> QED
      BY <3>1, <3>2, <3>3 DEF Holds
  <2> HIDE DEF known
  <2> QED
    BY <1>1, <1>2, <1>4, <2>1, <2>2 DEF RelInv
<1> QED
  BY <1>3, <1>4

\* The other handlers take no sample of a hold.
LEMMA OthersDoNot ==
    ASSUME ScriptTypes, NEW p \in Pids, Backend(p), ~ Release(p)
    PROVE  HeldAll' = HeldAll /\ released' = released
<1>1. HeldAll' = HeldAll
  <2> USE DEF HeldAll
  <2>1. ASSUME UNCHANGED stats \/ UNCHANGED script \/ \E a : Aborts(a) PROVE HeldAll' = HeldAll
    BY <2>1 DEF script, stats, Aborts
  <2>2. BackendTypeProbe(p) => UNCHANGED stats
    BY DEF BackendTypeProbe
  <2>3. ASSUME NEW f, AcquireStartProbe(p, f) PROVE HeldAll' = HeldAll
    <3>1. UNCHANGED script \/ UNCHANGED stats \/ Aborts("busy") \/ Aborts("blocker")
      BY <2>3 DEF AcquireStartProbe
    <3> QED
      BY <2>1, <3>1
  <2>4. WaitStartProbe(p) => HeldAll' = HeldAll
    <3>1. WaitStartProbe(p) => UNCHANGED script \/ UNCHANGED stats \/ Aborts("mismatch")
      BY DEF WaitStartProbe
    <3> QED
      BY <2>1, <3>1
  <2>5. AcquiredHold(p) => UNCHANGED stats
    BY DEF AcquiredHold
  <2>6. WaitDoneProbe(p) => HeldAll' = HeldAll
    <3>1. CASE Aborts("mismatch")
      BY <2>1, <3>1
    <3>2. CASE /\ allprocs' \in {allprocs, [allprocs EXCEPT !.wait = @ + 1]} /\ UNCHANGED dropped
      BY <3>2 DEF ScriptTypes, SampleType
    <3> QED
      BY <3>1, <3>2 DEF WaitDoneProbe
  <2>7. AcquireEndProbe(p) => HeldAll' = HeldAll
    BY <2>1 DEF AcquireEndProbe
  <2>8. ReportProbe(p) \/ DeletePerPidEntries(p) => HeldAll' = HeldAll
    BY DEF ReportProbe, DeletePerPidEntries, stats
  <2>9. Call(p) => HeldAll' = HeldAll
    <3>1. Call(p) => \E f : Fires(AcquireStartProbe(p, f))
      BY DEF Call
    <3> QED
      BY <2>1, <2>3, <3>1 DEF Fires
  <2> HIDE DEF HeldAll
  <2> QED
    BY <2>1, <2>2, <2>4, <2>5, <2>6, <2>7, <2>8, <2>9
       DEF Backend, Fires, BackendStarts, NameAssigned, WaitStart, Wake, Acquired, WaitDone, AcquireEnd, Unlock,
           Exit, ExitReported, ExitForgotten
<1>2. released' = released
  BY DEF Backend, BackendStarts, NameAssigned, Call, WaitStart, Wake, Acquired, WaitDone, AcquireEnd, Unlock,
         Exit, ExitReported, ExitForgotten, server
<1> QED
  BY <1>1, <1>2

\* So the samples of holds keep up with the locks that are given back.
THEOREM HoldsCounted == Spec => []RelInv
<1>1. Init => RelInv
  BY DEF Init, RelInv, HeldAll
<1>2. ServerInv /\ ScriptTypes /\ TraceInv /\ RelInv /\ [Next]_vars => RelInv'
  <2> SUFFICES ASSUME ServerInv, ScriptTypes, TraceInv, RelInv, [Next]_vars PROVE RelInv'
    OBVIOUS
  <2>1. ASSUME HeldAll' = HeldAll, released' = released, late' = late, off \subseteq off' PROVE RelInv'
    BY <2>1 DEF RelInv, Tracked
  <2>2. ASSUME NEW p \in Pids, Backend(p) PROVE RelInv'
    <3>1. CASE Release(p)
      BY <3>1, ReleaseCounts
    <3>2. CASE ~ Release(p)
      <4>1. HeldAll' = HeldAll /\ released' = released
        BY <2>2, <3>2, OthersDoNot
      <4>2. UNCHANGED <<late, off>>
        BY <2>2, Alone
      <4> QED
        BY <2>1, <4>1, <4>2
    <3> QED
      BY <3>1, <3>2
  <2>3. CASE ServerCrash \/ ScriptStarts \/ Timer \/ Tweak \/ UNCHANGED vars
    <3>1. HeldAll' = HeldAll
      BY <2>3 DEF HeldAll, ScriptTypes, SampleType, ServerCrash, ScriptStarts, Timer, Tweak, vars, script, stats
    <3>2. released' = released /\ late' = late /\ off \subseteq off'
      BY <2>3 DEF ServerCrash, ScriptStarts, Timer, Tweak, Settings, vars, server
    <3> QED
      BY <2>1, <3>1, <3>2
  <2> QED
    BY <2>2, <2>3 DEF Next
<1> QED
  BY <1>1, <1>2, TrackerInv, PTL DEF Spec

\* Every lock given back while holds are collected is one sample, but for what the
\* script came too late to see, and as long as processes are tracked in the report of
\* its process once; and every call that waited is one sample.
THEOREM NoSampleLost == Spec => []SamplesAddUp
<1>1. ASSUME ScriptTypes, StatInv, RelInv PROVE SamplesAddUp
  <2>1. contended = allprocs.wait + dropped.wait
    BY <1>1 DEF StatInv, WaitAll
  <2>2. "track_per_process" \notin off => allprocs.held + dropped.held = printed + HeldSum(arrays)
    BY <1>1 DEF StatInv, HeldAll
  <2>3. Tracked => HeldAll <= released /\ (late \/ HeldAll = released)
    BY <1>1 DEF RelInv
  <2>4. Tracked => /\ allprocs.held + dropped.held <= released
                   /\ (late \/ allprocs.held + dropped.held = released)
    BY <2>3, Zenon DEF HeldAll
  <2> QED
    BY <2>1, <2>2, <2>4, Zenon DEF SamplesAddUp, HeldSum
<1> QED
  BY <1>1, SampleInv, HoldsCounted, PTL

\* The tracker's type invariant: that there are never more samples than calls needs
\* that every call leaves at most one of each kind.
THEOREM TrackerTypeCorrect == Spec => []TypeOK
<1>1. ASSUME ServerInv, ScriptTypes, StatInv, RelInv PROVE TypeOK
  <2>1. /\ HeldAll \in Nat /\ WaitAll \in Nat /\ ops \in Nat /\ ops <= MaxOps /\ MaxOps \in Nat
        /\ printed \in Nat /\ contended = WaitAll
    BY <1>1, LwlockAssumption DEF ServerInv, ServerTypes, ScriptTypes, SampleType, HeldAll, WaitAll, StatInv
  <2>2. Cardinality(locks_held_by_pid) \in Nat /\ Cardinality(At(Asking)) \in Nat /\ Cardinality(At(InAcquire)) \in Nat
    <3>1. At(Asking) \in SUBSET Pids /\ At(InAcquire) \in SUBSET Pids
      BY DEF At
    <3>2. IsFiniteSet(locks_held_by_pid)
      BY <1>1 DEF StatInv
    <3> QED
      BY <3>1, <3>2, SmallerSet, FS_CardinalityType
  <2>3. HeldAll <= MaxOps /\ WaitAll <= MaxOps
    BY <1>1, <2>1, <2>2 DEF StatInv
  <2>4. \A p \in Pids : arrays[p] \in ArrType
    BY <1>1 DEF ScriptTypes
  <2>5. \A p \in Pids : arrays[p].held_durations_pid \in Nat /\ arrays[p].wait_durations_pid \in Nat
    BY <2>4 DEF ArrType
  <2>6. \A p \in Pids : arrays[p].held_durations_pid \in Samples /\ arrays[p].wait_durations_pid \in Samples
    BY <1>1, <2>1, <2>3, <2>5 DEF StatInv, Samples
  <2>7. printed \in Samples /\ contended \in Samples
    <3>1. HeldSum(arrays) \in Nat
      BY <2>5, HeldSumNat
    <3>2. printed + HeldSum(arrays) <= HeldAll
      BY <1>1 DEF StatInv
    <3> QED
      BY <2>1, <2>3, <3>1, <3>2 DEF Samples
  <2>8. {allprocs, dropped} \subseteq [held : Samples, wait : Samples]
    <3>1. allprocs \in SampleType /\ dropped \in SampleType
      BY <1>1 DEF ScriptTypes
    <3>2. /\ allprocs.held \in Samples /\ allprocs.wait \in Samples
          /\ dropped.held \in Samples /\ dropped.wait \in Samples
      BY <2>1, <2>3, <3>1 DEF SampleType, Samples, HeldAll, WaitAll
    <3> QED
      BY <3>1, <3>2 DEF SampleType
  <2>9. arrays \in [Pids -> [lock_wait_start_us : 0..MaxWaits, lock_wait_lwlock_p : Locks \cup {NoLock},
                lock_wait_blocker : Pids \cup {NoPid, "none"}, acquire_func : BOOLEAN,
                application_names : BOOLEAN, held_durations_pid : Samples, wait_durations_pid : Samples]]
    BY <1>1, <2>4, <2>6 DEF ScriptTypes, ArrType
  <2>10. off \subseteq SettingNames /\ (\A o \in SettingNames : opt[o] \/ o \in off) /\ released \in Nat
    BY <1>1 DEF ServerInv, OffInv, RelInv
  <2> HIDE DEF Samples
  <2> QED
    BY <1>1, <2>7, <2>8, <2>9, <2>10 DEF TypeOK, ServerInv, ServerTypes, ScriptTypes, PcType, OpType, EntryType
<1> QED
  BY <1>1, SampleInv, HoldsCounted, PTL

=============================================================================
