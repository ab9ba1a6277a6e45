----------------------------- MODULE LiraProofs -----------------------------
(***************************************************************************)
(* Register allocation as a whole, for every graph and any register pools: *)
(* alloc_registers runs the liveness analysis of Liveness and the greedy   *)
(* allocator of GreedyAlloc, so what those keep is kept here.  Between the *)
(* two stands build_intervals: an interval is never empty, because what is *)
(* live is read somewhere.  From all three: where an interval begins in    *)
(* time and finds a register, no value is written over.                    *)
(***************************************************************************)
EXTENDS Lira, LivenessProofs

\* The interval maps GreedyAlloc assumes.
ProperIntervals ==
    {f \in [Reg -> Alloc!Interval] :
        \A v \in Reg : f[v].start_time < 0 \/ f[v].start_time < f[v].end_time}

Greedy == INSTANCE GreedyAllocProofs WITH IntervalMaps <- ProperIntervals

-----------------------------------------------------------------------------
(* The liveness analysis inside alloc_registers *)

\* alloc_registers, seen through the variables of the analysis, is the
\* liveness analysis and nothing else: no later stage touches its result.
THEOREM LiraRunsLiveness == LiraSpec => Spec
  <1>1. LiraInit => Init
    BY DEF LiraInit
  <1>2. [LiraNext]_liraVars => [Next]_vars
    BY DEF LiraNext, liraVars, AnalyseLiveness, LivenessDone, BuildIntervals,
           GreedyAllocate, AllocationDone, RewriteRegisters, vars
  <1> QED BY <1>1, <1>2, PTL DEF LiraSpec, Spec

-----------------------------------------------------------------------------
(* build_one_interval *)

\* The largest and the least element of a bounded set of integers.
LEMMA MaxBounds ==
    ASSUME NEW n \in Nat, NEW S \in SUBSET (-1 .. n), S # {}
    PROVE  Max(S) \in S /\ \A x \in S : x <= Max(S)
  <1> DEFINE T == {n - x : x \in S}
  <1>1. T \in SUBSET Nat /\ T # {}
    <2>1. \A x \in S : n - x \in Nat
      OBVIOUS
    <2>2. T \in SUBSET Nat
      BY <2>1
    <2> QED BY <2>2
  <1>2. PICK m \in T : \A k \in T : m <= k
    <2> HIDE DEF T
    <2> QED BY <1>1, LeastElement
  <1>3. PICK y \in S : m = n - y
    BY <1>2
  <1>4. \A x \in S : y >= x
    <2> SUFFICES ASSUME NEW x \in S PROVE y >= x
      OBVIOUS
    <2>1. n - x \in T /\ n - y <= n - x
      BY <1>2, <1>3
    <2> QED BY <2>1
  <1>5. Max(S) \in S /\ \A x \in S : Max(S) >= x
    BY <1>3, <1>4 DEF Max
  <1> QED BY <1>5

LEMMA MinBounds ==
    ASSUME NEW S \in SUBSET Nat, S # {}
    PROVE  Min(S) \in S /\ \A x \in S : Min(S) <= x
  BY LeastElement DEF Min

\* quad holds the bits of all quads when the analysis has stopped.
LEMMA BitsDone ==
    ASSUME IInv, pc = "done", NEW i \in QuadIds(graph)
    PROVE  quad[i].use = graph.quads[i].reads /\ quad[i].def = graph.quads[i].result
  BY QuadFacts DEF IInv, TypeOK, Bits, Processed

LEMMA QuadIndices ==
    ASSUME graph \in Graph, NEW b \in BlockIds(graph), NEW i \in QuadsOf(graph, b)
    PROVE  i \in QuadIds(graph) /\ i \in Nat /\ i + 1 <= graph.first[b + 1]
  BY BlockFacts DEF QuadsOf, QuadIds

\* What decides over start_time and end_time.
Starts(v) ==
    (IF DefinedAt(v) = {} THEN {} ELSE {Max(DefinedAt(v))})
        \cup {graph.first[b] : b \in {c \in BlockIds(graph) : v \in block[c].live_in}}
Ends(v) ==
    {-1} \cup {i + 1 : i \in TouchedAt(v)}
         \cup {graph.first[b + 1] : b \in {c \in BlockIds(graph) : v \in block[c].live_out}}

LEMMA StartFacts ==
    ASSUME graph \in Graph, NEW v \in Reg
    PROVE  /\ StartTime(v) \in Int
           /\ DefinedAt(v) = {} \/ /\ Max(DefinedAt(v)) \in DefinedAt(v)
                                   /\ \A i \in DefinedAt(v) : i <= Max(DefinedAt(v))
           /\ Starts(v) = {} => StartTime(v) = -1
           /\ Starts(v) # {} => /\ StartTime(v) \in Starts(v) /\ StartTime(v) >= 0
                                /\ \A x \in Starts(v) : StartTime(v) <= x
  <1>1. /\ graph.quad_count \in Nat
        /\ \A b \in BlockIds(graph) : graph.first[b] \in 0 .. graph.quad_count
    BY GraphFacts, BlockFacts
  <1>2. DefinedAt(v) = {} \/ /\ Max(DefinedAt(v)) \in DefinedAt(v)
                             /\ \A i \in DefinedAt(v) : i <= Max(DefinedAt(v))
    <2>1. DefinedAt(v) \in SUBSET (-1 .. graph.quad_count)
      BY <1>1 DEF DefinedAt, QuadIds
    <2> QED BY <1>1, <2>1, MaxBounds
  <1>3. DefinedAt(v) \in SUBSET Nat
    BY DEF DefinedAt, QuadIds
  <1>4. Starts(v) \in SUBSET Nat
    BY <1>1, <1>2, <1>3 DEF Starts
  <1>5. StartTime(v) = IF Starts(v) = {} THEN -1 ELSE Min(Starts(v))
    BY DEF StartTime, Starts
  <1> HIDE DEF Starts
  <1> QED BY <1>2, <1>4, <1>5, MinBounds

LEMMA EndFacts ==
    ASSUME graph \in Graph, IInv, NEW v \in Reg
    PROVE  EndTime(v) \in Int /\ \A x \in Ends(v) : x <= EndTime(v)
  <1>1. /\ graph.quad_count \in Nat
        /\ \A b \in BlockIds(graph) : graph.first[b + 1] \in 0 .. graph.quad_count
    BY GraphFacts, BlockFacts
  <1>2. TouchedAt(v) \subseteq QuadIds(graph)
    BY DEF TouchedAt, DefinedAt
  <1>3. Ends(v) \in SUBSET (-1 .. graph.quad_count) /\ Ends(v) # {}
    BY <1>1, <1>2 DEF Ends, QuadIds
  <1>4. EndTime(v) = Max(Ends(v))
    BY DEF EndTime, Ends
  <1> HIDE DEF Ends
  <1>5. Max(Ends(v)) \in Ends(v) /\ \A x \in Ends(v) : x <= Max(Ends(v))
    BY <1>1, <1>3, MaxBounds
  <1>6. Max(Ends(v)) \in -1 .. graph.quad_count
    BY <1>3, <1>5
  <1> QED BY <1>1, <1>4, <1>5, <1>6

\* A register that is live somewhere is read in a block where it is live at
\* the entry: the end of the path along which it is live.
LEMMA LiveIsRead ==
    ASSUME IInv, ExactlyLive, pc = "done", NEW b \in BlockIds(graph),
           NEW v \in block[b].live_in
    PROVE  \E c \in BlockIds(graph) : \E i \in QuadsOf(graph, c) :
               v \in block[c].live_in /\ v \in graph.quads[i].reads
  <1>1. graph \in Graph /\ v \in Reg
    BY DEF IInv, TypeOK
  <1>2. SomePathReads(b, v)
    BY DEF ExactlyLive
  <1>3. PICK n \in 0 .. graph.block_count - 1 : ReadsAfter(b, n, v)
    BY <1>1, <1>2, SomePathMeans
  <1>4. PICK p \in Walks(b, n) : Reads(p[n + 1], v)
    BY <1>3 DEF ReadsAfter
  <1>5. p[n + 1] \in BlockIds(graph)
    BY <1>4 DEF Walks
  <1>6. v \in block[p[n + 1]].live_in
    BY <1>1, <1>4, <1>5 DEF IInv, Settled, Solved, BlockTransfer, LiveBefore, Reads
  <1>7. \E i \in QuadsOf(graph, p[n + 1]) : v \in graph.quads[i].reads
    BY <1>4 DEF Reads, ExposedUse, QuadsOf
  <1> QED BY <1>5, <1>6, <1>7

\* No interval build_intervals hands over is empty or turned round.
LEMMA IntervalsProper ==
    ASSUME IInv, ExactlyLive, pc = "done"
    PROVE  [v \in Reg |-> BuildOneInterval(v)] \in ProperIntervals
  <1>0. graph \in Graph
    BY DEF IInv, TypeOK
  <1> SUFFICES ASSUME NEW v \in Reg
               PROVE  /\ BuildOneInterval(v) \in Alloc!Interval
                      /\ StartTime(v) < 0 \/ StartTime(v) < EndTime(v)
    BY DEF BuildOneInterval, ProperIntervals
  <1>1. BuildOneInterval(v) \in Alloc!Interval
    BY <1>0, StartFacts, EndFacts DEF BuildOneInterval, Alloc!Interval, IsCall
  <1>2. CASE Starts(v) = {}
    BY <1>0, <1>1, <1>2, StartFacts
  <1>3. CASE DefinedAt(v) # {}
    <2> DEFINE i == Max(DefinedAt(v))
    <2>1. i \in DefinedAt(v) /\ i \in Starts(v) /\ StartTime(v) <= i /\ StartTime(v) \in Int
      BY <1>0, <1>3, StartFacts DEF Starts
    <2> HIDE DEF i
    <2>2. i \in Nat /\ i + 1 \in Ends(v)
      <3>1. i \in Nat /\ i \in TouchedAt(v)
        BY <2>1 DEF TouchedAt, DefinedAt, QuadIds
      <3> QED BY <3>1 DEF Ends
    <2>3. i + 1 <= EndTime(v) /\ EndTime(v) \in Int
      BY <1>0, <2>2, EndFacts
    <2> QED BY <1>1, <2>1, <2>2, <2>3
  <1>4. CASE Starts(v) # {} /\ DefinedAt(v) = {}
    <2>1. PICK b \in BlockIds(graph) : v \in block[b].live_in
      BY <1>4 DEF Starts
    <2>2. PICK c \in BlockIds(graph) : \E i \in QuadsOf(graph, c) :
               v \in block[c].live_in /\ v \in graph.quads[i].reads
      BY <2>1, LiveIsRead
    <2>3. PICK i \in QuadsOf(graph, c) : v \in block[c].live_in /\ v \in graph.quads[i].reads
      BY <2>2
    <2>4. graph.first[c] \in Starts(v) /\ graph.first[c] \in Int /\ graph.first[c] <= i
      BY <1>0, <2>3, BlockFacts DEF Starts, QuadsOf
    <2>5. i \in QuadIds(graph) /\ i \in Nat
      BY <1>0, QuadIndices
    <2>6. i + 1 \in Ends(v)
      BY <2>3, <2>5, BitsDone DEF Ends, TouchedAt
    <2>7. i + 1 <= EndTime(v) /\ EndTime(v) \in Int
      BY <1>0, <2>6, EndFacts
    <2>8. StartTime(v) <= graph.first[c] /\ StartTime(v) \in Int
      BY <1>0, <1>4, <2>4, StartFacts
    <2> QED BY <1>1, <2>4, <2>5, <2>7, <2>8
  <1> QED BY <1>1, <1>2, <1>3, <1>4

-----------------------------------------------------------------------------
(* The inductive invariant of the stages *)

\* The numbers rewrite_registers leaves in the operands.
Rewritten == [v \in Reg |-> IF phys_reg[v] = Alloc!NoReg THEN v ELSE phys_reg[v]]

\* Which promises of the three parts hold at which stage.
StageInv ==
    /\ stage \in {"liveness", "intervals", "allocate", "rewrite", "finished"}
    /\ stage # "liveness" => pc = "done"
    /\ stage \in {"liveness", "intervals"} =>
           Greedy!Init /\ interval = [v \in Reg |-> NoInterval]
    /\ stage \notin {"liveness", "intervals"} =>
           Greedy!IInv /\ interval = [v \in Reg |-> BuildOneInterval(v)]
    /\ stage \in {"rewrite", "finished"} => todo = {}
    /\ operand_reg = IF stage = "finished" THEN Rewritten ELSE [v \in Reg |-> v]

LEMMA GreedyAssumptions == Greedy!PoolAssumption /\ Greedy!IntervalAssumption
  BY RegisterPools DEF Greedy!PoolAssumption, Greedy!PhysReg, Alloc!PoolAssumption,
     Alloc!PhysReg, Greedy!IntervalAssumption, Greedy!Interval, Alloc!Interval,
     ProperIntervals

LEMMA AllocatorBegins == Greedy!Init => Greedy!IInv
  BY GreedyAssumptions, Greedy!InitIInv

\* The allocator of Lira is the allocator the theorems are about.
LEMMA SameAllocator ==
    /\ Alloc!Next <=> Greedy!Next
    /\ Alloc!PhysReg = Greedy!PhysReg /\ Alloc!NoReg = Greedy!NoReg
  BY DEF Alloc!Next, Greedy!Next, Alloc!SkipUnused, Greedy!SkipUnused,
     Alloc!Allocate, Greedy!Allocate, Alloc!Exhausted, Greedy!Exhausted,
     Alloc!First, Greedy!First, Alloc!Length, Greedy!Length, Alloc!Takes, Greedy!Takes,
     Alloc!IsFirstFit, Greedy!IsFirstFit, Alloc!Free, Greedy!Free,
     Alloc!PhysReg, Greedy!PhysReg, Alloc!NoReg, Greedy!NoReg,
     Alloc!FreeFrom, Greedy!FreeFrom, Alloc!Eligible, Greedy!Eligible

LEMMA InitStageInv == LiraInit => StageInv
  <1> SUFFICES ASSUME LiraInit PROVE StageInv
    OBVIOUS
  <1>1. [v \in Reg |-> NoInterval] \in ProperIntervals
    BY DEF NoInterval, ProperIntervals, Alloc!Interval
  <1> QED BY <1>1, SameAllocator DEF LiraInit, StageInv, Greedy!Init

\* The intervals depend on the result of the analysis only.
LEMMA IntervalsKept ==
    ASSUME UNCHANGED vars, NEW v PROVE BuildOneInterval(v)' = BuildOneInterval(v)
  BY DEF vars, BuildOneInterval, StartTime, EndTime, IsCall, TouchedAt, DefinedAt

LEMMA NextStageInv == IInv /\ ExactlyLive /\ StageInv /\ [LiraNext]_liraVars => StageInv'
  <1> SUFFICES ASSUME IInv, ExactlyLive, StageInv, [LiraNext]_liraVars PROVE StageInv'
    OBVIOUS
  <1>1. CASE AnalyseLiveness
    BY <1>1 DEF AnalyseLiveness, StageInv, Greedy!Init, allocVars
  <1>2. CASE LivenessDone
    BY <1>2 DEF LivenessDone, StageInv, Greedy!Init, allocVars, vars
  <1>3. CASE BuildIntervals
    <2>1. UNCHANGED vars /\ pc = "done" /\ stage' = "allocate"
          /\ interval' = [v \in Reg |-> BuildOneInterval(v)]
          /\ UNCHANGED <<phys_reg, reg_track, todo, operand_reg>>
      BY <1>3 DEF BuildIntervals, StageInv
    <2>2. interval' \in ProperIntervals
      BY <2>1, IntervalsProper
    <2>3. Greedy!Init'
      BY <1>3, <2>1, <2>2 DEF BuildIntervals, StageInv, Greedy!Init
    <2>4. Greedy!IInv'
      BY <2>3, AllocatorBegins, PTL
    <2>5. interval' = [v \in Reg |-> BuildOneInterval(v)']
      BY <2>1, IntervalsKept
    <2> QED BY <1>3, <2>1, <2>4, <2>5 DEF BuildIntervals, StageInv, vars
  <1>4. CASE GreedyAllocate
    <2>1. Greedy!IInv'
      BY <1>4, SameAllocator, GreedyAssumptions, Greedy!NextIInv DEF GreedyAllocate, StageInv
    <2>2. interval' = interval
      BY <1>4 DEF GreedyAllocate, Alloc!Next, Alloc!SkipUnused, Alloc!Allocate, Alloc!Exhausted
    <2>3. UNCHANGED vars /\ stage = "allocate" /\ UNCHANGED <<stage, operand_reg>>
      BY <1>4 DEF GreedyAllocate
    <2>4. interval' = [v \in Reg |-> BuildOneInterval(v)']
      BY <2>2, <2>3, IntervalsKept DEF StageInv
    <2> QED BY <2>1, <2>3, <2>4 DEF StageInv, vars
  <1>5. CASE AllocationDone \/ RewriteRegisters \/ UNCHANGED liraVars
    <2>1. UNCHANGED vars /\ UNCHANGED allocVars
      BY <1>5 DEF AllocationDone, RewriteRegisters, liraVars
    <2>2. Greedy!IInv => Greedy!IInv'
      BY <2>1, GreedyAssumptions, Greedy!NextIInv DEF allocVars, Greedy!vars
    <2>3. Greedy!Init => Greedy!Init'
      BY <2>1 DEF allocVars, Greedy!Init
    <2>4. [v \in Reg |-> BuildOneInterval(v)'] = [v \in Reg |-> BuildOneInterval(v)]
      BY <2>1, IntervalsKept
    <2> QED BY <1>5, <2>1, <2>2, <2>3, <2>4
            DEF AllocationDone, RewriteRegisters, liraVars, vars, allocVars, StageInv, Rewritten
  <1> QED BY <1>1, <1>2, <1>3, <1>4, <1>5 DEF LiraNext

LEMMA SpecStageInv == LiraSpec => [](IInv /\ ExactlyLive /\ StageInv)
  BY LiraRunsLiveness, SpecIInv, LivenessExact, InitStageInv, NextStageInv, PTL DEF LiraSpec

-----------------------------------------------------------------------------
(* A value in its interval *)

\* greedy_allocate has found a register for every interval it looked at.
NoneLeftOver == \A v \in Reg : interval[v].start_time >= 0 => phys_reg[v] # Alloc!NoReg

\* No interval begins behind a definition of its register.
BeginsInTime == \A v \in Reg : \A i \in DefinedAt(v) : StartTime(v) <= i

\* The outcome, where an interval holds a register.
LEMMA OutcomeFacts ==
    ASSUME IInv, StageInv, stage = "finished", NoneLeftOver, NEW v \in Reg,
           StartTime(v) >= 0
    PROVE  /\ interval[v] = BuildOneInterval(v)
           /\ phys_reg[v] # Alloc!NoReg /\ operand_reg[v] = phys_reg[v]
  BY DEF StageInv, Rewritten, NoneLeftOver, BuildOneInterval

\* A register that some quad defines, or that is live into some block, has an
\* interval.
LEMMA HasInterval ==
    ASSUME IInv, NEW v \in Reg,
           DefinedAt(v) # {} \/ \E b \in BlockIds(graph) : v \in block[b].live_in
    PROVE  StartTime(v) >= 0
  <1>1. Starts(v) # {}
    BY DEF Starts
  <1> QED BY <1>1, StartFacts DEF IInv, TypeOK

\* What is live before quad i of b is live at the entry of b or defined
\* between the entry and i.
LEMMA WhereFrom ==
    ASSUME IInv, pc = "done", NEW b \in BlockIds(graph),
           NEW i \in graph.first[b] .. graph.first[b + 1],
           NEW v \in LiveBefore(i, graph.first[b + 1], block[b].live_out)
    PROVE  \/ v \in block[b].live_in
           \/ \E k \in DefinedAt(v) : k < i
  <1>1. graph \in Graph /\ v \in Reg
    BY DEF IInv, TypeOK, LiveBefore
  <1>2. /\ graph.first[b] \in Int /\ graph.first[b + 1] \in Int /\ i \in Int
        /\ graph.first[b + 1] <= graph.quad_count /\ graph.first[b] >= 0
        /\ graph.quad_count \in Nat
    BY <1>1, BlockFacts
  <1>3. CASE Untouched(graph.first[b], i, v)
    <2>1. CASE ExposedUse(i, graph.first[b + 1], v)
      <3>1. PICK j \in i .. graph.first[b + 1] - 1 :
                /\ v \in graph.quads[j].reads
                /\ \A k \in i .. j - 1 : v \notin graph.quads[k].result
        BY <2>1 DEF ExposedUse
      <3>2. j \in graph.first[b] .. graph.first[b + 1] - 1
        BY <1>2
      <3>3. \A k \in graph.first[b] .. j - 1 : v \notin graph.quads[k].result
        <4> SUFFICES ASSUME NEW k \in graph.first[b] .. j - 1
                     PROVE  v \notin graph.quads[k].result
          OBVIOUS
        <4>1. k \in graph.first[b] .. i - 1 \/ k \in i .. j - 1
          BY <1>2
        <4> QED BY <1>3, <3>1, <4>1 DEF Untouched
      <3>4. ExposedUse(graph.first[b], graph.first[b + 1], v)
        BY <3>1, <3>2, <3>3 DEF ExposedUse
      <3> QED BY <1>1, <3>4 DEF IInv, Settled, Solved, BlockTransfer, LiveBefore
    <2>2. CASE v \in block[b].live_out /\ Untouched(i, graph.first[b + 1], v)
      <3>1. Untouched(graph.first[b], graph.first[b + 1], v)
        <4> SUFFICES ASSUME NEW k \in graph.first[b] .. graph.first[b + 1] - 1
                     PROVE  v \notin graph.quads[k].result
          BY DEF Untouched
        <4>1. k \in graph.first[b] .. i - 1 \/ k \in i .. graph.first[b + 1] - 1
          BY <1>2
        <4> QED BY <1>3, <2>2, <4>1 DEF Untouched
      <3> QED BY <1>1, <2>2, <3>1 DEF IInv, Settled, Solved, BlockTransfer, LiveBefore
    <2> QED BY <2>1, <2>2 DEF LiveBefore
  <1>4. CASE ~Untouched(graph.first[b], i, v)
    <2>1. PICK k \in graph.first[b] .. i - 1 : v \in graph.quads[k].result
      BY <1>4 DEF Untouched
    <2>2. k \in QuadIds(graph) /\ k < i
      BY <1>2 DEF QuadIds
    <2> QED BY <2>1, <2>2, BitsDone DEF DefinedAt
  <1> QED BY <1>3, <1>4

\* The interval of a register that is live behind quad i contains i.
LEMMA LiveInside ==
    ASSUME IInv, pc = "done", BeginsInTime, NEW b \in BlockIds(graph),
           NEW i \in QuadsOf(graph, b), NEW v \in LiveAfter(b, i)
    PROVE  StartTime(v) \in 0 .. i /\ i < EndTime(v)
  <1>1. graph \in Graph /\ v \in Reg
    BY DEF IInv, TypeOK, LiveAfter, LiveBefore
  <1>2. /\ graph.first[b] \in Int /\ graph.first[b + 1] \in Int /\ i \in Nat
        /\ graph.first[b] <= i /\ i + 1 <= graph.first[b + 1]
        /\ graph.first[b + 1] <= graph.quad_count /\ graph.quad_count \in Nat
        /\ graph.first[b] >= 0
    BY <1>1, BlockFacts DEF QuadsOf
  <1>3. StartTime(v) \in Int /\ EndTime(v) \in Int
    BY <1>1, StartFacts, EndFacts
  <1>4. StartTime(v) <= i /\ StartTime(v) >= 0
    <2>1. v \in block[b].live_in \/ \E k \in DefinedAt(v) : k < i + 1
      BY <1>2, WhereFrom DEF LiveAfter
    <2>2. CASE v \in block[b].live_in
      <3>1. graph.first[b] \in Starts(v)
        BY <2>2 DEF Starts
      <3> QED BY <1>1, <1>2, <1>3, <3>1, StartFacts
    <2>3. CASE \E k \in DefinedAt(v) : k < i + 1
      <3>1. PICK k \in DefinedAt(v) : k < i + 1
        BY <2>3
      <3>2. StartTime(v) <= k /\ k \in Int
        BY <1>1, <3>1 DEF BeginsInTime, DefinedAt, QuadIds
      <3> QED BY <1>1, <1>2, <1>3, <3>1, <3>2, HasInterval
    <2> QED BY <2>1, <2>2, <2>3
  <1>5. i < EndTime(v)
    <2>1. CASE ExposedUse(i + 1, graph.first[b + 1], v)
      <3>1. PICK j \in i + 1 .. graph.first[b + 1] - 1 : v \in graph.quads[j].reads
        BY <2>1 DEF ExposedUse
      <3>2. j \in QuadIds(graph) /\ j \in Int /\ i < j
        BY <1>2 DEF QuadIds
      <3>3. j + 1 \in Ends(v)
        BY <3>1, <3>2, BitsDone DEF Ends, TouchedAt
      <3>4. j + 1 <= EndTime(v)
        BY <1>1, <3>3, EndFacts
      <3> QED BY <1>2, <1>3, <3>2, <3>4
    <2>2. CASE v \in block[b].live_out
      <3>1. graph.first[b + 1] \in Ends(v)
        BY <2>2 DEF Ends
      <3>2. graph.first[b + 1] <= EndTime(v)
        BY <1>1, <3>1, EndFacts
      <3> QED BY <1>2, <1>3, <3>2
    <2> QED BY <2>1, <2>2 DEF LiveAfter, LiveBefore
  <1> QED BY <1>3, <1>4, <1>5, <1>2

\* So does the interval of a register that quad i defines.
LEMMA DefinedInside ==
    ASSUME IInv, pc = "done", BeginsInTime, NEW i \in QuadIds(graph),
           NEW d \in graph.quads[i].result
    PROVE  StartTime(d) \in 0 .. i /\ i < EndTime(d) /\ d \in Reg
  <1>1. graph \in Graph /\ d \in Reg
    BY QuadFacts DEF IInv, TypeOK
  <1>2. i \in DefinedAt(d) /\ i \in Nat
    BY BitsDone DEF DefinedAt, QuadIds
  <1>3. StartTime(d) \in Int /\ StartTime(d) <= i /\ StartTime(d) >= 0
    BY <1>1, <1>2, StartFacts, HasInterval DEF BeginsInTime
  <1>4. i + 1 \in Ends(d)
    BY <1>2 DEF Ends, TouchedAt
  <1>5. i + 1 <= EndTime(d) /\ EndTime(d) \in Int
    BY <1>1, <1>4, EndFacts
  <1> QED BY <1>1, <1>2, <1>3, <1>5

-----------------------------------------------------------------------------
(* The theorems *)

\* A value that a call reads and that is read again behind it stands in a
\* callee-saved register, wherever greedy_allocate found a register for every
\* interval: is_call sees each call that mentions the register.
THEOREM ArgumentsKept == LiraSpec => [](NoneLeftOver => ArgumentsSurviveCalls)
  <1>1. IInv /\ StageInv /\ NoneLeftOver => ArgumentsSurviveCalls
    <2> SUFFICES ASSUME IInv, StageInv, NoneLeftOver, stage = "finished",
                        NEW b \in BlockIds(graph), NEW i \in QuadsOf(graph, b),
                        graph.quads[i].operation = "CALL",
                        NEW v \in LiveAfter(b, i) \cap graph.quads[i].reads
                 PROVE  operand_reg[v] \in CalleeSaved
      BY DEF ArgumentsSurviveCalls
    <2>1. graph \in Graph /\ pc = "done" /\ v \in Reg
      BY DEF IInv, TypeOK, StageInv, LiveAfter, LiveBefore
    <2>2. i \in QuadIds(graph) /\ i \in Nat /\ i + 1 <= graph.first[b + 1]
          /\ graph.first[b] \in Int /\ graph.first[b + 1] \in Int /\ graph.first[b] <= i
      BY <2>1, QuadIndices, BlockFacts DEF QuadsOf
    <2>3. v \in block[b].live_in \/ DefinedAt(v) # {}
      <3>1. i + 1 \in graph.first[b] .. graph.first[b + 1]
        BY <2>2
      <3> QED BY <2>1, <3>1, WhereFrom DEF LiveAfter
    <2>4. StartTime(v) >= 0
      BY <2>1, <2>3, HasInterval
    <2>5. /\ interval[v] = BuildOneInterval(v)
          /\ phys_reg[v] # Alloc!NoReg /\ operand_reg[v] = phys_reg[v]
      BY <2>1, <2>4, OutcomeFacts
    <2>6. interval[v].is_call
      <3>1. i \in TouchedAt(v)
        BY <2>1, <2>2, BitsDone DEF TouchedAt
      <3> QED BY <2>5, <3>1 DEF BuildOneInterval, IsCall
    <2>7. Greedy!CallerSavedPreferred
      BY DEF StageInv, Greedy!IInv
    <2> QED BY <2>1, <2>5, <2>6, <2>7, SameAllocator DEF Greedy!CallerSavedPreferred
  <1> QED BY <1>1, SpecStageInv, PTL

\* No quad writes the register of a value that is still to be read, wherever
\* every interval found a register and begins no later than the definitions of
\* its register: what live ranges have in common, the intervals have as well.
THEOREM ValuesKept == LiraSpec => [](NoneLeftOver /\ BeginsInTime => NoClobber)
  <1>1. IInv /\ StageInv /\ NoneLeftOver /\ BeginsInTime => NoClobber
    <2> SUFFICES ASSUME IInv, StageInv, NoneLeftOver, BeginsInTime, stage = "finished",
                        NEW b \in BlockIds(graph), NEW i \in QuadsOf(graph, b),
                        NEW d \in graph.quads[i].result, NEW v \in LiveAfter(b, i), v # d
                 PROVE  operand_reg[v] # operand_reg[d]
      BY DEF NoClobber
    <2>1. graph \in Graph /\ pc = "done" /\ v \in Reg
      BY DEF IInv, TypeOK, StageInv, LiveAfter, LiveBefore
    <2>2. i \in QuadIds(graph) /\ i \in Nat
      BY <2>1, QuadIndices
    <2>3. /\ StartTime(v) \in 0 .. i /\ i < EndTime(v)
          /\ StartTime(d) \in 0 .. i /\ i < EndTime(d) /\ d \in Reg
      BY <2>1, <2>2, LiveInside, DefinedInside
    <2>4. StartTime(v) >= 0 /\ StartTime(d) >= 0
      BY <2>2, <2>3
    <2>5. /\ interval[v] = BuildOneInterval(v) /\ interval[d] = BuildOneInterval(d)
          /\ phys_reg[v] # Alloc!NoReg /\ operand_reg[v] = phys_reg[v]
          /\ operand_reg[d] = phys_reg[d]
      BY <2>1, <2>3, <2>4, OutcomeFacts
    <2>6. Greedy!Coloring!Overlap(interval[v], interval[d])
      <3>1. EndTime(v) \in Int /\ EndTime(d) \in Int
        BY <2>1, <2>3, EndFacts
      <3> QED BY <2>2, <2>3, <2>5, <3>1 DEF Greedy!Coloring!Overlap, BuildOneInterval
    <2>7. Greedy!NoSharing
      BY DEF StageInv, Greedy!IInv
    <2> QED BY <2>1, <2>3, <2>5, <2>6, <2>7, SameAllocator DEF Greedy!NoSharing
  <1> QED BY <1>1, SpecStageInv, PTL

\* Each register has at most one definition.
OneDefinition(g) ==
    \A i, j \in QuadIds(g) : g.quads[i].result \cap g.quads[j].result # {} => i = j

LEMMA OneDefinitionInTime ==
    ASSUME IInv, pc = "done", OneDefinition(graph)
    PROVE  BeginsInTime
  <1> SUFFICES ASSUME NEW v \in Reg, NEW i \in DefinedAt(v) PROVE StartTime(v) <= i
    BY DEF BeginsInTime
  <1>1. graph \in Graph
    BY DEF IInv, TypeOK
  <1>2. Max(DefinedAt(v)) \in DefinedAt(v)
    BY <1>1, StartFacts
  <1>3. Max(DefinedAt(v)) = i
    BY <1>2, BitsDone DEF OneDefinition, DefinedAt
  <1>4. i \in Starts(v)
    BY <1>3 DEF Starts
  <1> QED BY <1>1, <1>4, StartFacts

\* Where there are no more virtual registers than callee-saved ones, no
\* interval is left over: each register refused to it is held by another one.
LEMMA EnoughRegisters ==
    ASSUME IsFiniteSet(Reg), IsFiniteSet(CalleeSaved),
           Cardinality(Reg) <= Cardinality(CalleeSaved),
           StageInv, stage = "finished"
    PROVE  NoneLeftOver
  <1> SUFFICES ASSUME NEW v \in Reg, interval[v].start_time >= 0, phys_reg[v] = Alloc!NoReg
               PROVE  FALSE
    BY DEF NoneLeftOver
  <1> DEFINE Holders == {u \in Reg : phys_reg[u] \in CalleeSaved}
             holds == [u \in Holders |-> phys_reg[u]]
  <1>1. Greedy!FailureJustified /\ todo = {}
    BY DEF StageInv, Greedy!IInv
  <1>2. CalleeSaved \subseteq Greedy!Eligible(v)
    BY DEF Greedy!Eligible, Greedy!PhysReg
  <1>3. \A p \in CalleeSaved : \E u \in Holders : phys_reg[u] = p
    BY <1>1, <1>2, SameAllocator DEF Greedy!FailureJustified
  <1>4. holds \in Surjection(Holders, CalleeSaved)
    BY <1>3 DEF Surjection
  <1>5. v \notin Holders
    BY GreedyAssumptions, SameAllocator DEF Greedy!PoolAssumption, Greedy!PhysReg, Greedy!NoReg
  <1>6. /\ IsFiniteSet(Reg \ {v}) /\ Cardinality(Reg \ {v}) = Cardinality(Reg) - 1
        /\ Cardinality(Reg) \in Nat /\ Cardinality(CalleeSaved) \in Nat
    BY FS_RemoveElement, FS_CardinalityType
  <1>7. Holders \in SUBSET (Reg \ {v})
    BY <1>5
  <1> HIDE DEF Holders, holds
  <1>8. IsFiniteSet(Holders) /\ Cardinality(Holders) <= Cardinality(Reg) - 1
        /\ Cardinality(Holders) \in Nat
    BY <1>6, <1>7, FS_Subset, FS_CardinalityType
  <1>9. Cardinality(CalleeSaved) <= Cardinality(Holders)
    BY <1>4, <1>8, FS_Surjection
  <1> QED BY <1>6, <1>8, <1>9

\* For functions with one definition per register and no more registers than
\* the callee-saved pool holds, register allocation is right without a further
\* condition: no value is lost, at no quad and over no call that reads it.
THEOREM SmallFunctionsRight ==
    ASSUME IsFiniteSet(Reg), IsFiniteSet(CalleeSaved),
           Cardinality(Reg) <= Cardinality(CalleeSaved),
           \A g \in Graph : OneDefinition(g)
    PROVE  LiraSpec => [](NoClobber /\ ArgumentsSurviveCalls)
  <1>1. IInv /\ StageInv => \/ stage # "finished"
                            \/ NoneLeftOver /\ BeginsInTime
    BY EnoughRegisters, OneDefinitionInTime DEF IInv, TypeOK, StageInv
  <1>2. stage # "finished" => NoClobber /\ ArgumentsSurviveCalls
    BY DEF NoClobber, ArgumentsSurviveCalls
  <1> QED BY <1>1, <1>2, SpecStageInv, ArgumentsKept, ValuesKept, PTL

=============================================================================
