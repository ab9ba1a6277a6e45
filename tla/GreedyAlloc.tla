----------------------------- MODULE GreedyAlloc ----------------------------
(***************************************************************************)
(* The register allocator of mncc proper: sort_intervals orders the        *)
(* intervals by weight (LIRA/lira_intervals.c), greedy_allocate            *)
(* (LIRA/lira.c) then serves them in that order, first fit over one or two *)
(* pools of physical registers, with one end time per physical register.   *)
(* There is no spilling: an interval that finds no register keeps -1.      *)
(***************************************************************************)
EXTENDS Integers, FiniteSets

CONSTANTS
    Reg,              \* virtual registers: one LivenessInterval each
    CallerSaved,      \* 0 .. 15 in the code
    CalleeSaved,      \* 19 .. 28 in the code
    IntervalMaps      \* what build_intervals may hand over

PhysReg == CallerSaved \cup CalleeSaved
NoReg == -1

Interval == [start_time : Int, end_time : Int, is_call : BOOLEAN]

ASSUME PoolAssumption ==
    PhysReg \subseteq Nat /\ CallerSaved \cap CalleeSaved = {}

\* build_intervals yields start_time -1 for a register no quad mentions, and
\* otherwise an end behind the start (end_time is an index + 1 or a block end).
ASSUME IntervalAssumption ==
    \A f \in IntervalMaps :
        /\ f \in [Reg -> Interval]
        /\ \A v \in Reg : f[v].start_time < 0 \/ f[v].start_time < f[v].end_time

VARIABLES
    interval,         \* the intervals, by vreg_id
    phys_reg,         \* their phys_reg
    reg_track,        \* PhysRegTrack: where each physical register gets free
    todo              \* the intervals greedy_allocate has not come to yet

vars == <<interval, phys_reg, reg_track, todo>>

\* 1 / weight of compare_intervals_by_weight; a greater weight comes first.
Length(v) ==
    LET length == interval[v].end_time - interval[v].start_time
    IN  IF length > 0 THEN length ELSE 1

\* The next interval of the sorted array.  qsort leaves the order of equal
\* weights unspecified, so any interval of least length may be the next.
LongestFirst(v) == v \in todo /\ \A u \in todo : Length(v) >= Length(u)
First(v) == v \in todo /\ \A u \in todo : Length(v) <= Length(u)

\* The registers of a pool that are free from v's start on.
FreeLate(pool, v) == {p \in pool : reg_track[p] <= interval[v].start_time + 1}
Free(pool, v) == {p \in pool : reg_track[p] <= interval[v].start_time}

\* The pools v may take a register from, after start_time < 0 is excluded.
Eligible(v) == IF interval[v].is_call THEN CalleeSaved ELSE PhysReg

\* Macro TRY_ALLOCATE: the lowest free register of the pool.
IsFirstFit(p, pool, v) == p \in Free(pool, v) /\ \A q \in Free(pool, v) : p <= q

\* The register greedy_allocate takes: x0..x15 are tried before x19..x28, and
\* not at all when a call uses or defines v.
Takes(p, v) ==
    \/ ~interval[v].is_call /\ IsFirstFit(p, CallerSaved, v)
    \/ /\ interval[v].is_call \/ Free(CallerSaved, v) = {}
       /\ IsFirstFit(p, CalleeSaved, v)

\* What reg_track holds of a register once v has it.
FreePastEnd(v) == interval[v].end_time + 1
FreeAtStart(v) == interval[v].start_time
FreeFrom(v) == interval[v].end_time

Init ==
    /\ interval \in IntervalMaps
    /\ phys_reg = [v \in Reg |-> NoReg]
    /\ reg_track = [p \in PhysReg |-> 0]
    /\ todo = Reg

\* An interval of a register that does not occur: continue.
SkipUnused(v) ==
    /\ First(v)
    /\ interval[v].start_time < 0
    /\ todo' = todo \ {v}
    /\ UNCHANGED <<interval, phys_reg, reg_track>>

Allocate(v) ==
    /\ First(v)
    /\ interval[v].start_time >= 0
    /\ \E p \in PhysReg :
        /\ Takes(p, v)
        /\ phys_reg' = [phys_reg EXCEPT ![v] = p]
        /\ reg_track' = [reg_track EXCEPT ![p] = FreeFrom(v)]
    /\ todo' = todo \ {v}
    /\ UNCHANGED interval

\* Neither pool has a free register: phys_reg stays -1, nothing is spilled.
Exhausted(v) ==
    /\ First(v)
    /\ interval[v].start_time >= 0
    /\ Free(Eligible(v), v) = {}
    /\ todo' = todo \ {v}
    /\ UNCHANGED <<interval, phys_reg, reg_track>>

Next == \E v \in Reg : SkipUnused(v) \/ Allocate(v) \/ Exhausted(v)

Spec == Init /\ [][Next]_vars

-----------------------------------------------------------------------------
(* What the allocator promises *)

TypeOK ==
    /\ interval \in IntervalMaps
    /\ phys_reg \in [Reg -> PhysReg \cup {NoReg}]
    /\ reg_track \in [PhysReg -> {0} \cup {interval[v].end_time : v \in Reg \ todo}]
    /\ todo \in SUBSET Reg

Coloring == INSTANCE IntervalColoring

\* Two registers that share a physical register have disjoint intervals,
\* although intervals come by length and not by start, so that a register may
\* be asked for at a time before the last one it was given for.
NoSharing ==
    \A u, v \in Reg :
        u # v /\ phys_reg[u] # NoReg /\ phys_reg[u] = phys_reg[v]
            => ~Coloring!Overlap(interval[u], interval[v])

\* A register is left without a physical one only when each physical register
\* it may have is held by an interval that is no longer than its own and that
\* ends behind its start: the sort really gives the shorter interval the
\* register, and first fit overlooks none.
FailureJustified ==
    \A v \in Reg \ todo :
        phys_reg[v] = NoReg /\ interval[v].start_time >= 0 =>
            \A p \in Eligible(v) :
                \E u \in Reg :
                    /\ phys_reg[u] = p
                    /\ interval[u].end_time > interval[v].start_time
                    /\ Length(u) <= Length(v)

\* An interval that a call uses or defines is never in a caller-saved register,
\* and such a register is only left for a callee-saved one when it was taken.
CallerSavedPreferred ==
    \A v \in Reg :
        /\ interval[v].is_call => phys_reg[v] \in CalleeSaved \cup {NoReg}
        /\ phys_reg[v] \in CalleeSaved /\ ~interval[v].is_call =>
             \A p \in CallerSaved :
                \E u \in Reg :
                    /\ phys_reg[u] = p
                    /\ ~interval[u].is_call
                    /\ interval[u].end_time > interval[v].start_time

\* The allocator implements the abstract one.
ImplementsColoring == Coloring!Spec

=============================================================================
