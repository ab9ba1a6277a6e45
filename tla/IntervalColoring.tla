-------------------------- MODULE IntervalColoring --------------------------
(***************************************************************************)
(* What any register allocator over live intervals owes its client: each   *)
(* interval in turn either receives a register that no overlapping         *)
(* interval holds, or is left without one.  In which order the intervals   *)
(* are served, and which of the free registers is taken, is left open.     *)
(* GreedyAlloc, the allocator of LIRA/lira.c, implements this.             *)
(***************************************************************************)
EXTENDS Integers

CONSTANTS
    Reg,              \* virtual registers
    PhysReg,          \* physical registers an allocator may hand out
    IntervalMaps      \* possible inputs, an interval for every register

VARIABLES interval, phys_reg, todo

NoReg == -1           \* LivenessInterval.phys_reg of an unserved interval

\* Two intervals [start_time, end_time) have a point in common.
Overlap(i, j) == i.start_time < j.end_time /\ j.start_time < i.end_time

Init ==
    /\ interval \in IntervalMaps
    /\ phys_reg = [v \in Reg |-> NoReg]
    /\ todo = Reg

Assign(v) ==
    /\ v \in todo
    /\ \E p \in PhysReg :
        /\ \A u \in Reg : phys_reg[u] = p => ~Overlap(interval[u], interval[v])
        /\ phys_reg' = [phys_reg EXCEPT ![v] = p]
    /\ todo' = todo \ {v}
    /\ UNCHANGED interval

Leave(v) ==
    /\ v \in todo
    /\ todo' = todo \ {v}
    /\ UNCHANGED <<interval, phys_reg>>

Next == \E v \in Reg : Assign(v) \/ Leave(v)

Spec == Init /\ [][Next]_<<interval, phys_reg, todo>>

=============================================================================
