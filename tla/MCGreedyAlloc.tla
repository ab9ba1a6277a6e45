---------------------------- MODULE MCGreedyAlloc ---------------------------
(***************************************************************************)
(* Instance of GreedyAlloc: every combination of intervals over the points *)
(* 0 .. MaxTime for the registers of Reg, and of registers that no quad    *)
(* mentions, with fewer physical registers than virtual ones.              *)
(***************************************************************************)
EXTENDS GreedyAlloc

CONSTANT MaxTime

Unused == [start_time |-> -1, end_time |-> -1, is_call |-> FALSE]

MCIntervals ==
    {Unused} \cup
    {i \in [start_time : 0 .. MaxTime - 1, end_time : 1 .. MaxTime, is_call : BOOLEAN] :
        i.start_time < i.end_time}

MCIntervalMaps == [Reg -> MCIntervals]

=============================================================================
