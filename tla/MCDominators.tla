---------------------------- MODULE MCDominators ----------------------------
(***************************************************************************)
(* into_ssa's first half on the graphs that IR generation really builds:   *)
(* ControlFlow runs to its end, then Dominators runs on its graph.         *)
(***************************************************************************)
EXTENDS ControlFlow

VARIABLES
    step, active, next_num, dfn, block_by_dfn, parent, semi, ancestor, label, idom,
    bucket, i, pred, df

domVars == <<step, active, next_num, dfn, block_by_dfn, parent, semi, ancestor, label,
             idom, bucket, i, pred, df>>

Dom == INSTANCE Dominators

MCInit == Init /\ Dom!Init

Generate == Next /\ UNCHANGED domVars

Analyse == phase = "done" /\ Dom!Next /\ UNCHANGED vars

MCSpec == MCInit /\ [][Generate \/ Analyse]_<<vars, domVars>>

SemiCorrect == Dom!SemiCorrect
IdomCorrect == Dom!IdomCorrect
FrontierCorrect == Dom!FrontierCorrect

=============================================================================
