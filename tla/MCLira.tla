------------------------------- MODULE MCLira -------------------------------
(***************************************************************************)
(* Instances of Lira, with the register pools of the code.                 *)
(* DataflowGraphs are for the liveness analysis: forward graphs of three   *)
(* blocks over one register (liveness of a register does not depend on     *)
(* the others), and one and two ifs over two registers, which the shared   *)
(* bit vectors must keep apart, with blocks that hold no quad at all.      *)
(* In the others, registers 0 and 1 are parameters, and every other        *)
(* register has one definition, as the passes before leave it, except that *)
(* out_of_ssa sets the result of a phi at the end of each predecessor,     *)
(* through a temporary of its own per predecessor.                         *)
(***************************************************************************)
EXTENDS Lira, GraphFamilies

Caller == 0 .. 15
Callee == 19 .. 28

Call(R, d) == [operation |-> "CALL", reads |-> R, result |-> {d}]
Branch(v) == [operation |-> "JE", reads |-> {v}, result |-> {}]
Return(v) == [operation |-> "RET", reads |-> {v}, result |-> {}]

\* Edges go to later blocks and a block has at most two successors.
ForwardSuccs(n) ==
    {s \in [0 .. n - 1 -> SUBSET (0 .. n - 1)] :
        \A b \in 0 .. n - 1 : Cardinality(s[b]) <= 2 /\ \A t \in s[b] : t > b}

SmallGraphs ==
    LET OneRegQuads == {Use({0}), Def({}, 0), Def({0}, 0)}
        Codes(max) == UNION {[1 .. k -> OneRegQuads] : k \in 0 .. max}
    IN  {GraphOf(<<c1, c2, c3>>, s) :
            c1 \in Codes(1), c2 \in Codes(2), c3 \in {<<>>, <<Use({0})>>}, s \in ForwardSuccs(3)}

MixedGraphs ==
    LET TwoRegQuads == {Use({0, 1}), Def({0}, 1), Def({1}, 0)}
    IN  {GraphOf(<<<<q0>>, <<q1>>, <<q2>>, <<q3>>>>, Diamond) :
            q0 \in TwoRegQuads, q1 \in TwoRegQuads, q2 \in TwoRegQuads, q3 \in TwoRegQuads}
        \cup
        {GraphOf(<<<<>>, <<q1>>, <<>>, <<q3, q1>>, <<q4>>, <<>>, <<Use({0}), q4>>>>, TwoDiamonds) :
            q1 \in TwoRegQuads, q3 \in TwoRegQuads, q4 \in TwoRegQuads}

DataflowGraphs == SmallGraphs \cup MixedGraphs

\* A block of computations and calls.
StraightGraphs ==
    {GraphOf(<<<<q2, q3, Def(r4, 4), Return(v)>>>>, [b \in {0} |-> {}]) :
        q2 \in {Def({0}, 2), Def({0, 1}, 2), Call({0}, 2)},
        q3 \in {Def({2}, 3), Def({1, 2}, 3), Call({1, 2}, 3), Call({}, 3)},
        r4 \in {{2, 3}, {0, 3}},
        v \in {1, 2, 4}}

\* An if whose arms both set register 4, which the code behind it reads.
OnePhiGraphs ==
    {GraphOf(<<<<Def({0, 1}, 2), Branch(0)>>,
               <<Def({src}, 3), Def({3}, 4)>>,
               extra \o <<Def({IF extra = <<>> THEN 1 ELSE 5}, 6), Def({6}, 4)>>,
               <<Def({4} \cup w, 7), Return(7)>>>>, Diamond) :
        src \in {1, 2},
        extra \in {<<>>, <<Def({1, 2}, 5)>>, <<Call({1, 2}, 5)>>},
        w \in {{}, {1}, {2}}}

\* No value crosses a call that does not read it.
SomethingCrosses(g) ==
    \E i \in 0 .. g.quad_count - 1 :
        /\ g.quads[i].operation = "CALL"
        /\ \E v \in Reg \ g.quads[i].reads :
            /\ v \in {0, 1} \/ \E j \in 0 .. i - 1 : v \in g.quads[j].result
            /\ \E j \in i + 1 .. g.quad_count - 1 : v \in g.quads[j].reads

\* A function without parameters: nothing is live at its start.
ConstantGraphs ==
    {GraphOf(<<<<Def({}, 2), Call({2}, 3), Def(R, 4), Return(4)>>>>, [b \in {0} |-> {}]) :
        R \in {{3}, {2, 3}}}

SinglePhiGraphs == StraightGraphs \cup OnePhiGraphs \cup ConstantGraphs

MCGraphs == DataflowGraphs \cup SinglePhiGraphs

\* Two registers are set in both arms: two phis at one merge block.
TwoPhiGraphs ==
    {GraphOf(<<<<Branch(0)>>,
               <<Def({0}, 2), Def({1}, 3), Def({2}, 4), Def({3}, 5)>>,
               <<Def({1}, 6), Def({0}, 7), Def({6}, 4), Def({7}, 5)>>,
               <<Def({4, 5}, 8), Return(8)>>>>, Diamond)}

\* A call in the middle, and a value that the call does not read.
CrossingGraphs == {g \in StraightGraphs : SomethingCrosses(g)}

=============================================================================
