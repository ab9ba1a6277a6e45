--------------------------- MODULE GraphFamilies ----------------------------
(***************************************************************************)
(* Helpers of the model checking modules: building the graph record of     *)
(* IRGraphs from the code of its blocks and from the shape of its edges.   *)
(***************************************************************************)
EXTENDS IRGraphs, Sequences, FiniteSetsExt

Use(R) == [operation |-> "OP", reads |-> R, result |-> {}]
Def(R, d) == [operation |-> "ASSIGN", reads |-> R, result |-> {d}]

\* A graph from the sequence of its blocks' code and from its successors.
FirstOf(code) ==
    [b \in 0 .. Len(code) |->
        FoldSet(LAMBDA i, acc : acc + Len(code[i]), 0, 1 .. b)]

GraphOf(code, succ) ==
    LET first == FirstOf(code)
        n == first[Len(code)]
        Owner(q) == CHOOSE b \in 0 .. Len(code) - 1 :
                        first[b] <= q /\ q < first[b + 1]
    IN  [block_count |-> Len(code),
         quad_count |-> n,
         first |-> first,
         quads |-> [q \in 0 .. n - 1 |-> code[Owner(q) + 1][q - first[Owner(q)] + 1]],
         succ |-> succ]

\* One if with arms 1 and 2, and two ifs in a row.
Diamond == [b \in 0 .. 3 |-> CASE b = 0 -> {1, 2} [] b = 3 -> {} [] OTHER -> {3}]
TwoDiamonds ==
    [b \in 0 .. 6 |-> CASE b = 0 -> {1, 2} [] b = 3 -> {4, 5} [] b = 6 -> {}
                        [] b \in {1, 2} -> {3} [] OTHER -> {6}]

=============================================================================
