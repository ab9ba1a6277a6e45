------------------------------ MODULE IRGraphs ------------------------------
(***************************************************************************)
(* The control flow graph of one function as the register allocator of     *)
(* mncc receives it (IR/ir.h): basic blocks in layout order, each owning a *)
(* contiguous range of one global numbering of the quadruples, which is    *)
(* how LIRA/lira.h's EACH_QUAD walks them.  A graph g is a record:         *)
(*   g.block_count  number of blocks; block ids are 0..block_count-1, the  *)
(*                  position of a block in the next_block list             *)
(*   g.quad_count   number of quadruples in all blocks                     *)
(*   g.first        g.first[b] .. g.first[b+1]-1 are the quads of block b  *)
(*   g.quads        the quadruples                                         *)
(*   g.succ         the successors of a block                              *)
(* A quadruple keeps its operation class, the virtual registers among      *)
(* arg1, arg2 and the call arguments, and its result register if any.      *)
(***************************************************************************)
EXTENDS Integers, FiniteSets

CONSTANT Reg          \* virtual registers, 0 .. graph->reg_count-1

Operations == {"ASSIGN", "OP", "CALL", "JE", "RET"}

\* struct Quadriple; reads is {} when every operand is a number or absent.
Quads == [operation : Operations, reads : SUBSET Reg, result : SUBSET Reg]

BlockIds(g) == 0 .. g.block_count - 1

QuadIds(g) == 0 .. g.quad_count - 1

\* The quads of block b, and their number (macro QUAD_COUNT).
QuadsOf(g, b) == g.first[b] .. g.first[b + 1] - 1
QuadCountPlusOne(g, b) == g.first[b + 1] - g.first[b] + 1
QuadCount(g, b) == g.first[b + 1] - g.first[b]

WellFormed(g) ==
    /\ g.block_count \in Nat \ {0}
    /\ g.quad_count \in Nat
    /\ g.first \in [0 .. g.block_count -> 0 .. g.quad_count]
    /\ g.first[0] = 0
    /\ g.first[g.block_count] = g.quad_count
    /\ \A b \in BlockIds(g) : g.first[b] <= g.first[b + 1]
    /\ g.quads \in [QuadIds(g) -> Quads]
    /\ g.succ \in [BlockIds(g) -> SUBSET BlockIds(g)]

=============================================================================
