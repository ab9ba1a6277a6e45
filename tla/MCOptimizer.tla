---------------------------- MODULE MCOptimizer -----------------------------
(***************************************************************************)
(* Functions for OptimizerRun, as IR generation and build_cfg leave them:  *)
(* straight code, one if with and without arms that assign or return, and  *)
(* ifs nested in an arm.  Expressions are filled from the operations and   *)
(* operands that the patterns of pattern_table tell apart.                 *)
(***************************************************************************)
EXTENDS OptimizerRun, TLC

\* Registers 0 and 1 are parameters, 2 is a variable.
A == Register(0)
B == Register(1)
X == Register(2)
N(n) == Number(n)

\* A quad of an expression or a statement; shape holds arg1 and arg2.
Q(op, shape, args, result) ==
    LET regs == SelectSeq(shape, LAMBDA o : o.type = "VIR_REG")
    IN  [op |-> op, args |-> args, result |-> result,
         reads |-> [k \in DOMAIN regs |-> regs[k].val],
         shape |-> [k \in DOMAIN shape |->
                       IF shape[k].type = "NUM" THEN shape[k]
                       ELSE Register(Cardinality({j \in 1 .. k : shape[j].type = "VIR_REG"}))]]

\* Expressions, as gen_ir_expr leaves them: quads, and where the value is.
\* t is the first free temporary.
Leaf(o) == [quads |-> <<>>, value |-> o]
Binary(op, l, r, t) == [quads |-> <<Q(op, <<l, r>>, <<>>, t)>>, value |-> Register(t)]
Left(op, inner, r, t) ==
    [quads |-> Append(inner.quads, Q(op, <<inner.value, r>>, <<>>, t)), value |-> Register(t)]
Right(op, l, inner, t) ==
    [quads |-> Append(inner.quads, Q(op, <<l, inner.value>>, <<>>, t)), value |-> Register(t)]
CallOf(r, t) == [quads |-> <<Q("CALL", <<>>, <<r>>, t)>>, value |-> Register(t)]

Assign(r, e) == Append(e.quads, Q("ASSIGN", <<e.value>>, <<>>, r))
Return(e) == Append(e.quads, Q("RET", <<e.value>>, <<>>, NoReg))
If(e) == Append(e.quads, Q("JE", <<e.value>>, <<>>, NoReg))

Expressions(t) ==
    {Leaf(o) : o \in {N(0), N(2), A, X}}
        \cup {Binary(op, A, o, t) : op \in {"ADD", "SUB", "MULT", "DIV"}, o \in {N(0), N(1), X}}
        \cup {Binary("SUB", N(0), X, t), Binary("SUB", A, A, t), Binary("MULT", N(1), X, t), CallOf(0, t), CallOf(2, t)}
        \cup {Left(op, Binary(inner, A, o, t), p, t + 1) :
                 op \in {"ADD", "MULT"}, inner \in {"ADD", "MULT"}, o \in {N(0), B}, p \in {N(0), B}}
        \cup {Right("SUB", N(0), Binary("ADD", N(0), B, t), t + 1)}

Returns(t) ==
    {Return(e) : e \in {Leaf(A), Leaf(X), Binary("ADD", A, X, t), Binary("MULT", X, B, t),
                        Binary("SUB", X, X, t), Binary("SUB", X, B, t), CallOf(2, t)}}

Straight ==
    {<<Assign(2, Leaf(o)) \o Assign(r, e) \o end>> :
        o \in {N(0), A}, r \in {0, 2}, e \in Expressions(3), end \in Returns(5)}

\* A layout gives the terminator and the successors of each block.
FunctionOf(blocks, layoutOf) ==
    LET here == 0 .. Len(blocks) - 1
        to(b) == layoutOf[b + 1][2]
        before[n \in 0 .. Len(blocks)] == IF n = 0 THEN 0 ELSE before[n - 1] + Len(blocks[n])
    IN  [block_count |-> Len(blocks), reg_count |-> 8, param_count |-> 2,
         code |-> [b \in here |-> [i \in DOMAIN blocks[b + 1] |->
                      [id |-> before[b] + i] @@ blocks[b + 1][i]]],
         terminator |-> [b \in here |-> layoutOf[b + 1][1]],
         successors |-> [b \in here |-> to(b)],
         predecessors |-> [y \in here |->
             SelectSeq([n \in 1 .. Len(blocks) |-> n - 1], LAMBDA b : Contains(to(b), y))]]

\* One if: its condition, its arms, what is behind.
Conditions(t) ==
    {Leaf(A)} \cup {Binary("CMP", o, N(1), t) : o \in {N(1), N(0), X}}
        \cup {Left("CMP", Binary("MULT", A, N(0), t), N(0), t + 1)}
Arms(t) ==
    {<<>>} \cup {Assign(2, e) : e \in {Leaf(N(5)), Leaf(A), Binary("ADD", A, N(0), t), Binary("ADD", X, B, t)}}
        \cup {Assign(1, Leaf(N(5))), Return(Leaf(N(3)))}
OneIf ==
    {<<Assign(2, Leaf(o)) \o If(c), arm1, arm2, Return(e)>> :
        o \in {N(0), A}, c \in Conditions(3), arm1 \in Arms(5),
        arm2 \in {<<>>, Assign(2, Leaf(N(6)))},
        e \in {Leaf(X), Binary("ADD", X, B, 6), CallOf(2, 6)}}

OneIfLayout == <<<<"JE", <<1, 2>>>>, <<"JMP", <<3>>>>, <<"JMP", <<3>>>>, <<"RET", <<>>>>>>

\* An if in a then-arm, and one behind: the inner merge block 6 falls into 7.
Nested ==
    {<<Assign(2, Leaf(N(0))) \o If(c0), If(c1), <<>>, If(c3), Assign(2, Leaf(N(5))), arm5,
       arm6, arm7, <<>>, Return(CallOf(r, 6))>> :
        c0 \in {Leaf(A), Binary("CMP", N(1), N(1), 3)},
        c1 \in {Leaf(B), Binary("CMP", N(1), N(1), 4)},
        c3 \in {Leaf(A), Binary("CMP", N(0), N(1), 5)},
        arm5 \in {<<>>, Assign(2, Leaf(N(6)))}, arm6 \in {<<>>}, arm7 \in {<<>>, Assign(2, Leaf(A))}, r \in {2}}

NestedLayout ==
    <<<<"JE", <<1, 2>>>>, <<"JE", <<4, 5>>>>, <<"JMP", <<3>>>>, <<"JE", <<7, 8>>>>, <<"JMP", <<6>>>>,
      <<"JMP", <<6>>>>, <<"TERMINATOR_NONE", <<7>>>>, <<"JMP", <<9>>>>, <<"JMP", <<9>>>>, <<"RET", <<>>>>>>

MCFunctions ==
    {FunctionOf(blocks, <<<<"RET", <<>>>>>>) : blocks \in Straight}
        \cup {FunctionOf(blocks, OneIfLayout) : blocks \in OneIf}
        \cup {FunctionOf(blocks, NestedLayout) : blocks \in Nested}
MCValues == {<<1, 2>>, <<2, 2>>, <<0, 3>>, <<4, 0>>}

=============================================================================
