----------------------------- MODULE MCCodegen -----------------------------
(***************************************************************************)
(* Programs for code generation: what register allocation leaves of small  *)
(* functions.  f may call g, g calls nobody, main calls f.                 *)
(***************************************************************************)
EXTENDS ProgramRun

Quad(operation, a, b, r) ==
    [operation |-> operation, arg1 |-> a, arg2 |-> b, result |-> r, args |-> <<>>, callee |-> ""]
Call(name, args, r) ==
    [operation |-> "CALL", arg1 |-> Absent, arg2 |-> Absent, result |-> r, args |-> args,
     callee |-> name]
Ret(a) == Quad("RET", a, Absent, 0)

Block(quads, end) ==
    [quads |-> quads, terminator |-> end, jmp_target |-> 0, true_target_je |-> 0,
     false_target_je |-> 0]
Jmp(quads, b) == [Block(quads, "JMP") EXCEPT !.jmp_target = b]
Je(quads, b, c) == [Block(quads, "JE") EXCEPT !.true_target_je = b, !.false_target_je = c]

Function(name, params, blocks) == [func_name |-> name, param_phys |-> params, blocks |-> blocks]

Straight(quads) == <<Block(quads, "RET")>>
\* if (r) thenQuads; return r
Branching(before, r, thenQuads) ==
    <<Je(before \o <<Quad("JE", PhysReg(r), Absent, 0)>>, 1, 2), Jmp(thenQuads, 3), Jmp(<<>>, 3),
      Block(<<Ret(PhysReg(r))>>, "RET")>>
\* What fold_conditional_branch leaves: a JMP quad.
Folded == <<Jmp(<<Quad("JMP", Absent, Absent, 0)>>, 1), Block(<<Ret(Num(7))>>, "RET")>>

Leaves == {Function("g", <<0>>, blocks) : blocks \in {
              Straight(<<Ret(PhysReg(0))>>), Folded,
              Branching(<<>>, 0, <<Quad("ADD", PhysReg(0), Num(5000), 0)>>),
              Branching(<<>>, 0, <<Ret(Num(-3))>>)}}

Middles ==
    {Function("f", <<19, 0>>,
              Straight(<<Call("g", <<PhysReg(19)>>, 20), Quad("CMP", PhysReg(20), Num(1), 1),
                         Ret(PhysReg(1))>>)),
     Function("f", <<0, 1>>, Straight(<<Quad("MULT", PhysReg(0), Num(70000), 2), Ret(PhysReg(2))>>)),
     Function("f", <<0, 1>>, Branching(<<>>, 1, <<Call("g", <<Num(1)>>, 19), Call("g", <<Num(-2)>>, 20)>>))}

MainFunctions == {Function("main", <<>>, blocks) : blocks \in {
              Straight(<<Call("f", <<Num(1), Num(2)>>, 19), Ret(PhysReg(19))>>),
              Straight(<<Quad("NEG", Num(4), Absent, 19), Call("f", <<PhysReg(19), Num(2)>>, 20), Ret(Num(0))>>),
              Branching(<<Call("g", <<Num(3)>>, 19)>>, 19, <<Call("h", <<>>, 20)>>)}}

Helper == Function("h", <<>>, Straight(<<Call("g", <<Num(1)>>, 19), Ret(PhysReg(19))>>))
OtherFunctions ==
    {<<>>, <<Helper>>,
     <<Helper, Function("k", <<>>, Straight(<<Call("h", <<>>, 19), Ret(PhysReg(19))>>))>>}

Orders ==
    LET sets == {<<m, f, g>> \o rest : m \in MainFunctions, f \in Middles, g \in Leaves, rest \in OtherFunctions}
    IN  sets \cup {<<s[3], s[2], s[1]>> \o SubSeq(s, 4, Len(s)) : s \in sets}
             \cup {<<s[2], s[3]>> : s \in sets}

-----------------------------------------------------------------------------
(* Programs whose registers have been allocated in another order *)

CallingMain(n) == Function("main", <<>>, Straight(<<Call("f", [a \in 1 .. n |-> Num(a + 4)], 19),
                                                    Ret(PhysReg(19))>>))

\* int f(int n) { if (n) { return 1; } else { return f(n); } return 0; }
Recursive ==
    <<CallingMain(1),
      Function("f", <<20>>,
               <<Je(<<Quad("JE", PhysReg(20), Absent, 0)>>, 1, 2), Jmp(<<Ret(Num(1))>>, 3),
                 Block(<<Call("f", <<PhysReg(20)>>, 19), Ret(PhysReg(19))>>, "RET"),
                 Block(<<Ret(Num(0))>>, "RET")>>)>>

\* int f(int a, int b) { return a / b; }
Dividing ==
    <<CallingMain(2),
      Function("f", <<0, 1>>, Straight(<<Quad("DIV", PhysReg(0), PhysReg(1), 2), Ret(PhysReg(2))>>))>>

\* int f(int a, int b, int c) { int d = b - c; int e = d - a; int z = c * e; return z; }
Crossing ==
    <<CallingMain(3),
      Function("f", <<1, 0, 3>>,
               Straight(<<Quad("SUB", PhysReg(0), PhysReg(3), 2), Quad("SUB", PhysReg(2), PhysReg(1), 0),
                          Quad("MULT", PhysReg(3), PhysReg(0), 1), Ret(PhysReg(1))>>))>>

\* int f(int a, int b) { int x = g(b, a); return x; }
\* int g(int c, int d) { return c - d; }
Swapping ==
    <<CallingMain(2),
      Function("f", <<19, 20>>, Straight(<<Call("g", <<PhysReg(20), PhysReg(19)>>, 21), Ret(PhysReg(21))>>)),
      Function("g", <<0, 1>>, Straight(<<Quad("SUB", PhysReg(0), PhysReg(1), 2), Ret(PhysReg(2))>>))>>

\* int f(int a) { g(); } int g() { return 3; }
Open ==
    <<CallingMain(1), Function("f", <<0>>, <<Block(<<Call("g", <<>>, 0)>>, "NONE")>>),
      Function("g", <<>>, Straight(<<Ret(Num(3))>>))>>

\* A call with more arguments than there are registers below the slots.
Wide == <<CallingMain(18), Function("f", <<0, 1>>, Straight(<<Ret(PhysReg(1))>>))>>

MCDividing == {Dividing}
MCPrograms == Orders \cup {Recursive, Dividing, Crossing, Swapping, Open, Wide}

=============================================================================
