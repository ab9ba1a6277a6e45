------------------------------- MODULE MCSSA -------------------------------
(***************************************************************************)
(* Functions for SSA: the graphs that IR generation builds for one if, for *)
(* an if in a then-arm with another if behind, and for straight-line code  *)
(* with a call, filled with every choice of quads from small sets.         *)
(* Registers 0 and 1 are variables: parameters where nothing defines them. *)
(***************************************************************************)
EXTENDS SSARun, TLC

Def(r) == [op |-> "ASSIGN", reads |-> <<>>, args |-> <<>>, result |-> r]
Modify(r, s) == [op |-> "OP", reads |-> <<r, s>>, args |-> <<>>, result |-> r]
Use(r, operation) == [op |-> operation, reads |-> <<r>>, args |-> <<>>, result |-> NoReg]
Call(r, t) == [op |-> "CALL", reads |-> <<>>, args |-> <<r>>, result |-> t]

Test == <<Use(0, "JE")>>
Return == <<Use(0, "RET")>>
Arm == {<<>>, <<Def(0)>>, <<Modify(0, 1)>>, <<Modify(1, 0)>>}

\* The successors of each block, from block 0 on, and what it may hold.
OneIf ==
    <<[to |-> <<1, 2>>, holds |-> {body \o Test : body \in {<<>>, <<Def(0)>>, <<Def(1)>>}}],
      [to |-> <<3>>, holds |-> Arm \cup {body \o Return : body \in Arm}],
      [to |-> <<3>>, holds |-> Arm],
      [to |-> <<>>, holds |-> {<<Use(0, "RET")>>, <<Modify(0, 1), Use(1, "RET")>>}]>>

Assigns == {<<>>, <<Def(0)>>}
Tests == {Test, <<Def(0)>> \o Test}

Nested ==
    <<[to |-> <<1, 2>>, holds |-> Tests], [to |-> <<4, 5>>, holds |-> {Test}],
      [to |-> <<3>>, holds |-> Assigns], [to |-> <<7, 8>>, holds |-> Tests],
      [to |-> <<6>>, holds |-> Assigns], [to |-> <<6>>, holds |-> {<<>>}],
      [to |-> <<7>>, holds |-> Assigns], [to |-> <<9>>, holds |-> Assigns],
      [to |-> <<9>>, holds |-> {<<>>}], [to |-> <<>>, holds |-> {Return}]>>

Straight ==
    <<[to |-> <<>>, holds |-> {<<Def(0), Def(1), q, Call(r, 2), Use(s, "RET")>> :
                                   r \in {0, 1}, s \in 0 .. 2,
                                   q \in {Def(0), Modify(0, 1), Def(1), Modify(1, 1)}}]>>

\* The quads of a filling, numbered through.
Numbered(filling) ==
    LET before[n \in 0 .. Len(filling)] ==
            IF n = 0 THEN 0 ELSE before[n - 1] + Len(filling[n])
    IN  [b \in 0 .. Len(filling) - 1 |-> [i \in DOMAIN filling[b + 1] |->
            [id |-> before[b] + i] @@ filling[b + 1][i]]]

\* Every way to fill the blocks of a layout.
FunctionsOf(layout) ==
    LET blocks == 0 .. Len(layout) - 1
        succ == [b \in blocks |-> layout[b + 1].to]
        fillings[n \in 0 .. Len(layout)] ==
            IF n = 0 THEN {<<>>}
            ELSE {Append(rest, held) : rest \in fillings[n - 1], held \in layout[n].holds}
    IN  {[block_count |-> Len(layout), reg_count |-> 3, code |-> Numbered(filling),
          successors |-> succ,
          predecessors |-> [y \in blocks |->
              SelectSeq([n \in 1 .. Len(layout) |-> n - 1], LAMBDA b : Contains(succ[b], y))]] :
            filling \in fillings[Len(layout)]}

MCBranches == FunctionsOf(OneIf)
MCStraight == FunctionsOf(Straight)
MCFunctions == FunctionsOf(OneIf) \cup FunctionsOf(Nested) \cup FunctionsOf(Straight)

=============================================================================
