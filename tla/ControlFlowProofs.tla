------------------------- MODULE ControlFlowProofs -------------------------
(***************************************************************************)
(* The graph that gen_ir_stmt and gen_ir_branching leave behind has no     *)
(* backward edge, nothing is generated behind a conditional jump, and the  *)
(* lists of successors and predecessors that build_cfg fills agree, for    *)
(* functions of any size and any nesting of ifs.  Where no if stands in an *)
(* arm of another one, the blocks also lead where the source does.         *)
(***************************************************************************)
EXTENDS ControlFlow, SequenceTheorems, FiniteSetTheorems, TLAPS

-----------------------------------------------------------------------------
(* The inductive invariant *)

\* Blocks that are not allocated yet are open.
Fresh == \A b \in Block : b >= block_count => terminator[b] = "TERMINATOR_NONE"

\* The jumps that are generated lead forward, to allocated blocks.
JumpsForward ==
    \A b \in Block :
        /\ terminator[b] = "JE" => /\ b < true_target_je[b] /\ true_target_je[b] < block_count
                                   /\ b < false_target_je[b] /\ false_target_je[b] < block_count
        /\ terminator[b] = "JMP" => b < jmp_target[b] /\ jmp_target[b] < block_count

\* The blocks of an active if are in layout order, inner ifs behind outer ones.
FramesOrdered ==
    \A i \in 1 .. Len(frames) :
        /\ frames[i].then_bb < frames[i].else_bb
        /\ frames[i].else_bb < frames[i].merge_bb
        /\ frames[i].merge_bb < block_count
        /\ \A j \in 1 .. Len(frames) : i < j => frames[i].merge_bb < frames[j].then_bb

\* The blocks an active if will make current later on.
Reserved(i) ==
    {frames[i].merge_bb} \cup IF frames[i].arm = "then" THEN {frames[i].else_bb} ELSE {}

ReservedOpen ==
    \A i \in 1 .. Len(frames) : \A b \in Reserved(i) :
        b # current_block /\ terminator[b] # "JE"

CurrentOpen == phase = "generate" => terminator[current_block] # "JE"

IInv == /\ TypeOK /\ Fresh /\ JumpsForward /\ FramesOrdered /\ ReservedOpen
        /\ CurrentOpen /\ EdgesForward /\ BranchesLast

-----------------------------------------------------------------------------

\* Front drops the last element and keeps the others.
LEMMA FrontFacts ==
    ASSUME NEW S, NEW s \in Seq(S), s # <<>>
    PROVE  /\ Len(s) \in Nat \ {0}
           /\ Last(s) = s[Len(s)] /\ Last(s) \in S
           /\ Front(s) \in Seq(S) /\ Len(Front(s)) = Len(s) - 1
           /\ \A i \in 1 .. Len(s) - 1 : Front(s)[i] = s[i]
  <1>1. Len(s) \in Nat \ {0} /\ \A i \in 1 .. Len(s) : s[i] \in S
    OBVIOUS
  <1>2. Last(s) = s[Len(s)]
    BY DEF Last
  <1>3. Front(s) = SubSeq(s, 1, Len(s) - 1)
    BY DEF Front
  <1>4. /\ Front(s) \in Seq(S) /\ Len(Front(s)) = Len(s) - 1
        /\ \A i \in 1 .. Len(s) - 1 : Front(s)[i] = s[i]
    <2> DEFINE n == Len(s) - 1
    <2>1. n \in Int /\ 1 \in Int /\ \A i \in 1 .. n : s[i] \in S
      BY <1>1
    <2>2. Front(s) = SubSeq(s, 1, n)
      BY <1>3
    <2>3. /\ SubSeq(s, 1, n) \in Seq(S)
          /\ Len(SubSeq(s, 1, n)) = IF 1 <= n THEN n - 1 + 1 ELSE 0
          /\ \A i \in 1 .. n - 1 + 1 : SubSeq(s, 1, n)[i] = s[1 + i - 1]
      <3> HIDE DEF n
      <3> QED BY <2>1, SubSeqProperties
    <2>4. n \in Nat /\ n - 1 + 1 = n /\ (IF 1 <= n THEN n - 1 + 1 ELSE 0) = n
      BY SMTT(30), <1>1
    <2>5. \A i \in 1 .. n : 1 + i - 1 = i
      BY <2>4
    <2> HIDE DEF n
    <2>6. Front(s) \in Seq(S) /\ Len(Front(s)) = n /\ \A i \in 1 .. n : Front(s)[i] = s[i]
      BY <2>2, <2>3, <2>4, <2>5
    <2> QED BY <2>6 DEF n
  <1> QED BY <1>1, <1>2, <1>4

\* The quads, the frames of the active ifs, and the blocks they reserve.
Quad == [op : {"OP", "RET", "JE"}, id : 1 .. MaxQuads]

LEMMA FrameFacts ==
    ASSUME TypeOK, NEW i \in 1 .. Len(frames)
    PROVE  /\ frames[i] \in Frame
           /\ frames[i].then_bb \in Block /\ frames[i].else_bb \in Block
           /\ frames[i].merge_bb \in Block /\ frames[i].arm \in {"then", "else"}
           /\ Reserved(i) \subseteq Block
  <1>1. frames[i] \in Frame
    BY DEF TypeOK
  <1> QED BY <1>1 DEF Frame, Reserved

LEMMA LastFrame ==
    ASSUME TypeOK, frames # <<>>
    PROVE  /\ Len(frames) \in Nat \ {0} /\ Len(frames) \in 1 .. Len(frames)
           /\ Last(frames) = frames[Len(frames)] /\ Last(frames) \in Frame
           /\ Front(frames) \in Seq(Frame) /\ Len(Front(frames)) = Len(frames) - 1
           /\ \A i \in 1 .. Len(frames) - 1 : Front(frames)[i] = frames[i]
  <1>1. frames \in Seq(Frame)
    BY DEF TypeOK
  <1> QED BY <1>1, FrontFacts

\* What an outer if has reserved lies in front of the blocks of an inner one.
LEMMA ReservedBefore ==
    ASSUME TypeOK, FramesOrdered, NEW n \in 1 .. Len(frames), NEW i \in 1 .. Len(frames), i < n,
           NEW b \in Reserved(i)
    PROVE  b # frames[n].else_bb /\ b # frames[n].merge_bb
  <1>1. /\ frames[i].else_bb < frames[i].merge_bb /\ frames[i].merge_bb < frames[n].then_bb
        /\ frames[n].then_bb < frames[n].else_bb /\ frames[n].else_bb < frames[n].merge_bb
    BY DEF FramesOrdered
  <1>2. b = frames[i].merge_bb \/ b = frames[i].else_bb
    BY DEF Reserved
  <1>3. /\ frames[i].else_bb \in Nat /\ frames[i].merge_bb \in Nat
        /\ frames[n].then_bb \in Nat /\ frames[n].else_bb \in Nat /\ frames[n].merge_bb \in Nat
    <2>1. Block \subseteq Nat
      BY BoundsAssumption DEF Block
    <2> QED BY <2>1, FrameFacts
  <1> QED BY <1>1, <1>2, <1>3

LEMMA BlockFacts ==
    ASSUME TypeOK
    PROVE  /\ MaxBlocks \in Nat /\ block_count \in Nat /\ block_count <= MaxBlocks
           /\ Block \subseteq Nat /\ current_block \in Block /\ current_block < block_count
           /\ \A b \in 0 .. block_count - 1 : b \in Block
  BY BoundsAssumption DEF TypeOK, Block

LEMMA TargetFacts ==
    ASSUME TypeOK, NEW b \in Block
    PROVE  /\ b \in Nat /\ terminator[b] \in Terminators
           /\ true_target_je[b] \in Int /\ false_target_je[b] \in Int
           /\ jmp_target[b] \in Int
  <1>1. b \in Nat /\ \A x \in Block \cup {NoBlock} : x \in Int
    BY BoundsAssumption DEF Block, NoBlock
  <1>2. /\ terminator[b] \in Terminators
        /\ true_target_je[b] \in Block \cup {NoBlock}
        /\ false_target_je[b] \in Block \cup {NoBlock}
        /\ jmp_target[b] \in Block \cup {NoBlock}
    BY DEF TypeOK
  <1> QED BY <1>1, <1>2

LEMMA InitIInv == Init => IInv
  <1> SUFFICES ASSUME Init PROVE IInv
    OBVIOUS
  <1>1. TypeOK
    BY BoundsAssumption DEF Init, TypeOK, Block, NoBlock, Terminators
  <1>2. 0 \in Block
    BY BoundsAssumption DEF Block
  <1>3. Fresh /\ JumpsForward /\ CurrentOpen
    BY <1>2 DEF Init, Fresh, JumpsForward, CurrentOpen
  <1>4. FramesOrdered /\ ReservedOpen
    BY DEF Init, FramesOrdered, ReservedOpen
  <1>5. EdgesForward /\ BranchesLast
    BY DEF Init, EdgesForward, BranchesLast
  <1> QED BY <1>1, <1>3, <1>4, <1>5 DEF IInv

\* Appending a quad to the current block.
LEMMA AppendFacts ==
    ASSUME TypeOK, NEW operation \in {"OP", "RET", "JE"},
           AppendQuad(current_block, operation)
    PROVE  /\ code' \in [Block -> Seq(Quad)] /\ quad_count' \in 0 .. MaxQuads
           /\ \A b \in Block \ {current_block} : code'[b] = code[b]
           /\ Len(code'[current_block]) = Len(code[current_block]) + 1
           /\ Len(code[current_block]) \in Nat
           /\ code'[current_block][Len(code[current_block]) + 1].op = operation
           /\ \A i \in 1 .. Len(code[current_block]) :
                  code'[current_block][i] = code[current_block][i]
  <1> DEFINE q == [op |-> operation, id |-> quad_count + 1]
  <1>1. current_block \in Block /\ quad_count \in 0 .. MaxQuads /\ MaxQuads \in Nat
    BY BoundsAssumption, BlockFacts DEF TypeOK
  <1>2. q \in Quad /\ quad_count' \in 0 .. MaxQuads
    BY <1>1 DEF AppendQuad, Quad
  <1>3. code \in [Block -> Seq(Quad)] /\ code[current_block] \in Seq(Quad)
    BY <1>1 DEF TypeOK, Quad
  <1>4. code' = [code EXCEPT ![current_block] = Append(code[current_block], q)]
    BY DEF AppendQuad
  <1>5. q.op = operation
    OBVIOUS
  <1> HIDE DEF q
  <1>6. Append(code[current_block], q) \in Seq(Quad)
    BY <1>2, <1>3, AppendProperties
  <1>7. code' \in [Block -> Seq(Quad)] /\ code'[current_block] = Append(code[current_block], q)
        /\ \A b \in Block \ {current_block} : code'[b] = code[b]
    BY <1>1, <1>3, <1>4, <1>6
  <1> QED BY <1>2, <1>3, <1>5, <1>7, AppendProperties

\* A quad that is no jump, appended to a block that is open.
LEMMA AppendFlat ==
    ASSUME IInv, NEW operation \in {"OP", "RET"}, AppendQuad(current_block, operation),
           phase = "generate",
           terminator' = terminator \/ terminator' = [terminator EXCEPT ![current_block] = "RET"]
    PROVE  BranchesLast'
  <1> USE BlockFacts DEF IInv
  <1>1. terminator[current_block] # "JE" /\ terminator'[current_block] # "JE"
    BY DEF CurrentOpen, TypeOK
  <1>2. \A b \in Block \ {current_block} :
            code'[b] = code[b] /\ terminator'[b] = terminator[b]
    BY AppendFacts DEF TypeOK
  <1>3. ASSUME NEW i \in 1 .. Len(code'[current_block])
        PROVE  code'[current_block][i].op # "JE"
    <2>1. CASE i \in 1 .. Len(code[current_block])
      <3>1. code[current_block][i].op # "JE"
        BY <1>1, <2>1 DEF BranchesLast
      <3> QED BY <2>1, <3>1, AppendFacts
    <2>2. CASE i \notin 1 .. Len(code[current_block])
      <3>1. i = Len(code[current_block]) + 1
        BY <2>2, AppendFacts
      <3> QED BY <3>1, AppendFacts
    <2> QED BY <2>1, <2>2
  <1>4. ASSUME NEW b \in Block, NEW i \in 1 .. Len(code'[b])
        PROVE  code'[b][i].op = "JE" <=> i = Len(code'[b]) /\ terminator'[b] = "JE"
    <2>1. CASE b = current_block
      BY <1>1, <1>3, <2>1
    <2>2. CASE b # current_block
      BY SMTT(30), <1>2, <2>2 DEF BranchesLast
    <2> QED BY <2>1, <2>2
  <1> QED BY <1>4 DEF BranchesLast

LEMMA StatementIInv ==
    ASSUME IInv, GenStatement \/ GenReturn PROVE IInv'
  <1> USE BlockFacts
  <1>1. PICK operation \in {"OP", "RET"} : AppendQuad(current_block, operation)
    BY DEF GenStatement, GenReturn
  <1>2. /\ phase = "generate" /\ phase' = phase
        /\ terminator' = terminator
             \/ terminator' = [terminator EXCEPT ![current_block] = "RET"]
        /\ UNCHANGED <<block_count, current_block, true_target_je, false_target_je,
                       jmp_target, frames, next_block, successors, predecessors>>
    BY DEF GenStatement, GenReturn, cfgVars
  <1>3. TypeOK'
    BY <1>1, <1>2, AppendFacts DEF IInv, TypeOK, Terminators, Quad
  <1>4. \A b \in Block : terminator'[b] = terminator[b] \/ (b = current_block /\ terminator'[b] = "RET")
    BY <1>2 DEF IInv, TypeOK
  <1>5. Fresh' /\ JumpsForward' /\ CurrentOpen'
    BY <1>2, <1>4 DEF IInv, Fresh, JumpsForward, CurrentOpen
  <1>6. FramesOrdered' /\ EdgesForward'
    BY <1>2 DEF IInv, FramesOrdered, EdgesForward
  <1>7. ReservedOpen'
    <2>1. ASSUME NEW i \in 1 .. Len(frames), NEW b \in Reserved(i)
          PROVE  b # current_block /\ terminator'[b] # "JE"
      BY <1>4, FrameFacts DEF IInv, ReservedOpen
    <2>2. \A i : Reserved(i)' = Reserved(i)
      BY <1>2 DEF Reserved
    <2> QED BY <1>2, <2>1, <2>2 DEF ReservedOpen
  <1>8. BranchesLast'
    BY <1>1, <1>2, AppendFlat
  <1> QED BY <1>3, <1>5, <1>6, <1>7, <1>8 DEF IInv

LEMMA EnterIfIInv == ASSUME IInv, EnterIf PROVE IInv'
  <1> USE BlockFacts
  <1>0. /\ phase = "generate" /\ phase' = phase
        /\ block_count + 3 <= MaxBlocks
        /\ AppendQuad(current_block, "JE")
        /\ terminator' = [terminator EXCEPT ![current_block] = "JE"]
        /\ true_target_je' = [true_target_je EXCEPT ![current_block] = block_count]
        /\ false_target_je' = [false_target_je EXCEPT ![current_block] = block_count + 1]
        /\ block_count' = block_count + 3
        /\ current_block' = block_count
        /\ UNCHANGED <<jmp_target, next_block, successors, predecessors>>
    BY DEF EnterIf, cfgVars
  <1>1. /\ block_count \in Block /\ block_count + 1 \in Block /\ block_count + 2 \in Block
        /\ block_count' = block_count + 3 /\ current_block' = block_count
    BY <1>0 DEF IInv, Block
  <1>2. /\ \A b \in Block : terminator'[b] = IF b = current_block THEN "JE" ELSE terminator[b]
        /\ \A b \in Block : true_target_je'[b] =
               IF b = current_block THEN block_count ELSE true_target_je[b]
        /\ \A b \in Block : false_target_je'[b] =
               IF b = current_block THEN block_count + 1 ELSE false_target_je[b]
    BY <1>0 DEF IInv, TypeOK
  <1> DEFINE frame == [then_bb |-> block_count, else_bb |-> block_count + 1,
                       merge_bb |-> block_count + 2, arm |-> "then"]
             n == Len(frames) + 1
  <1>3. frame \in Frame /\ frames \in Seq(Frame) /\ frames' = Append(frames, frame)
    BY <1>1 DEF Frame, IInv, TypeOK, EnterIf
  <1>4. /\ frames' \in Seq(Frame) /\ Len(frames') = n /\ n \in Nat \ {0}
        /\ frames'[n].then_bb = block_count /\ frames'[n].else_bb = block_count + 1
        /\ frames'[n].merge_bb = block_count + 2 /\ frames'[n].arm = "then"
        /\ \A i \in 1 .. n : i = n \/ (i \in 1 .. Len(frames) /\ frames'[i] = frames[i])
    <2>1. /\ frame.then_bb = block_count /\ frame.else_bb = block_count + 1
          /\ frame.merge_bb = block_count + 2 /\ frame.arm = "then"
      OBVIOUS
    <2> HIDE DEF frame
    <2> QED BY <1>3, <2>1, AppendProperties
  <1> HIDE DEF frame, n
  <1>5. TypeOK'
    <2>1. block_count' \in 1 .. MaxBlocks /\ current_block' \in 0 .. block_count' - 1
          /\ next_block' \in 0 .. block_count'
      BY <1>0, <1>1 DEF IInv, TypeOK
    <2>2. /\ terminator' \in [Block -> Terminators]
          /\ true_target_je' \in [Block -> Block \cup {NoBlock}]
          /\ false_target_je' \in [Block -> Block \cup {NoBlock}]
      BY <1>0, <1>1 DEF IInv, TypeOK, Terminators
    <2>3. code' \in [Block -> Seq(Quad)] /\ quad_count' \in 0 .. MaxQuads
      BY <1>0, AppendFacts DEF IInv
    <2> QED BY <1>0, <1>4, <2>1, <2>2, <2>3 DEF IInv, TypeOK, Quad
  <1>6. Fresh' /\ CurrentOpen' /\ EdgesForward'
    <2>1. Fresh'
      BY <1>1, <1>2 DEF IInv, Fresh
    <2>2. CurrentOpen'
      BY <1>0, <1>1, <1>2 DEF IInv, Fresh, CurrentOpen
    <2>3. EdgesForward'
      <3>1. ASSUME NEW b \in Block, NEW i \in 1 .. Len(successors[b])
            PROVE  successors[b][i] \in Int
        <4>1. successors[b] \in Seq(Block)
          BY DEF IInv, TypeOK
        <4> QED BY <4>1 DEF IInv, Block
      <3> QED BY <1>0, <3>1 DEF IInv, EdgesForward
    <2> QED BY <2>1, <2>2, <2>3
  <1>7. JumpsForward'
    <2>1. ASSUME NEW b \in Block
          PROVE  /\ b \in Nat /\ true_target_je[b] \in Int /\ false_target_je[b] \in Int
                 /\ jmp_target[b] \in Int /\ jmp_target'[b] = jmp_target[b]
      BY <1>0, TargetFacts DEF IInv
    <2> QED BY <1>1, <1>2, <2>1 DEF IInv, JumpsForward
  <1>8. FramesOrdered'
    <2>1. ASSUME NEW i \in 1 .. n
          PROVE  /\ frames'[i].then_bb < frames'[i].else_bb
                 /\ frames'[i].else_bb < frames'[i].merge_bb
                 /\ frames'[i].merge_bb < block_count'
                 /\ i < n => frames'[i].merge_bb < block_count
      <3>1. CASE i = n
        BY <1>1, <1>4, <3>1 DEF IInv
      <3>2. CASE i # n
        <4>1. i \in 1 .. Len(frames) /\ frames'[i] = frames[i]
          BY <1>4, <3>2
        <4>2. frames[i].merge_bb \in Nat
          BY <4>1, FrameFacts DEF IInv
        <4> QED BY SMTT(30), <1>1, <4>1, <4>2 DEF IInv, FramesOrdered
      <3> QED BY <3>1, <3>2
    <2>2. ASSUME NEW i \in 1 .. n, NEW j \in 1 .. n, i < j
          PROVE  frames'[i].merge_bb < frames'[j].then_bb
      <3>1. i \in 1 .. Len(frames) /\ frames'[i] = frames[i]
        BY <1>4, <2>2
      <3>2. CASE j = n
        BY <1>4, <2>1, <2>2, <3>2
      <3>3. CASE j # n
        BY <1>4, <2>2, <3>1, <3>3 DEF IInv, FramesOrdered
      <3> QED BY <3>2, <3>3
    <2> QED BY <1>4, <2>1, <2>2 DEF FramesOrdered
  <1>9. ReservedOpen'
    <2>1. ASSUME NEW i \in 1 .. n, NEW b \in Reserved(i)'
          PROVE  b # current_block' /\ terminator'[b] # "JE"
      <3>1. CASE i = n
        <4>1. b = block_count + 2 \/ b = block_count + 1
          BY <1>4, <2>1, <3>1 DEF Reserved
        <4>2. terminator[b] # "JE"
          BY <1>1, <4>1 DEF IInv, Fresh
        <4> QED BY <1>1, <1>2, <4>1, <4>2 DEF IInv
      <3>2. CASE i # n
        <4>1. i \in 1 .. Len(frames) /\ b \in Reserved(i)
          BY <1>4, <2>1, <3>2 DEF Reserved
        <4>2. b # current_block /\ terminator[b] # "JE" /\ b < block_count /\ b \in Block
          BY <4>1, FrameFacts DEF IInv, ReservedOpen, Reserved, FramesOrdered
        <4> QED BY <1>1, <1>2, <4>2 DEF IInv
      <3> QED BY <3>1, <3>2
    <2> QED BY <1>4, <2>1 DEF ReservedOpen
  <1>10. BranchesLast'
    <2>1. ASSUME NEW b \in Block, NEW i \in 1 .. Len(code'[b])
          PROVE  code'[b][i].op = "JE" <=> i = Len(code'[b]) /\ terminator'[b] = "JE"
      <3>1. CASE b = current_block
        <4>1. terminator[b] # "JE" /\ terminator'[b] = "JE"
          BY <1>0, <1>2, <3>1 DEF IInv, CurrentOpen
        <4>2. CASE i \in 1 .. Len(code[b])
          <5>1. code[b][i].op # "JE"
            BY <4>1, <4>2, <3>1 DEF IInv, BranchesLast
          <5> QED BY <1>0, <3>1, <4>1, <4>2, <5>1, AppendFacts DEF IInv
        <4>3. CASE i \notin 1 .. Len(code[b])
          <5>1. i = Len(code[b]) + 1 /\ i = Len(code'[b])
            BY SMTT(30), <1>0, <2>1, <3>1, <4>3, AppendFacts DEF IInv
          <5> QED BY <1>0, <3>1, <4>1, <5>1, AppendFacts DEF IInv
        <4> QED BY <4>2, <4>3
      <3>2. CASE b # current_block
        BY SMTT(30), <1>0, <1>2, <3>2, AppendFacts DEF IInv, BranchesLast
      <3> QED BY <3>1, <3>2
    <2> QED BY <2>1 DEF BranchesLast
  <1> QED BY <1>5, <1>6, <1>7, <1>8, <1>9, <1>10 DEF IInv

\* CloseArm puts at most one jump in place: into a block that was not closed by
\* a conditional jump, to the merge block behind it.
LEMMA CloseArmFacts ==
    ASSUME IInv, frames # <<>>, CloseArm(Last(frames)),
           UNCHANGED <<true_target_je, false_target_je, block_count>>
    PROVE  /\ terminator' \in [Block -> Terminators]
           /\ jmp_target' \in [Block -> Block \cup {NoBlock}]
           /\ \A b \in Block : terminator'[b] = "JE" <=> terminator[b] = "JE"
           /\ \A b \in Block : b >= block_count => terminator'[b] = terminator[b]
           /\ JumpsForward'
  <1> USE BlockFacts
  <1> DEFINE n == Len(frames)
             arm == ArmBlock(frames[n])
  <1>1. n \in 1 .. Len(frames) /\ Last(frames) = frames[n]
    BY LastFrame DEF IInv
  <1>2. /\ arm \in Block /\ frames[n].merge_bb \in Block
        /\ arm < frames[n].merge_bb /\ frames[n].merge_bb < block_count
    BY <1>1, FrameFacts DEF IInv, FramesOrdered, ArmBlock
  <1> HIDE DEF n, arm
  <1>3. \/ UNCHANGED <<terminator, jmp_target>>
        \/ /\ terminator[arm] \in {"TERMINATOR_NONE", "RET"}
           /\ terminator' = [terminator EXCEPT ![arm] = "JMP"]
           /\ jmp_target' = [jmp_target EXCEPT ![arm] = frames[n].merge_bb]
    BY <1>1 DEF CloseArm, JumpsToMerge, arm
  <1>4. CASE UNCHANGED <<terminator, jmp_target>>
    BY <1>4 DEF IInv, TypeOK, JumpsForward
  <1>5. CASE /\ terminator[arm] \in {"TERMINATOR_NONE", "RET"}
             /\ terminator' = [terminator EXCEPT ![arm] = "JMP"]
             /\ jmp_target' = [jmp_target EXCEPT ![arm] = frames[n].merge_bb]
    <2>1. terminator' \in [Block -> Terminators] /\ jmp_target' \in [Block -> Block \cup {NoBlock}]
      BY <1>2, <1>5 DEF IInv, TypeOK, Terminators
    <2>2. \A b \in Block :
              /\ terminator'[b] = IF b = arm THEN "JMP" ELSE terminator[b]
              /\ jmp_target'[b] = IF b = arm THEN frames[n].merge_bb ELSE jmp_target[b]
      BY <1>5 DEF IInv, TypeOK
    <2>3. JumpsForward'
      BY <1>2, <1>5, <2>2 DEF IInv, JumpsForward
    <2> QED BY <1>2, <1>5, <2>1, <2>2, <2>3 DEF IInv
  <1> QED BY <1>3, <1>4, <1>5

\* What both ends of an arm leave alone.
LEMMA ArmUnchanged ==
    ASSUME IInv, frames # <<>>, CloseArm(Last(frames)),
           UNCHANGED <<phase, block_count, code, true_target_je, false_target_je,
                       quad_count, cfgVars>>
    PROVE  Fresh' /\ JumpsForward' /\ EdgesForward' /\ BranchesLast'
  <1>1. Fresh' /\ JumpsForward'
    BY CloseArmFacts DEF IInv, Fresh
  <1>2. EdgesForward'
    BY DEF IInv, EdgesForward, cfgVars
  <1>3. BranchesLast'
    BY CloseArmFacts DEF IInv, BranchesLast
  <1> QED BY <1>1, <1>2, <1>3

LEMMA LeaveThenIInv == ASSUME IInv, LeaveThen PROVE IInv'
  <1> USE BlockFacts
  <1> DEFINE n == Len(frames)
             frame == [Last(frames) EXCEPT !.arm = "else"]
  <1>1. /\ frames # <<>> /\ CloseArm(Last(frames)) /\ Last(frames).arm = "then"
        /\ current_block' = Last(frames).else_bb
        /\ frames' = Append(Front(frames), frame)
        /\ UNCHANGED <<phase, block_count, code, true_target_je, false_target_je,
                       quad_count, cfgVars>>
    BY DEF LeaveThen
  <1>2. Fresh' /\ JumpsForward' /\ EdgesForward' /\ BranchesLast'
    BY <1>1, ArmUnchanged
  <1>3. n \in Nat \ {0} /\ Last(frames) = frames[n] /\ frames[n] \in Frame
    BY <1>1, LastFrame DEF IInv
  <1>4. /\ frame \in Frame /\ frame.then_bb = frames[n].then_bb
        /\ frame.else_bb = frames[n].else_bb
        /\ frame.merge_bb = frames[n].merge_bb /\ frame.arm = "else"
    BY <1>3 DEF Frame
  <1> HIDE DEF frame
  <1>5. Front(frames) \in Seq(Frame) /\ Len(Front(frames)) = n - 1
        /\ \A i \in 1 .. n - 1 : Front(frames)[i] = frames[i]
    BY <1>1, LastFrame DEF IInv
  <1>6. /\ frames' \in Seq(Frame) /\ Len(frames') = n
        /\ frames'[n] = frame
        /\ \A i \in 1 .. n : i # n => frames'[i] = frames[i]
    BY <1>1, <1>3, <1>4, <1>5, AppendProperties
  <1> HIDE DEF n
  <1>7. /\ \A i \in 1 .. n : /\ frames'[i].then_bb = frames[i].then_bb
                             /\ frames'[i].else_bb = frames[i].else_bb
                             /\ frames'[i].merge_bb = frames[i].merge_bb
        /\ \A i \in 1 .. n : Reserved(i)' \subseteq Reserved(i)
    BY <1>4, <1>6 DEF Reserved
  <1>8. FramesOrdered'
    BY <1>1, <1>6, <1>7 DEF IInv, FramesOrdered, n
  <1>9. /\ current_block' = frames[n].else_bb /\ frames[n].arm = "then"
        /\ frames[n].else_bb \in Reserved(n)
    BY <1>1, <1>3 DEF Reserved
  <1>10. /\ frames[n].else_bb < block_count /\ frames[n].else_bb \in Block
         /\ terminator[frames[n].else_bb] # "JE"
    BY <1>3, <1>9, FrameFacts DEF IInv, FramesOrdered, ReservedOpen, n
  <1>11. CurrentOpen'
    BY <1>1, <1>9, <1>10, CloseArmFacts DEF CurrentOpen
  <1>12. ReservedOpen'
    <2>1. ASSUME NEW i \in 1 .. n, NEW b \in Reserved(i)'
          PROVE  b # frames[n].else_bb /\ terminator'[b] # "JE"
      <3>1. b \in Reserved(i) /\ b \in Block /\ terminator[b] # "JE"
        BY <1>7, <2>1, FrameFacts DEF IInv, ReservedOpen, n
      <3>2. CASE i = n
        <4>1. b = frames[n].merge_bb
          BY <1>3, <1>4, <1>6, <2>1, <3>2 DEF Reserved
        <4> QED BY <1>1, <1>3, <3>1, <4>1, CloseArmFacts, FrameFacts
                DEF IInv, FramesOrdered, n
      <3>3. CASE i # n
        <4>1. n \in 1 .. Len(frames) /\ i \in 1 .. Len(frames) /\ i < n
          BY <1>3, <2>1, <3>3 DEF n
        <4>2. b # frames[n].else_bb
          BY <3>1, <4>1, ReservedBefore DEF IInv
        <4>3. terminator'[b] # "JE"
          BY <1>1, <3>1, CloseArmFacts
        <4> QED BY <4>2, <4>3
      <3> QED BY <3>2, <3>3
    <2> QED BY <1>6, <1>9, <2>1 DEF ReservedOpen
  <1>13. TypeOK'
    <2>1. current_block' \in 0 .. block_count' - 1
      BY <1>1, <1>9, <1>10 DEF IInv, Block
    <2>2. terminator' \in [Block -> Terminators] /\ jmp_target' \in [Block -> Block \cup {NoBlock}]
      BY <1>1, CloseArmFacts
    <2> QED BY <1>1, <1>6, <2>1, <2>2 DEF IInv, TypeOK, cfgVars
  <1> QED BY <1>2, <1>8, <1>11, <1>12, <1>13 DEF IInv

LEMMA LeaveElseIInv == ASSUME IInv, LeaveElse PROVE IInv'
  <1> USE BlockFacts
  <1> DEFINE n == Len(frames)
  <1>1. /\ frames # <<>> /\ CloseArm(Last(frames))
        /\ current_block' = Last(frames).merge_bb
        /\ frames' = Front(frames)
        /\ UNCHANGED <<phase, block_count, code, true_target_je, false_target_je,
                       quad_count, cfgVars>>
    BY DEF LeaveElse
  <1>2. Fresh' /\ JumpsForward' /\ EdgesForward' /\ BranchesLast'
    BY <1>1, ArmUnchanged
  <1>3. n \in Nat \ {0} /\ Last(frames) = frames[n] /\ frames[n] \in Frame
    BY <1>1, LastFrame DEF IInv
  <1>4. /\ frames' \in Seq(Frame) /\ Len(frames') = n - 1
        /\ \A i \in 1 .. n - 1 : i \in 1 .. n /\ i < n /\ frames'[i] = frames[i]
    BY <1>1, <1>3, LastFrame DEF IInv
  <1> HIDE DEF n
  <1>5. \A i \in 1 .. n - 1 : Reserved(i)' = Reserved(i)
    BY <1>4 DEF Reserved
  <1>6. FramesOrdered'
    BY SMTT(30), <1>1, <1>4 DEF IInv, FramesOrdered, n
  <1>7. /\ frames[n].merge_bb < block_count /\ frames[n].merge_bb \in Block
        /\ terminator[frames[n].merge_bb] # "JE"
    BY <1>3, FrameFacts DEF IInv, FramesOrdered, ReservedOpen, Reserved, n
  <1>8. CurrentOpen'
    BY <1>1, <1>3, <1>7, CloseArmFacts DEF CurrentOpen
  <1>9. ReservedOpen'
    <2>1. ASSUME NEW i \in 1 .. n - 1, NEW b \in Reserved(i)
          PROVE  b # frames[n].merge_bb /\ terminator'[b] # "JE"
      <3>1. b \in Block /\ terminator[b] # "JE" /\ i \in 1 .. n /\ i < n
        BY <1>3, <1>4, <2>1, FrameFacts DEF IInv, ReservedOpen, n
      <3>2. b # frames[n].merge_bb
        <4>1. n \in 1 .. Len(frames) /\ i \in 1 .. Len(frames) /\ i < n
          BY <1>3, <3>1 DEF n
        <4> QED BY <2>1, <4>1, ReservedBefore DEF IInv
      <3>3. terminator'[b] # "JE"
        BY <1>1, <3>1, CloseArmFacts
      <3> QED BY <3>2, <3>3
    <2> QED BY <1>1, <1>3, <1>4, <1>5, <2>1 DEF ReservedOpen
  <1>10. TypeOK'
    <2>1. current_block' \in 0 .. block_count' - 1
      BY <1>1, <1>3, <1>7 DEF IInv, Block
    <2>2. terminator' \in [Block -> Terminators] /\ jmp_target' \in [Block -> Block \cup {NoBlock}]
      BY <1>1, CloseArmFacts
    <2> QED BY <1>1, <1>4, <2>1, <2>2 DEF IInv, TypeOK, cfgVars
  <1> QED BY <1>2, <1>6, <1>8, <1>9, <1>10 DEF IInv

\* The walk is over, or build_cfg is.
LEMMA EndIInv == ASSUME IInv, GenEnd \/ BuildEnd PROVE IInv'
  <1>1. /\ phase' \in {"build_cfg", "done"}
        /\ UNCHANGED <<genVars, cfgVars>>
    BY DEF GenEnd, BuildEnd
  <1> QED BY ZenonT(60), <1>1 DEF genVars, cfgVars, IInv, TypeOK, Fresh, JumpsForward, FramesOrdered,
          ReservedOpen, Reserved, CurrentOpen, EdgesForward, BranchesLast

\* The targets of a block lie behind it.
LEMMA TargetsForward ==
    ASSUME IInv, NEW b \in Block, b < block_count
    PROVE  /\ TargetsOf(b) \in Seq(Block)
           /\ \A i \in 1 .. Len(TargetsOf(b)) :
                  b < TargetsOf(b)[i] /\ TargetsOf(b)[i] < block_count
  <1> USE BlockFacts, TargetFacts
  <1>1. CASE terminator[b] = "JE"
    <2>1. true_target_je[b] \in Block /\ false_target_je[b] \in Block
      BY <1>1 DEF IInv, JumpsForward, Block
    <2> QED BY <1>1, <2>1 DEF IInv, JumpsForward, TargetsOf
  <1>2. CASE terminator[b] = "JMP"
    <2>1. jmp_target[b] \in Block
      BY <1>2 DEF IInv, JumpsForward, Block
    <2> QED BY <1>2, <2>1 DEF IInv, JumpsForward, TargetsOf
  <1>3. CASE terminator[b] = "RET"
    BY <1>3 DEF TargetsOf
  <1>4. CASE terminator[b] = "TERMINATOR_NONE"
    <2>1. b + 1 < block_count => b + 1 \in Block
      BY DEF IInv, Block
    <2>2. TargetsOf(b) = IF b + 1 < block_count THEN <<b + 1>> ELSE <<>>
      BY <1>4 DEF TargetsOf, FallsThrough
    <2>3. CASE b + 1 < block_count
      <3>1. b + 1 \in Block /\ b < b + 1 /\ TargetsOf(b) = <<b + 1>>
        BY <2>1, <2>2, <2>3 DEF IInv
      <3>2. Len(<<b + 1>>) = 1 /\ <<b + 1>>[1] = b + 1
        OBVIOUS
      <3> QED BY <2>3, <3>1, <3>2
    <2>4. CASE ~(b + 1 < block_count)
      BY <2>2, <2>4
    <2> QED BY <2>3, <2>4
  <1> QED BY <1>1, <1>2, <1>3, <1>4 DEF IInv, Terminators

LEMMA BuildBlockIInv == ASSUME IInv, BuildBlock PROVE IInv'
  <1> USE BlockFacts
  <1> DEFINE b == next_block
             T == TargetsOf(b)
  <1>1. /\ phase = "build_cfg" /\ phase' = phase /\ b < block_count
        /\ successors' = [successors EXCEPT ![b] = successors[b] \o T]
        /\ predecessors' = [s \in Block |-> PredecessorsOf(b, s)]
        /\ next_block' = b + 1
        /\ UNCHANGED genVars
    BY DEF BuildBlock
  <1>2. b \in Block
    <2>1. b \in 0 .. block_count - 1
      BY <1>1 DEF IInv, TypeOK
    <2> QED BY <2>1 DEF IInv
  <1>3. T \in Seq(Block) /\ \A i \in 1 .. Len(T) : b < T[i] /\ T[i] < block_count
    BY <1>1, <1>2, TargetsForward
  <1>4. \A s \in Block : PredecessorsOf(b, s) \in Seq(Block)
    BY <1>2, AppendProperties DEF PredecessorsOf, IInv, TypeOK
  <1> HIDE DEF T
  <1>5. /\ successors[b] \in Seq(Block)
        /\ successors[b] \o T \in Seq(Block)
        /\ \A i \in 1 .. Len(successors[b] \o T) :
               \/ i \in 1 .. Len(successors[b]) /\ (successors[b] \o T)[i] = successors[b][i]
               \/ \E j \in 1 .. Len(T) : (successors[b] \o T)[i] = T[j]
    <2>1. successors[b] \in Seq(Block)
      BY <1>2 DEF IInv, TypeOK
    <2>2. /\ successors[b] \o T \in Seq(Block)
          /\ Len(successors[b] \o T) = Len(successors[b]) + Len(T)
          /\ \A i \in 1 .. Len(successors[b]) + Len(T) :
                 (successors[b] \o T)[i] = IF i <= Len(successors[b]) THEN successors[b][i]
                                          ELSE T[i - Len(successors[b])]
      BY <1>3, <2>1, ConcatProperties
    <2>3. Len(successors[b]) \in Nat /\ Len(T) \in Nat
      BY <1>3, <2>1
    <2>4. \A i \in 1 .. Len(successors[b]) + Len(T) :
             i <= Len(successors[b]) \/ i - Len(successors[b]) \in 1 .. Len(T)
      BY <2>3
    <2> QED BY <2>1, <2>2, <2>3, <2>4
  <1>6. TypeOK'
    <2>1. next_block' \in 0 .. block_count'
      BY <1>1 DEF IInv, TypeOK, genVars
    <2>2. successors' \in [Block -> Seq(Block)]
      BY <1>1, <1>2, <1>5 DEF IInv, TypeOK
    <2>3. predecessors' \in [Block -> Seq(Block)]
      BY <1>1, <1>4
    <2> HIDE DEF b
    <2> QED BY <1>1, <2>1, <2>2, <2>3 DEF IInv, TypeOK, genVars
  <1>7. EdgesForward'
    <2>1. ASSUME NEW c \in Block, NEW i \in 1 .. Len(successors'[c])
          PROVE  c < successors'[c][i] /\ successors'[c][i] < block_count
      <3>1. CASE c = b
        <4>1. successors'[c] = successors[b] \o T
          BY <1>1, <1>2, <3>1 DEF IInv, TypeOK
        <4> QED BY <1>2, <1>3, <1>5, <2>1, <3>1, <4>1 DEF IInv, EdgesForward
      <3>2. CASE c # b
        <4>1. successors'[c] = successors[c]
          BY <1>1, <1>2, <3>2 DEF IInv, TypeOK
        <4> QED BY <2>1, <4>1 DEF IInv, EdgesForward
      <3> QED BY <3>1, <3>2
    <2> QED BY <1>1, <2>1 DEF EdgesForward, genVars
  <1>8. Fresh' /\ JumpsForward' /\ FramesOrdered' /\ ReservedOpen' /\ CurrentOpen' /\ BranchesLast'
    BY <1>1 DEF IInv, genVars, Fresh, JumpsForward, FramesOrdered, ReservedOpen, Reserved,
       CurrentOpen, BranchesLast
  <1> QED BY <1>6, <1>7, <1>8 DEF IInv

LEMMA InductiveStep == IInv /\ [Next]_vars => IInv'
  <1> SUFFICES ASSUME IInv, [Next]_vars PROVE IInv'
    OBVIOUS
  <1>1. CASE GenStatement \/ GenReturn
    BY <1>1, StatementIInv
  <1>2. CASE EnterIf
    BY <1>2, EnterIfIInv
  <1>3. CASE LeaveThen
    BY <1>3, LeaveThenIInv
  <1>4. CASE LeaveElse
    BY <1>4, LeaveElseIInv
  <1>5. CASE GenEnd \/ BuildEnd
    BY <1>5, EndIInv
  <1>6. CASE BuildBlock
    BY <1>6, BuildBlockIInv
  <1>7. CASE UNCHANGED vars
    BY ZenonT(60), <1>7 DEF vars, genVars, cfgVars, IInv, TypeOK, Fresh, JumpsForward, FramesOrdered,
       ReservedOpen, Reserved, CurrentOpen, EdgesForward, BranchesLast
  <1> QED BY <1>1, <1>2, <1>3, <1>4, <1>5, <1>6, <1>7 DEF Next

LEMMA InductiveInvariant == Spec => []IInv
  BY InitIInv, InductiveStep, PTL DEF Spec

-----------------------------------------------------------------------------

\* The variables keep their types: in particular no block id is ever used
\* before append_new_block has allocated the block.
THEOREM ControlFlowTypes == Spec => []TypeOK
  BY InductiveInvariant, PTL DEF IInv

\* However ifs nest, build_cfg links a block only to blocks behind it: mncc's
\* graphs are acyclic and their layout order is a topological order.
THEOREM GraphForward == Spec => []EdgesForward
  BY InductiveInvariant, PTL DEF IInv

\* However ifs nest, gen_ir_stmt never appends behind a conditional jump, and no
\* conditional jump loses its place as the terminator of its block.
THEOREM NothingBehindBranches == Spec => []BranchesLast
  BY InductiveInvariant, PTL DEF IInv

-----------------------------------------------------------------------------
(* build_cfg *)

\* The two arms of an if begin in different blocks.
ArmsApart == \A b \in Block : terminator[b] = "JE" => true_target_je[b] # false_target_je[b]

\* How far build_cfg has come.
Progress ==
    /\ phase = "generate" => next_block = 0
    /\ phase = "done" => next_block = block_count

\* Whether build_cfg has linked b to s.
LinkedTo(b, s) == b < next_block /\ \E i \in 1 .. Len(TargetsOf(b)) : TargetsOf(b)[i] = s

\* Every block before next_block has the targets of its terminator as successors
\* and stands once in the list of each of them.
Linked ==
    \A b \in Block :
        /\ successors[b] = IF b < next_block THEN TargetsOf(b) ELSE <<>>
        /\ \A i \in 1 .. Len(predecessors[b]) : LinkedTo(predecessors[b][i], b)
        /\ \A i, j \in 1 .. Len(predecessors[b]) :
              predecessors[b][i] = predecessors[b][j] => i = j
        /\ \A c \in Block : LinkedTo(c, b) =>
              \E i \in 1 .. Len(predecessors[b]) : predecessors[b][i] = c

LInv == ArmsApart /\ Progress /\ Linked

\* No block has the same target twice.
LEMMA TargetsDiffer ==
    ASSUME IInv, ArmsApart, NEW b \in Block
    PROVE  /\ TargetsOf(b) \in Seq(Int)
           /\ \A i, j \in 1 .. Len(TargetsOf(b)) : TargetsOf(b)[i] = TargetsOf(b)[j] => i = j
  <1> USE TargetFacts
  <1>1. CASE terminator[b] = "JE"
    <2>1. TargetsOf(b) = <<true_target_je[b], false_target_je[b]>>
      BY <1>1 DEF TargetsOf
    <2>2. true_target_je[b] # false_target_je[b]
      BY <1>1 DEF ArmsApart
    <2> QED BY <2>1, <2>2 DEF IInv
  <1>2. CASE terminator[b] = "JMP"
    BY <1>2 DEF TargetsOf, IInv
  <1>3. CASE terminator[b] = "RET"
    BY <1>3 DEF TargetsOf, IInv
  <1>4. CASE terminator[b] = "TERMINATOR_NONE"
    <2>1. TargetsOf(b) = IF b + 1 < block_count THEN <<b + 1>> ELSE <<>>
      BY <1>4 DEF TargetsOf, FallsThrough
    <2> QED BY <2>1 DEF IInv
  <1> QED BY <1>1, <1>2, <1>3, <1>4 DEF IInv, Terminators

\* An element at one place occurs once, one at no place not at all.
LEMMA OccursOnce ==
    ASSUME NEW seq, NEW x, NEW k \in DOMAIN seq, seq[k] = x,
           \A i, j \in DOMAIN seq : seq[i] = seq[j] => i = j
    PROVE  Occurrences(seq, x) = 1
  <1>1. {i \in DOMAIN seq : seq[i] = x} = {k}
    OBVIOUS
  <1> QED BY <1>1, FS_Singleton DEF Occurrences

LEMMA OccursNever ==
    ASSUME NEW seq, NEW x, \A i \in DOMAIN seq : seq[i] # x
    PROVE  Occurrences(seq, x) = 0
  <1>1. {i \in DOMAIN seq : seq[i] = x} = {}
    OBVIOUS
  <1> QED BY <1>1, FS_EmptySet DEF Occurrences

LEMMA InitLInv == Init => LInv
  <1> SUFFICES ASSUME Init PROVE LInv
    OBVIOUS
  <1>1. ArmsApart /\ Progress
    BY DEF Init, ArmsApart, Progress
  <1>2. \A b \in Block : b \in Nat /\ ~(b < next_block)
    BY BoundsAssumption DEF Init, Block
  <1>3. Linked
    BY <1>2 DEF Init, Linked, LinkedTo
  <1> QED BY <1>1, <1>3 DEF LInv

\* While blocks are generated none is linked.
LEMMA GenerateLInv ==
    ASSUME IInv, LInv, phase = "generate", phase' \in {"generate", "build_cfg"},
           UNCHANGED cfgVars, ArmsApart'
    PROVE  LInv'
  <1>1. next_block = 0 /\ next_block' = 0
    BY DEF LInv, Progress, cfgVars
  <1>2. \A b \in Block : b \in Nat /\ ~(b < next_block)
    BY <1>1, BoundsAssumption DEF Block
  <1>3. Linked
    BY DEF LInv
  <1>4. \A b \in Block : successors[b] = <<>> /\ \A i \in 1 .. Len(predecessors[b]) : FALSE
    <2>1. ASSUME NEW b \in Block, NEW i \in 1 .. Len(predecessors[b]) PROVE FALSE
      <3>1. predecessors[b] \in Seq(Block)
        BY DEF IInv, TypeOK
      <3>2. predecessors[b][i] \in Block
        BY <3>1
      <3> QED BY <1>2, <1>3, <3>2 DEF Linked, LinkedTo
    <2> QED BY <1>2, <1>3, <2>1 DEF Linked
  <1>5. Linked'
    BY <1>1, <1>2, <1>4 DEF Linked, LinkedTo, cfgVars
  <1> QED BY <1>1, <1>5 DEF LInv, Progress

LEMMA ArmsApartKept ==
    ASSUME IInv, ArmsApart, [Next]_vars
    PROVE  ArmsApart'
  <1>1. CASE GenStatement \/ GenReturn
    <2>1. /\ \/ terminator' = terminator
             \/ terminator' = [terminator EXCEPT ![current_block] = "RET"]
          /\ UNCHANGED <<true_target_je, false_target_je>>
      BY <1>1 DEF GenStatement, GenReturn
    <2> QED BY <2>1 DEF ArmsApart, IInv, TypeOK
  <1>2. CASE EnterIf
    <2>1. /\ terminator' = [terminator EXCEPT ![current_block] = "JE"]
          /\ true_target_je' = [true_target_je EXCEPT ![current_block] = block_count]
          /\ false_target_je' = [false_target_je EXCEPT ![current_block] = block_count + 1]
          /\ block_count \in Nat
      BY <1>2, BlockFacts DEF EnterIf, IInv
    <2> QED BY <2>1 DEF ArmsApart, IInv, TypeOK
  <1>3. CASE LeaveThen \/ LeaveElse
    <2>1. /\ frames # <<>> /\ CloseArm(Last(frames))
          /\ UNCHANGED <<true_target_je, false_target_je, block_count>>
      BY <1>3 DEF LeaveThen, LeaveElse
    <2> QED BY <2>1, CloseArmFacts DEF ArmsApart
  <1>4. CASE GenEnd \/ BuildBlock \/ BuildEnd \/ UNCHANGED vars
    <2>1. UNCHANGED genVars
      BY <1>4 DEF GenEnd, BuildBlock, BuildEnd, vars
    <2> QED BY <2>1 DEF ArmsApart, genVars
  <1> QED BY <1>1, <1>2, <1>3, <1>4 DEF Next

LEMMA BuildBlockLInv == ASSUME IInv, LInv, BuildBlock PROVE LInv'
  <1> DEFINE b == next_block
             T == TargetsOf(b)
  <1>1. /\ phase = "build_cfg" /\ phase' = phase /\ b < block_count /\ b \in Nat
        /\ successors' = [successors EXCEPT ![b] = successors[b] \o T]
        /\ predecessors' = [s \in Block |-> PredecessorsOf(b, s)]
        /\ next_block' = b + 1
        /\ UNCHANGED genVars
    BY DEF BuildBlock, IInv, TypeOK
  <1>2. b \in Block /\ \A c \in Block : c \in Nat
    <2>1. b \in 0 .. block_count - 1
      BY <1>1 DEF IInv, TypeOK
    <2> QED BY <2>1, BlockFacts DEF IInv
  <1>3. \A c \in Block : TargetsOf(c)' = TargetsOf(c)
    BY <1>1 DEF TargetsOf, FallsThrough, genVars
  <1>4. ArmsApart' /\ Progress'
    BY <1>1, ArmsApartKept DEF LInv, Progress, Next
  <1>5. /\ T \in Seq(Int) /\ T \in Seq(Block)
        /\ successors[b] = <<>>
    BY <1>1, <1>2, TargetsDiffer, TargetsForward DEF LInv, Linked
  <1> HIDE DEF T
  <1>6. successors[b] \o T = T
    BY <1>5, ConcatEmptySeq
  <1> DEFINE Link(c, s) == LinkedTo(c, s) \/ (c = b /\ Contains(T, s))
  <1>7. \A c \in Block, s \in Block : LinkedTo(c, s)' <=> Link(c, s)
    <2> TAKE c \in Block, s \in Block
    <2>1. c < next_block' <=> c < b \/ c = b
      BY <1>1, <1>2
    <2> QED BY <1>1, <1>2, <1>3, <2>1 DEF LinkedTo, Contains, T
  <1>8. ASSUME NEW c \in Block
        PROVE  successors'[c] = IF c < next_block' THEN TargetsOf(c)' ELSE <<>>
    <2>1. CASE c = b
      BY <1>1, <1>2, <1>3, <1>6, <2>1 DEF IInv, TypeOK, T
    <2>2. CASE c # b
      <3>1. c < next_block' <=> c < b
        BY <1>1, <1>2, <2>2
      <3> QED BY <1>1, <1>2, <1>3, <2>2, <3>1 DEF LInv, Linked, IInv, TypeOK
    <2> QED BY <2>1, <2>2
  <1>9. ASSUME NEW s \in Block
        PROVE  /\ \A i \in 1 .. Len(predecessors'[s]) :
                     predecessors'[s][i] \in Block /\ Link(predecessors'[s][i], s)
               /\ \A i, j \in 1 .. Len(predecessors'[s]) :
                     predecessors'[s][i] = predecessors'[s][j] => i = j
               /\ \A c \in Block : Link(c, s) =>
                     \E i \in 1 .. Len(predecessors'[s]) : predecessors'[s][i] = c
    <2> DEFINE old == predecessors[s]
               new == predecessors'[s]
    <2>1. old \in Seq(Block) /\ Len(old) \in Nat /\ \A i \in 1 .. Len(old) : old[i] \in Block
      BY DEF IInv, TypeOK
    <2>2. /\ \A i \in 1 .. Len(old) : LinkedTo(old[i], s)
          /\ \A i, j \in 1 .. Len(old) : old[i] = old[j] => i = j
          /\ \A c \in Block : LinkedTo(c, s) => \E i \in 1 .. Len(old) : old[i] = c
      BY DEF LInv, Linked
    <2>3. new = PredecessorsOf(b, s)
      BY <1>1
    <2>4. CASE ~Contains(T, s)
      <3>1. new = old
        BY <2>3, <2>4 DEF PredecessorsOf, T
      <3> HIDE DEF old, new
      <3> QED BY <2>1, <2>2, <2>4, <3>1 DEF old, new
    <2>5. CASE Contains(T, s)
      <3>1. new = Append(old, b)
        BY <2>3, <2>5 DEF PredecessorsOf, T
      <3> HIDE DEF old, new
      <3>2. /\ Len(new) = Len(old) + 1 /\ new[Len(old) + 1] = b
            /\ \A i \in 1 .. Len(old) : new[i] = old[i]
        BY <1>2, <2>1, <3>1, AppendProperties
      <3>3. \A i \in 1 .. Len(new) : i \in 1 .. Len(old) \/ i = Len(old) + 1
        BY <2>1, <3>2
      <3>4. \A i \in 1 .. Len(old) : old[i] # b /\ i \in 1 .. Len(new)
        <4>1. \A i \in 1 .. Len(old) : old[i] < b
          BY <2>2 DEF LinkedTo
        <4> QED BY <1>1, <2>1, <3>2, <4>1
      <3>5. \A i \in 1 .. Len(new) : new[i] \in Block /\ Link(new[i], s)
        BY <1>2, <2>1, <2>2, <2>5, <3>2, <3>3
      <3>6. \A i, j \in 1 .. Len(new) : new[i] = new[j] => i = j
        BY <2>2, <3>2, <3>3, <3>4
      <3>7. \A c \in Block : Link(c, s) => \E i \in 1 .. Len(new) : new[i] = c
        <4>1. Len(old) + 1 \in 1 .. Len(new)
          BY <2>1, <3>2
        <4> QED BY <2>2, <3>2, <3>4, <4>1
      <3> QED BY <3>5, <3>6, <3>7 DEF new
    <2> QED BY <2>4, <2>5
  <1>10. Linked'
    <2> HIDE DEF Link, b
    <2> QED BY <1>7, <1>8, <1>9 DEF Linked
  <1> QED BY <1>4, <1>10 DEF LInv

LEMMA NextLInv == IInv /\ LInv /\ [Next]_vars => LInv'
  <1> SUFFICES ASSUME IInv, LInv, [Next]_vars PROVE LInv'
    OBVIOUS
  <1>0. ArmsApart'
    BY ArmsApartKept DEF LInv
  <1>1. CASE GenStatement \/ GenReturn \/ EnterIf \/ LeaveThen \/ LeaveElse \/ GenEnd
    <2>1. phase = "generate" /\ phase' \in {"generate", "build_cfg"} /\ UNCHANGED cfgVars
      BY <1>1 DEF GenStatement, GenReturn, EnterIf, LeaveThen, LeaveElse, GenEnd
    <2> QED BY <1>0, <2>1, GenerateLInv
  <1>2. CASE BuildBlock
    BY <1>2, BuildBlockLInv
  <1>3. CASE BuildEnd \/ UNCHANGED vars
    <2>1. /\ UNCHANGED <<genVars, cfgVars>>
          /\ \/ phase' = phase
             \/ phase' = "done" /\ next_block = block_count
      BY <1>3 DEF BuildEnd, vars
    <2>2. \A b \in Block : TargetsOf(b)' = TargetsOf(b)
      BY <2>1 DEF TargetsOf, FallsThrough, genVars
    <2>3. next_block' = next_block /\ successors' = successors /\ predecessors' = predecessors
          /\ block_count' = block_count
      BY <2>1 DEF genVars, cfgVars
    <2>4. ASSUME NEW b \in Block, NEW c \in Block PROVE LinkedTo(c, b)' <=> LinkedTo(c, b)
      BY <2>2, <2>3 DEF LinkedTo
    <2>5. \A b \in Block : predecessors[b] \in Seq(Block)
      BY DEF IInv, TypeOK
    <2>6. \A b \in Block : \A i \in 1 .. Len(predecessors[b]) : predecessors[b][i] \in Block
      BY <2>5
    <2>7. Linked'
      BY <2>2, <2>3, <2>4, <2>6 DEF LInv, Linked
    <2> QED BY <1>0, <2>1, <2>3, <2>7 DEF LInv, Progress
  <1> QED BY <1>1, <1>2, <1>3 DEF Next

\* However ifs nest, build_cfg lists a block as predecessor of another exactly
\* as often as the other as its successor: the two lists it fills by separate
\* calls describe one set of edges.
THEOREM EdgesAgree == Spec => []EdgesMirrored
  <1>1. IInv /\ LInv => EdgesMirrored
    <2> SUFFICES ASSUME IInv, LInv, phase = "done", NEW b \in Block, NEW s \in Block
                 PROVE  Occurrences(successors[b], s) = Occurrences(predecessors[s], b)
      BY DEF EdgesMirrored
    <2>1. successors[b] \in Seq(Block) /\ predecessors[s] \in Seq(Block)
      BY DEF IInv, TypeOK
    <2>2. /\ DOMAIN successors[b] = 1 .. Len(successors[b])
          /\ DOMAIN predecessors[s] = 1 .. Len(predecessors[s])
      BY <2>1
    <2>3. /\ \A i, j \in 1 .. Len(successors[b]) : successors[b][i] = successors[b][j] => i = j
          /\ \A i, j \in 1 .. Len(predecessors[s]) : predecessors[s][i] = predecessors[s][j] => i = j
      BY TargetsDiffer DEF LInv, Linked
    <2>4. LinkedTo(b, s) <=> \E i \in 1 .. Len(successors[b]) : successors[b][i] = s
      BY DEF LInv, Linked, LinkedTo
    <2>5. LinkedTo(b, s) <=> \E i \in 1 .. Len(predecessors[s]) : predecessors[s][i] = b
      BY DEF LInv, Linked
    <2>6. CASE LinkedTo(b, s)
      BY <2>2, <2>3, <2>4, <2>5, <2>6, OccursOnce
    <2>7. CASE ~LinkedTo(b, s)
      BY <2>2, <2>4, <2>5, <2>7, OccursNever
    <2> QED BY <2>6, <2>7
  <1> QED BY <1>1, InitLInv, NextLInv, InductiveInvariant, PTL DEF Spec

-----------------------------------------------------------------------------
(* The meaning of the blocks *)

IsIf(a) == terminator[a] = "JE"
LastQuad(b) == code[b][Len(code[b])]
LastBlock == block_count - 1

\* Port <<p, w>> leaves the quads of block b at their end.
Ends(b, p, w) ==
    code[b] # <<>> /\ LastQuad(b).op = "OP" /\ p = LastQuad(b).id /\ w = "next"

\* It leads into the arm that begins with block b, or out of it.
ArmEnters(b, p, w) ==
    \/ b % 3 = 1 /\ p = LastQuad(b - 1).id /\ w = "true"
    \/ b % 3 = 2 /\ p = LastQuad(b - 2).id /\ w = "false"
ArmLeaves(b, p, w) == (code[b] = <<>> /\ ArmEnters(b, p, w)) \/ Ends(b, p, w)

\* It leads into any block, or out of it.
Enters(b, p, w) ==
    \/ b = 0 /\ p = Source!Start /\ w = "next"
    \/ ArmEnters(b, p, w)
    \/ b # 0 /\ b % 3 = 0 /\ (ArmLeaves(b - 2, p, w) \/ ArmLeaves(b - 1, p, w))
Leaves(b, p, w) == (code[b] = <<>> /\ Enters(b, p, w)) \/ Ends(b, p, w)

\* It leads to quad q.
Inside(p, w, q) ==
    \E b \in Block : \E i \in 1 .. Len(code[b]) - 1 :
        code[b][i].op = "OP" /\ p = code[b][i].id /\ w = "next" /\ q = code[b][i + 1].id
Follows(p, w, q) ==
    \/ \E b \in Block : code[b] # <<>> /\ Enters(b, p, w) /\ q = code[b][1].id
    \/ Inside(p, w, q)

\* Only blocks that end in a branch have been given its targets.
OnlyIfs == \A b \in Block : ~IsIf(b) => true_target_je[b] = NoBlock /\ false_target_je[b] = NoBlock

\* Without an if in an arm the blocks come in threes: every third one, but for
\* the last, ends in the branch to the two arms behind it.
IfsFlat ==
    /\ block_count % 3 = 1
    /\ \A a \in Block : IsIf(a) <=> a % 3 = 0 /\ a < LastBlock
    /\ \A a \in Block : IsIf(a) => /\ code[a] # <<>>
                                   /\ true_target_je[a] = a + 1 /\ false_target_je[a] = a + 2

\* Only arms are closed by a jump, to where they meet.
ArmsClosed ==
    /\ \A b \in Block : terminator[b] = "RET" => code[b] # <<>>
    /\ \A b \in Block : terminator[b] = "JMP" =>
           b % 3 # 0 /\ jmp_target[b] = IF b % 3 = 1 THEN b + 2 ELSE b + 1
    /\ \A b \in Block : b < LastBlock /\ (frames # <<>> => b < LastBlock - 3) =>
           /\ b % 3 = 1 => terminator[b] = "JMP"
           /\ b % 3 = 2 => terminator[b] \in {"JMP", "RET"}

\* Where the walk stands: in the last block, or in an arm of the last three.
Standing ==
    /\ terminator[current_block] \in {"TERMINATOR_NONE", "RET"}
    /\ \A b \in Block : b >= block_count => code[b] = <<>>
    /\ phase # "generate" => frames = <<>>
    /\ frames = <<>> => current_block = LastBlock /\ ifs = <<>>
    /\ frames # <<>> =>
           /\ Len(frames) = 1 /\ LastBlock >= 3
           /\ frames[1].then_bb = LastBlock - 2 /\ frames[1].else_bb = LastBlock - 1
           /\ frames[1].merge_bb = LastBlock
           /\ code[LastBlock] = <<>> /\ terminator[LastBlock] = "TERMINATOR_NONE"
           /\ frames[1].arm = "then" => /\ current_block = LastBlock - 2
                                        /\ code[LastBlock - 1] = <<>>
                                        /\ terminator[LastBlock - 1] = "TERMINATOR_NONE"
           /\ frames[1].arm = "else" => /\ current_block = LastBlock - 1
                                        /\ terminator[LastBlock - 2] = "JMP"

\* The points of the source are the quads.
Numbered ==
    /\ \A b \in Block : \A i \in 1 .. Len(code[b]) : code[b][i].id \in 1 .. quad_count
    /\ phase = "generate" => \A e \in flow : e[3] \in 1 .. quad_count

\* The source may go from p to q if the blocks may and it can come to p.
FlowIs ==
    /\ \A e \in flow : e = <<e[1], e[2], e[3]>>
    /\ \A p, w, q : <<p, w, q>> \in flow <=>
           /\ p \in Reached
           /\ \/ Follows(p, w, q)
              \/ phase # "generate" /\ q = Source!End /\ Leaves(LastBlock, p, w)

\* What leads on in the source is what leads out of the current block; what
\* waits for the end of an if, what leads into or out of its arms.
LooseIs ==
    phase = "generate" =>
        /\ \A l \in loose : l = <<l[1], l[2]>>
        /\ \A p, w : <<p, w>> \in loose <=> p \in Reached /\ Leaves(current_block, p, w)

WaitIs ==
    frames # <<>> =>
        \E otherwise, leaving :
            /\ ifs = <<[otherwise |-> otherwise, leaving |-> leaving]>>
            /\ frames[1].arm = "then" =>
                  /\ \A l \in otherwise : l = <<l[1], l[2]>>
                  /\ \A p, w : <<p, w>> \in otherwise <=> p \in Reached /\ ArmEnters(LastBlock - 1, p, w)
            /\ frames[1].arm = "else" =>
                  /\ \A l \in leaving : l = <<l[1], l[2]>>
                  /\ \A p, w : <<p, w>> \in leaving <=> p \in Reached /\ ArmLeaves(LastBlock - 2, p, w)

Flat == IfsFlat /\ ArmsClosed /\ Standing /\ FlowIs /\ LooseIs /\ WaitIs

MeaningInv == OnlyIfs /\ Numbered /\ (IfInArm \/ Flat)

-----------------------------------------------------------------------------

\* Quads and branches once there are not taken away.
LEMMA StepGrows ==
    ASSUME IInv, [Next]_vars
    PROVE  /\ \A b \in Block : \A i \in 1 .. Len(code[b]) :
                  i \in 1 .. Len(code'[b]) /\ code'[b][i] = code[b][i]
           /\ \A b \in Block : IsIf(b) => /\ IsIf(b)' /\ true_target_je'[b] = true_target_je[b]
                                          /\ false_target_je'[b] = false_target_je[b]
           /\ OnlyIfs => OnlyIfs'
  <1>1. CASE GenStatement \/ GenReturn \/ EnterIf
    <2>1. PICK operation \in {"OP", "RET", "JE"} : AppendQuad(current_block, operation)
      BY <1>1 DEF GenStatement, GenReturn, EnterIf
    <2>2. /\ code' \in [Block -> Seq(Quad)]
          /\ \A b \in Block \ {current_block} : code'[b] = code[b]
          /\ Len(code'[current_block]) = Len(code[current_block]) + 1
          /\ Len(code[current_block]) \in Nat
          /\ \A i \in 1 .. Len(code[current_block]) :
                  code'[current_block][i] = code[current_block][i]
      BY <2>1, AppendFacts DEF IInv
    <2>3. ASSUME NEW b \in Block, NEW i \in 1 .. Len(code[b])
          PROVE  i \in 1 .. Len(code'[b]) /\ code'[b][i] = code[b][i]
      BY <2>2, <2>3
    <2>4. phase = "generate" /\ ~IsIf(current_block)
      BY <1>1 DEF GenStatement, GenReturn, EnterIf, IInv, CurrentOpen, IsIf
    <2>5. /\ terminator \in [Block -> Terminators]
          /\ true_target_je \in [Block -> Block \cup {NoBlock}]
          /\ false_target_je \in [Block -> Block \cup {NoBlock}]
      BY DEF IInv, TypeOK
    <2>6. \/ /\ UNCHANGED <<true_target_je, false_target_je>>
             /\ terminator' = terminator \/ terminator' = [terminator EXCEPT ![current_block] = "RET"]
          \/ /\ terminator' = [terminator EXCEPT ![current_block] = "JE"]
             /\ true_target_je' = [true_target_je EXCEPT ![current_block] = block_count]
             /\ false_target_je' = [false_target_je EXCEPT ![current_block] = block_count + 1]
      BY <1>1 DEF GenStatement, GenReturn, EnterIf
    <2>7. \A b \in Block : IsIf(b) => /\ IsIf(b)' /\ true_target_je'[b] = true_target_je[b]
                                      /\ false_target_je'[b] = false_target_je[b]
      BY <2>4, <2>5, <2>6 DEF IsIf
    <2>8. OnlyIfs => OnlyIfs'
      BY <2>4, <2>5, <2>6 DEF OnlyIfs, IsIf
    <2> QED BY <2>3, <2>7, <2>8
  <1>2. CASE LeaveThen \/ LeaveElse
    <2>1. frames # <<>> /\ CloseArm(Last(frames))
          /\ UNCHANGED <<block_count, code, true_target_je, false_target_je>>
      BY <1>2 DEF LeaveThen, LeaveElse
    <2>2. \A b \in Block : IsIf(b)' <=> IsIf(b)
      BY <2>1, CloseArmFacts DEF IsIf
    <2> QED BY <2>1, <2>2 DEF OnlyIfs
  <1>3. CASE GenEnd \/ BuildBlock \/ BuildEnd \/ UNCHANGED vars
    <2>1. UNCHANGED <<code, terminator, true_target_je, false_target_je>>
      BY <1>3 DEF GenEnd, BuildBlock, BuildEnd, vars, genVars
    <2> QED BY <2>1 DEF IsIf, OnlyIfs
  <1> QED BY <1>1, <1>2, <1>3 DEF Next

\* An if that stands in an arm stays there.
LEMMA IfInArmKept ==
    ASSUME IInv, OnlyIfs, [Next]_vars, IfInArm
    PROVE  IfInArm'
  <1>1. PICK b \in Block, c \in Block :
            c \in {true_target_je[b], false_target_je[b]} /\ \E q \in Range(code[c]) : q.op = "JE"
    BY DEF IfInArm
  <1>2. code[c] \in Seq(Quad) /\ DOMAIN code[c] = 1 .. Len(code[c])
    <2>1. code \in [Block -> Seq(Quad)]
      BY DEF IInv, TypeOK, Quad
    <2> QED BY <2>1
  <1>3. PICK i \in 1 .. Len(code[c]) : code[c][i].op = "JE"
    BY <1>1, <1>2 DEF Range
  <1>4. IsIf(b)
    <2>1. NoBlock \notin Block
      BY BoundsAssumption DEF NoBlock, Block
    <2> QED BY <1>1, <2>1 DEF OnlyIfs
  <1>5. c \in {true_target_je'[b], false_target_je'[b]}
    BY <1>1, <1>4, StepGrows
  <1>6. i \in 1 .. Len(code'[c]) /\ code'[c][i].op = "JE"
    BY <1>3, StepGrows
  <1>7. DOMAIN code'[c] = 1 .. Len(code'[c])
    <2>1. code' \in [Block -> Seq(Quad)]
      <3>1. IInv'
        BY InductiveStep
      <3> QED BY <3>1 DEF IInv, TypeOK, Quad
    <2> QED BY <2>1
  <1>8. code'[c][i] \in Range(code'[c])
    BY <1>6, <1>7 DEF Range
  <1> QED BY <1>5, <1>6, <1>8 DEF IfInArm

\* Where the walk is and how many blocks and points there are, without an if in an arm.
LEMMA FlatFacts ==
    ASSUME IInv, Flat
    PROVE  /\ block_count \in Nat /\ LastBlock \in Nat /\ LastBlock \in Block
           /\ block_count = LastBlock + 1 /\ LastBlock % 3 = 0
           /\ Block \subseteq Nat /\ \A b \in Nat : b <= LastBlock => b \in Block
           /\ current_block \in Block /\ current_block <= LastBlock /\ ~IsIf(current_block)
           /\ \/ frames = <<>> /\ current_block = LastBlock
              \/ /\ frames # <<>> /\ LastBlock >= 3
                 /\ current_block = LastBlock - 2 \/ current_block = LastBlock - 1
           /\ MaxQuads \in Nat /\ quad_count \in Nat /\ quad_count <= MaxQuads
  <1>1. /\ block_count \in Nat \ {0} /\ block_count <= MaxBlocks /\ Block \subseteq Nat
        /\ current_block \in Block /\ current_block < block_count
        /\ \A b \in 0 .. block_count - 1 : b \in Block
    <2>1. TypeOK
      BY DEF IInv
    <2>2. block_count \in Nat \ {0}
      BY <2>1, BlockFacts DEF TypeOK
    <2> QED BY <2>1, <2>2, BlockFacts
  <1>2. /\ LastBlock \in Nat /\ LastBlock \in Block /\ block_count = LastBlock + 1
        /\ LastBlock % 3 = 0
    BY <1>1 DEF LastBlock, Flat, IfsFlat
  <1>3. MaxQuads \in Nat /\ quad_count \in Nat /\ quad_count <= MaxQuads
    BY BoundsAssumption DEF IInv, TypeOK
  <1>4. \/ frames = <<>> /\ current_block = LastBlock
        \/ /\ frames # <<>> /\ LastBlock >= 3
           /\ current_block = LastBlock - 2 \/ current_block = LastBlock - 1
    <2>1. CASE frames = <<>>
      BY <2>1 DEF Flat, Standing
    <2>2. CASE frames # <<>>
      <3>1. Len(frames) = 1 /\ LastBlock >= 3
        BY <2>2 DEF Flat, Standing
      <3>2. frames[1].arm \in {"then", "else"}
        BY <3>1, FrameFacts DEF IInv
      <3> QED BY <2>2, <3>1, <3>2 DEF Flat, Standing
    <2> QED BY <2>1, <2>2
  <1>5. ~IsIf(current_block)
    BY DEF Flat, Standing, IsIf
  <1> QED BY <1>1, <1>2, <1>3, <1>4, <1>5

\* Blocks of the function and their quads.
LEMMA CodeFacts ==
    ASSUME IInv, NEW b \in Block
    PROVE  /\ code[b] \in Seq(Quad) /\ Len(code[b]) \in Nat
           /\ code[b] = <<>> <=> Len(code[b]) = 0
           /\ \A i \in 1 .. Len(code[b]) : code[b][i] \in Quad
  <1>1. code \in [Block -> Seq(Quad)]
    BY DEF IInv, TypeOK, Quad
  <1> QED BY <1>1

\* A port that leads anywhere belongs to a quad there is, or to the start.
LEMMA PortsNumbered ==
    ASSUME IInv, Flat, Numbered
    PROVE  /\ \A b \in Block : \A p, w : Ends(b, p, w) => p \in 1 .. quad_count
           /\ \A b \in Block : \A p, w : b <= LastBlock /\ ArmEnters(b, p, w) => p \in 1 .. quad_count
           /\ \A b \in Block : \A p, w : b <= LastBlock /\ ArmLeaves(b, p, w) => p \in 1 .. quad_count
           /\ \A b \in Block : \A p, w : b <= LastBlock /\ Enters(b, p, w) => p \in 0 .. quad_count
           /\ \A b \in Block : \A p, w : b <= LastBlock /\ Leaves(b, p, w) => p \in 0 .. quad_count
           /\ \A p, w, q : Follows(p, w, q) => p \in 0 .. quad_count /\ q \in 1 .. quad_count
  <1>0. /\ LastBlock \in Nat /\ LastBlock % 3 = 0 /\ Block \subseteq Nat
        /\ \A b \in Nat : b <= LastBlock => b \in Block
        /\ block_count = LastBlock + 1 /\ quad_count \in Nat
    BY FlatFacts
  <1>1. ASSUME NEW b \in Block, code[b] # <<>>
        PROVE  LastQuad(b).id \in 1 .. quad_count /\ code[b][1].id \in 1 .. quad_count
    <2>1. Len(code[b]) \in 1 .. Len(code[b]) /\ 1 \in 1 .. Len(code[b])
      BY <1>1, CodeFacts
    <2> QED BY <2>1 DEF Numbered, LastQuad
  <1>2. \A b \in Block : \A p, w : Ends(b, p, w) => p \in 1 .. quad_count
    BY <1>1 DEF Ends
  <1>3. ASSUME NEW b \in Block, NEW p, NEW w, b <= LastBlock, ArmEnters(b, p, w)
        PROVE  p \in 1 .. quad_count
    <2>1. CASE b % 3 = 1 /\ p = LastQuad(b - 1).id
      <3>1. b - 1 \in Block /\ (b - 1) % 3 = 0 /\ b - 1 < LastBlock
        BY <1>0, <1>3, <2>1
      <3>2. code[b - 1] # <<>>
        BY <3>1 DEF Flat, IfsFlat
      <3> QED BY <1>1, <2>1, <3>1, <3>2
    <2>2. CASE b % 3 = 2 /\ p = LastQuad(b - 2).id
      <3>1. b - 2 \in Block /\ (b - 2) % 3 = 0 /\ b - 2 < LastBlock
        BY <1>0, <1>3, <2>2
      <3>2. code[b - 2] # <<>>
        BY <3>1 DEF Flat, IfsFlat
      <3> QED BY <1>1, <2>2, <3>1, <3>2
    <2> QED BY <1>3, <2>1, <2>2 DEF ArmEnters
  <1>4. \A b \in Block : \A p, w : b <= LastBlock /\ ArmLeaves(b, p, w) => p \in 1 .. quad_count
    BY <1>2, <1>3 DEF ArmLeaves
  <1>5. ASSUME NEW b \in Block, NEW p, NEW w, b <= LastBlock, Enters(b, p, w)
        PROVE  p \in 0 .. quad_count
    <2>1. CASE p = Source!Start
      BY <1>0, <2>1 DEF Source!Start
    <2>2. CASE ArmEnters(b, p, w)
      BY <1>0, <1>3, <1>5, <2>2
    <2>3. CASE b # 0 /\ b % 3 = 0 /\ (ArmLeaves(b - 2, p, w) \/ ArmLeaves(b - 1, p, w))
      <3>1. b - 2 \in Block /\ b - 1 \in Block /\ b - 2 <= LastBlock /\ b - 1 <= LastBlock
        BY <1>0, <1>5, <2>3
      <3>2. p \in 1 .. quad_count
        BY <1>4, <2>3, <3>1
      <3> QED BY <1>0, <3>2
    <2> QED BY <1>5, <2>1, <2>2, <2>3 DEF Enters
  <1>6. \A b \in Block : \A p, w : b <= LastBlock /\ Leaves(b, p, w) => p \in 0 .. quad_count
    BY <1>0, <1>2, <1>5 DEF Leaves
  <1>7. ASSUME NEW p, NEW w, NEW q, Follows(p, w, q)
        PROVE  p \in 0 .. quad_count /\ q \in 1 .. quad_count
    <2>1. CASE \E b \in Block : code[b] # <<>> /\ Enters(b, p, w) /\ q = code[b][1].id
      <3>1. PICK b \in Block : code[b] # <<>> /\ Enters(b, p, w) /\ q = code[b][1].id
        BY <2>1
      <3>2. b <= LastBlock
        BY <1>0, <3>1 DEF Flat, Standing
      <3> QED BY <1>0, <1>1, <1>5, <3>1, <3>2
    <2>2. CASE Inside(p, w, q)
      <3>1. PICK b \in Block : \E i \in 1 .. Len(code[b]) - 1 :
                p = code[b][i].id /\ q = code[b][i + 1].id
        BY <2>2 DEF Inside
      <3>2. PICK i \in 1 .. Len(code[b]) - 1 : p = code[b][i].id /\ q = code[b][i + 1].id
        BY <3>1
      <3>3. i \in 1 .. Len(code[b]) /\ i + 1 \in 1 .. Len(code[b])
        BY <3>2, CodeFacts
      <3>4. code[b][i].id \in 1 .. quad_count /\ code[b][i + 1].id \in 1 .. quad_count
        BY <3>3 DEF Numbered
      <3> QED BY <1>0, <3>2, <3>4
    <2> QED BY <1>7, <2>1, <2>2 DEF Follows
  <1> QED BY <1>2, <1>3, <1>4, <1>5, <1>6, <1>7

-----------------------------------------------------------------------------
(* A quad behind the current block *)

\* What quads a step leaves that appends one to the current block.
LEMMA AppendedCode ==
    ASSUME IInv, NEW operation \in {"OP", "RET", "JE"}, AppendQuad(current_block, operation)
    PROVE  /\ quad_count' = quad_count + 1
           /\ \A b \in Block : b # current_block => code'[b] = code[b]
           /\ Len(code'[current_block]) = Len(code[current_block]) + 1
           /\ Len(code[current_block]) \in Nat /\ code'[current_block] # <<>>
           /\ code'[current_block][Len(code[current_block]) + 1].op = operation
           /\ code'[current_block][Len(code[current_block]) + 1].id = quad_count + 1
           /\ \A i \in 1 .. Len(code[current_block]) :
                  code'[current_block][i] = code[current_block][i]
  <1> DEFINE q == [op |-> operation, id |-> quad_count + 1]
  <1>1. current_block \in Block /\ code[current_block] \in Seq(Quad)
    <2>1. current_block \in Block
      BY BlockFacts DEF IInv
    <2> QED BY <2>1, CodeFacts
  <1>2. code' = [code EXCEPT ![current_block] = Append(code[current_block], q)]
        /\ quad_count' = quad_count + 1
    BY DEF AppendQuad
  <1>3. q.op = operation /\ q.id = quad_count + 1
    OBVIOUS
  <1> HIDE DEF q
  <1>4. code'[current_block] = Append(code[current_block], q)
        /\ \A b \in Block : b # current_block => code'[b] = code[b]
    <2>1. code \in [Block -> Seq(Quad)]
      BY DEF IInv, TypeOK, Quad
    <2> QED BY <1>1, <1>2, <2>1
  <1>5. /\ Len(Append(code[current_block], q)) = Len(code[current_block]) + 1
        /\ Append(code[current_block], q)[Len(code[current_block]) + 1] = q
        /\ \A i \in 1 .. Len(code[current_block]) :
               Append(code[current_block], q)[i] = code[current_block][i]
        /\ Len(code[current_block]) \in Nat
    BY <1>1
  <1>6. code'[current_block] # <<>>
    BY <1>4, <1>5
  <1> QED BY <1>2, <1>3, <1>4, <1>5, <1>6

\* It takes the place of the last quad of its block and changes no other way
\* into a block that holds quads.
LEMMA AppendPorts ==
    ASSUME IInv, Flat, NEW operation \in {"OP", "RET", "JE"}, AppendQuad(current_block, operation),
           NEW c, c = current_block
    PROVE  /\ \A p, w : Ends(c, p, w)' <=> operation = "OP" /\ p = quad_count + 1 /\ w = "next"
           /\ LastQuad(c)'.id = quad_count + 1
           /\ \A b \in Block : \A p, w : b # c => (Ends(b, p, w)' <=> Ends(b, p, w))
           /\ \A b \in Block : \A p, w : b <= LastBlock => (ArmEnters(b, p, w)' <=> ArmEnters(b, p, w))
           /\ \A b \in Block : \A p, w : b <= LastBlock /\ b # c =>
                  (ArmLeaves(b, p, w)' <=> ArmLeaves(b, p, w))
           /\ \A b \in Block : \A p, w : b <= LastBlock /\ code'[b] # <<>> =>
                  (Enters(b, p, w)' <=> Enters(b, p, w))
  <1>0. /\ LastBlock \in Nat /\ LastBlock % 3 = 0 /\ Block \subseteq Nat
        /\ \A b \in Nat : b <= LastBlock => b \in Block
        /\ c \in Block /\ c <= LastBlock /\ ~IsIf(c)
        /\ \/ frames = <<>> /\ c = LastBlock
           \/ frames # <<>> /\ LastBlock >= 3 /\ (c = LastBlock - 2 \/ c = LastBlock - 1)
    BY FlatFacts
  <1>1. /\ \A b \in Block : b # c => code'[b] = code[b]
        /\ Len(code'[c]) = Len(code[c]) + 1 /\ Len(code[c]) \in Nat /\ code'[c] # <<>>
        /\ code'[c][Len(code[c]) + 1].op = operation
        /\ code'[c][Len(code[c]) + 1].id = quad_count + 1
    BY AppendedCode
  <1>2. frames # <<>> => code[LastBlock] = <<>>
    BY DEF Flat, Standing
  <1>3. \A a \in Block : a % 3 = 0 /\ a < LastBlock => a # c
    BY <1>0 DEF Flat, IfsFlat
  <1>4. LastQuad(c)' = code'[c][Len(code[c]) + 1]
    BY <1>1 DEF LastQuad
  <1>5. \A p, w : Ends(c, p, w)' <=> operation = "OP" /\ p = quad_count + 1 /\ w = "next"
    BY <1>1, <1>4 DEF Ends
  <1>6. \A b \in Block : b # c => LastQuad(b)' = LastQuad(b)
    BY <1>1 DEF LastQuad
  <1>7. \A b \in Block : \A p, w : b # c => (Ends(b, p, w)' <=> Ends(b, p, w))
    BY <1>1, <1>6 DEF Ends
  <1>8. ASSUME NEW b \in Block, NEW p, NEW w, b <= LastBlock
        PROVE  ArmEnters(b, p, w)' <=> ArmEnters(b, p, w)
    <2>1. CASE b % 3 = 0
      BY <2>1 DEF ArmEnters
    <2>2. CASE b % 3 = 1
      <3>1. b - 1 \in Block /\ b - 1 # c
        BY <1>0, <1>3, <1>8, <2>2
      <3> QED BY <1>6, <2>2, <3>1 DEF ArmEnters
    <2>3. CASE b % 3 = 2
      <3>1. b - 2 \in Block /\ b - 2 # c
        BY <1>0, <1>3, <1>8, <2>3
      <3> QED BY <1>6, <2>3, <3>1 DEF ArmEnters
    <2> QED BY <1>0, <2>1, <2>2, <2>3
  <1>9. \A b \in Block : \A p, w : b <= LastBlock /\ b # c => (ArmLeaves(b, p, w)' <=> ArmLeaves(b, p, w))
    BY <1>1, <1>7, <1>8 DEF ArmLeaves
  <1>10. ASSUME NEW b \in Block, NEW p, NEW w, b <= LastBlock, code'[b] # <<>>
         PROVE  Enters(b, p, w)' <=> Enters(b, p, w)
    <2>1. CASE b % 3 # 0 \/ b = 0
      BY <1>8, <1>10, <2>1 DEF Enters
    <2>2. CASE b % 3 = 0 /\ b # 0
      <3>1. /\ b - 2 \in Block /\ b - 2 <= LastBlock /\ b - 1 \in Block /\ b - 1 <= LastBlock
        BY <1>0, <1>10, <2>2
      <3>2. b - 2 # c /\ b - 1 # c
        <4>1. CASE b = LastBlock
          BY <1>0, <1>1, <1>2, <1>10, <4>1
        <4>2. CASE b # LastBlock
          BY <1>0, <1>10, <2>2, <4>2
        <4> QED BY <4>1, <4>2
      <3>3. /\ ArmLeaves(b - 2, p, w)' <=> ArmLeaves(b - 2, p, w)
            /\ ArmLeaves(b - 1, p, w)' <=> ArmLeaves(b - 1, p, w)
        BY <1>9, <3>1, <3>2
      <3> QED BY <1>8, <1>10, <3>3 DEF Enters
    <2> QED BY <2>1, <2>2
  <1> QED BY <1>1, <1>4, <1>5, <1>7, <1>8, <1>9, <1>10

\* It follows what leads out of the current block, and nothing else is changed.
LEMMA AppendFollows ==
    ASSUME IInv, Flat, NEW operation \in {"OP", "RET", "JE"}, AppendQuad(current_block, operation),
           NEW c, c = current_block, NEW p, NEW w, NEW q
    PROVE  Follows(p, w, q)' <=> Follows(p, w, q) \/ (q = quad_count + 1 /\ Leaves(c, p, w))
  <1> DEFINE n == Len(code[c])
  <1>0. /\ c \in Block /\ c <= LastBlock /\ block_count = LastBlock + 1 /\ LastBlock \in Nat
        /\ Block \subseteq Nat
    BY FlatFacts
  <1>1. /\ \A b \in Block : b # c => code'[b] = code[b]
        /\ Len(code'[c]) = n + 1 /\ n \in Nat /\ code'[c] # <<>>
        /\ code'[c][n + 1].id = quad_count + 1
        /\ \A i \in 1 .. n : code'[c][i] = code[c][i]
        /\ code[c] = <<>> <=> n = 0
    BY <1>0, AppendedCode, CodeFacts
  <1>2. \A b \in Block : ~(b <= LastBlock) => code[b] = <<>>
    <2>1. \A b \in Block : b >= block_count => code[b] = <<>>
      BY DEF Flat, Standing
    <2> QED BY <1>0, <2>1
  <1>3. \A b \in Block : b <= LastBlock /\ code'[b] # <<>> => (Enters(b, p, w)' <=> Enters(b, p, w))
    BY AppendPorts
  <1>4. \A b \in Block : \A i \in 1 .. Len(code[b]) - 1 : (i \in 1 .. n /\ i + 1 \in 1 .. n) \/ b # c
    BY <1>1
  <1>5. LastQuad(c) = code[c][n]
    BY DEF LastQuad
  <1>6. Ends(c, p, w) <=> n # 0 /\ code[c][n].op = "OP" /\ p = code[c][n].id /\ w = "next"
    BY <1>1, <1>5 DEF Ends
  <1> HIDE DEF n
  <1>7. ASSUME Follows(p, w, q)'
        PROVE  Follows(p, w, q) \/ (q = quad_count + 1 /\ Leaves(c, p, w))
    <2>1. ASSUME NEW b \in Block, code'[b] # <<>>, Enters(b, p, w)', q = code'[b][1].id
          PROVE  Follows(p, w, q) \/ (q = quad_count + 1 /\ Leaves(c, p, w))
      <3>1. b <= LastBlock
        BY <1>0, <1>1, <1>2, <2>1
      <3>2. Enters(b, p, w)
        BY <1>3, <2>1, <3>1
      <3>3. CASE b # c
        BY <1>1, <2>1, <3>2, <3>3 DEF Follows
      <3>4. CASE b = c /\ n # 0
        <4>1. code'[c][1] = code[c][1] /\ code[c] # <<>>
          BY <1>1, <3>4
        <4> QED BY <2>1, <3>2, <3>4, <4>1 DEF Follows
      <3>5. CASE b = c /\ n = 0
        <4>1. q = quad_count + 1 /\ code[c] = <<>>
          BY <1>1, <2>1, <3>5
        <4> QED BY <3>2, <3>5, <4>1 DEF Leaves
      <3> QED BY <3>3, <3>4, <3>5
    <2>2. ASSUME NEW b \in Block, NEW i \in 1 .. Len(code'[b]) - 1,
                 code'[b][i].op = "OP", p = code'[b][i].id, w = "next", q = code'[b][i + 1].id
          PROVE  Follows(p, w, q) \/ (q = quad_count + 1 /\ Leaves(c, p, w))
      <3>1. CASE b # c
        <4>1. Inside(p, w, q)
          BY <1>1, <2>2, <3>1 DEF Inside
        <4> QED BY <4>1 DEF Follows
      <3>2. CASE b = c /\ i # n
        <4>1. i \in 1 .. Len(code[c]) - 1 /\ i \in 1 .. n /\ i + 1 \in 1 .. n
          BY <1>1, <2>2, <3>2 DEF n
        <4>2. code'[c][i] = code[c][i] /\ code'[c][i + 1] = code[c][i + 1]
          BY <1>1, <4>1
        <4>3. Inside(p, w, q)
          BY <1>0, <2>2, <3>2, <4>1, <4>2 DEF Inside
        <4> QED BY <4>3 DEF Follows
      <3>3. CASE b = c /\ i = n
        <4>1. i \in 1 .. n /\ n # 0
          BY <1>1, <2>2, <3>3
        <4>2. Ends(c, p, w) /\ q = quad_count + 1
          BY <1>1, <1>6, <2>2, <3>3, <4>1
        <4> QED BY <4>2 DEF Leaves
      <3> QED BY <3>1, <3>2, <3>3
    <2>3. \/ \E b \in Block : code'[b] # <<>> /\ Enters(b, p, w)' /\ q = code'[b][1].id
          \/ \E b \in Block : \E i \in 1 .. Len(code'[b]) - 1 :
                 code'[b][i].op = "OP" /\ p = code'[b][i].id /\ w = "next" /\ q = code'[b][i + 1].id
      BY <1>7 DEF Follows, Inside
    <2> QED BY <2>1, <2>2, <2>3
  <1>8. ASSUME Follows(p, w, q) PROVE Follows(p, w, q)'
    <2>1. ASSUME NEW b \in Block, code[b] # <<>>, Enters(b, p, w), q = code[b][1].id
          PROVE  Follows(p, w, q)'
      <3>1. b <= LastBlock
        BY <1>2, <2>1
      <3>2. code'[b] # <<>> /\ code'[b][1] = code[b][1]
        BY <1>1, <2>1
      <3>3. Enters(b, p, w)'
        BY <1>3, <2>1, <3>1, <3>2
      <3> QED BY <2>1, <3>2, <3>3 DEF Follows
    <2>2. ASSUME NEW b \in Block, NEW i \in 1 .. Len(code[b]) - 1,
                 code[b][i].op = "OP", p = code[b][i].id, w = "next", q = code[b][i + 1].id
          PROVE  Follows(p, w, q)'
      <3>1. i \in 1 .. Len(code'[b]) - 1 /\ code'[b][i] = code[b][i] /\ code'[b][i + 1] = code[b][i + 1]
        <4>1. CASE b # c
          BY <1>1, <2>2, <4>1
        <4>2. CASE b = c
          BY <1>1, <1>4, <2>2, <4>2 DEF n
        <4> QED BY <4>1, <4>2
      <3>2. Inside(p, w, q)'
        BY <2>2, <3>1 DEF Inside
      <3> QED BY <3>2 DEF Follows
    <2> QED BY <1>8, <2>1, <2>2 DEF Follows, Inside
  <1>9. ASSUME q = quad_count + 1, Leaves(c, p, w) PROVE Follows(p, w, q)'
    <2>1. CASE code[c] = <<>> /\ Enters(c, p, w)
      <3>1. Enters(c, p, w)' /\ code'[c][1].id = q
        BY <1>0, <1>1, <1>3, <1>9, <2>1
      <3> QED BY <1>0, <1>1, <3>1 DEF Follows
    <2>2. CASE Ends(c, p, w)
      <3>1. n \in 1 .. Len(code'[c]) - 1 /\ code'[c][n] = code[c][n] /\ code'[c][n + 1].id = q
        <4>1. n \in 1 .. n /\ n \in 1 .. Len(code'[c]) - 1
          BY <1>1, <1>6, <2>2
        <4> QED BY <1>1, <1>9, <4>1
      <3>2. Inside(p, w, q)'
        BY <1>0, <1>6, <2>2, <3>1 DEF Inside
      <3> QED BY <3>2 DEF Follows
    <2> QED BY <1>9, <2>1, <2>2 DEF Leaves
  <1> QED BY <1>7, <1>8, <1>9

\* The source goes on to the quad from the ports that are loose.
LEMMA AppendFlow ==
    ASSUME IInv, Flat, Numbered, NEW operation \in {"OP", "RET", "JE"},
           AppendQuad(current_block, operation), phase = "generate", phase' = phase,
           flow' = flow \cup Source!Arrive(quad_count + 1)
    PROVE  /\ FlowIs'
           /\ quad_count + 1 \in Reached' <=> loose # {}
           /\ \A p \in 0 .. quad_count : p \in Reached' <=> p \in Reached
  <1> DEFINE n == quad_count + 1
  <1>0. quad_count \in Nat /\ n \in Nat /\ n \notin 0 .. quad_count
    BY FlatFacts
  <1>1. PICK c : c = current_block
    OBVIOUS
  <1>2. c \in Block /\ c <= LastBlock
    BY <1>1, FlatFacts
  <1>3. \A p, w, q : Follows(p, w, q)' <=> Follows(p, w, q) \/ (q = n /\ Leaves(c, p, w))
    BY <1>1, AppendFollows
  <1>4. /\ \A p, w : Leaves(c, p, w) => p \in 0 .. quad_count
        /\ \A p, w, q : Follows(p, w, q) => p \in 0 .. quad_count
    BY <1>2, PortsNumbered
  <1>5. /\ \A l \in loose : l = <<l[1], l[2]>>
        /\ \A p, w : <<p, w>> \in loose <=> p \in Reached /\ Leaves(c, p, w)
    BY <1>1 DEF Flat, LooseIs
  <1>6. /\ \A e \in flow : e = <<e[1], e[2], e[3]>>
        /\ \A p, w, q : <<p, w, q>> \in flow <=> p \in Reached /\ Follows(p, w, q)
    BY DEF Flat, FlowIs
  <1>7. Source!Arrive(n) = {<<l[1], l[2], n>> : l \in loose}
    BY DEF Source!Arrive
  <1>8. \A p, w, q : <<p, w, q>> \in Source!Arrive(n) <=> q = n /\ <<p, w>> \in loose
    <2>1. ASSUME NEW p, NEW w, NEW q, <<p, w, q>> \in Source!Arrive(n)
          PROVE  q = n /\ <<p, w>> \in loose
      <3>1. PICK l \in loose : <<p, w, q>> = <<l[1], l[2], n>>
        BY <1>7, <2>1
      <3>2. p = l[1] /\ w = l[2] /\ q = n
        BY <3>1
      <3>3. l = <<p, w>>
        BY <1>5, <3>2
      <3> QED BY <3>2, <3>3
    <2>2. ASSUME NEW p, NEW w, <<p, w>> \in loose
          PROVE  <<p, w, n>> \in Source!Arrive(n)
      <3>1. <<p, w>>[1] = p /\ <<p, w>>[2] = w
        OBVIOUS
      <3> QED BY <1>7, <2>2, <3>1
    <2> QED BY <2>1, <2>2
  <1>9. \A e \in Source!Arrive(n) : e = <<e[1], e[2], e[3]>> /\ e[3] = n
    BY <1>7
  <1>10. flow' = flow \cup Source!Arrive(n)
    OBVIOUS
  <1> HIDE DEF n
  <1>11. Reached' = Reached \cup (IF loose = {} THEN {} ELSE {n})
    <2>1. /\ Reached' = {Source!Start} \cup {e[3] : e \in flow'}
          /\ Reached = {Source!Start} \cup {e[3] : e \in flow}
      BY DEF Reached, Source!Start
    <2>2. {e[3] : e \in Source!Arrive(n)} = IF loose = {} THEN {} ELSE {n}
      <3>1. CASE loose = {}
        BY <1>7, <3>1
      <3>2. CASE loose # {}
        <4>1. PICK l \in loose : TRUE
          BY <3>2
        <4>2. <<l[1], l[2], n>> \in Source!Arrive(n)
          BY <1>7
        <4> QED BY <1>9, <3>2, <4>2
      <3> QED BY <3>1, <3>2
    <2>3. {e[3] : e \in flow'} = {e[3] : e \in flow} \cup {e[3] : e \in Source!Arrive(n)}
      BY <1>10
    <2> QED BY <2>1, <2>2, <2>3
  <1>12. n \notin Reached
    <2>1. \A e \in flow : e[3] # n
      BY <1>0 DEF Numbered
    <2>2. n # Source!Start
      BY <1>0 DEF Source!Start
    <2> QED BY <2>1, <2>2 DEF Reached
  <1>13. \A e \in flow' : e = <<e[1], e[2], e[3]>>
    BY <1>6, <1>9, <1>10
  <1>14. ASSUME NEW p, NEW w, NEW q
         PROVE  <<p, w, q>> \in flow' <=> p \in Reached' /\ Follows(p, w, q)'
    <2>1. CASE p \in 0 .. quad_count
      <3>1. p \in Reached' <=> p \in Reached
        BY <1>0, <1>11, <2>1
      <3>2. <<p, w, q>> \in flow' <=> <<p, w, q>> \in flow \/ (q = n /\ <<p, w>> \in loose)
        BY <1>8, <1>10
      <3>3. <<p, w, q>> \in flow <=> p \in Reached /\ Follows(p, w, q)
        BY <1>6
      <3>4. <<p, w>> \in loose <=> p \in Reached /\ Leaves(c, p, w)
        BY <1>5
      <3>5. Follows(p, w, q)' <=> Follows(p, w, q) \/ (q = n /\ Leaves(c, p, w))
        BY <1>3
      <3> QED BY <3>1, <3>2, <3>3, <3>4, <3>5
    <2>2. CASE p \notin 0 .. quad_count
      <3>1. ~Follows(p, w, q) /\ ~Leaves(c, p, w)
        BY <1>4, <2>2
      <3> QED BY <1>3, <1>5, <1>6, <1>8, <1>10, <3>1
    <2> QED BY <2>1, <2>2
  <1>15. FlowIs'
    BY <1>13, <1>14 DEF FlowIs
  <1>16. \A p \in 0 .. quad_count : p \in Reached' <=> p \in Reached
    BY <1>0, <1>11
  <1>17. n \in Reached' <=> loose # {}
    BY <1>11, <1>12
  <1> QED BY <1>15, <1>16, <1>17 DEF n

\* A statement or a return keeps the blocks and the source alike.
LEMMA StatementFlat ==
    ASSUME IInv, Flat, Numbered, GenStatement \/ GenReturn
    PROVE  Flat'
  <1> DEFINE n == quad_count + 1
  <1>1. PICK operation \in {"OP", "RET"} :
            /\ AppendQuad(current_block, operation)
            /\ flow' = flow \cup Source!Arrive(n)
            /\ \/ operation = "OP" /\ terminator' = terminator /\ loose' = Source!Port(n, "next")
               \/ /\ operation = "RET" /\ loose' = {}
                  /\ terminator' = [terminator EXCEPT ![current_block] = "RET"]
    BY DEF GenStatement, GenReturn, Source!Statement, Source!Return
  <1>2. /\ phase = "generate" /\ phase' = phase
        /\ UNCHANGED <<block_count, current_block, true_target_je, false_target_je, jmp_target,
                       frames, ifs>>
    BY DEF GenStatement, GenReturn, Source!Statement, Source!Return
  <1>3. PICK c, L : c = current_block /\ L = LastBlock
    OBVIOUS
  <1>4. current_block' = c /\ LastBlock' = L
    BY <1>2, <1>3 DEF LastBlock
  <1>5. /\ L \in Nat /\ L % 3 = 0 /\ Block \subseteq Nat /\ \A b \in Nat : b <= L => b \in Block
        /\ block_count = L + 1 /\ c \in Block /\ c <= L /\ ~IsIf(c)
        /\ \/ frames = <<>> /\ c = L
           \/ frames # <<>> /\ L >= 3 /\ (c = L - 2 \/ c = L - 1)
        /\ quad_count \in Nat
    BY <1>3, FlatFacts
  <1>6. /\ \A b \in Block : b # c => code'[b] = code[b]
        /\ code'[c] # <<>>
    BY <1>1, <1>3, AppendedCode
  <1>7. /\ \A b \in Block : b # c => terminator'[b] = terminator[b]
        /\ terminator'[c] \in {"TERMINATOR_NONE", "RET"}
    <2>1. terminator \in [Block -> Terminators] /\ terminator[c] \in {"TERMINATOR_NONE", "RET"}
      BY <1>3 DEF IInv, TypeOK, Flat, Standing
    <2> QED BY <1>1, <1>3, <1>5, <2>1
  <1>8. /\ FlowIs' /\ (n \in Reached' <=> loose # {})
        /\ \A p \in 0 .. quad_count : p \in Reached' <=> p \in Reached
    BY <1>1, <1>2, AppendFlow
  <1>9. IfsFlat'
    <2>1. \A b \in Block : IsIf(b)' <=> IsIf(b)
      BY <1>5, <1>7 DEF IsIf
    <2>2. \A b \in Block : IsIf(b) => code'[b] = code[b]
      BY <1>5, <1>6
    <2> QED BY <1>2, <1>3, <1>4, <2>1, <2>2 DEF Flat, IfsFlat
  <1>10. ArmsClosed'
    <2>1. \A b \in Block : terminator'[b] = "RET" => code'[b] # <<>>
      BY <1>6, <1>7 DEF Flat, ArmsClosed
    <2>2. \A b \in Block : terminator'[b] = "JMP" =>
              b % 3 # 0 /\ jmp_target'[b] = IF b % 3 = 1 THEN b + 2 ELSE b + 1
      BY <1>2, <1>7 DEF Flat, ArmsClosed
    <2>3. \A b \in Block : b < L /\ (frames # <<>> => b < L - 3) =>
              /\ b % 3 = 1 => terminator'[b] = "JMP"
              /\ b % 3 = 2 => terminator'[b] \in {"JMP", "RET"}
      <3>1. \A b \in Block : b < L /\ (frames # <<>> => b < L - 3) => b # c
        BY <1>5
      <3> QED BY <1>3, <1>7, <3>1 DEF Flat, ArmsClosed
    <2> QED BY <1>2, <1>4, <2>1, <2>2, <2>3 DEF ArmsClosed
  <1>11. Standing'
    <2>1. \A b \in Block : b >= block_count => code'[b] = <<>>
      BY <1>5, <1>6 DEF Flat, Standing
    <2>2. CASE frames = <<>>
      BY <1>2, <1>3, <1>4, <1>7, <2>1, <2>2 DEF Flat, Standing
    <2>3. CASE frames # <<>>
      <3>1. L \in Block /\ L - 1 \in Block /\ L - 2 \in Block /\ L # c
        BY <1>5, <2>3
      <3>2. frames[1].arm = "then" => c # L - 1
        BY <1>3, <1>5, <2>3 DEF Flat, Standing
      <3>3. frames[1].arm = "else" => c # L - 2
        BY <1>3, <1>5, <2>3 DEF Flat, Standing
      <3> QED BY <1>2, <1>3, <1>4, <1>6, <1>7, <2>1, <2>3, <3>1, <3>2, <3>3 DEF Flat, Standing
    <2> QED BY <2>2, <2>3
  <1>12. LooseIs'
    <2>1. \A p, w : Leaves(c, p, w)' <=> operation = "OP" /\ p = n /\ w = "next"
      <3>1. \A p, w : Ends(c, p, w)' <=> operation = "OP" /\ p = n /\ w = "next"
        BY <1>1, <1>3, AppendPorts
      <3> QED BY <1>6, <3>1 DEF Leaves
    <2>2. /\ \A l \in loose' : l = <<l[1], l[2]>>
          /\ \A p, w : <<p, w>> \in loose' <=>
                 loose # {} /\ operation = "OP" /\ p = n /\ w = "next"
      BY <1>1 DEF Source!Port
    <2> HIDE DEF n
    <2>3. \A p, w : <<p, w>> \in loose' <=> p \in Reached' /\ Leaves(c, p, w)'
      <3> SUFFICES ASSUME NEW p, NEW w
                   PROVE  <<p, w>> \in loose' <=> p \in Reached' /\ Leaves(c, p, w)'
        OBVIOUS
      <3>1. <<p, w>> \in loose' <=> loose # {} /\ operation = "OP" /\ p = n /\ w = "next"
        BY <2>2
      <3>2. Leaves(c, p, w)' <=> operation = "OP" /\ p = n /\ w = "next"
        BY <2>1
      <3> QED BY <1>8, <3>1, <3>2
    <2> QED BY <1>4, <2>2, <2>3 DEF LooseIs
  <1>13. WaitIs'
    <2> SUFFICES ASSUME frames # <<>> PROVE WaitIs'
      BY <1>2 DEF WaitIs
    <2>1. PICK otherwise, leaving :
              /\ ifs = <<[otherwise |-> otherwise, leaving |-> leaving]>>
              /\ frames[1].arm = "then" =>
                    /\ \A l \in otherwise : l = <<l[1], l[2]>>
                    /\ \A p, w : <<p, w>> \in otherwise <=> p \in Reached /\ ArmEnters(L - 1, p, w)
              /\ frames[1].arm = "else" =>
                    /\ \A l \in leaving : l = <<l[1], l[2]>>
                    /\ \A p, w : <<p, w>> \in leaving <=> p \in Reached /\ ArmLeaves(L - 2, p, w)
      BY <1>3 DEF Flat, WaitIs
    <2>2. L - 1 \in Block /\ L - 1 <= L /\ L - 2 \in Block /\ L - 2 <= L
      BY <1>5
    <2>3. \A p, w : p \in Reached /\ ArmEnters(L - 1, p, w) <=> p \in Reached' /\ ArmEnters(L - 1, p, w)'
      <3>1. \A p, w : ArmEnters(L - 1, p, w)' <=> ArmEnters(L - 1, p, w)
        BY <1>1, <1>3, <2>2, AppendPorts
      <3>2. \A p, w : ArmEnters(L - 1, p, w) => p \in 0 .. quad_count
        BY <1>3, <1>5, <2>2, PortsNumbered
      <3> QED BY <1>8, <3>1, <3>2
    <2>4. frames[1].arm = "else" =>
              \A p, w : p \in Reached /\ ArmLeaves(L - 2, p, w)
                           <=> p \in Reached' /\ ArmLeaves(L - 2, p, w)'
      <3> SUFFICES ASSUME frames[1].arm = "else", NEW p, NEW w
                   PROVE  p \in Reached /\ ArmLeaves(L - 2, p, w)
                              <=> p \in Reached' /\ ArmLeaves(L - 2, p, w)'
        OBVIOUS
      <3>1. L - 2 # c
        BY <1>3, <1>5 DEF Flat, Standing
      <3>2. ArmLeaves(L - 2, p, w)' <=> ArmLeaves(L - 2, p, w)
        BY <1>1, <1>3, <2>2, <3>1, AppendPorts
      <3>3. ArmLeaves(L - 2, p, w) => p \in 0 .. quad_count
        BY <1>3, <1>5, <2>2, PortsNumbered
      <3> QED BY <1>8, <3>2, <3>3
    <2>5. /\ ifs' = <<[otherwise |-> otherwise, leaving |-> leaving]>>
          /\ frames'[1].arm = "then" =>
                /\ \A l \in otherwise : l = <<l[1], l[2]>>
                /\ \A p, w : <<p, w>> \in otherwise <=> p \in Reached' /\ ArmEnters(L - 1, p, w)'
          /\ frames'[1].arm = "else" =>
                /\ \A l \in leaving : l = <<l[1], l[2]>>
                /\ \A p, w : <<p, w>> \in leaving <=> p \in Reached' /\ ArmLeaves(L - 2, p, w)'
      BY <1>2, <2>1, <2>3, <2>4
    <2> QED BY <1>4, <2>5 DEF WaitIs
  <1> QED BY <1>8, <1>9, <1>10, <1>11, <1>12, <1>13 DEF Flat

\* An if that begins outside every arm does, with the three blocks it allocates.
LEMMA EnterIfFlat ==
    ASSUME IInv, Flat, Numbered, EnterIf, ~IfInArm', IInv'
    PROVE  Flat'
  <1> DEFINE n == quad_count + 1
  <1>1. /\ AppendQuad(current_block, "JE")
        /\ phase = "generate" /\ phase' = phase
        /\ terminator' = [terminator EXCEPT ![current_block] = "JE"]
        /\ true_target_je' = [true_target_je EXCEPT ![current_block] = block_count]
        /\ false_target_je' = [false_target_je EXCEPT ![current_block] = block_count + 1]
        /\ block_count + 3 <= MaxBlocks
        /\ block_count' = block_count + 3 /\ current_block' = block_count
        /\ frames' = Append(frames, [then_bb |-> block_count, else_bb |-> block_count + 1,
                                     merge_bb |-> block_count + 2, arm |-> "then"])
        /\ jmp_target' = jmp_target
    BY DEF EnterIf
  <1>2. /\ flow' = flow \cup Source!Arrive(n)
        /\ loose' = Source!Port(n, "true")
        /\ ifs' = Append(ifs, [otherwise |-> Source!Port(n, "false"), leaving |-> {}])
    BY DEF EnterIf, Source!If
  <1>3. PICK c, L : c = current_block /\ L = LastBlock
    OBVIOUS
  <1>4. /\ L \in Nat /\ L % 3 = 0 /\ Block \subseteq Nat /\ \A b \in Nat : b <= L => b \in Block
        /\ block_count = L + 1 /\ c \in Block /\ c <= L /\ ~IsIf(c) /\ L \in Block
        /\ \/ frames = <<>> /\ c = L
           \/ frames # <<>> /\ L >= 3 /\ (c = L - 2 \/ c = L - 1)
        /\ quad_count \in Nat
    BY <1>3, FlatFacts
  <1>5. /\ \A b \in Block : b # c => code'[b] = code[b]
        /\ code'[c] # <<>>
        /\ Len(code'[c]) = Len(code[c]) + 1 /\ Len(code[c]) \in Nat
        /\ code'[c][Len(code[c]) + 1].op = "JE"
    BY <1>1, <1>3, AppendedCode
  <1>6. \A b \in Block : /\ terminator'[b] = IF b = c THEN "JE" ELSE terminator[b]
                         /\ true_target_je'[b] = IF b = c THEN L + 1 ELSE true_target_je[b]
                         /\ false_target_je'[b] = IF b = c THEN L + 2 ELSE false_target_je[b]
    BY <1>1, <1>3, <1>4 DEF IInv, TypeOK
  \* An if in an arm is excluded, so this one stands in the last block.
  <1>7. frames = <<>> /\ c = L
    <2> SUFFICES ASSUME frames # <<>> PROVE FALSE
      BY <1>4
    <2>1. /\ L - 3 \in Block /\ (L - 3) % 3 = 0 /\ L - 3 < L /\ L - 3 # c
          /\ c = (L - 3) + 1 \/ c = (L - 3) + 2
      BY <1>4
    <2>2. true_target_je[L - 3] = (L - 3) + 1 /\ false_target_je[L - 3] = (L - 3) + 2
      BY <1>3, <2>1 DEF Flat, IfsFlat
    <2>3. c \in {true_target_je'[L - 3], false_target_je'[L - 3]}
      BY <1>6, <2>1, <2>2
    <2>4. code'[c] \in Seq(Quad)
      <3>1. code' \in [Block -> Seq(Quad)]
        BY DEF IInv, TypeOK, Quad
      <3> QED BY <1>4, <3>1
    <2>5. code'[c][Len(code[c]) + 1] \in Range(code'[c])
      <3>1. DOMAIN code'[c] = 1 .. Len(code'[c])
        BY <2>4
      <3>2. Len(code[c]) + 1 \in DOMAIN code'[c]
        BY <1>5, <3>1
      <3> QED BY <3>2 DEF Range
    <2> QED BY <1>4, <1>5, <2>1, <2>3, <2>5 DEF IfInArm
  <1>8. /\ current_block' = L + 1 /\ LastBlock' = L + 3 /\ block_count' = L + 4
        /\ L + 1 \in Block /\ L + 2 \in Block /\ L + 3 \in Block
    <2>1. block_count' = L + 4 /\ L + 4 <= MaxBlocks
      BY <1>1, <1>4
    <2>2. MaxBlocks \in Nat
      BY BoundsAssumption
    <2> QED BY <1>1, <1>4, <2>1, <2>2 DEF LastBlock, Block
  <1>9. /\ code'[L + 1] = <<>> /\ code'[L + 2] = <<>> /\ code'[L + 3] = <<>>
        /\ terminator'[L + 1] = "TERMINATOR_NONE" /\ terminator'[L + 2] = "TERMINATOR_NONE"
        /\ terminator'[L + 3] = "TERMINATOR_NONE"
    <2>1. \A b \in Block : b >= block_count => code[b] = <<>>
      BY DEF Flat, Standing
    <2>2. \A b \in Block : b >= block_count => terminator[b] = "TERMINATOR_NONE"
      BY DEF IInv, Fresh
    <2>3. L + 1 >= block_count /\ L + 2 >= block_count /\ L + 3 >= block_count
          /\ L + 1 # c /\ L + 2 # c /\ L + 3 # c
      BY <1>4
    <2> QED BY <1>5, <1>6, <1>8, <2>1, <2>2, <2>3
  <1>10. /\ frames' # <<>> /\ Len(frames') = 1
         /\ frames'[1].then_bb = L + 1 /\ frames'[1].else_bb = L + 2
         /\ frames'[1].merge_bb = L + 3 /\ frames'[1].arm = "then"
    <2>1. frames' = <<[then_bb |-> block_count, else_bb |-> block_count + 1,
                       merge_bb |-> block_count + 2, arm |-> "then"]>>
      BY <1>1, <1>7
    <2> QED BY <1>4, <2>1
  <1>11. /\ FlowIs' /\ (n \in Reached' <=> loose # {})
         /\ \A p \in 0 .. quad_count : p \in Reached' <=> p \in Reached
    BY <1>1, <1>2, AppendFlow
  <1>12. IfsFlat'
    <2>1. block_count' % 3 = 1
      BY <1>4, <1>8
    <2>2. ASSUME NEW a \in Block PROVE IsIf(a)' <=> a % 3 = 0 /\ a < L + 3
      <3>1. IsIf(a) <=> a % 3 = 0 /\ a < L
        BY <1>3 DEF Flat, IfsFlat
      <3> QED BY <1>4, <1>6, <1>7, <3>1 DEF IsIf
    <2>3. ASSUME NEW a \in Block, IsIf(a)'
          PROVE  code'[a] # <<>> /\ true_target_je'[a] = a + 1 /\ false_target_je'[a] = a + 2
      <3>1. CASE a = c
        BY <1>4, <1>5, <1>6, <1>7, <3>1
      <3>2. CASE a # c
        <4>1. IsIf(a)
          BY <1>6, <2>3, <3>2 DEF IsIf
        <4>2. code[a] # <<>> /\ true_target_je[a] = a + 1 /\ false_target_je[a] = a + 2
          BY <4>1 DEF Flat, IfsFlat
        <4> QED BY <1>5, <1>6, <3>2, <4>2
      <3> QED BY <3>1, <3>2
    <2> QED BY <1>8, <2>1, <2>2, <2>3 DEF IfsFlat
  <1>13. ArmsClosed'
    <2>1. \A b \in Block : terminator'[b] = "RET" => code'[b] # <<>>
      BY <1>5, <1>6 DEF Flat, ArmsClosed
    <2>2. \A b \in Block : terminator'[b] = "JMP" =>
              b % 3 # 0 /\ jmp_target'[b] = IF b % 3 = 1 THEN b + 2 ELSE b + 1
      BY <1>1, <1>6 DEF Flat, ArmsClosed
    <2>3. \A b \in Block : b < L =>
              /\ b % 3 = 1 => terminator'[b] = "JMP"
              /\ b % 3 = 2 => terminator'[b] \in {"JMP", "RET"}
      BY <1>3, <1>4, <1>6, <1>7 DEF Flat, ArmsClosed
    <2>4. (L + 3) - 3 = L
      BY <1>4
    <2> QED BY <1>8, <1>10, <2>1, <2>2, <2>3, <2>4 DEF ArmsClosed
  <1>14. Standing'
    <2>1. \A b \in Block : b >= L + 4 => code'[b] = <<>>
      <3>1. \A b \in Block : b >= L + 4 => b >= block_count /\ b # c
        BY <1>4
      <3> QED BY <1>5, <3>1 DEF Flat, Standing
    <2>2. (L + 3) - 2 = L + 1 /\ (L + 3) - 1 = L + 2 /\ L + 3 >= 3
      BY <1>4
    <2> QED BY <1>1, <1>8, <1>9, <1>10, <2>1, <2>2 DEF Standing
  <1>15. /\ \A p, w : Leaves(L + 1, p, w)' <=> p = n /\ w = "true"
         /\ \A p, w : ArmEnters(L + 2, p, w)' <=> p = n /\ w = "false"
    <2>1. LastQuad(L)'.id = n
      BY <1>1, <1>3, <1>7, AppendPorts
    <2>2. /\ (L + 1) % 3 = 1 /\ (L + 2) % 3 = 2 /\ L + 1 # 0 /\ (L + 1) - 1 = L /\ (L + 2) - 2 = L
      BY <1>4
    <2>3. \A p, w : ArmEnters(L + 1, p, w)' <=> p = n /\ w = "true"
      BY <2>1, <2>2 DEF ArmEnters
    <2>4. \A p, w : ArmEnters(L + 2, p, w)' <=> p = n /\ w = "false"
      BY <2>1, <2>2 DEF ArmEnters
    <2>5. \A p, w : ~Ends(L + 1, p, w)'
      BY <1>9 DEF Ends
    <2>6. \A p, w : Enters(L + 1, p, w)' <=> ArmEnters(L + 1, p, w)'
      BY <2>2 DEF Enters
    <2> QED BY <1>9, <2>3, <2>4, <2>5, <2>6 DEF Leaves
  <1>16. \A way : /\ \A l \in Source!Port(n, way) : l = <<l[1], l[2]>>
                  /\ \A p, w : <<p, w>> \in Source!Port(n, way) <=> n \in Reached' /\ p = n /\ w = way
    BY <1>11 DEF Source!Port
  <1> HIDE DEF n
  <1>17. LooseIs'
    <2>1. \A p, w : <<p, w>> \in loose' <=> p \in Reached' /\ Leaves(L + 1, p, w)'
      BY ZenonT(45), <1>2, <1>15, <1>16
    <2> QED BY <1>2, <1>8, <1>16, <2>1 DEF LooseIs
  <1>18. WaitIs'
    <2>1. PICK otherwise, leaving : otherwise = Source!Port(n, "false") /\ leaving = {}
      OBVIOUS
    <2>2. ifs' = <<[otherwise |-> otherwise, leaving |-> leaving]>>
      <3>1. ifs = <<>>
        BY <1>7 DEF Flat, Standing
      <3> QED BY <1>2, <2>1, <3>1
    <2>3. /\ \A l \in otherwise : l = <<l[1], l[2]>>
          /\ \A p, w : <<p, w>> \in otherwise <=> p \in Reached' /\ ArmEnters(L + 2, p, w)'
      BY <1>15, <1>16, <2>1
    <2>4. (L + 3) - 1 = L + 2
      BY <1>4
    <2> QED BY <1>8, <1>10, <2>2, <2>3, <2>4 DEF WaitIs
  <1> QED BY <1>11, <1>12, <1>13, <1>14, <1>17, <1>18 DEF Flat

-----------------------------------------------------------------------------
(* The ends of arms, and of the function *)

\* What leads where depends on the quads only.
LEMMA PortsKept ==
    ASSUME code' = code
    PROVE  /\ \A b, p, w : Ends(b, p, w)' <=> Ends(b, p, w)
           /\ \A b, p, w : ArmEnters(b, p, w)' <=> ArmEnters(b, p, w)
           /\ \A b, p, w : ArmLeaves(b, p, w)' <=> ArmLeaves(b, p, w)
           /\ \A b, p, w : Leaves(b, p, w)' <=> Leaves(b, p, w)
           /\ \A p, w, q : Follows(p, w, q)' <=> Follows(p, w, q)
  <1>1. \A b : LastQuad(b)' = LastQuad(b)
    BY DEF LastQuad
  <1>2. \A b, p, w : Ends(b, p, w)' <=> Ends(b, p, w)
    BY <1>1 DEF Ends
  <1>3. \A b, p, w : ArmEnters(b, p, w)' <=> ArmEnters(b, p, w)
    BY <1>1 DEF ArmEnters
  <1>4. \A b, p, w : ArmLeaves(b, p, w)' <=> ArmLeaves(b, p, w)
    BY <1>2, <1>3 DEF ArmLeaves
  <1>5. \A b, p, w : Enters(b, p, w)' <=> Enters(b, p, w)
    BY <1>3, <1>4 DEF Enters
  <1>6. \A b, p, w : Leaves(b, p, w)' <=> Leaves(b, p, w)
    BY <1>2, <1>5 DEF Leaves
  <1>7. \A p, w, q : Follows(p, w, q)' <=> Follows(p, w, q)
    BY <1>5 DEF Follows, Inside
  <1> QED BY <1>2, <1>3, <1>4, <1>6, <1>7

\* What an arm leaves to, and where the two arms meet.
LEMMA ArmPorts ==
    ASSUME NEW L \in Nat, L % 3 = 0, L >= 3, code[L] = <<>>
    PROVE  /\ \A p, w : Leaves(L - 2, p, w) <=> ArmLeaves(L - 2, p, w)
           /\ \A p, w : Leaves(L - 1, p, w) <=> ArmLeaves(L - 1, p, w)
           /\ \A p, w : Leaves(L, p, w) <=> ArmLeaves(L - 2, p, w) \/ ArmLeaves(L - 1, p, w)
  <1>1. (L - 2) % 3 = 1 /\ L - 2 # 0 /\ (L - 1) % 3 = 2 /\ L - 1 # 0 /\ L # 0
    OBVIOUS
  <1>2. \A p, w : Enters(L - 2, p, w) <=> ArmEnters(L - 2, p, w)
    BY <1>1 DEF Enters
  <1>3. \A p, w : Enters(L - 1, p, w) <=> ArmEnters(L - 1, p, w)
    BY <1>1 DEF Enters
  <1>4. \A p, w : ~ArmEnters(L, p, w) /\ ~Ends(L, p, w)
    BY DEF ArmEnters, Ends
  <1>5. \A p, w : Enters(L, p, w) <=> ArmLeaves(L - 2, p, w) \/ ArmLeaves(L - 1, p, w)
    BY <1>1, <1>4 DEF Enters
  <1> QED BY <1>2, <1>3, <1>4, <1>5 DEF Leaves, ArmLeaves

\* So does the change from its first arm to the second,
LEMMA LeaveThenFlat ==
    ASSUME IInv, Flat, LeaveThen
    PROVE  Flat'
  <1>1. /\ phase = "generate" /\ phase' = phase /\ frames # <<>>
        /\ Last(frames).arm = "then" /\ CloseArm(Last(frames))
        /\ current_block' = Last(frames).else_bb
        /\ frames' = Append(Front(frames), [Last(frames) EXCEPT !.arm = "else"])
        /\ UNCHANGED <<block_count, code, true_target_je, false_target_je>>
    BY DEF LeaveThen
  <1>2. /\ flow' = flow /\ loose' = Last(ifs).otherwise
        /\ ifs' = Append(Front(ifs), [otherwise |-> {}, leaving |-> loose])
    <2>1. Source!Else
      BY DEF LeaveThen
    <2>2. loose' = Last(ifs).otherwise
      BY <2>1 DEF Source!Else, Source!Last, Last
    <2>3. ifs' = Append(Front(ifs), [otherwise |-> {}, leaving |-> loose])
      BY <2>1 DEF Source!Else, Source!Front, Front
    <2>4. flow' = flow
      BY <2>1 DEF Source!Else
    <2> QED BY <2>2, <2>3, <2>4
  <1>3. PICK L : L = LastBlock
    OBVIOUS
  <1>4. /\ L \in Nat /\ L % 3 = 0 /\ Block \subseteq Nat /\ \A b \in Nat : b <= L => b \in Block
        /\ block_count = L + 1 /\ L >= 3
        /\ L \in Block /\ L - 1 \in Block /\ L - 2 \in Block
    BY <1>1, <1>3, FlatFacts
  <1>5. LastBlock' = L /\ block_count' = block_count /\ code' = code
    BY <1>1, <1>3 DEF LastBlock
  <1>6. Len(frames) = 1 /\ Last(frames) = frames[1] /\ frames[1] \in Frame /\ Front(frames) = <<>>
    <2>1. Len(frames) = 1
      BY <1>1 DEF Flat, Standing
    <2>2. Last(frames) = frames[1] /\ Last(frames) \in Frame /\ Len(Front(frames)) = 0
          /\ Front(frames) \in Seq(Frame)
      BY <1>1, <2>1, LastFrame DEF IInv
    <2> QED BY <2>1, <2>2
  <1>7. /\ frames[1].then_bb = L - 2 /\ frames[1].else_bb = L - 1 /\ frames[1].merge_bb = L
        /\ frames[1].arm = "then" /\ current_block = L - 2
        /\ code[L] = <<>> /\ terminator[L] = "TERMINATOR_NONE"
        /\ code[L - 1] = <<>> /\ terminator[L - 1] = "TERMINATOR_NONE"
        /\ terminator[L - 2] \in {"TERMINATOR_NONE", "RET"}
    BY <1>1, <1>3, <1>6 DEF Flat, Standing
  <1>8. /\ \A b \in Block : terminator'[b] = IF b = L - 2 THEN "JMP" ELSE terminator[b]
        /\ \A b \in Block : jmp_target'[b] = IF b = L - 2 THEN L ELSE jmp_target[b]
    <2>1. ArmBlock(frames[1]) = L - 2 /\ JumpsToMerge(L - 2, frames[1].arm)
      BY <1>7 DEF ArmBlock, JumpsToMerge
    <2>2. /\ terminator' = [terminator EXCEPT ![L - 2] = "JMP"]
          /\ jmp_target' = [jmp_target EXCEPT ![L - 2] = L]
      BY <1>1, <1>6, <1>7, <2>1 DEF CloseArm
    <2>3. terminator \in [Block -> Terminators] /\ jmp_target \in [Block -> Block \cup {NoBlock}]
      BY DEF IInv, TypeOK
    <2> QED BY <1>4, <2>2, <2>3
  <1>9. /\ frames' # <<>> /\ Len(frames') = 1 /\ current_block' = L - 1
        /\ frames'[1].then_bb = L - 2 /\ frames'[1].else_bb = L - 1
        /\ frames'[1].merge_bb = L /\ frames'[1].arm = "else"
    <2>1. frames' = <<[frames[1] EXCEPT !.arm = "else"]>>
      BY <1>1, <1>6
    <2> QED BY <1>1, <1>6, <1>7, <2>1 DEF Frame
  <1>10. Reached' = Reached
    BY <1>2 DEF Reached, Source!Start
  <1>11. IfsFlat'
    <2>1. \A b \in Block : IsIf(b)' <=> IsIf(b)
      BY <1>7, <1>8 DEF IsIf
    <2> QED BY <1>1, <1>3, <1>5, <2>1 DEF Flat, IfsFlat
  <1>12. ArmsClosed'
    <2>1. \A b \in Block : terminator'[b] = "RET" => code'[b] # <<>>
      BY <1>5, <1>8 DEF Flat, ArmsClosed
    <2>2. ASSUME NEW b \in Block, terminator'[b] = "JMP"
          PROVE  b % 3 # 0 /\ jmp_target'[b] = IF b % 3 = 1 THEN b + 2 ELSE b + 1
      <3>1. CASE b = L - 2
        BY <1>4, <1>8, <3>1
      <3>2. CASE b # L - 2
        BY <1>8, <2>2, <3>2 DEF Flat, ArmsClosed
      <3> QED BY <3>1, <3>2
    <2>3. \A b \in Block : b < L /\ b < L - 3 =>
              /\ b % 3 = 1 => terminator'[b] = "JMP"
              /\ b % 3 = 2 => terminator'[b] \in {"JMP", "RET"}
      <3>1. \A b \in Block : b < L - 3 => b # L - 2
        BY <1>4
      <3> QED BY <1>3, <1>8, <3>1 DEF Flat, ArmsClosed
    <2> QED BY <1>5, <1>9, <2>1, <2>2, <2>3 DEF ArmsClosed
  <1>13. Standing'
    <2>1. \A b \in Block : b >= block_count' => code'[b] = <<>>
      BY <1>5 DEF Flat, Standing
    <2>2. L - 1 # L - 2 /\ L # L - 2
      BY <1>4
    <2> QED BY <1>1, <1>4, <1>5, <1>7, <1>8, <1>9, <2>1, <2>2 DEF Standing
  <1>14. FlowIs'
    <2>1. \A p, w, q : Follows(p, w, q)' <=> Follows(p, w, q)
      BY <1>5, PortsKept
    <2> QED BY <1>1, <1>2, <1>10, <2>1 DEF Flat, FlowIs
  <1>15. PICK otherwise, leaving :
              /\ ifs = <<[otherwise |-> otherwise, leaving |-> leaving]>>
              /\ \A l \in otherwise : l = <<l[1], l[2]>>
              /\ \A p, w : <<p, w>> \in otherwise <=> p \in Reached /\ ArmEnters(L - 1, p, w)
    BY <1>1, <1>3, <1>7 DEF Flat, WaitIs
  <1>16. LooseIs'
    <2>1. loose' = otherwise
      <3>1. Last(ifs) = [otherwise |-> otherwise, leaving |-> leaving]
        BY <1>15 DEF Last
      <3> QED BY <1>2, <3>1
    <2>2. \A p, w : Leaves(L - 1, p, w)' <=> ArmEnters(L - 1, p, w)
      <3>1. \A p, w : Leaves(L - 1, p, w) <=> ArmLeaves(L - 1, p, w)
        BY <1>4, <1>7, ArmPorts
      <3>2. \A p, w : ArmLeaves(L - 1, p, w) <=> ArmEnters(L - 1, p, w)
        BY <1>7 DEF ArmLeaves, Ends
      <3>3. \A p, w : Leaves(L - 1, p, w)' <=> Leaves(L - 1, p, w)
        BY <1>5, PortsKept
      <3> QED BY <3>1, <3>2, <3>3
    <2>3. \A p, w : <<p, w>> \in loose' <=> p \in Reached' /\ Leaves(L - 1, p, w)'
      BY <1>10, <1>15, <2>1, <2>2
    <2> QED BY <1>9, <1>15, <2>1, <2>3 DEF LooseIs
  <1>17. WaitIs'
    <2>1. PICK none, left : none = {} /\ left = loose
      OBVIOUS
    <2>2. ifs' = <<[otherwise |-> none, leaving |-> left]>>
      <3>1. Front(ifs) = <<>>
        BY <1>15 DEF Front
      <3> QED BY <1>2, <2>1, <3>1
    <2>3. /\ \A l \in loose : l = <<l[1], l[2]>>
          /\ \A p, w : <<p, w>> \in loose <=> p \in Reached /\ Leaves(L - 2, p, w)
      BY <1>1, <1>7 DEF Flat, LooseIs
    <2>4. \A p, w : Leaves(L - 2, p, w) <=> ArmLeaves(L - 2, p, w)'
      <3>1. \A p, w : Leaves(L - 2, p, w) <=> ArmLeaves(L - 2, p, w)
        BY <1>4, <1>7, ArmPorts
      <3> QED BY <1>5, <3>1, PortsKept
    <2>5. /\ \A l \in left : l = <<l[1], l[2]>>
          /\ \A p, w : <<p, w>> \in left <=> p \in Reached' /\ ArmLeaves(L - 2, p, w)'
      BY <1>10, <2>1, <2>3, <2>4
    <2> QED BY <1>5, <1>9, <2>2, <2>5 DEF WaitIs
  <1> QED BY <1>11, <1>12, <1>13, <1>14, <1>16, <1>17 DEF Flat

\* and the end of the second.
LEMMA LeaveElseFlat ==
    ASSUME IInv, Flat, LeaveElse
    PROVE  Flat'
  <1>1. /\ phase = "generate" /\ phase' = phase /\ frames # <<>>
        /\ Last(frames).arm = "else" /\ CloseArm(Last(frames))
        /\ current_block' = Last(frames).merge_bb
        /\ frames' = Front(frames)
        /\ UNCHANGED <<block_count, code, true_target_je, false_target_je>>
    BY DEF LeaveElse
  <1>2. /\ flow' = flow /\ loose' = loose \cup Last(ifs).leaving /\ ifs' = Front(ifs)
    <2>1. Source!EndIf
      BY DEF LeaveElse
    <2>2. loose' = loose \cup Last(ifs).leaving
      BY <2>1 DEF Source!EndIf, Source!Last, Last
    <2>3. ifs' = Front(ifs)
      BY <2>1 DEF Source!EndIf, Source!Front, Front
    <2>4. flow' = flow
      BY <2>1 DEF Source!EndIf
    <2> QED BY <2>2, <2>3, <2>4
  <1>3. PICK L : L = LastBlock
    OBVIOUS
  <1>4. /\ L \in Nat /\ L % 3 = 0 /\ Block \subseteq Nat /\ \A b \in Nat : b <= L => b \in Block
        /\ block_count = L + 1 /\ L >= 3
        /\ L \in Block /\ L - 1 \in Block /\ L - 2 \in Block
    BY <1>1, <1>3, FlatFacts
  <1>5. LastBlock' = L /\ block_count' = block_count /\ code' = code
    BY <1>1, <1>3 DEF LastBlock
  <1>6. Len(frames) = 1 /\ Last(frames) = frames[1] /\ frames[1] \in Frame /\ Front(frames) = <<>>
    <2>1. Len(frames) = 1
      BY <1>1 DEF Flat, Standing
    <2>2. Last(frames) = frames[1] /\ Last(frames) \in Frame /\ Len(Front(frames)) = 0
          /\ Front(frames) \in Seq(Frame)
      BY <1>1, <2>1, LastFrame DEF IInv
    <2> QED BY <2>1, <2>2
  <1>7. /\ frames[1].then_bb = L - 2 /\ frames[1].else_bb = L - 1 /\ frames[1].merge_bb = L
        /\ frames[1].arm = "else" /\ current_block = L - 1
        /\ code[L] = <<>> /\ terminator[L] = "TERMINATOR_NONE"
        /\ terminator[L - 1] \in {"TERMINATOR_NONE", "RET"}
        /\ terminator[L - 2] = "JMP"
    BY <1>1, <1>3, <1>6 DEF Flat, Standing
  <1>8. /\ \A b \in Block : b # L - 1 => terminator'[b] = terminator[b] /\ jmp_target'[b] = jmp_target[b]
        /\ \/ terminator'[L - 1] = "JMP" /\ jmp_target'[L - 1] = L
           \/ terminator'[L - 1] = "RET" /\ terminator[L - 1] = "RET"
    <2>1. ArmBlock(frames[1]) = L - 1
          /\ (JumpsToMerge(L - 1, frames[1].arm) <=> terminator[L - 1] = "TERMINATOR_NONE")
      BY <1>7 DEF ArmBlock, JumpsToMerge
    <2>2. terminator \in [Block -> Terminators] /\ jmp_target \in [Block -> Block \cup {NoBlock}]
      BY DEF IInv, TypeOK
    <2>3. CASE terminator[L - 1] = "TERMINATOR_NONE"
      <3>1. /\ terminator' = [terminator EXCEPT ![L - 1] = "JMP"]
            /\ jmp_target' = [jmp_target EXCEPT ![L - 1] = L]
        BY <1>1, <1>6, <1>7, <2>1, <2>3 DEF CloseArm
      <3> QED BY <1>4, <2>2, <3>1
    <2>4. CASE terminator[L - 1] = "RET"
      <3>1. UNCHANGED <<terminator, jmp_target>>
        BY <1>1, <1>6, <1>7, <2>1, <2>4 DEF CloseArm
      <3> QED BY <2>4, <3>1
    <2> QED BY <1>7, <2>3, <2>4
  <1>9. frames' = <<>> /\ current_block' = L
    BY <1>1, <1>6, <1>7
  <1>10. Reached' = Reached
    BY <1>2 DEF Reached, Source!Start
  <1>11. IfsFlat'
    <2>1. \A b \in Block : IsIf(b)' <=> IsIf(b)
      BY <1>7, <1>8 DEF IsIf
    <2> QED BY <1>1, <1>3, <1>5, <2>1 DEF Flat, IfsFlat
  <1>12. ArmsClosed'
    <2>1. \A b \in Block : terminator'[b] = "RET" => code'[b] # <<>>
      BY <1>5, <1>8 DEF Flat, ArmsClosed
    <2>2. ASSUME NEW b \in Block, terminator'[b] = "JMP"
          PROVE  b % 3 # 0 /\ jmp_target'[b] = IF b % 3 = 1 THEN b + 2 ELSE b + 1
      <3>1. CASE b = L - 1
        BY <1>4, <1>8, <2>2, <3>1
      <3>2. CASE b # L - 1
        BY <1>8, <2>2, <3>2 DEF Flat, ArmsClosed
      <3> QED BY <3>1, <3>2
    <2>3. ASSUME NEW b \in Block, b < L
          PROVE  /\ b % 3 = 1 => terminator'[b] = "JMP"
                 /\ b % 3 = 2 => terminator'[b] \in {"JMP", "RET"}
      <3>1. CASE b < L - 3
        <4>1. b # L - 1
          BY <1>4, <3>1
        <4> QED BY <1>3, <1>8, <2>3, <3>1, <4>1 DEF Flat, ArmsClosed
      <3>2. CASE ~(b < L - 3)
        <4>0. b = L - 3 \/ b = L - 2 \/ b = L - 1
          BY <1>4, <2>3, <3>2
        <4>1. b % 3 = 0 \/ (b = L - 2 /\ b % 3 = 1) \/ (b = L - 1 /\ b % 3 = 2)
          BY <1>4, <4>0
        <4>2. L - 2 # L - 1
          BY <1>4
        <4> QED BY <1>7, <1>8, <4>1, <4>2
      <3> QED BY <3>1, <3>2
    <2> QED BY <1>5, <1>9, <2>1, <2>2, <2>3 DEF ArmsClosed
  <1>13. Standing'
    <2>1. \A b \in Block : b >= block_count' => code'[b] = <<>>
      BY <1>5 DEF Flat, Standing
    <2>2. terminator'[L] = "TERMINATOR_NONE"
      <3>1. L # L - 1
        BY <1>4
      <3> QED BY <1>4, <1>7, <1>8, <3>1
    <2>3. ifs' = <<>>
      <3>1. PICK otherwise, leaving : ifs = <<[otherwise |-> otherwise, leaving |-> leaving]>>
        BY <1>1 DEF Flat, WaitIs
      <3> QED BY <1>2, <3>1 DEF Front
    <2> QED BY <1>1, <1>5, <1>9, <2>1, <2>2, <2>3 DEF Standing
  <1>14. FlowIs'
    <2>1. \A p, w, q : Follows(p, w, q)' <=> Follows(p, w, q)
      BY <1>5, PortsKept
    <2> QED BY <1>1, <1>2, <1>10, <2>1 DEF Flat, FlowIs
  <1>15. LooseIs'
    <2>1. PICK otherwise, leaving :
              /\ ifs = <<[otherwise |-> otherwise, leaving |-> leaving]>>
              /\ \A l \in leaving : l = <<l[1], l[2]>>
              /\ \A p, w : <<p, w>> \in leaving <=> p \in Reached /\ ArmLeaves(L - 2, p, w)
      BY <1>1, <1>3, <1>7 DEF Flat, WaitIs
    <2>2. loose' = loose \cup leaving
      <3>1. Last(ifs) = [otherwise |-> otherwise, leaving |-> leaving]
        BY <2>1 DEF Last
      <3> QED BY <1>2, <3>1
    <2>3. /\ \A l \in loose : l = <<l[1], l[2]>>
          /\ \A p, w : <<p, w>> \in loose <=> p \in Reached /\ Leaves(L - 1, p, w)
      BY <1>1, <1>7 DEF Flat, LooseIs
    <2>4. \A p, w : Leaves(L, p, w)' <=> ArmLeaves(L - 2, p, w) \/ Leaves(L - 1, p, w)
      <3>1. /\ \A p, w : Leaves(L, p, w) <=> ArmLeaves(L - 2, p, w) \/ ArmLeaves(L - 1, p, w)
            /\ \A p, w : Leaves(L - 1, p, w) <=> ArmLeaves(L - 1, p, w)
        BY <1>4, <1>7, ArmPorts
      <3>2. \A p, w : Leaves(L, p, w)' <=> Leaves(L, p, w)
        BY <1>5, PortsKept
      <3> QED BY <3>1, <3>2
    <2>5. \A p, w : <<p, w>> \in loose' <=> p \in Reached' /\ Leaves(L, p, w)'
      BY <1>10, <2>1, <2>2, <2>3, <2>4
    <2> QED BY <1>9, <2>1, <2>2, <2>3, <2>5 DEF LooseIs
  <1>16. WaitIs'
    BY <1>9 DEF WaitIs
  <1> QED BY <1>11, <1>12, <1>13, <1>14, <1>15, <1>16 DEF Flat

\* With the end of the function control leaves the last block.
LEMMA GenEndFlat ==
    ASSUME IInv, Flat, Numbered, GenEnd
    PROVE  Flat'
  <1>1. /\ phase = "generate" /\ phase' = "build_cfg" /\ frames = <<>>
        /\ UNCHANGED <<block_count, current_block, code, terminator, true_target_je,
                       false_target_je, jmp_target, frames>>
    BY DEF GenEnd, genVars
  <1>2. /\ flow' = flow \cup Source!Arrive(Source!End) /\ ifs' = ifs
    <2>1. Source!Finish
      BY DEF GenEnd
    <2> QED BY <2>1 DEF Source!Finish
  <1>3. PICK L : L = LastBlock
    OBVIOUS
  <1>4. LastBlock' = L /\ current_block = L /\ L \in Block /\ L <= L /\ quad_count \in Nat
    BY <1>1, <1>3, FlatFacts DEF LastBlock
  <1>5. IfsFlat' /\ ArmsClosed' /\ Standing'
    <2>1. \A b \in Block : IsIf(b)' <=> IsIf(b)
      BY <1>1 DEF IsIf
    <2> QED BY <1>1, <1>2, <1>3, <1>4, <2>1 DEF Flat, IfsFlat, ArmsClosed, Standing
  <1>6. LooseIs' /\ WaitIs'
    BY <1>1 DEF LooseIs, WaitIs
  <1>7. FlowIs'
    <2> DEFINE E == Source!End
    <2>1. /\ \A l \in loose : l = <<l[1], l[2]>>
          /\ \A p, w : <<p, w>> \in loose <=> p \in Reached /\ Leaves(L, p, w)
      BY <1>1, <1>4 DEF Flat, LooseIs
    <2>2. /\ \A e \in flow : e = <<e[1], e[2], e[3]>>
          /\ \A p, w, q : <<p, w, q>> \in flow <=> p \in Reached /\ Follows(p, w, q)
      BY <1>1 DEF Flat, FlowIs
    <2>3. Source!Arrive(E) = {<<l[1], l[2], E>> : l \in loose}
      BY DEF Source!Arrive
    <2>4. flow' = flow \cup Source!Arrive(E)
      BY <1>2
    <2>5. E \notin 0 .. quad_count
      BY <1>4 DEF Source!End
    <2> HIDE DEF E
    <2>6. \A p, w, q : <<p, w, q>> \in Source!Arrive(E) <=> q = E /\ <<p, w>> \in loose
      <3>1. ASSUME NEW p, NEW w, NEW q, <<p, w, q>> \in Source!Arrive(E)
            PROVE  q = E /\ <<p, w>> \in loose
        <4>1. PICK l \in loose : <<p, w, q>> = <<l[1], l[2], E>>
          BY <2>3, <3>1
        <4>2. p = l[1] /\ w = l[2] /\ q = E
          BY <4>1
        <4>3. l = <<p, w>>
          BY <2>1, <4>2
        <4> QED BY <4>2, <4>3
      <3>2. ASSUME NEW p, NEW w, <<p, w>> \in loose
            PROVE  <<p, w, E>> \in Source!Arrive(E)
        <4>1. <<p, w>>[1] = p /\ <<p, w>>[2] = w
          OBVIOUS
        <4> QED BY <2>3, <3>2, <4>1
      <3> QED BY <3>1, <3>2
    <2>7. \A e \in Source!Arrive(E) : e = <<e[1], e[2], e[3]>> /\ e[3] = E
      BY <2>3
    <2>8. \A p : p # E => (p \in Reached' <=> p \in Reached)
      <3>1. /\ Reached' = {Source!Start} \cup {e[3] : e \in flow'}
            /\ Reached = {Source!Start} \cup {e[3] : e \in flow}
        BY DEF Reached, Source!Start
      <3> QED BY <2>4, <2>7, <3>1
    <2>9. /\ \A p, w, q : Follows(p, w, q)' <=> Follows(p, w, q)
          /\ \A p, w : Leaves(L, p, w)' <=> Leaves(L, p, w)
      BY <1>1, PortsKept
    <2>10. /\ \A p, w : Leaves(L, p, w) => p # E
           /\ \A p, w, q : Follows(p, w, q) => p # E
      BY <1>3, <1>4, <2>5, PortsNumbered
    <2>11. \A p, w, q : <<p, w, q>> \in flow' <=>
               p \in Reached' /\ (Follows(p, w, q)' \/ (q = E /\ Leaves(L, p, w)'))
      <3> SUFFICES ASSUME NEW p, NEW w, NEW q
                   PROVE  <<p, w, q>> \in flow' <=>
                              p \in Reached' /\ (Follows(p, w, q)' \/ (q = E /\ Leaves(L, p, w)'))
        OBVIOUS
      <3>1. <<p, w, q>> \in flow' <=>
                p \in Reached /\ (Follows(p, w, q) \/ (q = E /\ Leaves(L, p, w)))
        <4>1. <<p, w, q>> \in flow' <=> <<p, w, q>> \in flow \/ <<p, w, q>> \in Source!Arrive(E)
          BY <2>4
        <4>2. <<p, w, q>> \in flow <=> p \in Reached /\ Follows(p, w, q)
          BY <2>2
        <4>3. <<p, w, q>> \in Source!Arrive(E) <=> q = E /\ p \in Reached /\ Leaves(L, p, w)
          <5>1. <<p, w, q>> \in Source!Arrive(E) <=> q = E /\ <<p, w>> \in loose
            BY <2>6
          <5>2. <<p, w>> \in loose <=> p \in Reached /\ Leaves(L, p, w)
            BY <2>1
          <5> QED BY <5>1, <5>2
        <4> QED BY <4>1, <4>2, <4>3
      <3>2. CASE p = E
        BY <2>9, <2>10, <3>1, <3>2
      <3>3. CASE p # E
        BY <2>8, <2>9, <3>1, <3>3
      <3> QED BY <3>2, <3>3
    <2>12. \A e \in flow' : e = <<e[1], e[2], e[3]>>
      BY <2>2, <2>4, <2>7
    <2> QED BY <1>1, <1>4, <2>11, <2>12 DEF FlowIs, E
  <1> QED BY <1>5, <1>6, <1>7 DEF Flat

\* build_cfg changes neither the blocks nor what they mean.
LEMMA BuildFlat ==
    ASSUME IInv, Flat, BuildBlock \/ BuildEnd \/ UNCHANGED vars
    PROVE  Flat'
  <1>1. /\ UNCHANGED <<block_count, current_block, code, terminator, true_target_je,
                       false_target_je, jmp_target, frames, flow, loose, ifs>>
        /\ phase' = "generate" <=> phase = "generate"
    BY DEF BuildBlock, BuildEnd, vars, genVars, srcVars
  <1>2. LastBlock' = LastBlock /\ Reached' = Reached
    BY <1>1 DEF LastBlock, Reached, Source!Start
  <1>3. IfsFlat' /\ ArmsClosed' /\ Standing'
    <2>1. \A b \in Block : IsIf(b)' <=> IsIf(b)
      BY <1>1 DEF IsIf
    <2>2. IfsFlat'
      BY <1>1, <1>2, <2>1 DEF Flat, IfsFlat
    <2>3. ArmsClosed'
      BY <1>1, <1>2 DEF Flat, ArmsClosed
    <2>4. Standing'
      BY <1>1, <1>2 DEF Flat, Standing
    <2> QED BY <2>2, <2>3, <2>4
  <1>4. PICK c, L : c = current_block /\ L = LastBlock
    OBVIOUS
  <1>5. /\ \A p, w, q : Follows(p, w, q)' <=> Follows(p, w, q)
        /\ \A b, p, w : Leaves(b, p, w)' <=> Leaves(b, p, w)
        /\ \A b, p, w : ArmEnters(b, p, w)' <=> ArmEnters(b, p, w)
        /\ \A b, p, w : ArmLeaves(b, p, w)' <=> ArmLeaves(b, p, w)
    BY <1>1, PortsKept
  <1>6. FlowIs'
    <2>1. \A p, w, q : <<p, w, q>> \in flow' <=>
              /\ p \in Reached'
              /\ \/ Follows(p, w, q)'
                 \/ phase' # "generate" /\ q = Source!End /\ Leaves(L, p, w)'
      BY ZenonT(45), <1>1, <1>2, <1>4, <1>5 DEF Flat, FlowIs
    <2>2. \A e \in flow' : e = <<e[1], e[2], e[3]>>
      BY <1>1 DEF Flat, FlowIs
    <2>3. LastBlock' = L /\ Source!End = -1
      BY <1>2, <1>4 DEF Source!End
    <2> QED BY <2>1, <2>2, <2>3 DEF FlowIs, Source!End
  <1>7. LooseIs'
    <2> SUFFICES ASSUME phase = "generate" PROVE LooseIs'
      BY <1>1 DEF LooseIs
    <2>1. /\ \A l \in loose' : l = <<l[1], l[2]>>
          /\ \A p, w : <<p, w>> \in loose' <=> p \in Reached' /\ Leaves(c, p, w)'
      BY <1>1, <1>2, <1>4, <1>5 DEF Flat, LooseIs
    <2> QED BY <1>1, <1>4, <2>1 DEF LooseIs
  <1>8. WaitIs'
    <2> SUFFICES ASSUME frames # <<>> PROVE WaitIs'
      BY <1>1 DEF WaitIs
    <2>1. phase = "generate"
      BY DEF Flat, Standing
    <2>2. UNCHANGED <<phase, block_count, current_block, code, frames, flow, loose, ifs>>
      BY <1>1, <2>1 DEF BuildBlock, BuildEnd, vars
    <2>3. PICK otherwise, leaving :
              /\ ifs = <<[otherwise |-> otherwise, leaving |-> leaving]>>
              /\ frames[1].arm = "then" =>
                    /\ \A l \in otherwise : l = <<l[1], l[2]>>
                    /\ \A p, w : <<p, w>> \in otherwise <=> p \in Reached /\ ArmEnters(L - 1, p, w)
              /\ frames[1].arm = "else" =>
                    /\ \A l \in leaving : l = <<l[1], l[2]>>
                    /\ \A p, w : <<p, w>> \in leaving <=> p \in Reached /\ ArmLeaves(L - 2, p, w)
      BY <1>4 DEF Flat, WaitIs
    <2>4. /\ frames'[1].arm = "then" =>
                /\ \A l \in otherwise : l = <<l[1], l[2]>>
                /\ \A p, w : <<p, w>> \in otherwise <=> p \in Reached' /\ ArmEnters(L - 1, p, w)'
          /\ frames'[1].arm = "else" =>
                /\ \A l \in leaving : l = <<l[1], l[2]>>
                /\ \A p, w : <<p, w>> \in leaving <=> p \in Reached' /\ ArmLeaves(L - 2, p, w)'
          /\ ifs' = <<[otherwise |-> otherwise, leaving |-> leaving]>>
      BY <1>2, <1>5, <2>2, <2>3
    <2> QED BY <1>2, <1>4, <2>4 DEF WaitIs
  <1> QED BY <1>3, <1>6, <1>7, <1>8 DEF Flat

\* The points the source comes to are numbered like the quads at every step.
LEMMA NumberedKept ==
    ASSUME IInv, Numbered, [Next]_vars
    PROVE  Numbered'
  <1>1. CASE GenStatement \/ GenReturn \/ EnterIf
    <2>1. PICK operation \in {"OP", "RET", "JE"} :
              /\ AppendQuad(current_block, operation)
              /\ flow' = flow \cup Source!Arrive(quad_count + 1)
              /\ phase = "generate"
      BY <1>1 DEF GenStatement, GenReturn, EnterIf, Source!Statement, Source!Return, Source!If
    <2>2. quad_count \in Nat /\ quad_count' = quad_count + 1 /\ current_block \in Block
      <3>1. TypeOK /\ quad_count' = quad_count + 1
        BY <2>1 DEF IInv, AppendQuad
      <3>2. quad_count \in Nat
        BY <3>1, BoundsAssumption DEF TypeOK
      <3> QED BY <3>1, <3>2, BlockFacts
    <2>3. ASSUME NEW b \in Block, NEW i \in 1 .. Len(code'[b])
          PROVE  code'[b][i].id \in 1 .. quad_count'
      <3>1. CASE b # current_block
        <4>1. code'[b] = code[b]
          BY <2>1, <3>1, AppendedCode
        <4>2. code[b][i].id \in 1 .. quad_count
          BY <2>3, <4>1 DEF Numbered
        <4> QED BY <2>2, <4>1, <4>2
      <3>2. CASE b = current_block /\ i \in 1 .. Len(code[b])
        <4>1. code'[b][i] = code[b][i]
          BY <2>1, <3>2, AppendedCode
        <4>2. code[b][i].id \in 1 .. quad_count
          BY <3>2 DEF Numbered
        <4> QED BY <2>2, <4>1, <4>2
      <3>3. CASE b = current_block /\ i \notin 1 .. Len(code[b])
        <4>1. /\ Len(code'[b]) = Len(code[b]) + 1 /\ Len(code[b]) \in Nat
              /\ code'[b][Len(code[b]) + 1].id = quad_count + 1
          BY <2>1, <3>3, AppendedCode
        <4>2. i = Len(code[b]) + 1
          BY <2>3, <3>3, <4>1
        <4> QED BY <2>2, <4>1, <4>2
      <3> QED BY <3>1, <3>2, <3>3
    <2>4. ASSUME NEW e \in flow' PROVE e[3] \in 1 .. quad_count'
      <3>1. CASE e \in flow
        <4>1. e[3] \in 1 .. quad_count
          BY <2>1, <3>1 DEF Numbered
        <4> QED BY <2>2, <4>1
      <3>2. CASE e \in Source!Arrive(quad_count + 1)
        <4>1. e[3] = quad_count + 1
          BY <3>2 DEF Source!Arrive
        <4> QED BY <2>2, <4>1
      <3> QED BY <2>1, <2>4, <3>1, <3>2
    <2> QED BY <2>3, <2>4 DEF Numbered
  <1>2. CASE LeaveThen \/ LeaveElse
    <2>1. UNCHANGED <<code, quad_count, phase, flow>>
      BY <1>2 DEF LeaveThen, LeaveElse, Source!Else, Source!EndIf
    <2> QED BY <2>1 DEF Numbered
  <1>3. CASE GenEnd
    <2>1. UNCHANGED <<code, quad_count>> /\ phase' # "generate"
      BY <1>3 DEF GenEnd, genVars
    <2> QED BY <2>1 DEF Numbered
  <1>4. CASE BuildBlock \/ BuildEnd \/ UNCHANGED vars
    <2>1. UNCHANGED <<code, quad_count, flow>> /\ (phase' = "generate" => phase = "generate")
      BY <1>4 DEF BuildBlock, BuildEnd, vars, genVars, srcVars
    <2> QED BY <2>1 DEF Numbered
  <1> QED BY <1>1, <1>2, <1>3, <1>4 DEF Next

\* The invariant holds at first, and every step keeps it.
LEMMA InitMeaning == Init => MeaningInv
  <1> SUFFICES ASSUME Init PROVE MeaningInv
    OBVIOUS
  <1>1. 0 \in Block /\ Block \subseteq Nat
    BY BoundsAssumption DEF Block
  <1>2. /\ phase = "generate" /\ block_count = 1 /\ current_block = 0 /\ frames = <<>>
        /\ \A b \in Block : /\ code[b] = <<>> /\ terminator[b] = "TERMINATOR_NONE"
                            /\ true_target_je[b] = NoBlock /\ false_target_je[b] = NoBlock
        /\ flow = {} /\ loose = {<<Source!Start, "next">>} /\ ifs = <<>>
    BY DEF Init, Source!Init, Source!Start
  <1>3. OnlyIfs /\ Numbered
    BY <1>2 DEF OnlyIfs, Numbered
  <1>4. IfsFlat /\ ArmsClosed /\ Standing /\ WaitIs
    <2>1. LastBlock = 0
      BY <1>2 DEF LastBlock
    <2>2. IfsFlat
      BY <1>1, <1>2, <2>1 DEF IfsFlat, IsIf
    <2>3. ArmsClosed /\ Standing /\ WaitIs
      BY <1>1, <1>2, <2>1 DEF ArmsClosed, Standing, WaitIs
    <2> QED BY <2>2, <2>3
  <1>5. FlowIs
    <2>1. \A p, w, q : ~Follows(p, w, q)
      <3>1. \A b \in Block : \A i \in 1 .. Len(code[b]) - 1 : FALSE
        BY <1>2
      <3> QED BY <1>2, <3>1 DEF Follows, Inside
    <2> QED BY <1>2, <2>1 DEF FlowIs
  <1>6. LooseIs
    <2>1. \A p, w : Leaves(0, p, w) <=> p = Source!Start /\ w = "next"
      BY <1>1, <1>2 DEF Leaves, Enters, ArmEnters, Ends
    <2>2. Source!Start \in Reached
      BY DEF Reached
    <2>3. \A p, w : <<p, w>> \in loose <=> p = Source!Start /\ w = "next"
      BY <1>2
    <2>4. \A l \in loose : l = <<l[1], l[2]>>
      BY <1>2
    <2> QED BY <1>2, <2>1, <2>2, <2>3, <2>4 DEF LooseIs
  <1> QED BY <1>3, <1>4, <1>5, <1>6 DEF MeaningInv, Flat

LEMMA NextMeaning == IInv /\ MeaningInv /\ [Next]_vars => MeaningInv'
  <1> SUFFICES ASSUME IInv, MeaningInv, [Next]_vars PROVE MeaningInv'
    OBVIOUS
  <1>1. OnlyIfs' /\ Numbered'
    BY StepGrows, NumberedKept DEF MeaningInv
  <1>2. ASSUME ~IfInArm' PROVE Flat'
    <2>1. Flat /\ Numbered
      BY <1>2, IfInArmKept DEF MeaningInv
    <2>2. IInv'
      BY InductiveStep
    <2>3. CASE GenStatement \/ GenReturn
      BY <2>1, <2>3, StatementFlat
    <2>4. CASE EnterIf
      BY <1>2, <2>1, <2>2, <2>4, EnterIfFlat
    <2>5. CASE LeaveThen
      BY <2>1, <2>5, LeaveThenFlat
    <2>6. CASE LeaveElse
      BY <2>1, <2>6, LeaveElseFlat
    <2>7. CASE GenEnd
      BY <2>1, <2>7, GenEndFlat
    <2>8. CASE BuildBlock \/ BuildEnd \/ UNCHANGED vars
      BY <2>1, <2>8, BuildFlat
    <2> QED BY <2>3, <2>4, <2>5, <2>6, <2>7, <2>8 DEF Next
  <1> QED BY <1>1, <1>2 DEF MeaningInv

-----------------------------------------------------------------------------
(* Where the finished blocks lead *)

\* The block an arm goes on in.
Meeting(b) == IF b % 3 = 1 THEN b + 2 ELSE b + 1

\* The blocks of a finished function: the ifs, the arms and the last block.
LEMMA FinishedBlocks ==
    ASSUME IInv, Flat, phase # "generate", NEW L, L = LastBlock
    PROVE  /\ L \in Nat /\ L \in Block /\ L % 3 = 0 /\ Block \subseteq Nat /\ block_count = L + 1
           /\ \A b \in Nat : b <= L => b \in Block
           /\ L + 1 \in 0 .. MaxBlocks /\ \A b \in Block : b \in 0 .. MaxBlocks
           /\ \A b \in Block : code[b] # <<>> => b <= L
           /\ \A b \in Block : b % 3 = 0 /\ b < L =>
                  code[b] # <<>> /\ IsIf(b) /\ true_target_je[b] = b + 1 /\ false_target_je[b] = b + 2
           /\ \A b \in Block : IsIf(b) => b % 3 = 0 /\ b < L
           /\ terminator[L] # "JMP" /\ ~IsIf(L)
           /\ \A b \in Block : b % 3 # 0 /\ b < L =>
                  /\ Meeting(b) \in Block /\ Meeting(b) <= L /\ Meeting(b) # 0 /\ Meeting(b) % 3 = 0
                  /\ \/ terminator[b] = "JMP" /\ jmp_target[b] = Meeting(b)
                     \/ code[b] # <<>> /\ terminator[b] = "RET" /\ b + 1 = Meeting(b)
  <1>1. /\ L \in Nat /\ L \in Block /\ L % 3 = 0 /\ Block \subseteq Nat /\ block_count = L + 1
        /\ \A b \in Nat : b <= L => b \in Block
        /\ current_block \in Block /\ ~IsIf(current_block)
    BY FlatFacts
  <1>2. L + 1 \in 0 .. MaxBlocks /\ \A b \in Block : b \in 0 .. MaxBlocks
    <2>1. MaxBlocks \in Nat /\ block_count <= MaxBlocks
      BY BlockFacts DEF IInv
    <2> QED BY <1>1, <2>1 DEF Block
  <1>3. frames = <<>> /\ current_block = L
    BY DEF Flat, Standing
  <1>4. \A b \in Block : code[b] # <<>> => b <= L
    <2>1. \A b \in Block : b >= block_count => code[b] = <<>>
      BY DEF Flat, Standing
    <2> QED BY <1>1, <2>1
  <1>5. /\ \A b \in Block : IsIf(b) <=> b % 3 = 0 /\ b < L
        /\ \A b \in Block : IsIf(b) =>
               code[b] # <<>> /\ true_target_je[b] = b + 1 /\ false_target_je[b] = b + 2
    BY DEF Flat, IfsFlat
  <1>6. terminator[L] # "JMP" /\ ~IsIf(L)
    BY <1>1, <1>3 DEF Flat, Standing
  <1>7. ASSUME NEW b \in Block, b % 3 # 0, b < L
        PROVE  /\ Meeting(b) \in Block /\ Meeting(b) <= L /\ Meeting(b) # 0 /\ Meeting(b) % 3 = 0
               /\ \/ terminator[b] = "JMP" /\ jmp_target[b] = Meeting(b)
                  \/ code[b] # <<>> /\ terminator[b] = "RET" /\ b + 1 = Meeting(b)
    <2>1. b \in Nat /\ (b % 3 = 1 \/ b % 3 = 2)
      BY <1>1, <1>7
    <2>2. Meeting(b) \in Nat /\ Meeting(b) <= L /\ Meeting(b) # 0 /\ Meeting(b) % 3 = 0
      <3>1. CASE b % 3 = 1
        <4>1. b + 2 <= L /\ (b + 2) % 3 = 0 /\ b + 2 # 0
          BY <1>1, <1>7, <2>1, <3>1
        <4> QED BY <2>1, <3>1, <4>1 DEF Meeting
      <3>2. CASE b % 3 = 2
        <4>1. b + 1 <= L /\ (b + 1) % 3 = 0 /\ b + 1 # 0
          BY <1>1, <1>7, <2>1, <3>2
        <4> QED BY <2>1, <3>2, <4>1 DEF Meeting
      <3> QED BY <2>1, <3>1, <3>2
    <2>3. /\ b % 3 = 1 => terminator[b] = "JMP"
          /\ b % 3 = 2 => terminator[b] \in {"JMP", "RET"}
          /\ terminator[b] = "RET" => code[b] # <<>>
          /\ terminator[b] = "JMP" => jmp_target[b] = Meeting(b)
      BY <1>3, <1>7 DEF Flat, ArmsClosed, Meeting
    <2>4. b % 3 = 2 => b + 1 = Meeting(b)
      BY DEF Meeting
    <2> QED BY <1>1, <2>1, <2>2, <2>3, <2>4
  <1> QED BY <1>1, <1>2, <1>4, <1>5, <1>6, <1>7

\* EntryPoints looks through at most one empty arm and the empty last block.
LEMMA EntryPointsAre ==
    ASSUME IInv, Flat, phase # "generate", NEW L, L = LastBlock
    PROVE  /\ \A b \in Block : code[b] # <<>> => EntryPoints[b] = {code[b][1].id}
           /\ EntryPoints[L + 1] = {Source!End}
           /\ code[L] = <<>> => EntryPoints[L] = {Source!End}
           /\ \A b \in Block : b % 3 # 0 /\ b < L /\ code[b] = <<>> =>
                  EntryPoints[b] = EntryPoints[Meeting(b)]
  <1> DEFINE Through(f) == [b \in 0 .. MaxBlocks |->
                 IF b >= block_count THEN {Source!End}
                 ELSE IF code[b] # <<>> THEN {code[b][1].id}
                 ELSE IF terminator[b] = "JMP" THEN f[jmp_target[b]]
                 ELSE f[b + 1]]
             At(b) == IF b < block_count /\ code[b] # <<>> THEN {code[b][1].id} ELSE {Source!End}
             g == [b \in 0 .. MaxBlocks |->
                 IF b >= block_count THEN {Source!End}
                 ELSE IF code[b] # <<>> THEN {code[b][1].id}
                 ELSE IF terminator[b] = "JMP" THEN At(jmp_target[b])
                 ELSE At(b + 1)]
  <1>1. /\ L \in Nat /\ L \in Block /\ L % 3 = 0 /\ Block \subseteq Nat /\ block_count = L + 1
        /\ \A b \in Nat : b <= L => b \in Block
        /\ L + 1 \in 0 .. MaxBlocks /\ \A b \in Block : b \in 0 .. MaxBlocks
        /\ \A b \in Block : code[b] # <<>> => b <= L
        /\ \A b \in Block : b % 3 = 0 /\ b < L => code[b] # <<>>
        /\ terminator[L] # "JMP"
        /\ \A b \in Block : b % 3 # 0 /\ b < L =>
               /\ Meeting(b) \in Block /\ Meeting(b) <= L /\ Meeting(b) % 3 = 0
               /\ \/ terminator[b] = "JMP" /\ jmp_target[b] = Meeting(b)
                  \/ code[b] # <<>>
    BY FinishedBlocks
  <1>a. \A b \in 0 .. MaxBlocks : g[b] =
            IF b >= block_count THEN {Source!End}
            ELSE IF code[b] # <<>> THEN {code[b][1].id}
            ELSE IF terminator[b] = "JMP" THEN At(jmp_target[b])
            ELSE At(b + 1)
    <2> HIDE DEF At
    <2> QED OBVIOUS
  <1>b. \A b : At(b) = IF b < block_count /\ code[b] # <<>> THEN {code[b][1].id} ELSE {Source!End}
    OBVIOUS
  <1> HIDE DEF g, At
  <1>c. \A b \in 0 .. MaxBlocks : Through(g)[b] =
            IF b >= block_count THEN {Source!End}
            ELSE IF code[b] # <<>> THEN {code[b][1].id}
            ELSE IF terminator[b] = "JMP" THEN g[jmp_target[b]]
            ELSE g[b + 1]
    OBVIOUS
  <1>2. ASSUME NEW b \in 0 .. MaxBlocks PROVE g[b] = Through(g)[b]
    <2> HIDE DEF Through
    <2>1. CASE b >= block_count \/ code[b] # <<>>
      BY <1>a, <1>c, <2>1
    <2>2. CASE ~(b >= block_count) /\ code[b] = <<>> /\ b = L
      <3>1. terminator[b] # "JMP" /\ b + 1 = block_count /\ b + 1 \in 0 .. MaxBlocks
            /\ b + 1 >= block_count /\ ~(b + 1 < block_count)
        BY <1>1, <2>2
      <3>2. g[b + 1] = {Source!End} /\ At(b + 1) = {Source!End}
        BY <1>a, <1>b, <3>1
      <3>3. g[b] = At(b + 1) /\ Through(g)[b] = g[b + 1]
        BY <1>a, <1>c, <2>2, <3>1
      <3> QED BY <3>2, <3>3
    <2>3. CASE ~(b >= block_count) /\ code[b] = <<>> /\ b # L
      <3>1. b \in Block /\ b < L /\ b % 3 # 0
        BY <1>1, <2>3
      <3>2. terminator[b] = "JMP" /\ jmp_target[b] = Meeting(b)
            /\ Meeting(b) \in Block /\ Meeting(b) <= L /\ Meeting(b) % 3 = 0
        BY <1>1, <2>3, <3>1
      <3>3. PICK t : t = Meeting(b)
        OBVIOUS
      <3>4. t \in Block /\ t \in 0 .. MaxBlocks
        BY <1>1, <3>2, <3>3
      <3>5. t < block_count /\ ~(t >= block_count)
        <4>1. t \in Nat /\ t <= L /\ L \in Nat /\ block_count = L + 1
          BY <1>1, <3>2, <3>3
        <4> QED BY <4>1
      <3>6. g[t] = At(t)
        <4>1. CASE code[t] # <<>>
          BY <1>a, <1>b, <3>4, <3>5, <4>1
        <4>2. CASE code[t] = <<>>
          <5>0. ~(t < L)
            <6>1. t % 3 = 0
              BY <3>2, <3>3
            <6> QED BY <1>1, <3>4, <4>2, <6>1
          <5>1. t = L
            <6>1. t \in Nat /\ L \in Nat /\ t <= L
              BY <1>1, <3>2, <3>3
            <6> QED BY <5>0, <6>1
          <5>2. terminator[t] # "JMP" /\ ~(t + 1 < block_count)
            BY <1>1, <5>1
          <5>3. At(t + 1) = {Source!End} /\ At(t) = {Source!End}
            BY <1>b, <4>2, <5>2
          <5>4. g[t] = At(t + 1)
            BY <1>a, <3>4, <3>5, <4>2, <5>2
          <5> QED BY <5>3, <5>4
        <4> QED BY <4>1, <4>2
      <3>7. g[b] = At(t) /\ Through(g)[b] = g[t]
        BY <1>a, <1>c, <2>3, <3>2, <3>3
      <3> QED BY <3>6, <3>7
    <2> QED BY <2>1, <2>2, <2>3
  <1>3. g = Through(g)
    <2>1. g = [b \in 0 .. MaxBlocks |-> g[b]]
      BY DEF g
    <2>2. Through(g) = [b \in 0 .. MaxBlocks |-> Through(g)[b]]
      OBVIOUS
    <2> HIDE DEF Through
    <2> QED BY <1>2, <2>1, <2>2
  <1>4. EntryPoints = Through(EntryPoints)
    BY ZenonT(30), <1>3 DEF EntryPoints
  <1>5. \A b \in 0 .. MaxBlocks : EntryPoints[b] =
            IF b >= block_count THEN {Source!End}
            ELSE IF code[b] # <<>> THEN {code[b][1].id}
            ELSE IF terminator[b] = "JMP" THEN EntryPoints[jmp_target[b]]
            ELSE EntryPoints[b + 1]
    BY <1>4
  <1> HIDE DEF Through
  <1>6. ASSUME NEW b \in Block, code[b] # <<>> PROVE EntryPoints[b] = {code[b][1].id}
    <2>1. b \in 0 .. MaxBlocks /\ ~(b >= block_count)
      BY <1>1, <1>6
    <2> QED BY <1>5, <1>6, <2>1
  <1>7. EntryPoints[L + 1] = {Source!End}
    <2>1. L + 1 >= block_count
      BY <1>1
    <2> QED BY <1>1, <1>5, <2>1
  <1>8. code[L] = <<>> => EntryPoints[L] = {Source!End}
    <2>1. L \in 0 .. MaxBlocks /\ ~(L >= block_count)
      BY <1>1
    <2> QED BY <1>1, <1>5, <1>7, <2>1
  <1>9. ASSUME NEW b \in Block, b % 3 # 0, b < L, code[b] = <<>>
        PROVE  EntryPoints[b] = EntryPoints[Meeting(b)]
    <2>1. b \in 0 .. MaxBlocks /\ ~(b >= block_count)
      BY <1>1, <1>9
    <2>2. terminator[b] = "JMP" /\ jmp_target[b] = Meeting(b)
      BY <1>1, <1>9
    <2> QED BY <1>5, <1>9, <2>1, <2>2
  <1> QED BY <1>6, <1>7, <1>8, <1>9

\* Where control goes from a quad of the finished blocks.
LEMMA FlowFromIs ==
    ASSUME IInv, Flat, phase # "generate", NEW L, L = LastBlock,
           NEW b \in Block, NEW i \in 1 .. Len(code[b]), NEW e
    PROVE  e \in FlowFrom(b, i) <=>
               \/ /\ IsIf(b) /\ i = Len(code[b])
                  /\ \/ e \in Edges(code[b][i].id, "true", b + 1)
                     \/ e \in Edges(code[b][i].id, "false", b + 2)
               \/ /\ code[b][i].op = "OP" /\ i < Len(code[b])
                  /\ e = <<code[b][i].id, "next", code[b][i + 1].id>>
               \/ /\ code[b][i].op = "OP" /\ i = Len(code[b])
                  /\ e \in Edges(code[b][i].id, "next", IF b = L THEN L + 1 ELSE Meeting(b))
  <1>1. /\ code[b][i].op \in {"OP", "RET", "JE"} /\ code[b] # <<>> /\ Len(code[b]) \in Nat
    <2>1. code[b][i] \in Quad
      BY CodeFacts
    <2> QED BY <2>1, CodeFacts DEF Quad
  <1>2. code[b][i].op = "JE" <=> i = Len(code[b]) /\ IsIf(b)
    BY DEF IInv, BranchesLast, IsIf
  <1>3. CASE code[b][i].op = "RET"
    <2>1. FlowFrom(b, i) = {}
      BY <1>3 DEF FlowFrom
    <2> QED BY <1>2, <1>3, <2>1
  <1>4. CASE code[b][i].op = "JE"
    <2>1. FlowFrom(b, i) = Edges(code[b][i].id, "true", true_target_je[b])
                               \cup Edges(code[b][i].id, "false", false_target_je[b])
      BY <1>4 DEF FlowFrom
    <2>2. true_target_je[b] = b + 1 /\ false_target_je[b] = b + 2
      BY <1>2, <1>4, FinishedBlocks
    <2> QED BY <1>2, <1>4, <2>1, <2>2
  <1>5. CASE code[b][i].op = "OP" /\ i < Len(code[b])
    <2>1. FlowFrom(b, i) = {<<code[b][i].id, "next", code[b][i + 1].id>>}
      BY <1>5 DEF FlowFrom
    <2> QED BY <1>1, <1>2, <1>5, <2>1
  <1>6. CASE code[b][i].op = "OP" /\ i = Len(code[b])
    <2>1. FlowFrom(b, i) = Edges(code[b][i].id, "next",
                                 IF terminator[b] = "JMP" THEN jmp_target[b] ELSE b + 1)
      BY <1>6 DEF FlowFrom
    <2>2. (IF terminator[b] = "JMP" THEN jmp_target[b] ELSE b + 1)
              = IF b = L THEN L + 1 ELSE Meeting(b)
      <3>1. CASE b = L
        BY <3>1, FinishedBlocks
      <3>2. CASE b # L
        <4>1. b \in Nat /\ L \in Nat /\ b <= L
          BY <1>1, FinishedBlocks
        <4>2. b % 3 # 0 /\ b < L
          <5>1. b < L
            BY <3>2, <4>1
          <5>2. b % 3 = 0 => IsIf(b)
            BY <5>1, FinishedBlocks
          <5> QED BY <1>2, <1>6, <5>1, <5>2
        <4>3. \/ terminator[b] = "JMP" /\ jmp_target[b] = Meeting(b)
              \/ terminator[b] = "RET" /\ b + 1 = Meeting(b)
          BY <4>2, FinishedBlocks
        <4> QED BY <3>2, <4>3
      <3> QED BY <3>1, <3>2
    <2> QED BY <1>1, <1>2, <1>6, <2>1, <2>2
  <1>7. i = Len(code[b]) \/ i < Len(code[b])
    BY <1>1
  <1> QED BY <1>1, <1>3, <1>4, <1>5, <1>6, <1>7

\* Where the blocks of an if stand that begins with block a or meets in block c.
LEMMA Threes ==
    ASSUME NEW a \in Nat, NEW c \in Nat, a % 3 = 0, c % 3 = 0, a < c
    PROVE  (a + 1) % 3 = 1 /\ (a + 2) % 3 = 2 /\ a + 2 < c
  OBVIOUS

\* The same from the block where the arms meet.
LEMMA ThreesBack ==
    ASSUME NEW c \in Nat, c % 3 = 0, c # 0
    PROVE  c - 1 \in Nat /\ c - 2 \in Nat /\ (c - 1) % 3 = 2 /\ (c - 2) % 3 = 1
  OBVIOUS

\* The edges that Edges makes.
LEMMA EdgeMembers ==
    ASSUME NEW id, NEW way, NEW b, NEW p, NEW w, NEW q
    PROVE  <<p, w, q>> \in Edges(id, way, b) <=> p = id /\ w = way /\ q \in EntryPoints[b]
  BY DEF Edges

\* The blocks lead from quad to quad as the ports do, and to the end from where
\* control leaves the last block.
LEMMA BlockFlowIs ==
    ASSUME IInv, Flat, phase # "generate", NEW L, L = LastBlock
    PROVE  /\ \A e \in BlockFlow : e = <<e[1], e[2], e[3]>>
           /\ \A p, w, q : <<p, w, q>> \in BlockFlow <=>
                  Follows(p, w, q) \/ (q = Source!End /\ Leaves(L, p, w))
  <1> DEFINE There(p, w, q) == Follows(p, w, q) \/ (q = Source!End /\ Leaves(L, p, w))
  <1>1. /\ L \in Nat /\ L \in Block /\ L % 3 = 0 /\ Block \subseteq Nat
        /\ \A b \in Nat : b <= L => b \in Block
        /\ \A b \in Block : code[b] # <<>> => b <= L
        /\ \A b \in Block : b % 3 = 0 /\ b < L => code[b] # <<>> /\ IsIf(b)
        /\ \A b \in Block : IsIf(b) => b % 3 = 0 /\ b < L
        /\ \A b \in Block : b % 3 # 0 /\ b < L =>
               /\ Meeting(b) \in Block /\ Meeting(b) <= L /\ Meeting(b) # 0 /\ Meeting(b) % 3 = 0
    BY FinishedBlocks
  <1>2. /\ \A b \in Block : code[b] # <<>> => EntryPoints[b] = {code[b][1].id}
        /\ EntryPoints[L + 1] = {Source!End}
        /\ code[L] = <<>> => EntryPoints[L] = {Source!End}
        /\ \A b \in Block : b % 3 # 0 /\ b < L /\ code[b] = <<>> =>
               EntryPoints[b] = EntryPoints[Meeting(b)]
    BY EntryPointsAre
  <1>3. \A e : e \in BlockFlow <=>
            \/ e \in Edges(Source!Start, "next", 0)
            \/ \E b \in Block : \E i \in 1 .. Len(code[b]) : e \in FlowFrom(b, i)
    BY DEF BlockFlow
  <1>4. ASSUME NEW b \in Block, code[b] # <<>>
        PROVE  Len(code[b]) \in 1 .. Len(code[b]) /\ LastQuad(b) = code[b][Len(code[b])]
    BY <1>4, CodeFacts DEF LastQuad
  \* What leads out of an arm leads into the block where the arms meet.
  <1>5. ASSUME NEW b \in Block, b % 3 # 0, b < L, NEW p, NEW w, ArmLeaves(b, p, w)
        PROVE  Enters(Meeting(b), p, w)
    <2>1. b \in Nat /\ (b % 3 = 1 \/ b % 3 = 2)
      BY <1>1, <1>5
    <2>2. Meeting(b) # 0 /\ Meeting(b) % 3 = 0
      BY <1>1, <1>5
    <2>3. Meeting(b) - 2 = b \/ Meeting(b) - 1 = b
      BY <2>1 DEF Meeting
    <2> QED BY <1>5, <2>2, <2>3 DEF Enters
  <1>6. ASSUME NEW b \in Block, b <= L, NEW p, NEW w, NEW q, Enters(b, p, w), q \in EntryPoints[b]
        PROVE  There(p, w, q)
    <2>1. CASE code[b] # <<>>
      BY <1>2, <1>6, <2>1 DEF Follows
    <2>2. CASE code[b] = <<>> /\ b = L
      BY <1>2, <1>6, <2>2 DEF Leaves
    <2>3. CASE code[b] = <<>> /\ b # L
      <3>1. b < L /\ b \in Nat
        BY <1>1, <1>6, <2>3
      <3>2. b % 3 # 0 /\ b # 0
        BY <1>1, <2>3, <3>1
      <3>3. PICK t : t = Meeting(b)
        OBVIOUS
      <3>4. q \in EntryPoints[t] /\ t \in Block /\ t <= L /\ t % 3 = 0
        BY <1>1, <1>2, <1>6, <2>3, <3>1, <3>2, <3>3
      <3>5. ArmLeaves(b, p, w)
        BY <1>6, <2>3, <3>2 DEF Enters, ArmLeaves
      <3>6. Enters(t, p, w)
        BY <1>5, <3>1, <3>2, <3>3, <3>5
      <3>7. CASE code[t] # <<>>
        BY <1>2, <3>4, <3>6, <3>7 DEF Follows
      <3>8. CASE code[t] = <<>>
        <4>1. ~(t < L)
          BY <1>1, <3>4, <3>8
        <4>2. t \in Nat /\ L \in Nat /\ t <= L
          BY <1>1, <3>4
        <4>3. t = L
          BY <4>1, <4>2
        <4> QED BY <1>2, <3>4, <3>6, <3>8, <4>3 DEF Leaves
      <3> QED BY <3>7, <3>8
    <2> QED BY <2>1, <2>2, <2>3
  <1>7. ASSUME NEW p, NEW w, NEW q, <<p, w, q>> \in BlockFlow
        PROVE  There(p, w, q)
    <2>1. CASE <<p, w, q>> \in Edges(Source!Start, "next", 0)
      <3>1. p = Source!Start /\ w = "next" /\ q \in EntryPoints[0]
        BY <2>1, EdgeMembers
      <3>2. Enters(0, p, w) /\ 0 \in Block /\ 0 <= L
        BY <1>1, <3>1 DEF Enters
      <3> QED BY <1>6, <3>1, <3>2
    <2>2. ASSUME NEW b \in Block, NEW i \in 1 .. Len(code[b]), <<p, w, q>> \in FlowFrom(b, i)
          PROVE  There(p, w, q)
      <3>0. code[b] # <<>>
        BY <2>2, CodeFacts
      <3>1. CASE IsIf(b) /\ i = Len(code[b])
                 /\ <<p, w, q>> \in Edges(code[b][i].id, "true", b + 1)
        <4>1. p = LastQuad(b).id /\ w = "true" /\ q \in EntryPoints[b + 1]
          BY <1>4, <3>0, <3>1, EdgeMembers
        <4>2. b + 1 <= L /\ b + 1 \in Block /\ (b + 1) % 3 = 1 /\ (b + 1) - 1 = b
          <5>1. b \in Nat /\ L \in Nat /\ b % 3 = 0 /\ L % 3 = 0 /\ b < L
            BY <1>1, <3>1
          <5>2. (b + 1) % 3 = 1 /\ b + 2 < L
            BY <5>1, Threes
          <5>3. b + 1 \in Nat /\ b + 1 <= L /\ (b + 1) - 1 = b
            BY <5>1, <5>2
          <5> QED BY <1>1, <5>2, <5>3
        <4>3. Enters(b + 1, p, w)
          BY <4>1, <4>2 DEF Enters, ArmEnters
        <4> QED BY <1>6, <4>1, <4>2, <4>3
      <3>2. CASE IsIf(b) /\ i = Len(code[b])
                 /\ <<p, w, q>> \in Edges(code[b][i].id, "false", b + 2)
        <4>1. p = LastQuad(b).id /\ w = "false" /\ q \in EntryPoints[b + 2]
          BY <1>4, <3>0, <3>2, EdgeMembers
        <4>2. b + 2 <= L /\ b + 2 \in Block /\ (b + 2) % 3 = 2 /\ (b + 2) - 2 = b
          <5>1. b \in Nat /\ L \in Nat /\ b % 3 = 0 /\ L % 3 = 0 /\ b < L
            BY <1>1, <3>2
          <5>2. (b + 2) % 3 = 2 /\ b + 2 < L
            BY <5>1, Threes
          <5>3. b + 2 \in Nat /\ b + 2 <= L /\ (b + 2) - 2 = b
            BY <5>1, <5>2
          <5> QED BY <1>1, <5>2, <5>3
        <4>3. Enters(b + 2, p, w)
          BY <4>1, <4>2 DEF Enters, ArmEnters
        <4> QED BY <1>6, <4>1, <4>2, <4>3
      <3>3. CASE code[b][i].op = "OP" /\ i < Len(code[b])
                 /\ <<p, w, q>> = <<code[b][i].id, "next", code[b][i + 1].id>>
        <4>1. p = code[b][i].id /\ w = "next" /\ q = code[b][i + 1].id
          BY <3>3
        <4>2. i \in 1 .. Len(code[b]) - 1
          BY <2>2, <3>3, CodeFacts
        <4>3. Inside(p, w, q)
          BY <3>3, <4>1, <4>2 DEF Inside
        <4> QED BY <4>3 DEF Follows
      <3>4. CASE code[b][i].op = "OP" /\ i = Len(code[b])
                 /\ <<p, w, q>> \in Edges(code[b][i].id, "next", IF b = L THEN L + 1 ELSE Meeting(b))
        <4>1. /\ p = LastQuad(b).id /\ w = "next" /\ LastQuad(b).op = "OP"
              /\ q \in EntryPoints[IF b = L THEN L + 1 ELSE Meeting(b)]
          BY <1>4, <3>0, <3>4, EdgeMembers
        <4>2. Ends(b, p, w)
          BY <3>0, <4>1 DEF Ends
        <4>3. CASE b = L
          BY <1>2, <4>1, <4>2, <4>3 DEF Leaves
        <4>4. CASE b # L
          <5>1. b < L /\ b \in Nat
            BY <1>1, <3>0, <4>4
          <5>2. b % 3 # 0
            <6>1. code[b][i].op = "JE" <=> i = Len(code[b]) /\ IsIf(b)
              BY <2>2 DEF IInv, BranchesLast, IsIf
            <6> QED BY <1>1, <3>4, <5>1, <6>1
          <5>3. PICK t : t = Meeting(b)
            OBVIOUS
          <5>4. t \in Block /\ t <= L /\ q \in EntryPoints[t]
            BY <1>1, <4>1, <4>4, <5>1, <5>2, <5>3
          <5>5. Enters(t, p, w)
            BY <1>5, <4>2, <5>1, <5>2, <5>3 DEF ArmLeaves
          <5> QED BY <1>6, <5>4, <5>5
        <4> QED BY <4>3, <4>4
      <3>5. \/ /\ IsIf(b) /\ i = Len(code[b])
               /\ \/ <<p, w, q>> \in Edges(code[b][i].id, "true", b + 1)
                  \/ <<p, w, q>> \in Edges(code[b][i].id, "false", b + 2)
            \/ /\ code[b][i].op = "OP" /\ i < Len(code[b])
               /\ <<p, w, q>> = <<code[b][i].id, "next", code[b][i + 1].id>>
            \/ /\ code[b][i].op = "OP" /\ i = Len(code[b])
               /\ <<p, w, q>> \in Edges(code[b][i].id, "next", IF b = L THEN L + 1 ELSE Meeting(b))
        BY <2>2, FlowFromIs
      <3> HIDE DEF There
      <3> QED BY <3>1, <3>2, <3>3, <3>4, <3>5
    <2> QED BY <1>3, <1>7, <2>1, <2>2
  \* Conversely, first what leads into an arm.
  <1>8. ASSUME NEW b \in Block, b <= L, NEW p, NEW w, NEW q, ArmEnters(b, p, w), q \in EntryPoints[b]
        PROVE  <<p, w, q>> \in BlockFlow
    <2>1. PICK a \in Block : /\ IsIf(a) /\ p = LastQuad(a).id
                             /\ (b = a + 1 /\ w = "true") \/ (b = a + 2 /\ w = "false")
      <3>1. b \in Nat
        BY <1>1
      <3>2. CASE b % 3 = 1 /\ p = LastQuad(b - 1).id /\ w = "true"
        <4>1. b - 1 \in Block /\ (b - 1) % 3 = 0 /\ b - 1 < L /\ b = (b - 1) + 1
          BY <1>1, <1>8, <3>1, <3>2
        <4>2. IsIf(b - 1)
          BY <1>1, <4>1
        <4> QED BY <3>2, <4>1, <4>2
      <3>3. CASE b % 3 = 2 /\ p = LastQuad(b - 2).id /\ w = "false"
        <4>1. b - 2 \in Block /\ (b - 2) % 3 = 0 /\ b - 2 < L /\ b = (b - 2) + 2
          BY <1>1, <1>8, <3>1, <3>3
        <4>2. IsIf(b - 2)
          BY <1>1, <4>1
        <4> QED BY <3>3, <4>1, <4>2
      <3> QED BY <1>8, <3>2, <3>3 DEF ArmEnters
    <2>2. code[a] # <<>>
      BY <1>1, <2>1
    <2>3. PICK i \in 1 .. Len(code[a]) : i = Len(code[a]) /\ LastQuad(a) = code[a][i]
      BY <1>4, <2>2
    <2>4. <<p, w, q>> \in Edges(code[a][i].id, "true", a + 1)
          \/ <<p, w, q>> \in Edges(code[a][i].id, "false", a + 2)
      BY <1>8, <2>1, <2>3, EdgeMembers
    <2>5. <<p, w, q>> \in FlowFrom(a, i)
      BY <2>1, <2>3, <2>4, FlowFromIs
    <2> QED BY <1>3, <2>5
  <1>9. ASSUME NEW b \in Block, NEW p, NEW w, NEW q, Ends(b, p, w),
               q \in EntryPoints[IF b = L THEN L + 1 ELSE Meeting(b)]
        PROVE  <<p, w, q>> \in BlockFlow
    <2>1. code[b] # <<>> /\ LastQuad(b).op = "OP" /\ p = LastQuad(b).id /\ w = "next"
      BY <1>9 DEF Ends
    <2>2. PICK i \in 1 .. Len(code[b]) : i = Len(code[b]) /\ LastQuad(b) = code[b][i]
      BY <1>4, <2>1
    <2>3. <<p, w, q>> \in Edges(code[b][i].id, "next", IF b = L THEN L + 1 ELSE Meeting(b))
      BY <1>9, <2>1, <2>2, EdgeMembers
    <2>4. <<p, w, q>> \in FlowFrom(b, i)
      BY <2>1, <2>2, <2>3, FlowFromIs
    <2> QED BY <1>3, <2>4
  <1>10. ASSUME NEW b \in Block, b % 3 # 0, b < L, NEW p, NEW w, NEW q, ArmLeaves(b, p, w),
                q \in EntryPoints[Meeting(b)]
         PROVE  <<p, w, q>> \in BlockFlow
    <2>1. CASE code[b] = <<>> /\ ArmEnters(b, p, w)
      <3>1. q \in EntryPoints[b] /\ b <= L
        BY <1>1, <1>2, <1>10, <2>1
      <3> QED BY <1>8, <2>1, <3>1
    <2>2. CASE Ends(b, p, w)
      <3>1. b # L
        BY <1>1, <1>10
      <3> QED BY <1>9, <1>10, <2>2, <3>1
    <2> QED BY <1>10, <2>1, <2>2 DEF ArmLeaves
  <1>11. ASSUME NEW b \in Block, b <= L, NEW p, NEW w, NEW q, Enters(b, p, w), q \in EntryPoints[b]
         PROVE  <<p, w, q>> \in BlockFlow
    <2>1. CASE b = 0 /\ p = Source!Start /\ w = "next"
      <3>1. <<p, w, q>> \in Edges(Source!Start, "next", 0)
        BY <1>11, <2>1, EdgeMembers
      <3> QED BY <1>3, <3>1
    <2>2. CASE ArmEnters(b, p, w)
      BY <1>8, <1>11, <2>2
    <2>3. CASE b # 0 /\ b % 3 = 0 /\ (ArmLeaves(b - 2, p, w) \/ ArmLeaves(b - 1, p, w))
      <3>1. PICK r \in {b - 2, b - 1} : ArmLeaves(r, p, w)
        BY <2>3
      <3>2. r \in Block /\ r % 3 # 0 /\ r < L /\ Meeting(r) = b
        <4>0. b <= L /\ L \in Nat
          BY <1>1, <1>11
        <4>1. b \in Nat /\ b # 0
          BY <1>1, <2>3
        <4>2. CASE r = b - 2
          <5>1. r % 3 = 1 /\ r \in Nat
            BY <2>3, <4>1, <4>2, ThreesBack
          <5>2. r + 2 = b /\ r < L /\ r <= L
            BY <4>0, <4>1, <4>2
          <5> QED BY <1>1, <5>1, <5>2 DEF Meeting
        <4>3. CASE r = b - 1
          <5>1. r % 3 = 2 /\ r \in Nat
            BY <2>3, <4>1, <4>3, ThreesBack
          <5>2. r + 1 = b /\ r < L /\ r <= L
            BY <4>0, <4>1, <4>3
          <5> QED BY <1>1, <5>1, <5>2 DEF Meeting
        <4> QED BY <3>1, <4>2, <4>3
      <3> QED BY <1>10, <1>11, <3>1, <3>2
    <2> QED BY <1>11, <2>1, <2>2, <2>3 DEF Enters
  <1>12. ASSUME NEW p, NEW w, NEW q, There(p, w, q) PROVE <<p, w, q>> \in BlockFlow
    <2>1. ASSUME NEW b \in Block, code[b] # <<>>, Enters(b, p, w), q = code[b][1].id
          PROVE  <<p, w, q>> \in BlockFlow
      <3>1. q \in EntryPoints[b] /\ b <= L
        BY <1>1, <1>2, <2>1
      <3> QED BY <1>11, <2>1, <3>1
    <2>2. ASSUME NEW b \in Block, NEW i \in 1 .. Len(code[b]) - 1,
                 code[b][i].op = "OP", p = code[b][i].id, w = "next", q = code[b][i + 1].id
          PROVE  <<p, w, q>> \in BlockFlow
      <3>1. i \in 1 .. Len(code[b]) /\ i < Len(code[b])
        BY <2>2, CodeFacts
      <3>2. <<p, w, q>> \in FlowFrom(b, i)
        BY <2>2, <3>1, FlowFromIs
      <3> QED BY <1>3, <3>1, <3>2
    <2>3. CASE q = Source!End /\ Leaves(L, p, w)
      <3>1. CASE code[L] = <<>> /\ Enters(L, p, w)
        <4>1. q \in EntryPoints[L] /\ L <= L
          BY <1>1, <1>2, <2>3, <3>1
        <4> QED BY <1>1, <1>11, <3>1, <4>1
      <3>2. CASE Ends(L, p, w)
        <4>1. q \in EntryPoints[IF L = L THEN L + 1 ELSE Meeting(L)]
          BY <1>2, <2>3
        <4> QED BY <1>1, <1>9, <3>2, <4>1
      <3> QED BY <2>3, <3>1, <3>2 DEF Leaves
    <2> QED BY <1>12, <2>1, <2>2, <2>3 DEF Follows, Inside
  <1>13. ASSUME NEW e \in BlockFlow PROVE e = <<e[1], e[2], e[3]>>
    <2>1. \A id, way, b : \A f \in Edges(id, way, b) : f = <<f[1], f[2], f[3]>>
      BY DEF Edges
    <2>2. CASE e \in Edges(Source!Start, "next", 0)
      BY <2>1, <2>2
    <2>3. ASSUME NEW b \in Block, NEW i \in 1 .. Len(code[b]), e \in FlowFrom(b, i)
          PROVE  e = <<e[1], e[2], e[3]>>
      <3>1. \/ e \in Edges(code[b][i].id, "true", b + 1)
            \/ e \in Edges(code[b][i].id, "false", b + 2)
            \/ e = <<code[b][i].id, "next", code[b][i + 1].id>>
            \/ e \in Edges(code[b][i].id, "next", IF b = L THEN L + 1 ELSE Meeting(b))
        BY <2>3, FlowFromIs
      <3>2. CASE e = <<code[b][i].id, "next", code[b][i + 1].id>>
        BY <3>2
      <3> QED BY <2>1, <3>1, <3>2
    <2> QED BY <1>3, <2>2, <2>3
  <1> QED BY <1>7, <1>12, <1>13

\* Where no if stands in an arm of another one, the blocks mean what the source
\* means, however many ifs, empty arms and returns there are: from every point
\* that the source can reach, emitted code goes to the same points, the same way.
THEOREM FlatFlowKept == Spec => []FlatFlowFaithful
  <1>1. IInv /\ MeaningInv => FlatFlowFaithful
    <2> SUFFICES ASSUME IInv, MeaningInv, ~IfInArm, phase = "done"
                 PROVE  {e \in BlockFlow : e[1] \in Reached} = flow
      BY DEF FlatFlowFaithful, FlowFaithful
    <2>1. Flat
      BY DEF MeaningInv
    <2>2. PICK L : L = LastBlock
      OBVIOUS
    <2>3. /\ \A e \in BlockFlow : e = <<e[1], e[2], e[3]>>
          /\ \A p, w, q : <<p, w, q>> \in BlockFlow <=>
                 Follows(p, w, q) \/ (q = Source!End /\ Leaves(L, p, w))
      BY <2>1, <2>2, BlockFlowIs
    <2>4. /\ \A e \in flow : e = <<e[1], e[2], e[3]>>
          /\ \A p, w, q : <<p, w, q>> \in flow <=>
                 p \in Reached /\ (Follows(p, w, q) \/ (q = Source!End /\ Leaves(L, p, w)))
      BY <2>1, <2>2 DEF Flat, FlowIs
    <2>5. ASSUME NEW e, e = <<e[1], e[2], e[3]>>
          PROVE  e \in flow <=> e \in BlockFlow /\ e[1] \in Reached
      <3>1. <<e[1], e[2], e[3]>> \in BlockFlow <=>
                Follows(e[1], e[2], e[3]) \/ (e[3] = Source!End /\ Leaves(L, e[1], e[2]))
        BY <2>3
      <3>2. <<e[1], e[2], e[3]>> \in flow <=>
                e[1] \in Reached
                    /\ (Follows(e[1], e[2], e[3]) \/ (e[3] = Source!End /\ Leaves(L, e[1], e[2])))
        BY <2>4
      <3> QED BY <2>5, <3>1, <3>2
    <2> QED BY <2>3, <2>4, <2>5
  <1> QED BY <1>1, InitMeaning, NextMeaning, InductiveInvariant, PTL DEF Spec

====
