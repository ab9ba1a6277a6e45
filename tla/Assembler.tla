----------------------------- MODULE Assembler -----------------------------
(***************************************************************************)
(* write_object_file (codegen/object.c) up to the text section: the two    *)
(* passes that turn instructions into words and labels into offsets, the   *)
(* borders of the functions (codegen/emit.c), the five words in front of   *)
(* main (wrap_code), and the functions behind it.  A word keeps its kind,  *)
(* its branch offset, and the instruction it comes from.                   *)
(***************************************************************************)
EXTENDS Codegen, FiniteSets, FiniteSetsExt

VARIABLES
    pass,             \* "first", "second", "split", "append", "written", "no main"
    label_addr,       \* word position of each label
    out,              \* all words, in the order of insns
    piece_borders, main_index,
    text

wordVars == <<pass, label_addr, out, piece_borders, main_index, text>>
asmVars == <<codeVars, wordVars>>

AsmInit ==
    /\ Init
    /\ pass = "first"
    /\ label_addr = <<>>
    /\ out = <<>>
    /\ piece_borders = <<>>
    /\ main_index = 0
    /\ text = <<>>

-----------------------------------------------------------------------------
(* encode_one: the number of words (codegen/enc.c) *)

\* enc_load_num: one word for the low 16 bits and one for each other chunk of
\* the 64 that is not zero; a negative int fills them all.
LoadWords(n) == IF n < 0 THEN 4 ELSE IF n < 65536 THEN 1 ELSE 2

\* An arithmetic instruction loads a number it cannot hold into x16 first: a
\* second operand that is large, or a factor or divisor, or a first operand.
LoadsScratch(ins) ==
    \/ ins.op \in {"ADD", "SUB", "CMP"} /\ ins.src2.is_num /\ ins.src2.src > 4095
    \/ ins.op \in {"MULT", "DIV"} /\ ins.src2.is_num
    \/ ins.op \in {"ADD", "SUB", "CMP", "MULT", "DIV"} /\ ~ins.src2.is_num /\ ins.src1.is_num

ScratchNumber(ins) == IF ins.src2.is_num THEN ins.src2.src ELSE ins.src1.src

Words(ins) ==
    CASE ins.op = "LABEL" -> 0
      [] ins.op = "JMP" -> 1
      [] ins.op \in {"JE", "CALL"} -> 2
      [] ins.op = "RET" -> IF ins.src1.is_num THEN LoadWords(ins.src1.src) + 1 ELSE 2
      [] ins.op = "MOV" -> IF ins.src1.is_num THEN LoadWords(ins.src1.src) ELSE 1
      [] ins.op = "NEG" -> IF ins.src1.is_num THEN LoadWords(-ins.src1.src) ELSE 1
      [] OTHER -> (IF LoadsScratch(ins) THEN LoadWords(ScratchNumber(ins)) ELSE 0)
                      + (IF ins.op \in {"CMP", "DIV"} THEN 2 ELSE 1)

\* Words in front of instruction k (from 1), as each pass counts them.
Position(k) == SumTo([j \in DOMAIN insns |-> Words(insns[j])], k - 1)

-----------------------------------------------------------------------------
(* the passes *)

Labels == {insns[k].target : k \in {j \in DOMAIN insns : insns[j].op = "LABEL"}}
LabelIndex(label) == CHOOSE k \in DOMAIN insns : insns[k].op = "LABEL" /\ insns[k].target = label

\* A label stands for the position of the word that comes next.
FirstPass ==
    /\ stage = "compiled"
    /\ pass = "first"
    /\ label_addr' = [label \in Labels |-> Position(LabelIndex(label))]
    /\ pass' = "second"
    /\ UNCHANGED <<codeVars, out, piece_borders, main_index, text>>

Word(kind, offset, k) == [kind |-> kind, offset |-> offset, from |-> k]

Offset(label, pos) == label_addr[label] - pos

\* The words of instruction k, which begin at word pos.  The second word of a
\* JE counts from itself.
EncodeJeFromFirst(k, pos) ==
    <<Word("cbnz", Offset(insns[k].target, pos), k), Word("b", Offset(insns[k].target2, pos), k)>>
EncodeJe(k, pos) ==
    <<Word("cbnz", Offset(insns[k].target, pos), k), Word("b", Offset(insns[k].target2, pos + 1), k)>>

Encode(k, pos) ==
    CASE insns[k].op = "LABEL" -> <<>>
      [] insns[k].op = "JMP" -> <<Word("b", Offset(insns[k].target, pos), k)>>
      [] insns[k].op = "JE" -> EncodeJe(k, pos)
      [] insns[k].op = "CALL" -> <<Word("bl", Offset(insns[k].target, pos), k), Word("plain", 0, k)>>
      [] OTHER -> [w \in 1 .. Words(insns[k]) |-> Word("plain", 0, k)]

SecondPass ==
    /\ pass = "second"
    /\ LET after[k \in 0 .. Len(insns)] ==
               IF k = 0 THEN <<>> ELSE LET words == after[k - 1] IN words \o Encode(k, Len(words))
       IN  out' = after[Len(insns)]
    /\ pass' = "split"
    /\ UNCHANGED <<codeVars, label_addr, piece_borders, main_index, text>>

\* split_bytes: where the words of each function begin, and the last end; the
\* last function named main is taken.
SplitBytes ==
    /\ pass = "split"
    /\ piece_borders' = [o \in 1 .. Len(program) + 1 |->
                            IF o <= Len(program) THEN Position(starts[o] + 1)
                            ELSE Position(Len(insns) + 1)]
    /\ IF Declared("main") = {}
       THEN pass' = "no main" /\ UNCHANGED main_index
       ELSE pass' = "append" /\ main_index' = Max(Declared("main"))
    /\ UNCHANGED <<codeVars, label_addr, out, text>>

PieceWords(o) == SubSeq(out, piece_borders[o] + 1, piece_borders[o + 1])

\* wrap_code: save registers, call main, exit with what it returned.
EntryCode == <<Word("plain", 0, 0), Word("plain", 0, 0), Word("bl", 3, 0),
               Word("plain", 0, 0), Word("plain", 0, 0)>>

\* append_dead_functions puts the other functions behind main, in order.
Others == [n \in 1 .. Len(program) - 1 |-> IF n < main_index THEN n ELSE n + 1]

WriteText ==
    /\ pass = "append"
    /\ text' = EntryCode \o PieceWords(main_index)
                   \o FlattenSeq([n \in DOMAIN Others |-> PieceWords(Others[n])])
    /\ pass' = "written"
    /\ UNCHANGED <<codeVars, label_addr, out, piece_borders, main_index>>

Compile == Next /\ UNCHANGED wordVars

AsmNext == Compile \/ FirstPass \/ SecondPass \/ SplitBytes \/ WriteText

AsmSpec == AsmInit /\ [][AsmNext]_asmVars

-----------------------------------------------------------------------------
(* What code generation promises *)

AsmTypeOK ==
    /\ stage \in {"order", "slots", "labels", "compile", "compiled", "fatal"}
    /\ pass \in {"first", "second", "split", "append", "written", "no main"}
    /\ order \in Seq(Places)
    /\ Cardinality(Range(order)) = Len(order)
    /\ slots \in Seq(Range(SlotPool) \cup {-1})
    /\ label_base \in Seq(Nat)
    /\ starts \in Seq(0 .. Len(insns))
    /\ \A k \in DOMAIN insns : insns[k].reg \in Nat
    /\ main_index \in 0 .. Len(program)

\* The buffer of compile_to_binary is filled to the last instruction, never
\* beyond: count_instructions foresees every move and jump.
BuffersFilled ==
    stage = "compile" =>
        \A o \in Places : Unresolved(o) = {} => Len(Piece(o)) = CountInstructions(FunctionAt(o))

\* Code behind instruction k, wherever its words have been put.
CodeBehind(k) == {j \in DOMAIN insns : j > k /\ Words(insns[j]) > 0}
FirstWord(j) == Min({a \in DOMAIN text : text[a].from = j})

Targets(word) ==
    LET ins == insns[word.from]
    IN  CASE word.from = 0 -> {LabelOf(main_index, 0)}
          [] word.from # 0 /\ word.kind \in {"cbnz", "bl"} -> {ins.target}
          [] word.from # 0 /\ word.kind = "b" -> IF ins.op = "JMP" THEN {ins.target} ELSE {ins.target2}

\* Every branch and call in the text section, the call of main included, names
\* a label, and goes to the first word of the code behind it, wherever the
\* functions have been put.
BranchesLand ==
    pass = "written" =>
        \A a \in DOMAIN text : text[a].kind # "plain" =>
            \A label \in Targets(text[a]) :
                /\ label \in Labels
                /\ \A k \in DOMAIN insns :
                       insns[k].op = "LABEL" /\ insns[k].target = label /\ CodeBehind(k) # {} =>
                           a + text[a].offset = FirstWord(Min(CodeBehind(k)))

=============================================================================
