------------------------------ MODULE Grammar -------------------------------
(***************************************************************************)
(* What the lexer and the parser are compared with: the grammar of         *)
(* expressions, as sets of trees, the places where tokens end, and the     *)
(* text of a tree with no more parentheses than it needs.                  *)
(***************************************************************************)
EXTENDS Lexer, Parser, FiniteSets

-----------------------------------------------------------------------------
(* Expression ::= Term | Expression Sum Term, where Sum is + or -           *)
(* Term       ::= Unary | Term Product Unary, where Product is * or /       *)
(* Unary      ::= Primary | - Primary                                       *)
(* Primary    ::= number | name | ( Expression ) | name ( Arguments )       *)
(* Arguments  ::= empty | Expression | Expression , Arguments               *)

RECURSIVE Expressions(_), Terms(_), Primaries(_), ArgumentLists(_)

Before(s, k) == SubSeq(s, 1, k - 1)
Behind(s, k) == SubSeq(s, k + 1, Len(s))
PlacesOf(s, types) == {k \in DOMAIN s : s[k].type \in types}

Expressions(s) ==
    Terms(s) \cup
    UNION {{Binary(s[k].type, l, r) : l \in Expressions(Before(s, k)), r \in Terms(Behind(s, k))} :
              k \in PlacesOf(s, {"TK_ADD", "TK_SUBTRACTION"})}

Unaries(s) ==
    IF s = <<>> THEN {}
    ELSE Primaries(s) \cup
         (IF s[1].type = "TK_SUBTRACTION"
          THEN {Node("ND_UNARY", "TK_SUBTRACTION", <<e>>) : e \in Primaries(Tail(s))} ELSE {})

Terms(s) ==
    Unaries(s) \cup
    UNION {{Binary(s[k].type, l, r) : l \in Terms(Before(s, k)), r \in Unaries(Behind(s, k))} :
              k \in PlacesOf(s, {"TK_MULTYPLY", "TK_DIVISION"})}

\* What the sequence s holds in parentheses that open at place k and close last.
Enclosed(s, k) == SubSeq(s, k + 1, Len(s) - 1)
Encloses(s, k) == Len(s) > k /\ s[k].type = "TK_LARPEN" /\ Last(s).type = "TK_RARPEN"

Primaries(s) ==
    CASE Len(s) = 1 /\ s[1].type = "TK_NUMBER" -> {Node("ND_NUMBER", s[1].text, <<>>)}
      [] Len(s) = 1 /\ s[1].type = "TK_IDENTIFIER" -> {Node("ND_VARIABLES", s[1].text, <<>>)}
      [] Len(s) > 1 /\ Encloses(s, 1) -> Expressions(Enclosed(s, 1))
      [] Len(s) > 2 /\ s[1].type = "TK_IDENTIFIER" /\ Encloses(s, 2) ->
            {Node("ND_CALL", s[1].text, args) : args \in ArgumentLists(Enclosed(s, 2))}
      [] OTHER -> {}

ArgumentLists(s) ==
    IF s = <<>> THEN {<<>>}
    ELSE {<<e>> : e \in Expressions(s)} \cup
         UNION {{<<e>> \o args : e \in Expressions(Before(s, k)), args \in ArgumentLists(Behind(s, k))} :
                   k \in PlacesOf(s, {"TK_COMMA"})}

-----------------------------------------------------------------------------
(* The places of a text without unknown characters where a token ends.  In  *)
(* a run of letters and digits the digits before the first letter are a     *)
(* number, cut where a token is full; the rest is one word.                 *)

WordCharacters == Letters \cup Digits
Known == WordCharacters \cup Blanks \cup DOMAIN Single

\* The first place of the run of characters of a set that place i is in.
RunStart(text, i, set) == CHOOSE s \in 1 .. i : /\ \A k \in s .. i : text[k] \in set
                                                /\ s = 1 \/ text[s - 1] \notin set

\* The characters at i and i + 1 belong to one token.
Joined(text, i) ==
    LET word == RunStart(text, i, WordCharacters)
        equals == RunStart(text, i, {"="})
    IN  /\ i < Len(text)
        /\ \/ /\ {text[i], text[i + 1]} \subseteq WordCharacters
              /\ \/ \E k \in word .. i : text[k] \in Letters
                 \/ text[i + 1] \in Digits /\ (i + 1 - word) % (TokenSize - 1) # 0
           \/ /\ text[i] = "=" /\ text[i + 1] = "="
              /\ (i - equals) % 2 = 0

TokenEnds(text) == {i \in DOMAIN text : text[i] \notin Blanks /\ ~Joined(text, i)}

-----------------------------------------------------------------------------
(* The words of a tree *)

Spelling(type) ==
    IF type = "TK_CMP" THEN <<"=", "=">>
    ELSE <<CHOOSE c \in DOMAIN Single : Single[c] = type>>
KeywordText(type) == (CHOOSE k \in Keywords : k[1] = type)[2]

RECURSIVE ExpressionWords(_), Joint(_)

\* How tightly a tree binds: sums, products, a minus, and what needs nothing.
Binding(e) ==
    CASE e.type = "ND_BINARY_OP" -> IF e.name \in {"TK_ADD", "TK_SUBTRACTION"} THEN 1 ELSE 2
      [] e.type = "ND_UNARY" -> 3
      [] OTHER -> 4

\* In parentheses where it binds less tightly than its place asks for.
Placed(e, binding) ==
    IF Binding(e) >= binding THEN ExpressionWords(e)
    ELSE <<<<"(">>>> \o ExpressionWords(e) \o <<<<")">>>>

Joint(parts) ==
    CASE parts = <<>> -> <<>>
      [] Len(parts) = 1 -> parts[1]
      [] OTHER -> parts[1] \o <<<<",">>>> \o Joint(Tail(parts))

ExpressionWords(e) ==
    CASE e.type \in {"ND_NUMBER", "ND_VARIABLES"} -> <<e.name>>
      [] e.type = "ND_UNARY" -> <<<<"-">>>> \o Placed(e.children[1], 4)
      [] e.type = "ND_BINARY_OP" -> Placed(e.children[1], Binding(e)) \o <<Spelling(e.name)>>
                                        \o Placed(e.children[2], Binding(e) + 1)
      [] e.type = "ND_CALL" ->
            <<e.name, <<"(">>>> \o Joint([i \in DOMAIN e.children |-> ExpressionWords(e.children[i])])
                \o <<<<")">>>>

RECURSIVE StatementWords(_)

BodyWords(statements) ==
    <<<<"{">>>> \o FlattenSeq([i \in DOMAIN statements |-> StatementWords(statements[i])])
                \o <<<<"}">>>>

ConditionWords(e) ==
    IF e.type = "ND_BINARY_OP" /\ e.name = "TK_CMP"
    THEN ExpressionWords(e.children[1]) \o <<Spelling("TK_CMP")>> \o ExpressionWords(e.children[2])
    ELSE ExpressionWords(e)

ElseWords(children) ==
    IF Len(children) < 3 THEN <<>>
    ELSE <<KeywordText("TK_ELSE")>> \o
         (IF children[3].type = "ND_BRANCH" THEN StatementWords(children[3])
          ELSE BodyWords(children[3].children))

StatementWords(s) ==
    CASE s.type = "ND_RETURN" ->
            <<KeywordText("TK_RETURN")>> \o ExpressionWords(s.children[1]) \o <<<<";">>>>
      [] s.type = "ND_ASSIGMENT" ->
            <<s.name, <<"=">>>> \o ExpressionWords(s.children[1]) \o <<<<";">>>>
      [] s.type = "ND_VAR_DECL" ->
            (IF s.name[1] THEN <<KeywordText("TK_CONST")>> ELSE <<>>)
                \o <<KeywordText("TK_INTEGER"), s.name[2]>>
                \o (IF s.children = <<>> THEN <<>> ELSE <<<<"=">>>> \o ExpressionWords(s.children[1]))
                \o <<<<";">>>>
      [] s.type = "ND_BRANCH" ->
            <<KeywordText("TK_IF"), <<"(">>>> \o ConditionWords(s.children[1]) \o <<<<")">>>>
                \o BodyWords(s.children[2].children) \o ElseWords(s.children)
      [] OTHER -> ExpressionWords(s) \o <<<<";">>>>

FunctionWords(f) ==
    <<KeywordText("TK_INTEGER"), f.name[1], <<"(">>>>
        \o Joint([i \in DOMAIN f.name[2] |-> <<KeywordText("TK_INTEGER"), f.name[2][i]>>])
        \o <<<<")">>>> \o BodyWords(f.children)

FileWords(functions) == FlattenSeq([i \in DOMAIN functions |-> FunctionWords(functions[i])])

\* A text with a blank behind every word, and one with blanks only where two
\* words would become one.
Spread(words) == FlattenSeq([i \in DOMAIN words |-> Append(words[i], " ")])
Tight(words) ==
    FoldLeft(LAMBDA text, word :
                 IF text # <<>> /\ {Last(text), word[1]} \subseteq WordCharacters
                 THEN text \o <<" ">> \o word ELSE text \o word,
             <<>>, words)

=============================================================================
