------------------------------- MODULE Parser -------------------------------
(***************************************************************************)
(* The recursive descent of mncc (parser/parser.c, parse_expr.c,           *)
(* parse_stmt.c, parse_branch.c).  T is the sequence of tokens, ended by   *)
(* TK_EOF; a parse function takes the place of current_token and gives     *)
(* where it leaves it, with the tree.  Place 0 stands for the exit(1) of a *)
(* match that fails.                                                       *)
(***************************************************************************)
EXTENDS Integers, Sequences, SequencesExt

\* ND_NUMBER, ND_VARIABLES, ND_UNARY, ND_BINARY_OP, ND_CALL.
Node(type, name, children) == [type |-> type, name |-> name, children |-> children]

Parsed(at, tree) == [at |-> at, tree |-> tree]
Failed == Parsed(0, <<>>)

Is(T, at, type) == at # 0 /\ T[at].type = type

\* match: the place behind the token, if it is one of the type.
Match(T, at, type) == IF Is(T, at, type) THEN at + 1 ELSE 0

\* What was parsed, followed by a token of the type.
Closed(T, e, type) == Parsed(Match(T, e.at, type), e.tree)

\* What was parsed, as one more child of the node, or more of a sequence.
Under(node, e) == Parsed(e.at, [node EXCEPT !.children = Append(@, e.tree)])
Longer(s, e) == Parsed(e.at, Append(s, e.tree))

Binary(op, left, right) == Node("ND_BINARY_OP", op, <<left, right>>)
Operation(op, left, right) == Parsed(right.at, Binary(op, left.tree, right.tree))

RECURSIVE Expression(_, _), Sums(_, _), Products(_, _), Arguments(_, _)

\* parse_funcall, from its arguments on.  A comma may stand before the ")".
BehindArgument(T, args) ==
    IF Is(T, args.at, "TK_COMMA") THEN Arguments(T, Parsed(args.at + 1, args.tree)) ELSE args
Arguments(T, args) ==
    IF args.at = 0 \/ Is(T, args.at, "TK_RARPEN") THEN args
    ELSE BehindArgument(T, Longer(args.tree, Expression(T, args.at)))

Call(name, args) == Parsed(args.at, Node("ND_CALL", name, args.tree))
FunCall(T, i) == Call(T[i].text, Closed(T, Arguments(T, Parsed(i + 2, <<>>)), "TK_RARPEN"))

\* is_function_call looks at the token behind the name.
Primary(T, i) ==
    CASE Is(T, i, "TK_NUMBER") -> Parsed(i + 1, Node("ND_NUMBER", T[i].text, <<>>))
      [] Is(T, i, "TK_IDENTIFIER") /\ Is(T, i + 1, "TK_LARPEN") -> FunCall(T, i)
      [] Is(T, i, "TK_IDENTIFIER") /\ ~Is(T, i + 1, "TK_LARPEN") ->
            Parsed(i + 1, Node("ND_VARIABLES", T[i].text, <<>>))
      [] Is(T, i, "TK_LARPEN") -> Closed(T, Expression(T, i + 1), "TK_RARPEN")
      [] OTHER -> Failed

\* parse_unary: one minus, its operand a primary.
Unary(T, i) ==
    IF Is(T, i, "TK_SUBTRACTION")
    THEN Under(Node("ND_UNARY", "TK_SUBTRACTION", <<>>), Primary(T, i + 1))
    ELSE Primary(T, i)

\* The loop of parse_term, with what stands left of the operator so far.
ProductsRight(T, left) ==
    IF ~Is(T, left.at, "TK_MULTYPLY") /\ ~Is(T, left.at, "TK_DIVISION") THEN left
    ELSE Operation(T[left.at].type, left, Products(T, Unary(T, left.at + 1)))
ProductsLeft(T, left) ==
    IF ~Is(T, left.at, "TK_MULTYPLY") /\ ~Is(T, left.at, "TK_DIVISION") THEN left
    ELSE Products(T, Operation(T[left.at].type, left, Unary(T, left.at + 1)))
Products(T, left) == ProductsLeft(T, left)

Term(T, i) == Products(T, Unary(T, i))

\* The loop of parse_expression.
Sums(T, left) ==
    IF ~Is(T, left.at, "TK_ADD") /\ ~Is(T, left.at, "TK_SUBTRACTION") THEN left
    ELSE Sums(T, Operation(T[left.at].type, left, Term(T, left.at + 1)))

Expression(T, i) == Sums(T, Term(T, i))

-----------------------------------------------------------------------------
(* Statements *)

Ended(T, e) == Closed(T, e, "TK_SEMICOLON")

Return(T, i) == Under(Node("ND_RETURN", "", <<>>), Ended(T, Expression(T, i + 1)))

\* parse_statement: an expression may turn out to be the left side.
BehindLeft(T, e) ==
    IF e.at # 0 /\ e.tree.type = "ND_VARIABLES" /\ Is(T, e.at, "TK_ASSIGN")
    THEN Under(Node("ND_ASSIGMENT", e.tree.name, <<>>), Ended(T, Expression(T, e.at + 1)))
    ELSE Ended(T, e)
Simple(T, i) == BehindLeft(T, Expression(T, i))

\* parse_declaration; the node's name also tells const.
Declaration(T, i) ==
    LET int == IF Is(T, i, "TK_CONST") THEN i + 1 ELSE i
        name == Match(T, int, "TK_INTEGER")
        eq == Match(T, name, "TK_IDENTIFIER")
        declared == Node("ND_VAR_DECL", <<Is(T, i, "TK_CONST"), T[name].text>>, <<>>)
    IN  IF eq = 0 THEN Failed
        ELSE IF Is(T, eq, "TK_ASSIGN") THEN Under(declared, Ended(T, Expression(T, eq + 1)))
        ELSE Ended(T, Parsed(eq, declared))

RECURSIVE Statements(_, _), Branching(_, _)

\* The switch of parse_block and parse_function.
Statement(T, i) ==
    CASE Is(T, i, "TK_INTEGER") \/ Is(T, i, "TK_CONST") -> Declaration(T, i)
      [] Is(T, i, "TK_IF")     -> Branching(T, i)
      [] Is(T, i, "TK_RETURN") -> Return(T, i)
      [] OTHER                 -> Simple(T, i)

\* Their loop up to the "}", behind which it leaves.
Statements(T, s) ==
    IF s.at = 0 THEN Failed
    ELSE IF Is(T, s.at, "TK_END") THEN Parsed(s.at + 1, s.tree)
    ELSE Statements(T, Longer(s.tree, Statement(T, s.at)))

\* parse_block, from its "{" on.
Block(T, i) == Statements(T, Parsed(Match(T, i, "TK_START"), <<>>))
AsFile(s) == Parsed(s.at, Node("ND_FILE", "", s.tree))
Body(T, i) == AsFile(Block(T, i))

\* The condition of an if: only here two expressions may be compared.
Compared(T, left) ==
    IF ~Is(T, left.at, "TK_CMP") THEN left
    ELSE Operation("TK_CMP", left, Expression(T, left.at + 1))
Condition(T, i) == Compared(T, Expression(T, i))

ElseBelongsToNobody(T, i) == FALSE
HasElse(T, i) == Is(T, i, "TK_ELSE")

Otherwise(T, i) == IF Is(T, i, "TK_IF") THEN Branching(T, i) ELSE Body(T, i)

\* An if so far: with its condition, with its then-arm.
Then(T, if) == Under(if.tree, Body(T, if.at))
Else(T, if) == IF HasElse(T, if.at) THEN Under(if.tree, Otherwise(T, if.at + 1)) ELSE if

Branching(T, i) ==
    LET opened == Condition(T, Match(T, i + 1, "TK_LARPEN"))
    IN  Else(T, Then(T, Under(Node("ND_BRANCH", "", <<>>), Closed(T, opened, "TK_RARPEN"))))

-----------------------------------------------------------------------------
(* Functions *)

RECURSIVE Parametrs(_, _), Functions(_, _)

Parametrs(T, s) ==
    LET name == Match(T, s.at, "TK_INTEGER")
        behind == Match(T, name, "TK_IDENTIFIER")
        all == Append(s.tree, T[name].text)
    IN  IF Is(T, s.at, "TK_RARPEN") THEN s
        ELSE IF behind = 0 THEN Failed
        ELSE IF Is(T, behind, "TK_COMMA") THEN Parametrs(T, Parsed(behind + 1, all))
        ELSE Parsed(behind, all)

Headed(head, body) == Parsed(body.at, Node("ND_FUNC", head, body.tree))
WithBody(T, name, parametrs) ==
    Headed(<<name, parametrs.tree>>, Block(T, Match(T, parametrs.at, "TK_RARPEN")))

Function(T, i) ==
    LET behind == Match(T, Match(T, i, "TK_INTEGER"), "TK_IDENTIFIER")
    IN  WithBody(T, T[i + 1].text, Parametrs(T, Parsed(Match(T, behind, "TK_LARPEN"), <<>>)))

\* parse_file: functions up to the end.
Functions(T, s) ==
    IF s.at = 0 \/ Is(T, s.at, "TK_EOF") THEN s
    ELSE Functions(T, Longer(s.tree, Function(T, s.at)))

File(T) == Functions(T, Parsed(1, <<>>))

=============================================================================
