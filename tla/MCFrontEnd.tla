----------------------------- MODULE MCFrontEnd -----------------------------
(***************************************************************************)
(* Inputs for FrontEnd: characters of every class, tokens of every kind an *)
(* expression may hold, and statements of every kind.                      *)
(***************************************************************************)
EXTENDS FrontEnd

MCTokenKinds ==
    {Token("TK_NUMBER", <<"1">>, 0), Token("TK_IDENTIFIER", <<"x">>, 0)} \cup
    {Token(t, <<>>, 0) : t \in {"TK_ADD", "TK_SUBTRACTION", "TK_MULTYPLY", "TK_LARPEN",
                                "TK_RARPEN", "TK_COMMA"}}

X == Node("ND_VARIABLES", <<"x">>, <<>>)
If1 == Node("ND_VARIABLES", <<"i", "f", "1">>, <<>>)
Twelve == Node("ND_NUMBER", <<"1", "2">>, <<>>)
CallOf(args) == Node("ND_CALL", <<"f">>, args)
Minus(e) == Node("ND_UNARY", "TK_SUBTRACTION", <<e>>)

\* Expressions whose operands are leaves, and those built of them.
Leaves == {If1}
Deeper(E) ==
    {Binary(op, l, r) : op \in {"TK_ADD", "TK_SUBTRACTION", "TK_MULTYPLY", "TK_DIVISION"}, l \in E, r \in E}
        \cup {Minus(e) : e \in E} \cup {CallOf(<<e>>) : e \in E}
Small == Leaves \cup Deeper(Leaves) \cup {Twelve, CallOf(<<>>), CallOf(<<If1, Minus(Twelve)>>)}
LargeExpressions == Small \cup Deeper(Small)

ReturnOf(e) == Node("ND_RETURN", "", <<e>>)
Plain == {ReturnOf(X), Node("ND_ASSIGMENT", <<"x">>, <<Minus(X)>>), CallOf(<<X>>), X,
          Node("ND_VAR_DECL", <<FALSE, <<"x">>>>, <<>>),
          Node("ND_VAR_DECL", <<TRUE, <<"i", "n", "t", "1">>>>, <<Twelve>>)}

Arm(statements) == Node("ND_FILE", "", statements)
If(c, children) == Node("ND_BRANCH", "", <<c>> \o children)
Conditions == {X, Binary("TK_CMP", Minus(X), Twelve)}
Arms == {Arm(<<>>)} \cup {Arm(<<s>>) : s \in Plain}
Branches ==
    {If(c, <<arm>>) : c \in Conditions, arm \in Arms} \cup
    {If(X, <<arm, other>>) : arm \in Arms, other \in Arms}

\* An if in an arm, and one behind an else.
Nested ==
    UNION {{If(X, <<Arm(<<b>>)>>), If(X, <<Arm(<<b>>), Arm(<<ReturnOf(X)>>)>>),
            If(X, <<Arm(<<>>), b>>), If(X, <<Arm(<<>>), Arm(<<b>>)>>)} : b \in Branches}

MCStatementTrees == Plain \cup Branches \cup Nested \cup {ReturnOf(e) : e \in LargeExpressions}
MCLaterTrees == {ReturnOf(X), If(X, <<Arm(<<X, X>>), Arm(<<X>>)>>)}
MCHeads == {<<<<"f">>, <<>>>>, <<<<"f">>, <<<<"x">>, <<"i", "f", "1">>>>>>}

=============================================================================
