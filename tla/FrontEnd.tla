------------------------------ MODULE FrontEnd ------------------------------
(***************************************************************************)
(* The lexer and the parser on inputs that grow: a text by one character,  *)
(* an expression by one token, a file by one statement or function.        *)
(***************************************************************************)
EXTENDS Grammar

CONSTANTS
    Characters, MaxText,         \* texts over these characters
    TokenKinds, MaxTokens,       \* expressions over these tokens
    Heads, StatementTrees,       \* functions, their first statements
    LaterTrees, MaxStatements,   \* and those behind; the bound is for a file
    NarrowSize                   \* a token size that short texts fill

ASSUME SizesLeaveRoom == TokenSize \in Nat \ {0, 1} /\ NarrowSize \in Nat \ {0, 1}

VARIABLES
    text,        \* characters
    tokens,      \* tokens, without the end
    functions    \* trees of functions

vars == <<text, tokens, functions>>

Narrow == INSTANCE Grammar WITH TokenSize <- NarrowSize

Init == text = <<>> /\ tokens = <<>> /\ functions = <<>>

AddCharacter ==
    /\ tokens = <<>> /\ functions = <<>>
    /\ Len(text) < MaxText
    /\ \E c \in Characters : text' = Append(text, c)
    /\ UNCHANGED <<tokens, functions>>

AddToken ==
    /\ text = <<>> /\ functions = <<>>
    /\ Len(tokens) < MaxTokens
    /\ \E t \in TokenKinds : tokens' = Append(tokens, t)
    /\ UNCHANGED <<text, functions>>

StatementCount == FoldLeft(LAMBDA n, f : n + Len(f.children), 0, functions)

AddFunction ==
    /\ text = <<>> /\ tokens = <<>>
    /\ Len(functions) < 2
    /\ \E head \in Heads : functions' = Append(functions, Node("ND_FUNC", head, <<>>))
    /\ UNCHANGED <<text, tokens>>

AddStatement ==
    /\ functions # <<>>
    /\ StatementCount < MaxStatements
    /\ \E s \in IF StatementCount = 0 THEN StatementTrees ELSE LaterTrees :
           functions' = [functions EXCEPT ![Len(functions)].children = Append(@, s)]
    /\ UNCHANGED <<text, tokens>>

Next == AddCharacter \/ AddToken \/ AddFunction \/ AddStatement

Spec == Init /\ [][Next]_vars

-----------------------------------------------------------------------------
(* What the front end promises *)

EndToken == Token("TK_EOF", <<>>, 0)

\* next_token cuts a text, up to its first unknown character, exactly where a
\* token must end: it neither reads past a token nor stops inside a word, a
\* number or "==", with names that begin like keywords, digits before letters,
\* and numbers longer than a token.
LexerCuts ==
    LET unknown == {i \in DOMAIN text : text[i] \notin Known}
        known == IF unknown = {} THEN text
                 ELSE SubSeq(text, 1, (CHOOSE i \in unknown : \A k \in unknown : i <= k) - 1)
    IN  {t.pos - 1 : t \in Range(Front(Narrow!Tokens(text)))} = Narrow!TokenEnds(known)

\* parse_expression reads a whole sequence of tokens exactly if the grammar
\* derives it, and builds the one tree that the grammar gives it: operators of
\* one kind group to the left, * and / before + and -.
ExpressionAgrees ==
    tokens # <<>> =>
        LET e == Expression(Append(tokens, EndToken), 1)
        IN  Expressions(tokens) = IF e.at = Len(tokens) + 1 THEN {e.tree} ELSE {}

\* parse_file gives back every tree whose text the lexer reads, with any
\* layout: no statement is lost and every else goes with its if.
RoundTrip ==
    \A written \in {Spread(FileWords(functions)), Tight(FileWords(functions))} :
        LET parsed == File(Tokens(written))
        IN  parsed.at # 0 /\ parsed.tree = functions

=============================================================================
