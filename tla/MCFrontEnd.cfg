\* Every text of six characters, every expression of six tokens, and files of
\* up to two functions and two statements.
CONSTANTS
    TokenSize = 60
    NarrowSize = 4
    Characters = {"i", "f", "1", "=", "+", " ", "?"}
    MaxText = 6
    TokenKinds <- MCTokenKinds
    MaxTokens = 6
    Heads <- MCHeads
    StatementTrees <- MCStatementTrees
    LaterTrees <- MCLaterTrees
    MaxStatements = 2
SPECIFICATION Spec
CHECK_DEADLOCK FALSE
INVARIANTS
    LexerCuts
    ExpressionAgrees
    RoundTrip
