----------------------------- MODULE Dominators ----------------------------
(***************************************************************************)
(* build_dominators of mncc (IR/dominator_ir.c, with the disjoint sets of  *)
(* IR/ir_phi.c): Lengauer and Tarjan's algorithm on the graph that         *)
(* build_cfg leaves, and compute_dominance_frontier (IR/ir_phi.c).         *)
(* Vertices are numbered from 1 in depth-first order; 0 means "none".      *)
(***************************************************************************)
EXTENDS Integers, Sequences, FiniteSetsExt

CONSTANT MaxBlocks

VARIABLES
    block_count, successors, predecessors,   \* the graph; never changed here
    step,             \* "idle", "dfs", "semi", "drain", "fix", "frontier", "built"
    active,           \* the calls of dfs_pass: blocks, and their next successor
    next_num,
    dfn,              \* number of a block, 0 before it is visited
    block_by_dfn, parent, semi, ancestor, label, idom,
    bucket,           \* the bucket_head / bucket_next lists
    i,                \* the vertex, or the block, the loop stands at
    pred,             \* and the predecessor
    df                \* dominance frontier of a block (df_add keeps no duplicates)

graphVars == <<block_count, successors, predecessors>>
numberVars == <<next_num, dfn, block_by_dfn, parent>>
forestVars == <<semi, ancestor, label>>
domVars == <<step, active, numberVars, forestVars, idom, bucket, i, pred, df>>

Block == 0 .. MaxBlocks - 1
Number == 0 .. MaxBlocks
NoBlock == -1

\* The arrays come from calloc, build_dominators sets semi, label and ancestor.
Init ==
    /\ step = "idle"
    /\ active = <<>>
    /\ next_num = 1
    /\ dfn = [b \in Block |-> 0]
    /\ block_by_dfn = [n \in Number |-> NoBlock]
    /\ parent = [n \in Number |-> 0]
    /\ semi = [n \in Number |-> n]
    /\ label = [n \in Number |-> n]
    /\ ancestor = [n \in Number |-> 0]
    /\ idom = [n \in Number |-> 0]
    /\ bucket = [n \in Number |-> <<>>]
    /\ i = 0
    /\ pred = 1
    /\ df = [b \in Block |-> {}]

-----------------------------------------------------------------------------
(* dfs_pass *)

\* The beginning of a call of dfs_pass on block b.
Visit(b) ==
    /\ dfn' = [dfn EXCEPT ![b] = next_num]
    /\ block_by_dfn' = [block_by_dfn EXCEPT ![next_num] = b]
    /\ next_num' = next_num + 1

DfsEntry ==
    /\ step = "idle"
    /\ step' = "dfs"
    /\ active' = <<[node |-> 0, succ |-> 1]>>
    /\ Visit(0)
    /\ UNCHANGED <<parent, forestVars, idom, bucket, i, pred, df>>

Top == active[Len(active)]
NextSuccessor == [active EXCEPT ![Len(active)].succ = @ + 1]

\* The loop of the innermost call comes to its next successor.
DfsSuccessor ==
    /\ step = "dfs"
    /\ active # <<>>
    /\ Top.succ <= Len(successors[Top.node])
    /\ LET s == successors[Top.node][Top.succ]
       IN  IF dfn[s] = 0
           THEN /\ parent' = [parent EXCEPT ![next_num] = dfn[Top.node]]
                /\ Visit(s)
                /\ active' = Append(NextSuccessor, [node |-> s, succ |-> 1])
           ELSE /\ active' = NextSuccessor
                /\ UNCHANGED numberVars
    /\ UNCHANGED <<step, forestVars, idom, bucket, i, pred, df>>

DfsReturn ==
    /\ step = "dfs"
    /\ active # <<>>
    /\ Top.succ > Len(successors[Top.node])
    /\ active' = SubSeq(active, 1, Len(active) - 1)
    /\ UNCHANGED <<step, numberVars, forestVars, idom, bucket, i, pred, df>>

DfsEnd ==
    /\ step = "dfs"
    /\ active = <<>>
    /\ next_num' = next_num - 1
    /\ i' = next_num - 1
    /\ step' = "semi"
    /\ UNCHANGED <<active, dfn, block_by_dfn, parent, forestVars, idom, bucket, pred, df>>

-----------------------------------------------------------------------------
(* dsu_find, dsu_eval, dsu_link *)

\* The label of v once the path above it is compressed.
LabelFirst(v, a, labels) == labels[v]
Better(v, a, labels) == IF semi[labels[a]] < semi[labels[v]] THEN labels[a] ELSE labels[v]

\* dsu_find(v): both arrays after the recursion.
Find[v \in Number] ==
    IF ancestor[v] = 0 \/ ancestor[ancestor[v]] = 0
    THEN [label |-> label, ancestor |-> ancestor]
    ELSE LET a == ancestor[v]
             above == Find[a]
         IN  [label |-> [above.label EXCEPT ![v] = Better(v, a, above.label)],
              ancestor |-> [above.ancestor EXCEPT ![v] = above.ancestor[a]]]

\* What dsu_eval(v) returns.
Eval(v) == IF ancestor[v] = 0 THEN v ELSE Find[v].label[v]

Compress(v) ==
    /\ label' = Find[v].label
    /\ ancestor' = Find[v].ancestor

-----------------------------------------------------------------------------
(* build_dominators *)

\* One predecessor of vertex i; one the depth-first search did not reach is
\* passed over.
SemiPredecessor ==
    /\ step = "semi"
    /\ i >= 2
    /\ pred <= Len(predecessors[block_by_dfn[i]])
    /\ LET v == dfn[predecessors[block_by_dfn[i]][pred]]
       IN  IF v = 0
           THEN UNCHANGED forestVars
           ELSE /\ Compress(v)
                /\ semi' = [semi EXCEPT ![i] = Min({@, semi[Eval(v)]})]
    /\ pred' = pred + 1
    /\ UNCHANGED <<step, active, numberVars, idom, bucket, i, df>>

\* All predecessors are seen: i waits in the bucket of its semidominator and
\* is linked to its parent.
LinkVertex ==
    /\ step = "semi"
    /\ i >= 2
    /\ pred > Len(predecessors[block_by_dfn[i]])
    /\ bucket' = [bucket EXCEPT ![semi[i]] = <<i>> \o @]
    /\ ancestor' = [ancestor EXCEPT ![i] = parent[i]]
    /\ step' = "drain"
    /\ UNCHANGED <<active, numberVars, semi, label, idom, i, pred, df>>

\* A vertex that waits for the parent of i learns its dominator, or a vertex
\* with the same one.
Candidate(u, v) == IF semi[u] < semi[v] THEN u ELSE parent[i]

DrainBucket ==
    /\ step = "drain"
    /\ bucket[parent[i]] # <<>>
    /\ LET v == Head(bucket[parent[i]])
       IN  /\ Compress(v)
           /\ idom' = [idom EXCEPT ![v] = Candidate(Eval(v), v)]
    /\ bucket' = [bucket EXCEPT ![parent[i]] = Tail(@)]
    /\ UNCHANGED <<step, active, numberVars, semi, i, pred, df>>

NextVertex ==
    /\ step = "drain"
    /\ bucket[parent[i]] = <<>>
    /\ i' = i - 1
    /\ pred' = 1
    /\ step' = "semi"
    /\ UNCHANGED <<active, numberVars, forestVars, idom, bucket, df>>

SemiEnd ==
    /\ step = "semi"
    /\ i < 2
    /\ i' = 2
    /\ step' = "fix"
    /\ UNCHANGED <<active, numberVars, forestVars, idom, bucket, pred, df>>

\* The second loop, in increasing order.
FixNothing(n) == idom[n]
Fixed(n) == IF idom[n] # semi[n] THEN idom[idom[n]] ELSE idom[n]

FixIdom ==
    /\ step = "fix"
    /\ i <= next_num
    /\ idom' = [idom EXCEPT ![i] = Fixed(i)]
    /\ i' = i + 1
    /\ UNCHANGED <<step, active, numberVars, forestVars, bucket, pred, df>>

FixEnd ==
    /\ step = "fix"
    /\ i > next_num
    /\ i' = 0
    /\ step' = "frontier"
    /\ UNCHANGED <<active, numberVars, forestVars, idom, bucket, pred, df>>

-----------------------------------------------------------------------------
(* compute_dominance_frontier *)

\* The vertices the runner comes by from n up to, and without, vertex top.
RunnerPastTop(n, top) == {n, idom[n]} \ {0}
Runner(n, top) ==
    LET chain[m \in Number] == IF m = top \/ m = 0 THEN {} ELSE {m} \cup chain[idom[m]]
    IN  chain[n]

\* The blocks whose frontier gets y because of an edge from x to y.
MetBy(x, y) == {block_by_dfn[n] : n \in Runner(dfn[x], idom[dfn[y]])}

\* The targets of block x that the search reached, if it reached x.
Reached(x) == IF dfn[x] = 0 THEN {} ELSE {y \in Block : dfn[y] # 0 /\
                  \E k \in 1 .. Len(successors[x]) : successors[x][k] = y}

\* The frontier, a set here, with blocks ys added.
DfAdd(frontier, ys) == frontier \cup ys

\* One block of the layout and all its successors.
FrontierBlock ==
    /\ step = "frontier"
    /\ i < block_count
    /\ df' = [b \in Block |-> DfAdd(df[b], {y \in Reached(i) : b \in MetBy(i, y)})]
    /\ i' = i + 1
    /\ UNCHANGED <<step, active, numberVars, forestVars, idom, bucket, pred>>

\* The loop over the blocks ends.
FrontierEnd ==
    /\ step = "frontier"
    /\ i = block_count
    /\ step' = "built"
    /\ UNCHANGED <<active, numberVars, forestVars, idom, bucket, i, pred, df>>

Next ==
    \/ DfsEntry \/ DfsSuccessor \/ DfsReturn \/ DfsEnd
    \/ SemiPredecessor \/ LinkVertex \/ DrainBucket \/ NextVertex \/ SemiEnd
    \/ FixIdom \/ FixEnd \/ FrontierBlock \/ FrontierEnd

-----------------------------------------------------------------------------
(* What the algorithm promises *)

Ref == INSTANCE Dominance

\* The vertices from which i can be reached through vertices above i only,
\* and the least of them.
Semidominator(n) ==
    LET above[k \in Nat] ==
            IF k = 0 THEN {n}
            ELSE LET found == above[k - 1]
                 IN  found \cup {dfn[b] : b \in {c \in Block : dfn[c] # 0 /\
                         \E m \in found : m >= n /\ Ref!Edge(successors, c, block_by_dfn[m])}}
    IN  Min(above[block_count])

\* While the main loop goes down, every vertex it has left holds its
\* semidominator, for good: compressing paths never spoils one.
SemiCorrect ==
    step = "drain" => \A n \in i .. next_num : semi[n] = Semidominator(n)

\* The tree is the dominator tree: the entry has no dominator, every other
\* reachable block its immediate one, and the rest of the blocks no number.
IdomCorrect ==
    step = "built" =>
        LET doms == Ref!DominatorsOf(successors)
        IN  /\ {b \in Block : dfn[b] # 0} = DOMAIN doms
            /\ idom[dfn[0]] = 0
            /\ \A b \in DOMAIN doms \ {0} :
                   block_by_dfn[idom[dfn[b]]] = Ref!ImmediateDominator(doms, b)

\* The frontier of a reachable block holds exactly the blocks where its
\* dominance ends; the other blocks have none.
FrontierCorrect ==
    step = "built" =>
        LET doms == Ref!DominatorsOf(successors)
        IN  \A x \in Block :
                df[x] = IF x \in DOMAIN doms THEN Ref!Frontier(successors, doms, x) ELSE {}

=============================================================================
