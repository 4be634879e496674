------------------------------ MODULE SkipList ------------------------------
(***************************************************************************)
(* skip_list of common/skip-list.h: an ordered dictionary kept as a linked *)
(* list with express lists above it.                                       *)
(*                                                                         *)
(* The nodes linked at a level are the sequence chain[level]; m_pHead is   *)
(* the node head, in front of every chain.  Memory is not used twice, so a *)
(* pointer to a deleted node stays one: following it, like writing behind  *)
(* the end of targetPrev, is undefined and ends the behaviour in ub.       *)
(***************************************************************************)
EXTENDS Integers, Sequences, FiniteSetsExt

CONSTANTS
    Keys,      \* what m_cmp compares, integers
    Vals,      \* the rest of a T
    Levels,    \* levels asked of the constructor, counted from 0
    MaxNodes   \* bound: nodes created in a behaviour

\* Keys have an order, and at least one level was asked for: init compares a
\* signed with an unsigned number, so that a negative level would stay.
ListAssumption == Keys \subseteq Int /\ Levels \in Nat

VARIABLES
    chain,        \* per level, the nodes linked there
    node,         \* the nodes created so far: key, value and level
    freed,        \* the nodes deleted
    m_iCurLevel,
    ub,           \* undefined behaviour was met
    dict,         \* history: what the operations mean, key -> value
    misplaced     \* history: an insert raised the level over smaller nodes

vars == <<chain, node, freed, m_iCurLevel, ub, dict, misplaced>>

head == 0

\* init(): a level below the largest one becomes the smallest, 3.
m_iMaxLevel == IF Levels < 31 THEN 3 ELSE Levels

Init ==
    /\ chain = [i \in 0 .. m_iMaxLevel |-> <<>>]
    /\ node = <<>> /\ freed = {}
    /\ m_iCurLevel = 0
    /\ ub = FALSE /\ misplaced = FALSE
    /\ dict = << >>

----------------------------------------------------------------------------
\* The position of a node in a chain and back, 0 for m_pHead.  A deleted node
\* that is still linked above is in no chain below; ReadsFreed covers it.
Position(c, n) == IF \E j \in DOMAIN c : c[j] = n THEN CHOOSE j \in DOMAIN c : c[j] = n ELSE 0
NodeAt(c, j) == IF j = 0 THEN head ELSE c[j]

\* A node is linked behind position j of a chain; the one at j is taken out.
Link(c, j, n) == SubSeq(c, 1, j) \o <<n>> \o SubSeq(c, j + 1, Len(c))
Unlink(c, j) == SubSeq(c, 1, j - 1) \o SubSeq(c, j + 1, Len(c))

\* Where the walk along level i stops that starts behind node p: at the first
\* node not smaller than t, or behind the last one.
Reached(i, p, t) ==
    LET c == chain[i]
    IN Min({j \in Position(c, p) + 1 .. Len(c) : node[c[j]].key >= t} \union {Len(c) + 1})

\* The predecessor of t at every level up to m_iCurLevel, from the top down.
find_previous_levels_nodes(t) ==
    LET prev[i \in 0 .. m_iCurLevel + 1] ==
          IF i > m_iCurLevel THEN head ELSE NodeAt(chain[i], Reached(i, prev[i + 1], t) - 1)
    IN prev

\* The walk of find_previous_levels_nodes reads a deleted node.
ReadsFreed(t) ==
    LET prev == find_previous_levels_nodes(t)
    IN \E i \in 0 .. m_iCurLevel :
         \E j \in Position(chain[i], prev[i + 1]) + 1 .. Reached(i, prev[i + 1], t) :
           j <= Len(chain[i]) /\ chain[i][j] \in freed

\* The node behind p at level i, head for a null pointer.
Behind(i, p) ==
    LET j == Position(chain[i], p) + 1 IN IF j > Len(chain[i]) THEN head ELSE chain[i][j]

\* The node the walk finds for t, head for a null pointer.
Hit(t) ==
    LET q == Behind(0, find_previous_levels_nodes(t)[0])
    IN IF q # head /\ node[q].key = t THEN q ELSE head

\* The walk ends at the first level, from the top, that holds t.
find_node(t) ==
    LET prev == find_previous_levels_nodes(t)
        hits == {i \in 0 .. m_iCurLevel :
                   LET q == Behind(i, prev[i]) IN q # head /\ node[q].key = t}
    IN IF hits = {} THEN head ELSE Behind(Max(hits), prev[Max(hits)])

get(t) == LET n == find_node(t) IN IF n = head THEN <<FALSE>> ELSE <<TRUE, node[n].val>>

contains(t) == find_node(t) # head

Undefined ==
    /\ ub' = TRUE
    /\ UNCHANGED <<chain, node, freed, m_iCurLevel, dict, misplaced>>

----------------------------------------------------------------------------
Update(t, v, q) ==
    /\ node' = [node EXCEPT ![q].val = v]
    /\ UNCHANGED <<chain, freed, m_iCurLevel, ub, misplaced>>

\* A mutant of create: the loop over the levels stops one early.
create_short(t, v, nodeLevel, prev) ==
    LET at(i) == IF nodeLevel > m_iCurLevel /\ i >= m_iCurLevel THEN head ELSE prev[i]
        n == Len(node) + 1
    IN /\ node' = Append(node, [key |-> t, val |-> v, level |-> nodeLevel])
       /\ chain' = [i \in DOMAIN chain |->
                      IF i < nodeLevel \/ i = 0 THEN Link(chain[i], Position(chain[i], at(i)), n)
                      ELSE chain[i]]
       /\ m_iCurLevel' = Max({m_iCurLevel, nodeLevel})
       /\ misplaced' = (misplaced \/ (nodeLevel > m_iCurLevel /\ prev[m_iCurLevel] # head))
       /\ UNCHANGED <<freed, ub>>

\* Any level may be drawn.
rand_level == 0 .. m_iMaxLevel

\* A node of the level drawn by rand_level.  A level above the current one
\* makes m_pHead the predecessor from the current level on, also at the
\* current level, where smaller nodes may already be linked.
create(t, v, nodeLevel, prev) ==
    LET at(i) == IF nodeLevel > m_iCurLevel /\ i >= m_iCurLevel THEN head ELSE prev[i]
        n == Len(node) + 1
    IN /\ node' = Append(node, [key |-> t, val |-> v, level |-> nodeLevel])
       /\ chain' = [i \in DOMAIN chain |->
                      IF i <= nodeLevel THEN Link(chain[i], Position(chain[i], at(i)), n)
                      ELSE chain[i]]
       /\ m_iCurLevel' = Max({m_iCurLevel, nodeLevel})
       /\ misplaced' = (misplaced \/ (nodeLevel > m_iCurLevel /\ prev[m_iCurLevel] # head))
       /\ UNCHANGED <<freed, ub>>

Entered(t, v) == dict' = [k \in DOMAIN dict \union {t} |-> IF k = t THEN v ELSE dict[k]]

\* targetPrev has m_iMaxLevel entries, one for each level but the last.
insert(t, v) ==
    /\ ~ub /\ Len(node) < MaxNodes
    /\ \/ ReadsFreed(t) /\ Undefined
       \/ ~ReadsFreed(t) /\ Hit(t) # head /\ Update(t, v, Hit(t)) /\ Entered(t, v)
       \/ /\ ~ReadsFreed(t) /\ Hit(t) = head
          /\ \E nodeLevel \in rand_level :
               \/ nodeLevel = m_iMaxLevel /\ Undefined
               \/ /\ nodeLevel < m_iMaxLevel
                  /\ create(t, v, nodeLevel, find_previous_levels_nodes(t)) /\ Entered(t, v)

\* The levels from 0 up at which q directly follows the predecessor of t:
\* the loop breaks at the first where it does not.
Linked(q, prev) ==
    {i \in 0 .. m_iCurLevel : \A j \in 0 .. i : Behind(j, prev[j]) = q}

erase(t) ==
    LET prev == find_previous_levels_nodes(t)
        q == Hit(t)
    IN /\ ~ub
       /\ \/ ReadsFreed(t) /\ Undefined
          \/ /\ ~ReadsFreed(t) /\ q # head
             /\ chain' = [i \in DOMAIN chain |->
                            IF i \in Linked(q, prev)
                            THEN Unlink(chain[i], Position(chain[i], q)) ELSE chain[i]]
             /\ freed' = freed \union {q}
             /\ m_iCurLevel' = m_iCurLevel
                               - Cardinality({i \in 1 .. m_iCurLevel : chain'[i] = <<>>})
             /\ dict' = [k \in DOMAIN dict \ {t} |-> dict[k]]
             /\ UNCHANGED <<node, ub, misplaced>>

\* Every second node is deleted, the others are leaked; m_iCurLevel stays.
clear ==
    /\ ~ub
    /\ freed' = freed \union {chain[0][j] : j \in {j \in DOMAIN chain[0] : j % 2 = 1}}
    /\ chain' = [i \in DOMAIN chain |-> <<>>]
    /\ dict' = << >>
    /\ UNCHANGED <<node, m_iCurLevel, ub, misplaced>>

Next ==
    \/ \E t \in Keys, v \in Vals : insert(t, v)
    \/ \E t \in Keys : erase(t)
    \/ clear

Spec == Init /\ [][Next]_vars

----------------------------------------------------------------------------
TypeOK ==
    /\ chain \in [0 .. m_iMaxLevel -> Seq(DOMAIN node)]
    /\ node \in Seq([key : Keys, val : Vals, level : 0 .. m_iMaxLevel])
    /\ freed \subseteq DOMAIN node
    /\ m_iCurLevel \in 0 .. m_iMaxLevel
    /\ ub \in BOOLEAN /\ misplaced \in BOOLEAN

\* Until an insert raises the level over smaller nodes, the list is the
\* dictionary its operations describe: every level is sorted and holds the
\* live nodes of that level or above, and get and contains find exactly the
\* entries, with their last value, whatever levels rand_level drew and
\* whatever was erased, cleared or updated before (skip-list.h).
Agrees ==
    ub \/ misplaced \/
      /\ \A i \in 0 .. m_iMaxLevel :
           /\ \A j \in 1 .. Len(chain[i]) - 1 : node[chain[i][j]].key < node[chain[i][j + 1]].key
           /\ Range(chain[i]) = {n \in Range(chain[0]) : node[n].level >= i}
           /\ i > m_iCurLevel => chain[i] = <<>>
      /\ Range(chain[0]) \intersect freed = {}
      /\ {<<node[n].key, node[n].val>> : n \in Range(chain[0])} = {<<k, dict[k]>> : k \in DOMAIN dict}
      /\ \A t \in Keys :
           /\ contains(t) <=> t \in DOMAIN dict
           /\ get(t) = IF t \in DOMAIN dict THEN <<TRUE, dict[t]>> ELSE <<FALSE>>
=============================================================================
