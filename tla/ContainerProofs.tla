-------------------------- MODULE ContainerProofs ---------------------------
(***************************************************************************)
(* Proofs about the two containers of src/src/common: the skip list, for   *)
(* any keys, values and levels, and BlockingQueue, for any set of threads  *)
(* and any limit.                                                          *)
(*                                                                         *)
(* Agrees says what a lookup returns; ListIInv, which is inductive, says   *)
(* why: each level is sorted and holds the live nodes of that level, so    *)
(* that a walk from the top down stops in front of the key sought.         *)
(* NoLostWakeup is not inductive alone: in an unbounded queue a woken      *)
(* thread must be a consumer, which NoBlockedPush records.                 *)
(***************************************************************************)
EXTENDS Dictionary, BlockingQueue, WellFoundedInduction, TLAPS

\* A set of numbers has a least one.
LEMMA ListLeast ==
  ASSUME NEW T, T \subseteq Nat, T # {}
  PROVE  \E x \in T : \A y \in T : x <= y
<1> DEFINE R == OpToRel(<, Nat)
<1>1. IsWellFoundedOn(R, Nat)
  BY Zenon, NatLessThanWellFounded
<1> HIDE DEF R
<1>2. PICK x \in T : \A y \in T : ~(<<y, x>> \in R)
  BY Zenon, <1>1, WFMin
<1>3. ASSUME NEW y \in T PROVE x <= y
  <2>1. <<y, x>> \notin R
    BY Zenon, <1>2
  <2>2. y < x => <<y, x>> \in R
    BY <1>2, <1>3 DEF R, OpToRel
  <2> QED BY <2>1, <2>2
<1> QED BY Zenon, <1>3

\* Min is that one.
LEMMA ListMin ==
  ASSUME NEW T, T \subseteq Nat, T # {}
  PROVE  List!Min(T) \in T /\ \A y \in T : List!Min(T) <= y
  BY Zenon, ListLeast DEF List!Min

\* A set of numbers up to a bound has a largest one.
LEMMA ListMax ==
  ASSUME NEW b \in Nat, NEW T, T \subseteq 0 .. b, T # {}
  PROVE  List!Max(T) \in T /\ \A y \in T : List!Max(T) >= y
<1> DEFINE D == {b - y : y \in T}
<1>1. D \subseteq Nat /\ D # {}
  OBVIOUS
<1>2. PICK d \in D : \A e \in D : d <= e
  BY Zenon, <1>1, ListLeast
<1>3. PICK x \in T : d = b - x
  BY Zenon, <1>2
<1>4. ASSUME NEW y \in T PROVE x >= y
  <2>1. b - x <= b - y
    BY Zenon, <1>2, <1>3, <1>4
  <2> HIDE DEF D
  <2> QED BY <1>3, <1>4, <2>1
<1> QED BY Zenon, <1>3, <1>4 DEF List!Max

\* The length of what is joined.
LEMMA ListJoin ==
  ASSUME NEW S, NEW a \in Seq(S), NEW b \in Seq(S)
  PROVE  a \o b \in Seq(S) /\ Len(a \o b) = Len(a) + Len(b)
  OBVIOUS

\* The j-th node of a chain in which n was linked behind k others.
ListAfterLink(c, k, n, j) == IF j <= k THEN c[j] ELSE IF j = k + 1 THEN n ELSE c[j - 1]

\* A node is linked in between.
LEMMA ListLink ==
  ASSUME NEW S, NEW c \in Seq(S), NEW n \in S, NEW k \in 0 .. Len(c)
  PROVE  LET d == List!Link(c, k, n)
         IN /\ d \in Seq(S) /\ Len(d) = Len(c) + 1
            /\ \A j \in 1 .. Len(c) + 1 : d[j] = ListAfterLink(c, k, n, j)
            /\ List!Range(d) = List!Range(c) \union {n}
<1> DEFINE a == SubSeq(c, 1, k)
           b == SubSeq(c, k + 1, Len(c))
           d == List!Link(c, k, n)
<1>1. Len(c) \in Nat /\ k \in Nat
  OBVIOUS
<1>2. a \in Seq(S) /\ Len(a) = k /\ \A j \in 1 .. k : a[j] = c[j]
  BY <1>1
<1>3. b \in Seq(S) /\ Len(b) = Len(c) - k /\ \A j \in 1 .. Len(c) - k : b[j] = c[k + j]
  BY <1>1
<1>4. d = a \o <<n>> \o b
  BY Zenon DEF List!Link
<1> HIDE DEF a, b, d
<1>5. a \o <<n>> \in Seq(S) /\ Len(a \o <<n>>) = k + 1
      /\ \A j \in 1 .. k + 1 : (a \o <<n>>)[j] = IF j <= k THEN a[j] ELSE n
  BY <1>1, <1>2
<1>6. d \in Seq(S) /\ Len(d) = Len(c) + 1
  <2> DEFINE e == a \o <<n>>
  <2> HIDE DEF e
  <2>1. e \in Seq(S) /\ Len(e) = k + 1
    BY Zenon, <1>5 DEF e
  <2>2. e \o b \in Seq(S) /\ Len(e \o b) = Len(e) + Len(b)
    BY Zenon, <1>3, <2>1, ListJoin
  <2>3. d = e \o b
    BY Zenon, <1>4 DEF e
  <2>4. (k + 1) + (Len(c) - k) = Len(c) + 1
    BY <1>1
  <2> QED BY Zenon, <1>3, <2>1, <2>2, <2>3, <2>4
<1>7. ASSUME NEW j \in 1 .. Len(c) + 1
      PROVE  d[j] = IF j <= k THEN c[j] ELSE IF j = k + 1 THEN n ELSE c[j - 1]
  <2>1. CASE j <= k + 1
    <3>1. d[j] = (a \o <<n>>)[j]
      BY <1>1, <1>3, <1>4, <1>5, <1>7, <2>1
    <3> QED BY <1>1, <1>2, <1>5, <1>7, <2>1, <3>1
  <2>2. CASE j > k + 1
    <3>1. d[j] = b[j - (k + 1)]
      BY <1>1, <1>3, <1>4, <1>5, <1>7, <2>2
    <3>2. j - (k + 1) \in 1 .. Len(c) - k /\ k + (j - (k + 1)) = j - 1
      BY <1>1, <1>7, <2>2
    <3>3. b[j - (k + 1)] = c[j - 1]
      BY Zenon, <1>3, <3>2
    <3> QED BY <1>1, <1>7, <2>2, <3>1, <3>3
  <2> QED BY <1>1, <2>1, <2>2
<1>8. DOMAIN c = 1 .. Len(c) /\ DOMAIN d = 1 .. Len(c) + 1
  BY <1>6
<1>9. \A x \in List!Range(d) : x \in List!Range(c) \union {n}
  <2> SUFFICES ASSUME NEW j \in 1 .. Len(c) + 1 PROVE d[j] \in List!Range(c) \union {n}
    BY Zenon, <1>8 DEF List!Range
  <2>1. j <= k => j \in 1 .. Len(c)
    BY <1>1
  <2>2. ~(j <= k) /\ j # k + 1 => j - 1 \in 1 .. Len(c)
    BY <1>1
  <2> QED BY Zenon, <1>7, <1>8, <2>1, <2>2 DEF List!Range
<1>10. n \in List!Range(d)
  <2>1. k + 1 \in 1 .. Len(c) + 1 /\ ~(k + 1 <= k)
    BY <1>1
  <2> QED BY Zenon, <1>7, <1>8, <2>1 DEF List!Range
<1>11. ASSUME NEW j \in 1 .. Len(c) PROVE c[j] \in List!Range(d)
  <2>1. CASE j <= k
    <3>1. j \in 1 .. Len(c) + 1
      BY <1>1, <1>11
    <3> QED BY Zenon, <1>7, <1>8, <2>1, <3>1 DEF List!Range
  <2>2. CASE ~(j <= k)
    <3>1. j + 1 \in 1 .. Len(c) + 1 /\ ~(j + 1 <= k) /\ j + 1 # k + 1 /\ (j + 1) - 1 = j
      BY <1>1, <1>11, <2>2
    <3> QED BY Zenon, <1>7, <1>8, <3>1 DEF List!Range
  <2> QED BY Zenon, <2>1, <2>2
<1>12. List!Range(c) \subseteq List!Range(d)
  BY Zenon, <1>8, <1>11 DEF List!Range
<1>13. \A j \in 1 .. Len(c) + 1 : d[j] = ListAfterLink(c, k, n, j)
  BY Zenon, <1>7 DEF ListAfterLink
<1> QED BY Zenon, <1>6, <1>9, <1>10, <1>12, <1>13 DEF d

\* A node is taken out.
LEMMA ListUnlink ==
  ASSUME NEW S, NEW c \in Seq(S), NEW k \in 1 .. Len(c)
  PROVE  LET d == List!Unlink(c, k)
         IN /\ d \in Seq(S) /\ Len(d) = Len(c) - 1
            /\ \A j \in 1 .. Len(c) - 1 : d[j] = IF j < k THEN c[j] ELSE c[j + 1]
            /\ (\A i, j \in DOMAIN c : c[i] = c[j] => i = j) =>
                 List!Range(d) = List!Range(c) \ {c[k]}
<1> DEFINE a == SubSeq(c, 1, k - 1)
           b == SubSeq(c, k + 1, Len(c))
           d == List!Unlink(c, k)
<1>1. Len(c) \in Nat /\ k \in Nat /\ k >= 1 /\ k <= Len(c)
  OBVIOUS
<1>2. a \in Seq(S) /\ Len(a) = k - 1 /\ \A j \in 1 .. k - 1 : a[j] = c[j]
  BY <1>1
<1>3. b \in Seq(S) /\ Len(b) = Len(c) - k /\ \A j \in 1 .. Len(c) - k : b[j] = c[k + j]
  BY <1>1
<1>4. d = a \o b
  BY Zenon DEF List!Unlink
<1> HIDE DEF a, b, d
<1>5. d \in Seq(S) /\ Len(d) = Len(c) - 1
  <2>1. a \o b \in Seq(S) /\ Len(a \o b) = Len(a) + Len(b)
    BY Zenon, <1>2, <1>3, ListJoin
  <2>2. (k - 1) + (Len(c) - k) = Len(c) - 1
    BY <1>1
  <2> QED BY Zenon, <1>2, <1>3, <1>4, <2>1, <2>2
<1>6. ASSUME NEW j \in 1 .. Len(c) - 1
      PROVE  d[j] = IF j < k THEN c[j] ELSE c[j + 1]
  <2>1. CASE j < k
    <3>1. d[j] = a[j]
      BY <1>1, <1>2, <1>3, <1>4, <1>6, <2>1
    <3> QED BY <1>1, <1>2, <1>6, <2>1, <3>1
  <2>2. CASE ~(j < k)
    <3>1. d[j] = b[j - (k - 1)]
      BY <1>1, <1>2, <1>3, <1>4, <1>6, <2>2
    <3>2. j - (k - 1) \in 1 .. Len(c) - k /\ k + (j - (k - 1)) = j + 1
      BY <1>1, <1>6, <2>2
    <3>3. b[j - (k - 1)] = c[j + 1]
      BY Zenon, <1>3, <3>2
    <3> QED BY Zenon, <2>2, <3>1, <3>3
  <2> QED BY Zenon, <2>1, <2>2
<1>7. DOMAIN c = 1 .. Len(c) /\ DOMAIN d = 1 .. Len(c) - 1
  BY <1>1, <1>5
<1>8. ASSUME \A i, j \in DOMAIN c : c[i] = c[j] => i = j
      PROVE  List!Range(d) = List!Range(c) \ {c[k]}
  <2>1. ASSUME NEW j \in 1 .. Len(c) - 1 PROVE d[j] \in List!Range(c) \ {c[k]}
    <3>1. CASE j < k
      <4>1. j \in 1 .. Len(c) /\ j # k
        BY <1>1, <2>1, <3>1
      <4> QED BY Zenon, <1>6, <1>7, <1>8, <3>1, <4>1 DEF List!Range
    <3>2. CASE ~(j < k)
      <4>1. j + 1 \in 1 .. Len(c) /\ j + 1 # k
        BY <1>1, <2>1, <3>2
      <4> QED BY Zenon, <1>6, <1>7, <1>8, <3>2, <4>1 DEF List!Range
    <3> QED BY Zenon, <3>1, <3>2
  <2>2. ASSUME NEW j \in 1 .. Len(c), j # k PROVE c[j] \in List!Range(d)
    <3>1. CASE j < k
      <4>1. j \in 1 .. Len(c) - 1
        BY <1>1, <2>2, <3>1
      <4> QED BY Zenon, <1>6, <1>7, <3>1, <4>1 DEF List!Range
    <3>2. CASE ~(j < k)
      <4>1. j - 1 \in 1 .. Len(c) - 1 /\ ~(j - 1 < k) /\ (j - 1) + 1 = j
        BY <1>1, <2>2, <3>2
      <4> QED BY Zenon, <1>6, <1>7, <4>1 DEF List!Range
    <3> QED BY Zenon, <3>1, <3>2
  <2> QED BY Zenon, <1>7, <2>1, <2>2 DEF List!Range
<1> QED BY Zenon, <1>5, <1>6, <1>8 DEF d

----------------------------------------------------------------------------
\* Nodes that were created, by their keys.
ListSorted(c) ==
    /\ c \in Seq(DOMAIN node)
    /\ \A j, k \in DOMAIN c : j < k => node[c[j]].key < node[c[k]].key

ListTypes ==
    /\ node \in Seq([key : Keys, val : Vals, level : 0 .. List!m_iMaxLevel])
    /\ chain = [i \in 0 .. List!m_iMaxLevel |-> chain[i]]
    /\ freed \subseteq DOMAIN node
    /\ m_iCurLevel \in 0 .. List!m_iMaxLevel

\* A node is linked at the levels up to its own, and there is none above the
\* current level.
ListLevels ==
    \A i \in 0 .. List!m_iMaxLevel :
      /\ ListSorted(chain[i])
      /\ List!Range(chain[i]) = {n \in List!Range(chain[0]) : node[n].level >= i}
      /\ i > m_iCurLevel => chain[i] = <<>>

\* The nodes at level 0 are the entries.
ListEntries ==
    /\ List!Range(chain[0]) \intersect freed = {}
    /\ \A n \in List!Range(chain[0]) :
         node[n].key \in DOMAIN dict /\ dict[node[n].key] = node[n].val
    /\ \A t \in DOMAIN dict : \E n \in List!Range(chain[0]) : node[n].key = t

ListGood == ListTypes /\ ListLevels /\ ListEntries

ListIInv == listUb \/ misplaced \/ ListGood

\* There is a last level.
LEMMA ListTop == List!m_iMaxLevel \in Nat
  BY ListUse DEF List!ListAssumption, List!m_iMaxLevel

\* What is known of the nodes of a chain.
LEMMA ListNodes ==
  ASSUME ListTypes, NEW c, ListSorted(c)
  PROVE  /\ Len(c) \in Nat /\ DOMAIN c = 1 .. Len(c)
         /\ \A j \in 1 .. Len(c) : c[j] \in DOMAIN node /\ c[j] # List!head /\ node[c[j]].key \in Int
         /\ \A j, k \in 1 .. Len(c) : node[c[j]].key = node[c[k]].key => j = k
         /\ \A n \in List!Range(c) : n \in DOMAIN node /\ n # List!head /\ node[n].key \in Int
<1>1. Len(c) \in Nat /\ DOMAIN c = 1 .. Len(c) /\ \A j \in 1 .. Len(c) : c[j] \in DOMAIN node
  BY DEF ListSorted
<1>2. ASSUME NEW n \in DOMAIN node PROVE n # List!head /\ node[n].key \in Int
  <2> DEFINE R == [key : Keys, val : Vals, level : 0 .. List!m_iMaxLevel]
  <2>1. DOMAIN node = 1 .. Len(node) /\ node[n].key \in Keys
    <3>1. node \in Seq(R)
      BY Zenon DEF ListTypes
    <3>2. \A r \in R : r.key \in Keys
      OBVIOUS
    <3> HIDE DEF R
    <3>3. DOMAIN node = 1 .. Len(node) /\ node[n] \in R
      BY <1>2, <3>1
    <3> QED BY Zenon, <3>2, <3>3
  <2>2. 0 \notin 1 .. Len(node)
    OBVIOUS
  <2>3. Keys \subseteq Int
    BY Zenon, ListUse DEF List!ListAssumption
  <2> QED BY Zenon, <1>2, <2>1, <2>2, <2>3 DEF List!head
<1>3. ASSUME NEW j \in 1 .. Len(c), NEW k \in 1 .. Len(c), node[c[j]].key = node[c[k]].key
      PROVE  j = k
  <2>1. j < k => node[c[j]].key < node[c[k]].key
    BY Zenon, <1>1, <1>3 DEF ListSorted
  <2>2. k < j => node[c[k]].key < node[c[j]].key
    BY Zenon, <1>1, <1>3 DEF ListSorted
  <2>3. node[c[j]].key \in Int
    BY Zenon, <1>1, <1>2, <1>3
  <2> QED BY <1>1, <1>3, <2>1, <2>2, <2>3
<1> QED BY Zenon, <1>1, <1>2, <1>3 DEF List!Range

\* How many nodes of a chain are smaller than t.
ListCut(c, t) == List!Min({j \in 1 .. Len(c) : node[c[j]].key >= t} \union {Len(c) + 1}) - 1

\* The smaller ones are in front.
LEMMA ListCutSplits ==
  ASSUME ListTypes, NEW c, ListSorted(c), NEW t \in Int
  PROVE  /\ ListCut(c, t) \in 0 .. Len(c)
         /\ \A j \in 1 .. Len(c) : j <= ListCut(c, t) <=> node[c[j]].key < t
<1> DEFINE T == {j \in 1 .. Len(c) : node[c[j]].key >= t} \union {Len(c) + 1}
           m == List!Min(T)
<1>1. /\ Len(c) \in Nat /\ DOMAIN c = 1 .. Len(c)
      /\ \A j \in 1 .. Len(c) : node[c[j]].key \in Int
  BY Zenon, ListNodes
<1>2. T \subseteq Nat /\ T # {}
  BY <1>1
<1>3. m \in T /\ \A y \in T : m <= y
  BY Zenon, <1>2, ListMin
<1>4. m \in 1 .. Len(c) + 1 /\ ListCut(c, t) = m - 1
  <2>1. ListCut(c, t) = m - 1
    BY Zenon DEF ListCut
  <2> HIDE DEF m
  <2> QED BY <1>1, <1>3, <2>1
<1>5. ASSUME NEW j \in 1 .. Len(c) PROVE j <= m - 1 <=> node[c[j]].key < t
  <2>1. node[c[j]].key \in Int
    BY Zenon, <1>1, <1>5
  <2>2. CASE j < m
    <3>1. j \notin T
      <4>1. j \in T => m <= j
        BY Zenon, <1>3
      <4> HIDE DEF T, m
      <4> QED BY <1>1, <1>4, <1>5, <2>2, <4>1
    <3>2. ~(node[c[j]].key >= t)
      BY Zenon, <1>5, <3>1
    <3> HIDE DEF T, m
    <3> QED BY <1>1, <1>4, <1>5, <2>1, <2>2, <3>2
  <2>3. CASE ~(j < m)
    <3>1. m \in 1 .. Len(c)
      <4> HIDE DEF m
      <4> QED BY <1>1, <1>4, <1>5, <2>3
    <3>2. node[c[m]].key >= t
      <4>1. m # Len(c) + 1
        <5> HIDE DEF m
        <5> QED BY <1>1, <3>1
      <4> QED BY Zenon, <1>3, <4>1
    <3>3. m < j => node[c[m]].key < node[c[j]].key
      BY Zenon, <1>1, <1>5, <3>1 DEF ListSorted
    <3>4. node[c[m]].key \in Int
      BY Zenon, <1>1, <3>1
    <3> HIDE DEF m
    <3> QED BY <1>1, <1>4, <1>5, <2>1, <2>3, <3>1, <3>2, <3>3, <3>4
  <2> QED BY Zenon, <2>2, <2>3
<1>6. m - 1 \in 0 .. Len(c)
  <2> HIDE DEF m
  <2> QED BY <1>1, <1>4
<1> QED BY Zenon, <1>4, <1>5, <1>6

\* The position of a node in a sorted chain.
LEMMA ListPosition ==
  ASSUME ListTypes, NEW c, ListSorted(c)
  PROVE  /\ \A j \in 1 .. Len(c) : List!Position(c, c[j]) = j
         /\ \A n : n \notin List!Range(c) => List!Position(c, n) = 0
         /\ \A j \in 0 .. Len(c) : List!Position(c, List!NodeAt(c, j)) = j
<1>1. /\ Len(c) \in Nat /\ DOMAIN c = 1 .. Len(c)
      /\ \A j, k \in 1 .. Len(c) : node[c[j]].key = node[c[k]].key => j = k
      /\ List!head \notin List!Range(c)
  BY Zenon, ListNodes
<1>2. \A j \in 1 .. Len(c) : List!Position(c, c[j]) = j
  BY Zenon, <1>1 DEF List!Position
<1>3. \A n : n \notin List!Range(c) => List!Position(c, n) = 0
  BY Zenon DEF List!Position, List!Range
<1>4. ASSUME NEW j \in 0 .. Len(c) PROVE List!Position(c, List!NodeAt(c, j)) = j
  <2>1. j = 0 \/ j \in 1 .. Len(c)
    BY <1>1, <1>4
  <2>2. CASE j = 0
    BY Zenon, <1>1, <1>3, <2>2 DEF List!NodeAt
  <2>3. CASE j # 0
    BY Zenon, <1>2, <2>1, <2>3 DEF List!NodeAt
  <2> QED BY Zenon, <2>2, <2>3
<1> QED BY Zenon, <1>2, <1>3, <1>4

\* A walk that begins behind a smaller node, or at the head, ends at the cut.
LEMMA ListReached ==
  ASSUME ListTypes, NEW i, ListSorted(chain[i]), NEW t \in Int, NEW p,
         p \in List!Range(chain[i]) => node[p].key < t
  PROVE  List!Reached(i, p, t) - 1 = ListCut(chain[i], t)
<1> DEFINE c == chain[i]
           k == List!Position(c, p)
           T == {j \in 1 .. Len(c) : node[c[j]].key >= t}
           U == {j \in k + 1 .. Len(c) : node[c[j]].key >= t}
<1>1. /\ Len(c) \in Nat /\ DOMAIN c = 1 .. Len(c)
      /\ \A j \in 1 .. Len(c) : node[c[j]].key \in Int
  BY Zenon, ListNodes
<1>2. /\ \A j \in 1 .. Len(c) : List!Position(c, c[j]) = j
      /\ p \notin List!Range(c) => k = 0
  BY Zenon, ListPosition
<1>3. T = U
  <2>1. CASE p \notin List!Range(c)
    <3>1. k = 0
      BY Zenon, <1>2, <2>1
    <3> HIDE DEF k
    <3>2. k + 1 = 1
      BY <3>1
    <3> QED BY Zenon, <3>2
  <2>2. CASE p \in List!Range(c)
    <3>1. PICK l \in 1 .. Len(c) : p = c[l]
      BY Zenon, <1>1, <2>2 DEF List!Range
    <3>2. k = l /\ node[c[l]].key < t
      BY Zenon, <1>2, <2>2, <3>1
    <3>3. ASSUME NEW j \in 1 .. Len(c), node[c[j]].key >= t PROVE j \in k + 1 .. Len(c)
      <4>1. j < l => node[c[j]].key < node[c[l]].key
        BY Zenon, <1>1, <3>1, <3>3 DEF ListSorted
      <4>2. node[c[j]].key \in Int /\ node[c[l]].key \in Int
        BY Zenon, <1>1, <3>1, <3>3
      <4>3. j # l
        <5>1. ~(node[c[l]].key >= t)
          <6> HIDE DEF c
          <6> QED BY <3>2, <4>2
        <5> QED BY Zenon, <3>3, <5>1
      <4> HIDE DEF c, k
      <4> QED BY <1>1, <3>1, <3>2, <3>3, <4>1, <4>2, <4>3
    <3>4. \A j \in k + 1 .. Len(c) : j \in 1 .. Len(c)
      <4> HIDE DEF c, k
      <4> QED BY <1>1, <3>1, <3>2
    <3> QED BY Zenon, <3>3, <3>4
  <2> QED BY Zenon, <2>1, <2>2
<1>4. List!Reached(i, p, t) = List!Min(U \union {Len(c) + 1})
  BY Zenon DEF List!Reached
<1>5. ListCut(c, t) = List!Min(T \union {Len(c) + 1}) - 1
  BY Zenon DEF ListCut
<1> QED BY Zenon, <1>3, <1>4, <1>5

----------------------------------------------------------------------------
\* The walk from the top down meets the cut of every level.
LEMMA ListPrevious ==
  ASSUME ListGood, NEW t \in Int
  PROVE  /\ \A i \in 0 .. m_iCurLevel :
              List!find_previous_levels_nodes(t)[i] = List!NodeAt(chain[i], ListCut(chain[i], t))
         /\ List!find_previous_levels_nodes(t)[m_iCurLevel + 1] = List!head
<1> DEFINE g == [i \in 0 .. m_iCurLevel + 1 |->
                   IF i > m_iCurLevel THEN List!head ELSE List!NodeAt(chain[i], ListCut(chain[i], t))]
           f == List!find_previous_levels_nodes(t)
           Eq(h) == h = [i \in 0 .. m_iCurLevel + 1 |->
                           IF i > m_iCurLevel THEN List!head
                           ELSE List!NodeAt(chain[i], List!Reached(i, h[i + 1], t) - 1)]
           Below(i, p) == p \in List!Range(chain[i]) => node[p].key < t
<1>1. ListTypes /\ ListLevels
  BY Zenon DEF ListGood
<1>2. m_iCurLevel \in Nat /\ \A i \in 0 .. m_iCurLevel : i \in 0 .. List!m_iMaxLevel
  BY <1>1, ListTop DEF ListTypes
<1>3. ASSUME NEW i \in 0 .. m_iCurLevel PROVE ListSorted(chain[i])
  BY Zenon, <1>1, <1>2, <1>3 DEF ListLevels
<1>4. ASSUME NEW i \in 0 .. m_iCurLevel PROVE Below(i, List!head)
  BY Zenon, <1>1, <1>3, <1>4, ListNodes
<1>5. ASSUME NEW i \in 0 .. m_iCurLevel, NEW k \in 0 .. m_iCurLevel
      PROVE  Below(i, List!NodeAt(chain[k], ListCut(chain[k], t)))
  <2> DEFINE c == chain[k]
             x == ListCut(c, t)
  <2>1. x \in 0 .. Len(c) /\ \A j \in 1 .. Len(c) : j <= x <=> node[c[j]].key < t
    BY Zenon, <1>1, <1>3, <1>5, ListCutSplits
  <2>2. CASE x = 0
    BY Zenon, <1>4, <1>5, <2>2 DEF List!NodeAt
  <2>3. CASE x # 0
    <3>1. Len(c) \in Nat
      BY Zenon, <1>1, <1>3, <1>5, ListNodes
    <3> HIDE DEF c, x
    <3>2. x \in 1 .. Len(c) /\ x <= x
      BY <2>1, <2>3, <3>1
    <3>3. node[c[x]].key < t
      BY Zenon, <2>1, <3>2
    <3> QED BY Zenon, <2>3, <3>3 DEF List!NodeAt, c, x
  <2> QED BY Zenon, <2>2, <2>3
<1>6. ASSUME NEW i \in 0 .. m_iCurLevel, NEW p, Below(i, p)
      PROVE  List!Reached(i, p, t) - 1 = ListCut(chain[i], t)
  BY Zenon, <1>1, <1>3, <1>6, ListReached
<1>7. \A i \in 0 .. m_iCurLevel + 1 : ~(i > m_iCurLevel) => i \in 0 .. m_iCurLevel /\ i + 1 \in 0 .. m_iCurLevel + 1
  BY <1>2
<1>8. Eq(g)
  <2> SUFFICES ASSUME NEW i \in 0 .. m_iCurLevel + 1, ~(i > m_iCurLevel)
               PROVE  List!NodeAt(chain[i], ListCut(chain[i], t))
                      = List!NodeAt(chain[i], List!Reached(i, g[i + 1], t) - 1)
    BY Zenon
  <2>1. i \in 0 .. m_iCurLevel /\ i + 1 \in 0 .. m_iCurLevel + 1
    BY Zenon, <1>7
  <2>2. Below(i, g[i + 1])
    <3>1. CASE i + 1 > m_iCurLevel
      <4>1. g[i + 1] = List!head
        BY Zenon, <2>1, <3>1
      <4> QED BY Zenon, <1>4, <2>1, <4>1
    <3>2. CASE ~(i + 1 > m_iCurLevel)
      <4>1. i + 1 \in 0 .. m_iCurLevel
        BY Zenon, <1>7, <2>1, <3>2
      <4>2. g[i + 1] = List!NodeAt(chain[i + 1], ListCut(chain[i + 1], t))
        BY Zenon, <2>1, <3>2
      <4> QED BY Zenon, <1>5, <2>1, <4>1, <4>2
    <3> QED BY Zenon, <3>1, <3>2
  <2>3. List!Reached(i, g[i + 1], t) - 1 = ListCut(chain[i], t)
    BY Zenon, <1>6, <2>1, <2>2
  <2> QED BY Zenon, <2>3
<1>9. Eq(f)
  <2> HIDE DEF g
  <2> QED BY Zenon, <1>8 DEF List!find_previous_levels_nodes
<1> HIDE DEF f, g
<1>10. f[m_iCurLevel + 1] = List!head
  <2>1. m_iCurLevel + 1 \in 0 .. m_iCurLevel + 1 /\ m_iCurLevel + 1 > m_iCurLevel
    BY <1>2
  <2> QED BY Zenon, <1>9, <2>1
<1> DEFINE Good(i) == f[i] = List!NodeAt(chain[i], ListCut(chain[i], t))
<1>11. \A i \in 0 .. m_iCurLevel : Below(i, f[i + 1]) => Good(i)
  <2> SUFFICES ASSUME NEW i \in 0 .. m_iCurLevel, Below(i, f[i + 1]) PROVE Good(i)
    BY Zenon
  <2>1. i \in 0 .. m_iCurLevel + 1 /\ ~(i > m_iCurLevel)
    BY <1>2
  <2>2. f[i] = List!NodeAt(chain[i], List!Reached(i, f[i + 1], t) - 1)
    BY Zenon, <1>9, <2>1
  <2> QED BY Zenon, <1>6, <2>2
<1>12. \A i \in 0 .. m_iCurLevel : Good(i)
  <2> DEFINE Bad == {i \in 0 .. m_iCurLevel : ~Good(i)}
  <2> SUFFICES ASSUME Bad # {} PROVE FALSE
    BY Zenon
  <2>1. List!Max(Bad) \in Bad /\ \A y \in Bad : List!Max(Bad) >= y
    BY Zenon, <1>2, ListMax
  <2>2. PICK i \in Bad : \A y \in Bad : i >= y
    BY Zenon, <2>1
  <2>3. i \in 0 .. m_iCurLevel /\ ~Good(i)
    BY Zenon, <2>2
  <2>4. Below(i, f[i + 1])
    <3>1. CASE i = m_iCurLevel
      BY Zenon, <1>4, <1>10, <2>3, <3>1
    <3>2. CASE i # m_iCurLevel
      <4>1. i + 1 \in 0 .. m_iCurLevel /\ ~(i >= i + 1)
        <5> HIDE DEF Bad
        <5> QED BY <1>2, <2>3, <3>2
      <4>2. Good(i + 1)
        BY Zenon, <2>2, <4>1
      <4> QED BY Zenon, <1>5, <2>3, <4>1, <4>2
    <3> QED BY Zenon, <3>1, <3>2
  <2> QED BY Zenon, <1>11, <2>3, <2>4
<1> QED BY Zenon, <1>10, <1>12 DEF f

\* Where a node for t is, or would have to be, at a level.
LEMMA ListFinds ==
  ASSUME ListGood, NEW t \in Int, NEW i \in 0 .. m_iCurLevel
  PROVE  LET p == List!find_previous_levels_nodes(t)[i]
             q == List!Behind(i, p)
         IN /\ List!Position(chain[i], p) = ListCut(chain[i], t)
            /\ q # List!head => q \in List!Range(chain[i])
            /\ \A n \in List!Range(chain[i]) : node[n].key = t => q = n
<1> DEFINE c == chain[i]
           x == ListCut(c, t)
           p == List!find_previous_levels_nodes(t)[i]
           q == List!Behind(i, p)
<1>1. ListTypes /\ ListLevels
  BY Zenon DEF ListGood
<1>2. i \in 0 .. List!m_iMaxLevel
  BY <1>1, ListTop DEF ListTypes
<1>3. ListSorted(c)
  BY Zenon, <1>1, <1>2 DEF ListLevels
<1>4. Len(c) \in Nat /\ DOMAIN c = 1 .. Len(c) /\ \A j \in 1 .. Len(c) : node[c[j]].key \in Int
  BY Zenon, <1>1, <1>3, ListNodes
<1>5. x \in 0 .. Len(c) /\ \A j \in 1 .. Len(c) : j <= x <=> node[c[j]].key < t
  BY Zenon, <1>1, <1>3, ListCutSplits
<1>6. p = List!NodeAt(c, x)
  BY Zenon, ListPrevious
<1>7. List!Position(c, p) = x
  BY Zenon, <1>1, <1>3, <1>5, <1>6, ListPosition
<1>8. q = IF x + 1 > Len(c) THEN List!head ELSE c[x + 1]
  BY Zenon, <1>7 DEF List!Behind
<1> HIDE DEF c, x, p, q
<1>9. ~(x + 1 > Len(c)) => x + 1 \in DOMAIN c
  BY <1>4, <1>5
<1>10. q # List!head => q \in List!Range(c)
  BY Zenon, <1>8, <1>9 DEF List!Range
<1>11. ASSUME NEW j \in 1 .. Len(c), node[c[j]].key = t PROVE q = c[j]
  <2>1. ~(j <= x)
    <3>1. ~(node[c[j]].key < t)
      BY <1>11
    <3> QED BY Zenon, <1>5, <1>11, <3>1
  <2>2. x + 1 \in 1 .. Len(c) /\ ~(x + 1 > Len(c)) /\ ~(x + 1 <= x)
    BY <1>4, <1>5, <1>11, <2>1
  <2>3. x + 1 < j => node[c[x + 1]].key < node[c[j]].key
    BY Zenon, <1>3, <1>4, <1>11, <2>2 DEF ListSorted
  <2>4. ~(node[c[x + 1]].key < t)
    BY Zenon, <1>5, <2>2
  <2>5. x + 1 = j
    <3>1. ~(x + 1 < j)
      BY Zenon, <1>11, <2>3, <2>4
    <3> QED BY <1>4, <1>5, <1>11, <2>1, <3>1
  <2> QED BY Zenon, <1>8, <2>2, <2>5
<1>12. \A n \in List!Range(c) : node[n].key = t => q = n
  BY Zenon, <1>4, <1>11 DEF List!Range
<1> QED BY Zenon, <1>7, <1>10, <1>12 DEF c, x, p, q

\* What taking a node out leaves.
LEMMA ListUnlinked ==
  ASSUME NEW S, NEW c \in Seq(S), NEW k \in 1 .. Len(c), \A i, j \in DOMAIN c : c[i] = c[j] => i = j
  PROVE  /\ List!Unlink(c, k) \in Seq(S) /\ Len(List!Unlink(c, k)) = Len(c) - 1
         /\ List!Range(List!Unlink(c, k)) = List!Range(c) \ {c[k]}
<1>1. /\ List!Unlink(c, k) \in Seq(S) /\ Len(List!Unlink(c, k)) = Len(c) - 1
      /\ (\A i, j \in DOMAIN c : c[i] = c[j] => i = j) =>
           List!Range(List!Unlink(c, k)) = List!Range(c) \ {c[k]}
  BY Zenon, ListUnlink
<1> QED BY Zenon, <1>1

\* The levels there are, and their nodes.
LEMMA ListBelow ==
  ASSUME ListGood
  PROVE  /\ ListTypes /\ m_iCurLevel \in Nat /\ 0 \in 0 .. m_iCurLevel /\ 0 \in 0 .. List!m_iMaxLevel
         /\ m_iCurLevel \in 0 .. List!m_iMaxLevel
         /\ \A i \in 0 .. m_iCurLevel : i \in 0 .. List!m_iMaxLevel
         /\ \A i \in 0 .. List!m_iMaxLevel :
              /\ ListSorted(chain[i])
              /\ List!Range(chain[i]) \subseteq List!Range(chain[0])
              /\ Len(chain[i]) \in Nat /\ DOMAIN chain[i] = 1 .. Len(chain[i])
         /\ \A n \in List!Range(chain[0]) : n \in DOMAIN node /\ n # List!head /\ node[n].key \in Int
<1>1. ListTypes /\ ListLevels
  BY Zenon DEF ListGood
<1>2. /\ m_iCurLevel \in Nat /\ 0 \in 0 .. m_iCurLevel /\ 0 \in 0 .. List!m_iMaxLevel
      /\ m_iCurLevel \in 0 .. List!m_iMaxLevel
      /\ \A i \in 0 .. m_iCurLevel : i \in 0 .. List!m_iMaxLevel
  BY <1>1, ListTop DEF ListTypes
<1>3. \A i \in 0 .. List!m_iMaxLevel : ListSorted(chain[i]) /\ List!Range(chain[i]) \subseteq List!Range(chain[0])
  BY Zenon, <1>1 DEF ListLevels
<1>4. \A i \in 0 .. List!m_iMaxLevel : Len(chain[i]) \in Nat /\ DOMAIN chain[i] = 1 .. Len(chain[i])
  BY Zenon, <1>1, <1>3, ListNodes
<1>5. \A n \in List!Range(chain[0]) : n \in DOMAIN node /\ n # List!head /\ node[n].key \in Int
  BY Zenon, <1>1, <1>2, <1>3, ListNodes
<1> QED BY Zenon, <1>1, <1>2, <1>3, <1>4, <1>5

\* The node found at the bottom is the one with the key.
LEMMA ListHit ==
  ASSUME ListGood, NEW t \in Int
  PROVE  /\ List!Hit(t) # List!head => List!Hit(t) \in List!Range(chain[0]) /\ node[List!Hit(t)].key = t
         /\ \A n \in List!Range(chain[0]) : node[n].key = t => List!Hit(t) = n
<1> DEFINE q == List!Behind(0, List!find_previous_levels_nodes(t)[0])
<1>1. 0 \in 0 .. m_iCurLevel /\ \A n \in List!Range(chain[0]) : n # List!head
  BY Zenon, ListBelow
<1>2. /\ q # List!head => q \in List!Range(chain[0])
      /\ \A n \in List!Range(chain[0]) : node[n].key = t => q = n
  BY Zenon, <1>1, ListFinds
<1>3. List!Hit(t) = IF q # List!head /\ node[q].key = t THEN q ELSE List!head
  BY Zenon DEF List!Hit
<1> HIDE DEF q
<1> QED BY Zenon, <1>1, <1>2, <1>3

\* So is the one the walk from the top ends at.
LEMMA ListFindNode ==
  ASSUME ListGood, NEW t \in Int
  PROVE  /\ List!find_node(t) # List!head =>
              List!find_node(t) \in List!Range(chain[0]) /\ node[List!find_node(t)].key = t
         /\ \A n \in List!Range(chain[0]) : node[n].key = t => List!find_node(t) = n
<1> DEFINE prev == List!find_previous_levels_nodes(t)
           at(i) == List!Behind(i, prev[i])
           hits == {i \in 0 .. m_iCurLevel : at(i) # List!head /\ node[at(i)].key = t}
<1>1. List!find_node(t) = IF hits = {} THEN List!head ELSE at(List!Max(hits))
  BY Zenon DEF List!find_node
<1>2. m_iCurLevel \in Nat /\ 0 \in 0 .. m_iCurLevel /\ \A n \in List!Range(chain[0]) : n # List!head
  BY Zenon, ListBelow
<1>3. ASSUME NEW i \in 0 .. m_iCurLevel, at(i) # List!head PROVE at(i) \in List!Range(chain[0])
  <2>1. at(i) \in List!Range(chain[i])
    BY Zenon, <1>3, ListFinds
  <2>2. List!Range(chain[i]) \subseteq List!Range(chain[0])
    BY Zenon, <1>3, ListBelow
  <2> QED BY Zenon, <2>1, <2>2
<1>4. \A n \in List!Range(chain[0]) : node[n].key = t => at(0) = n
  BY Zenon, <1>2, ListFinds
<1>5. hits # {} => List!Max(hits) \in hits
  BY Zenon, <1>2, ListMax
<1> HIDE DEF at
<1>6. (\E n \in List!Range(chain[0]) : node[n].key = t) => hits # {}
  BY Zenon, <1>2, <1>4
<1>7. \A n, m \in List!Range(chain[0]) : node[n].key = t /\ node[m].key = t => n = m
  BY Zenon, <1>4
<1>8. hits # {} => at(List!Max(hits)) \in List!Range(chain[0]) /\ node[at(List!Max(hits))].key = t
  BY Zenon, <1>3, <1>5
<1> HIDE DEF hits
<1> QED BY Zenon, <1>1, <1>6, <1>7, <1>8

\* No deleted node is linked, so the walk reads none.
LEMMA ListReadsLive ==
  ASSUME ListGood, NEW t \in Int
  PROVE  ~List!ReadsFreed(t)
<1> SUFFICES ASSUME NEW i \in 0 .. m_iCurLevel, NEW p,
                    NEW j \in List!Position(chain[i], p) + 1 .. List!Reached(i, p, t),
                    j <= Len(chain[i]), chain[i][j] \in freed
             PROVE  FALSE
  BY Zenon DEF List!ReadsFreed
<1> DEFINE c == chain[i]
           k == List!Position(c, p)
           T == {m \in k + 1 .. Len(c) : node[c[m]].key >= t} \union {Len(c) + 1}
<1>1. ListTypes /\ i \in 0 .. List!m_iMaxLevel
  BY Zenon, ListBelow
<1>2. ListSorted(c) /\ List!Range(c) \subseteq List!Range(chain[0]) /\ Len(c) \in Nat /\ DOMAIN c = 1 .. Len(c)
  BY Zenon, <1>1, ListBelow
<1>3. k \in Nat
  <2>1. /\ \A l \in 1 .. Len(c) : List!Position(c, c[l]) = l
        /\ p \notin List!Range(c) => k = 0
    BY Zenon, <1>1, <1>2, ListPosition
  <2>2. p \in List!Range(c) => k \in 1 .. Len(c)
    <3>1. p \in List!Range(c) => \E l \in 1 .. Len(c) : p = c[l]
      BY Zenon, <1>2 DEF List!Range
    <3> QED BY Zenon, <2>1, <3>1
  <2> HIDE DEF k, c
  <2> QED BY <1>2, <2>1, <2>2
<1>4. T \subseteq Nat /\ T # {}
  <2> HIDE DEF k, c
  <2> QED BY <1>2, <1>3
<1>5. List!Reached(i, p, t) \in Nat
  <2>1. List!Reached(i, p, t) = List!Min(T)
    BY Zenon DEF List!Reached
  <2>2. List!Min(T) \in T
    BY Zenon, <1>4, ListMin
  <2> QED BY Zenon, <1>4, <2>1, <2>2
<1> DEFINE r == List!Reached(i, p, t)
<1>6. j \in k + 1 .. r /\ r \in Nat /\ j <= Len(c) /\ c[j] \in freed
  BY Zenon, <1>5
<1> HIDE DEF k, c, r
<1>7. j \in DOMAIN c
  BY <1>2, <1>3, <1>6
<1>8. c[j] \in List!Range(chain[0])
  BY Zenon, <1>2, <1>7 DEF List!Range
<1> QED BY Zenon, <1>6, <1>8 DEF ListGood, ListEntries

\* The good states are the ones that agree with the dictionary.
LEMMA ListGoodAgrees == ListIInv => ListAgrees
<1> SUFFICES ASSUME ListGood PROVE ListAgrees
  BY Zenon DEF ListIInv, ListAgrees, List!Agrees
<1>1. ListTypes /\ ListLevels /\ ListEntries
  BY Zenon DEF ListGood
<1>2. ASSUME NEW i \in 0 .. List!m_iMaxLevel, NEW j \in 1 .. Len(chain[i]) - 1
      PROVE  node[chain[i][j]].key < node[chain[i][j + 1]].key
  <2>1. ListSorted(chain[i]) /\ Len(chain[i]) \in Nat /\ DOMAIN chain[i] = 1 .. Len(chain[i])
    BY Zenon, <1>2, ListBelow
  <2>2. j \in 1 .. Len(chain[i]) /\ j + 1 \in 1 .. Len(chain[i]) /\ j < j + 1
    BY <1>2, <2>1
  <2> QED BY Zenon, <2>1, <2>2 DEF ListSorted
<1>3. \A i \in 0 .. List!m_iMaxLevel :
        /\ List!Range(chain[i]) = {n \in List!Range(chain[0]) : node[n].level >= i}
        /\ i > m_iCurLevel => chain[i] = <<>>
  BY Zenon, <1>1 DEF ListLevels
<1>4. {<<node[n].key, node[n].val>> : n \in List!Range(chain[0])} = {<<k, dict[k]>> : k \in DOMAIN dict}
  <2>1. \A n \in List!Range(chain[0]) :
          <<node[n].key, node[n].val>> \in {<<k, dict[k]>> : k \in DOMAIN dict}
    BY Zenon, <1>1 DEF ListEntries
  <2>2. \A k \in DOMAIN dict :
          <<k, dict[k]>> \in {<<node[n].key, node[n].val>> : n \in List!Range(chain[0])}
    <3> SUFFICES ASSUME NEW k \in DOMAIN dict
                 PROVE  \E n \in List!Range(chain[0]) : node[n].key = k /\ node[n].val = dict[k]
      BY Zenon
    <3>1. PICK n \in List!Range(chain[0]) : node[n].key = k
      BY Zenon, <1>1 DEF ListEntries
    <3>2. dict[node[n].key] = node[n].val
      BY Zenon, <1>1, <3>1 DEF ListEntries
    <3> QED BY Zenon, <3>1, <3>2
  <2> QED BY Zenon, <2>1, <2>2
<1>5. ASSUME NEW t \in Keys
      PROVE  /\ List!contains(t) <=> t \in DOMAIN dict
             /\ List!get(t) = IF t \in DOMAIN dict THEN <<TRUE, dict[t]>> ELSE <<FALSE>>
  <2> DEFINE q == List!find_node(t)
  <2>1. t \in Int
    BY Zenon, <1>5, ListUse DEF List!ListAssumption
  <2>2. /\ q # List!head => q \in List!Range(chain[0]) /\ node[q].key = t
        /\ \A n \in List!Range(chain[0]) : node[n].key = t => q = n
    BY Zenon, <2>1, ListFindNode
  <2>3. \A n \in List!Range(chain[0]) : n # List!head
    BY Zenon, ListBelow
  <2>4. List!contains(t) <=> q # List!head
    BY Zenon DEF List!contains
  <2>5. List!get(t) = IF q = List!head THEN <<FALSE>> ELSE <<TRUE, node[q].val>>
    BY Zenon DEF List!get
  <2> HIDE DEF q
  <2>6. CASE q = List!head
    <3>1. t \notin DOMAIN dict
      BY Zenon, <1>1, <2>2, <2>3, <2>6 DEF ListEntries
    <3> QED BY Zenon, <2>4, <2>5, <2>6, <3>1
  <2>7. CASE q # List!head
    <3>1. t \in DOMAIN dict /\ dict[t] = node[q].val
      BY Zenon, <1>1, <2>2, <2>7 DEF ListEntries
    <3> QED BY Zenon, <2>4, <2>5, <2>7, <3>1
  <2> QED BY Zenon, <2>6, <2>7
<1> QED BY Zenon, <1>1, <1>2, <1>3, <1>4, <1>5 DEF ListAgrees, List!Agrees, ListEntries

----------------------------------------------------------------------------
\* A chain stays sorted when a node goes to the cut of its key.
LEMMA ListLinkSorted ==
  ASSUME NEW S, NEW K \in [S -> Int], NEW c \in Seq(S), NEW n \in S, NEW x \in 0 .. Len(c),
         \A j, k \in 1 .. Len(c) : j < k => K[c[j]] < K[c[k]],
         \A j \in 1 .. Len(c) : j <= x <=> K[c[j]] < K[n],
         \A j \in 1 .. Len(c) : K[c[j]] # K[n]
  PROVE  LET d == List!Link(c, x, n)
         IN \A j, k \in 1 .. Len(c) + 1 : j < k => K[d[j]] < K[d[k]]
<1> DEFINE d == List!Link(c, x, n)
<1>1. \A j \in 1 .. Len(c) + 1 :
        d[j] = IF j <= x THEN c[j] ELSE IF j = x + 1 THEN n ELSE c[j - 1]
  <2>1. \A j \in 1 .. Len(c) + 1 : d[j] = ListAfterLink(c, x, n, j)
    BY ListLink
  <2> QED BY Zenon, <2>1 DEF ListAfterLink
<1>2. Len(c) \in Nat /\ x \in Nat /\ K[n] \in Int /\ \A j \in 1 .. Len(c) : K[c[j]] \in Int
  OBVIOUS
<1> HIDE DEF d
<1> SUFFICES ASSUME NEW j \in 1 .. Len(c) + 1, NEW k \in 1 .. Len(c) + 1, j < k
             PROVE  K[d[j]] < K[d[k]]
  BY Zenon DEF d
<1>3. \A l \in 1 .. Len(c) : ~(l <= x) => K[n] < K[c[l]]
  BY <1>2
<1>4. CASE k <= x
  <2>1. j <= x /\ j \in 1 .. Len(c) /\ k \in 1 .. Len(c)
    BY <1>2, <1>4
  <2> QED BY Zenon, <1>1, <1>4, <2>1
<1>5. CASE k = x + 1
  <2>1. j <= x /\ j \in 1 .. Len(c) /\ ~(k <= x)
    BY <1>2, <1>5
  <2> QED BY Zenon, <1>1, <1>5, <2>1
<1>6. CASE ~(k <= x) /\ k # x + 1
  <2>1. k - 1 \in 1 .. Len(c) /\ ~(k - 1 <= x)
    BY <1>2, <1>6
  <2>2. d[k] = c[k - 1] /\ K[n] < K[c[k - 1]]
    BY Zenon, <1>1, <1>3, <1>6, <2>1
  <2>3. CASE j <= x
    <3>1. j \in 1 .. Len(c) /\ j < k - 1
      BY <1>2, <2>1, <2>3
    <3> QED BY Zenon, <1>1, <2>1, <2>2, <2>3, <3>1
  <2>4. CASE j = x + 1
    <3>1. ~(j <= x)
      BY <1>2, <2>4
    <3> QED BY Zenon, <1>1, <2>2, <2>4, <3>1
  <2>5. CASE ~(j <= x) /\ j # x + 1
    <3>1. j - 1 \in 1 .. Len(c) /\ j - 1 < k - 1
      BY <1>2, <2>1, <2>5
    <3> QED BY Zenon, <1>1, <2>1, <2>2, <2>5, <3>1
  <2> QED BY Zenon, <2>3, <2>4, <2>5
<1> QED BY Zenon, <1>4, <1>5, <1>6

\* And when a node is taken out.
LEMMA ListUnlinkSorted ==
  ASSUME NEW S, NEW K, NEW c \in Seq(S), NEW x \in 1 .. Len(c),
         \A j, k \in 1 .. Len(c) : j < k => K[c[j]] < K[c[k]]
  PROVE  LET d == List!Unlink(c, x)
         IN \A j, k \in 1 .. Len(c) - 1 : j < k => K[d[j]] < K[d[k]]
<1> DEFINE d == List!Unlink(c, x)
<1>1. \A j \in 1 .. Len(c) - 1 : d[j] = IF j < x THEN c[j] ELSE c[j + 1]
  BY ListUnlink
<1>2. Len(c) \in Nat /\ x \in Nat
  OBVIOUS
<1> HIDE DEF d
<1> SUFFICES ASSUME NEW j \in 1 .. Len(c) - 1, NEW k \in 1 .. Len(c) - 1, j < k
             PROVE  K[d[j]] < K[d[k]]
  BY Zenon DEF d
<1>3. /\ j \in 1 .. Len(c) /\ k \in 1 .. Len(c) /\ j + 1 \in 1 .. Len(c) /\ k + 1 \in 1 .. Len(c)
      /\ j < k + 1 /\ j + 1 < k + 1 /\ (k < x => j < x)
  BY <1>2
<1> QED BY Zenon, <1>1, <1>3

\* The keys of the nodes.
ListKeys == [n \in DOMAIN node |-> node[n].key]

\* A chain is sorted by the keys of its nodes.
LEMMA ListByKeys ==
  ASSUME ListTypes
  PROVE  /\ ListKeys \in [DOMAIN node -> Int]
         /\ \A c : ListSorted(c) <=>
              /\ c \in Seq(DOMAIN node)
              /\ \A j, k \in 1 .. Len(c) : j < k => ListKeys[c[j]] < ListKeys[c[k]]
<1>1. ListKeys \in [DOMAIN node -> Int]
  <2>1. ASSUME NEW n \in DOMAIN node PROVE node[n].key \in Int
    <3>1. <<n>> \in Seq(DOMAIN node) /\ Len(<<n>>) = 1 /\ DOMAIN <<n>> = 1 .. 1 /\ <<n>>[1] = n
      BY <2>1
    <3>2. \A j, k \in 1 .. 1 : ~(j < k)
      OBVIOUS
    <3>3. ListSorted(<<n>>)
      BY Zenon, <3>1, <3>2 DEF ListSorted
    <3>4. 1 \in 1 .. 1
      OBVIOUS
    <3> QED BY Zenon, <3>1, <3>3, <3>4, ListNodes
  <2> QED BY Zenon, <2>1 DEF ListKeys
<1>2. ASSUME NEW c \in Seq(DOMAIN node)
      PROVE  /\ DOMAIN c = 1 .. Len(c)
             /\ \A j \in 1 .. Len(c) : ListKeys[c[j]] = node[c[j]].key
  <2>1. DOMAIN c = 1 .. Len(c) /\ \A j \in 1 .. Len(c) : c[j] \in DOMAIN node
    BY <1>2
  <2> QED BY Zenon, <2>1 DEF ListKeys
<1>3. ASSUME NEW c
      PROVE  ListSorted(c) <=>
               /\ c \in Seq(DOMAIN node)
               /\ \A j, k \in 1 .. Len(c) : j < k => ListKeys[c[j]] < ListKeys[c[k]]
  <2>1. CASE c \in Seq(DOMAIN node)
    <3>1. DOMAIN c = 1 .. Len(c) /\ \A j \in 1 .. Len(c) : ListKeys[c[j]] = node[c[j]].key
      BY Zenon, <1>2, <2>1
    <3>2. (\A j, k \in 1 .. Len(c) : j < k => ListKeys[c[j]] < ListKeys[c[k]])
          <=> \A j, k \in 1 .. Len(c) : j < k => node[c[j]].key < node[c[k]].key
      BY Zenon, <3>1
    <3> QED BY Zenon, <2>1, <3>1, <3>2 DEF ListSorted
  <2>2. CASE c \notin Seq(DOMAIN node)
    BY Zenon, <2>2 DEF ListSorted
  <2> QED BY Zenon, <2>1, <2>2
<1> QED BY Zenon, <1>1, <1>3

\* What an empty chain holds.
LEMMA ListRangeEmpty == List!Range(<<>>) = {} /\ \A S : <<>> \in Seq(S) /\ DOMAIN <<>> = {} /\ Len(<<>>) = 0
<1>1. DOMAIN <<>> = {} /\ Len(<<>>) = 0 /\ \A S : <<>> \in Seq(S)
  OBVIOUS
<1> QED BY Zenon, <1>1 DEF List!Range

\* The empty list agrees with the empty dictionary.
LEMMA ListInit ==
  ASSUME List!Init
  PROVE  ListIInv
<1>1. ListTypes
  <2>1. /\ chain = [i \in 0 .. List!m_iMaxLevel |-> <<>>]
        /\ node = <<>> /\ freed = {} /\ m_iCurLevel = 0
    BY Zenon DEF List!Init
  <2>2. m_iCurLevel \in 0 .. List!m_iMaxLevel
    BY <2>1, ListTop
  <2> QED BY Zenon, <2>1, <2>2, ListRangeEmpty DEF ListTypes
<1>2. \A i \in 0 .. List!m_iMaxLevel : chain[i] = <<>>
  BY Zenon DEF List!Init
<1>3. 0 \in 0 .. List!m_iMaxLevel
  BY ListTop
<1>4. ListLevels
  BY Zenon, <1>2, <1>3, ListRangeEmpty DEF ListLevels, ListSorted
<1>5. ListEntries
  BY Zenon, <1>2, <1>3, ListRangeEmpty DEF ListEntries, List!Init
<1> QED BY Zenon, <1>1, <1>4, <1>5 DEF ListGood, ListIInv

\* clear() leaves no node linked.
LEMMA ListClear ==
  ASSUME ListGood, List!clear
  PROVE  ListGood'
<1>1. 0 \in 0 .. List!m_iMaxLevel /\ \A n \in List!Range(chain[0]) : n \in DOMAIN node
  BY Zenon, ListBelow
<1>2. node' = node /\ m_iCurLevel' = m_iCurLevel /\ dict' = <<>>
  BY Zenon DEF List!clear
<1>3. DOMAIN chain = 0 .. List!m_iMaxLevel
  BY Zenon DEF ListGood, ListTypes
<1>4. chain' = [i \in 0 .. List!m_iMaxLevel |-> <<>>]
  BY Zenon, <1>3 DEF List!clear
<1>5. freed' \subseteq DOMAIN node
  BY Zenon, <1>1 DEF ListGood, ListTypes, List!clear, List!Range
<1>6. ListTypes'
  BY Zenon, <1>2, <1>4, <1>5 DEF ListGood, ListTypes
<1>7. ListLevels'
  BY Zenon, <1>1, <1>4, ListRangeEmpty DEF ListLevels, ListSorted
<1>8. ListEntries'
  BY Zenon, <1>1, <1>2, <1>4, ListRangeEmpty DEF ListEntries
<1> QED BY Zenon, <1>6, <1>7, <1>8 DEF ListGood

\* A record of a node.
LEMMA ListNodeRecords ==
  ASSUME ListTypes
  PROVE  /\ Len(node) \in Nat /\ DOMAIN node = 1 .. Len(node)
         /\ \A n \in DOMAIN node : node[n] \in [key : Keys, val : Vals, level : 0 .. List!m_iMaxLevel]
<1> DEFINE R == [key : Keys, val : Vals, level : 0 .. List!m_iMaxLevel]
<1>1. node \in Seq(R)
  BY Zenon DEF ListTypes
<1> HIDE DEF R
<1>2. Len(node) \in Nat /\ DOMAIN node = 1 .. Len(node) /\ \A n \in DOMAIN node : node[n] \in R
  BY <1>1
<1> QED BY Zenon, <1>2 DEF R

\* insert() of a key that is there changes its value.
LEMMA ListUpdate ==
  ASSUME ListGood, NEW t \in Keys, NEW v \in Vals,
         List!Hit(t) # List!head, List!Update(t, v, List!Hit(t)), List!Entered(t, v)
  PROVE  ListGood'
<1> DEFINE q == List!Hit(t)
           R == [key : Keys, val : Vals, level : 0 .. List!m_iMaxLevel]
           r == [node[q] EXCEPT !.val = v]
<1>1. t \in Int
  BY Zenon, ListUse DEF List!ListAssumption
<1>2. /\ q \in List!Range(chain[0]) /\ node[q].key = t
      /\ \A n \in List!Range(chain[0]) : node[n].key = t => n = q
  BY Zenon, <1>1, ListHit
<1>3. /\ ListTypes /\ ListLevels /\ ListEntries
      /\ 0 \in 0 .. List!m_iMaxLevel
      /\ \A n \in List!Range(chain[0]) : n \in DOMAIN node
  BY Zenon, ListBelow DEF ListGood
<1>4. /\ chain' = chain /\ freed' = freed /\ m_iCurLevel' = m_iCurLevel
      /\ node' = [node EXCEPT ![q] = r]
  BY Zenon DEF List!Update
<1>5. node[q] \in R
  BY Zenon, <1>2, <1>3, ListNodeRecords
<1>6. r \in R /\ r.key = node[q].key /\ r.level = node[q].level /\ r.val = v
  BY <1>5
<1>7. node \in Seq(R) /\ q \in DOMAIN node
  BY Zenon, <1>2, <1>3 DEF ListTypes
<1> HIDE DEF q, r, R
<1>8. node' \in Seq(R)
  BY <1>4, <1>6, <1>7
<1>9. DOMAIN node' = DOMAIN node
  BY Zenon, <1>4
<1>10. \A n \in DOMAIN node :
         /\ node'[n].key = node[n].key /\ node'[n].level = node[n].level
         /\ node'[n].val = IF n = q THEN v ELSE node[n].val
  BY Zenon, <1>4, <1>6
<1>11. ListTypes'
  BY Zenon, <1>3, <1>4, <1>8, <1>9 DEF ListTypes, R
<1>12. ASSUME NEW i \in 0 .. List!m_iMaxLevel
       PROVE  /\ ListSorted(chain[i])'
              /\ List!Range(chain[i]) = {n \in List!Range(chain[0]) : node'[n].level >= i}
  <2>1. ListSorted(chain[i]) /\ List!Range(chain[i]) = {n \in List!Range(chain[0]) : node[n].level >= i}
    BY Zenon, <1>3, <1>12 DEF ListLevels
  <2>2. \A j \in DOMAIN chain[i] : chain[i][j] \in DOMAIN node
    BY Zenon, <1>3, <2>1, ListNodes
  <2>3. ListSorted(chain[i])'
    BY Zenon, <1>4, <1>9, <1>10, <2>1, <2>2 DEF ListSorted
  <2> QED BY Zenon, <1>3, <1>10, <2>1, <2>3
<1>13. ListLevels'
  BY Zenon, <1>3, <1>4, <1>12 DEF ListLevels
<1>14. dict' = [k \in DOMAIN dict \union {t} |-> IF k = t THEN v ELSE dict[k]]
  BY Zenon DEF List!Entered
<1>15. ListEntries'
  <2>1. List!Range(chain'[0]) \intersect freed' = {}
    BY Zenon, <1>3, <1>4 DEF ListEntries
  <2>2. ASSUME NEW n \in List!Range(chain[0])
        PROVE  node'[n].key \in DOMAIN dict' /\ dict'[node'[n].key] = node'[n].val
    <3>1. node[n].key \in DOMAIN dict /\ dict[node[n].key] = node[n].val /\ n \in DOMAIN node
      BY Zenon, <1>3, <2>2 DEF ListEntries
    <3>2. node'[n].key = node[n].key
      BY Zenon, <1>10, <3>1
    <3>3. CASE n = q
      <4>1. node'[n].val = v /\ node'[n].key = t
        BY Zenon, <1>2, <1>10, <3>1, <3>2, <3>3 DEF q
      <4> QED BY Zenon, <1>14, <4>1
    <3>4. CASE n # q
      <4>1. node'[n].val = node[n].val /\ node[n].key # t
        BY Zenon, <1>2, <1>10, <2>2, <3>1, <3>4 DEF q
      <4> QED BY Zenon, <1>14, <3>1, <3>2, <4>1
    <3> QED BY Zenon, <3>3, <3>4
  <2>3. ASSUME NEW k \in DOMAIN dict' PROVE \E n \in List!Range(chain[0]) : node'[n].key = k
    <3>1. \E n \in List!Range(chain[0]) : node[n].key = k
      <4>1. k \in DOMAIN dict \/ k = t
        BY Zenon, <1>14, <2>3
      <4> QED BY Zenon, <1>2, <1>3, <4>1 DEF ListEntries, q
    <3> QED BY Zenon, <1>3, <1>10, <3>1
  <2> QED BY Zenon, <1>4, <2>1, <2>2, <2>3 DEF ListEntries
<1> QED BY Zenon, <1>11, <1>13, <1>15 DEF ListGood

\* A new node goes, at each of its levels, to the cut of its key: the level
\* was not raised over smaller nodes.
LEMMA ListPlace ==
  ASSUME ListGood, NEW t \in Int, NEW nodeLevel \in 0 .. List!m_iMaxLevel,
         ~(nodeLevel > m_iCurLevel /\ List!find_previous_levels_nodes(t)[m_iCurLevel] # List!head),
         NEW i \in 0 .. nodeLevel
  PROVE  LET prev == List!find_previous_levels_nodes(t)
             p == IF nodeLevel > m_iCurLevel /\ i >= m_iCurLevel THEN List!head ELSE prev[i]
         IN List!Position(chain[i], p) = ListCut(chain[i], t)
<1> DEFINE prev == List!find_previous_levels_nodes(t)
<1>1. /\ ListTypes /\ m_iCurLevel \in Nat /\ List!m_iMaxLevel \in Nat
      /\ m_iCurLevel \in 0 .. m_iCurLevel
  <2>1. ListTypes /\ m_iCurLevel \in Nat
    BY Zenon, ListBelow
  <2> QED BY <2>1, ListTop
<1>2. i \in 0 .. List!m_iMaxLevel
  BY <1>1
<1>3. ListSorted(chain[i])
  BY Zenon, <1>2, ListBelow
<1>4. CASE nodeLevel > m_iCurLevel /\ i >= m_iCurLevel
  <2>1. List!Position(chain[i], List!head) = 0
    BY Zenon, <1>1, <1>3, ListNodes, ListPosition
  <2>2. CASE i = m_iCurLevel
    <3>1. prev[i] = List!head
      BY Zenon, <1>4, <2>2
    <3>2. List!Position(chain[i], prev[i]) = ListCut(chain[i], t)
      BY Zenon, <1>1, <2>2, ListFinds
    <3> QED BY Zenon, <1>4, <3>1, <3>2
  <2>3. CASE i # m_iCurLevel
    <3>1. i > m_iCurLevel
      BY <1>1, <1>4, <2>3
    <3>2. chain[i] = <<>>
      BY Zenon, <1>2, <3>1 DEF ListGood, ListLevels
    <3>3. ListCut(chain[i], t) \in 0 .. Len(chain[i])
      BY Zenon, <1>1, <1>3, ListCutSplits
    <3>4. ListCut(chain[i], t) = 0
      <4> DEFINE x == ListCut(chain[i], t)
      <4>1. x \in 0 .. 0
        BY Zenon, <3>2, <3>3, ListRangeEmpty
      <4> HIDE DEF x
      <4>2. x = 0
        BY <4>1
      <4> QED BY Zenon, <4>2 DEF x
    <3> QED BY Zenon, <1>4, <2>1, <3>4
  <2> QED BY Zenon, <2>2, <2>3
<1>5. CASE ~(nodeLevel > m_iCurLevel /\ i >= m_iCurLevel)
  <2>1. i \in 0 .. m_iCurLevel
    BY <1>1, <1>5
  <2>2. List!Position(chain[i], prev[i]) = ListCut(chain[i], t)
    BY Zenon, <2>1, ListFinds
  <2> QED BY Zenon, <1>5, <2>2
<1> QED BY Zenon, <1>4, <1>5

\* insert() of a key that is not there links a node for it.
LEMMA ListCreate ==
  ASSUME ListGood, NEW t \in Keys, NEW v \in Vals, NEW nodeLevel \in 0 .. List!m_iMaxLevel,
         List!Hit(t) = List!head,
         List!create(t, v, nodeLevel, List!find_previous_levels_nodes(t)), List!Entered(t, v),
         ~misplaced'
  PROVE  ListGood'
<1> DEFINE prev == List!find_previous_levels_nodes(t)
           at(i) == IF nodeLevel > m_iCurLevel /\ i >= m_iCurLevel THEN List!head ELSE prev[i]
           n == Len(node) + 1
           R == [key : Keys, val : Vals, level : 0 .. List!m_iMaxLevel]
           r == [key |-> t, val |-> v, level |-> nodeLevel]
<1>1. t \in Int
  BY Zenon, ListUse DEF List!ListAssumption
<1>2. /\ ListTypes /\ ListLevels /\ ListEntries
      /\ 0 \in 0 .. List!m_iMaxLevel /\ m_iCurLevel \in 0 .. List!m_iMaxLevel
      /\ \A m \in List!Range(chain[0]) : m \in DOMAIN node
  BY Zenon, ListBelow DEF ListGood
<1>3. \A m \in List!Range(chain[0]) : node[m].key # t
  BY Zenon, <1>1, ListBelow, ListHit
<1>4. /\ node' = Append(node, r)
      /\ chain' = [i \in DOMAIN chain |->
                     IF i <= nodeLevel THEN List!Link(chain[i], List!Position(chain[i], at(i)), n)
                     ELSE chain[i]]
      /\ m_iCurLevel' = List!Max({m_iCurLevel, nodeLevel})
      /\ misplaced' = (misplaced \/ (nodeLevel > m_iCurLevel /\ prev[m_iCurLevel] # List!head))
      /\ freed' = freed
  BY Zenon DEF List!create
<1>5. dict' = [k \in DOMAIN dict \union {t} |-> IF k = t THEN v ELSE dict[k]]
  BY Zenon DEF List!Entered
<1>6. r \in R /\ r.key = t /\ r.val = v /\ r.level = nodeLevel
  OBVIOUS
<1>7. node \in Seq(R)
  BY Zenon, <1>2 DEF ListTypes
<1> HIDE DEF R, r
<1>8. /\ node' \in Seq(R) /\ DOMAIN node' = DOMAIN node \union {n} /\ n \notin DOMAIN node
      /\ \A m \in DOMAIN node : node'[m] = node[m]
      /\ node'[n] = r
  BY <1>4, <1>6, <1>7
<1>9. DOMAIN chain = 0 .. List!m_iMaxLevel
  BY Zenon, <1>2 DEF ListTypes
<1> HIDE DEF n
<1>10. /\ m_iCurLevel' \in 0 .. List!m_iMaxLevel
       /\ m_iCurLevel' >= m_iCurLevel /\ m_iCurLevel' >= nodeLevel
  <2> DEFINE T == {m_iCurLevel, nodeLevel}
  <2>1. T \subseteq 0 .. List!m_iMaxLevel /\ T # {}
    BY Zenon, <1>2
  <2>2. List!Max(T) \in T /\ \A y \in T : List!Max(T) >= y
    BY Zenon, <2>1, ListMax, ListTop
  <2> QED BY Zenon, <1>4, <2>1, <2>2
<1>11. ListTypes'
  <2>1. chain' = [i \in 0 .. List!m_iMaxLevel |-> chain'[i]]
    BY Zenon, <1>4, <1>9
  <2>2. freed' \subseteq DOMAIN node'
    BY Zenon, <1>2, <1>4, <1>8 DEF ListTypes
  <2> QED BY Zenon, <1>8, <1>10, <2>1, <2>2 DEF ListTypes, R
<1>12. ASSUME NEW i \in 0 .. List!m_iMaxLevel, ~(i <= nodeLevel)
       PROVE  /\ chain'[i] = chain[i] /\ ListSorted(chain[i])'
              /\ i > m_iCurLevel' => chain'[i] = <<>>
  <2>1. chain'[i] = chain[i]
    BY Zenon, <1>4, <1>9, <1>12
  <2>2. ListSorted(chain[i]) /\ (i > m_iCurLevel => chain[i] = <<>>)
    BY Zenon, <1>2, <1>12 DEF ListLevels
  <2>3. chain[i] \in Seq(DOMAIN node) /\ \A j \in DOMAIN chain[i] : chain[i][j] \in DOMAIN node
    BY Zenon, <1>2, <2>2, ListNodes DEF ListSorted
  <2>4. chain[i] \in Seq(DOMAIN node')
    <3>1. DOMAIN node \subseteq DOMAIN node'
      BY Zenon, <1>8
    <3> DEFINE c == chain[i]
               S == DOMAIN node
               S2 == DOMAIN node'
    <3>2. c \in Seq(S) /\ S \subseteq S2
      BY Zenon, <2>3, <3>1
    <3> HIDE DEF c, S, S2
    <3>3. c \in Seq(S2)
      BY <3>2
    <3> QED BY Zenon, <3>3 DEF c, S2
  <2>5. ListSorted(chain[i])'
    BY Zenon, <1>8, <2>1, <2>2, <2>3, <2>4 DEF ListSorted
  <2>6. i > m_iCurLevel' => i > m_iCurLevel
    BY <1>2, <1>10, ListTop
  <2> QED BY Zenon, <2>1, <2>2, <2>5, <2>6
<1>13. ASSUME NEW i \in 0 .. List!m_iMaxLevel, i <= nodeLevel
       PROVE  /\ List!Range(chain'[i]) = List!Range(chain[i]) \union {n}
              /\ ListSorted(chain[i])'
              /\ ~(i > m_iCurLevel')
  <2> DEFINE c == chain[i]
             x == ListCut(c, t)
             d == List!Link(c, x, n)
             S == DOMAIN node'
             K == ListKeys'
  <2>1. i \in 0 .. nodeLevel
    BY <1>13, ListTop
  <2>2. ~(nodeLevel > m_iCurLevel /\ prev[m_iCurLevel] # List!head)
    BY Zenon, <1>4
  <2>3. List!Position(c, at(i)) = x
    BY Zenon, <1>1, <2>1, <2>2, ListPlace
  <2>4. chain'[i] = d
    BY Zenon, <1>4, <1>9, <1>13, <2>3
  <2>5. ListSorted(c)
    BY Zenon, <1>2, <1>13 DEF ListLevels
  <2>6. /\ c \in Seq(DOMAIN node) /\ DOMAIN c = 1 .. Len(c) /\ Len(c) \in Nat
        /\ \A j \in 1 .. Len(c) : c[j] \in DOMAIN node
    BY Zenon, <1>2, <2>5, ListNodes DEF ListSorted
  <2>7. x \in 0 .. Len(c) /\ \A j \in 1 .. Len(c) : j <= x <=> node[c[j]].key < t
    BY Zenon, <1>1, <1>2, <2>5, ListCutSplits
  <2>8. \A j \in 1 .. Len(c) : node[c[j]].key # t
    <3>1. List!Range(c) \subseteq List!Range(chain[0])
      BY Zenon, <1>13, ListBelow
    <3> QED BY Zenon, <1>3, <2>6, <3>1 DEF List!Range
  <2>9. c \in Seq(S) /\ n \in S
    <3>1. DOMAIN node \subseteq S /\ n \in S
      BY Zenon, <1>8
    <3> DEFINE S0 == DOMAIN node
    <3>2. c \in Seq(S0) /\ S0 \subseteq S
      BY Zenon, <2>6, <3>1
    <3> HIDE DEF c, S, S0
    <3>3. c \in Seq(S)
      BY <3>2
    <3> QED BY Zenon, <3>1, <3>3
  <2>10. /\ K \in [S -> Int] /\ K[n] = t
         /\ \A j \in 1 .. Len(c) : K[c[j]] = node[c[j]].key
    <3>1. \A m \in DOMAIN node : node[m].key \in Int
      BY Zenon, <1>2, ListByKeys DEF ListKeys
    <3>2. K = [m \in S |-> node'[m].key]
      BY Zenon DEF ListKeys
    <3>3. \A m \in S : node'[m].key \in Int
      BY Zenon, <1>1, <1>6, <1>8, <3>1
    <3>4. K \in [S -> Int] /\ \A m \in S : K[m] = node'[m].key
      <4> HIDE DEF K, S
      <4> QED BY Zenon, <3>2, <3>3
    <3> HIDE DEF K
    <3> QED BY Zenon, <1>6, <1>8, <2>6, <2>9, <3>4
  <2>11. \A j, k \in 1 .. Len(c) : j < k => K[c[j]] < K[c[k]]
    <3>1. \A j, k \in 1 .. Len(c) : j < k => node[c[j]].key < node[c[k]].key
      BY Zenon, <2>5, <2>6 DEF ListSorted
    <3> HIDE DEF K
    <3> QED BY Zenon, <2>10, <3>1
  <2> HIDE DEF K, S
  <2>12. /\ d \in Seq(S) /\ Len(d) = Len(c) + 1 /\ List!Range(d) = List!Range(c) \union {n}
    <3> HIDE DEF c, x
    <3> QED BY <2>7, <2>9, ListLink
  <2>13. /\ \A j \in 1 .. Len(c) : j <= x <=> K[c[j]] < K[n]
         /\ \A j \in 1 .. Len(c) : K[c[j]] # K[n]
    BY Zenon, <2>7, <2>8, <2>10
  <2>14. \A j, k \in 1 .. Len(c) + 1 : j < k => K[d[j]] < K[d[k]]
    <3> HIDE DEF c, x
    <3> QED BY Zenon, <2>7, <2>9, <2>10, <2>11, <2>13, ListLinkSorted
  <2>15. ListSorted(chain[i])'
    <3>1. DOMAIN d = 1 .. Len(c) + 1 /\ \A j \in 1 .. Len(c) + 1 : d[j] \in S
      <4> HIDE DEF d, c
      <4> QED BY <2>12
    <3>2. \A j \in 1 .. Len(c) + 1 : K[d[j]] = node'[d[j]].key
      <4>1. K = [m \in S |-> node'[m].key]
        BY Zenon DEF ListKeys, K, S
      <4> HIDE DEF d, c
      <4> QED BY Zenon, <3>1, <4>1
    <3> HIDE DEF d, c
    <3>3. \A j, k \in DOMAIN d : j < k => node'[d[j]].key < node'[d[k]].key
      BY Zenon, <2>14, <3>1, <3>2
    <3> QED BY Zenon, <2>4, <2>12, <3>3 DEF ListSorted, S
  <2>16. ~(i > m_iCurLevel')
    BY <1>2, <1>10, <1>13, ListTop
  <2> QED BY Zenon, <2>4, <2>12, <2>15, <2>16
<1>14. List!Range(chain'[0]) = List!Range(chain[0]) \union {n}
  <2>1. 0 <= nodeLevel
    BY ListTop
  <2> QED BY Zenon, <1>2, <1>13, <2>1
<1>15. ASSUME NEW i \in 0 .. List!m_iMaxLevel
       PROVE  List!Range(chain'[i]) = {m \in List!Range(chain'[0]) : node'[m].level >= i}
  <2>1. List!Range(chain[i]) = {m \in List!Range(chain[0]) : node[m].level >= i}
    BY Zenon, <1>2, <1>15 DEF ListLevels
  <2>2. \A m \in List!Range(chain[0]) : node'[m].level = node[m].level
    BY Zenon, <1>2, <1>8
  <2>3. node'[n].level = nodeLevel
    BY Zenon, <1>6, <1>8
  <2>4. i <= nodeLevel <=> nodeLevel >= i
    BY <1>15, ListTop
  <2>5. CASE i <= nodeLevel
    <3>1. List!Range(chain'[i]) = List!Range(chain[i]) \union {n}
      BY Zenon, <1>13, <1>15, <2>5
    <3> QED BY Zenon, <1>14, <2>1, <2>2, <2>3, <2>4, <2>5, <3>1
  <2>6. CASE ~(i <= nodeLevel)
    <3>1. chain'[i] = chain[i]
      BY Zenon, <1>12, <1>15, <2>6
    <3> QED BY Zenon, <1>14, <2>1, <2>2, <2>3, <2>4, <2>6, <3>1
  <2> QED BY Zenon, <2>5, <2>6
<1>16. ListLevels'
  BY Zenon, <1>12, <1>13, <1>15 DEF ListLevels
<1>17. ListEntries'
  <2>1. List!Range(chain'[0]) \intersect freed' = {}
    <3>1. n \notin freed
      BY Zenon, <1>2, <1>8 DEF ListTypes
    <3> QED BY Zenon, <1>2, <1>4, <1>14, <3>1 DEF ListEntries
  <2>2. ASSUME NEW m \in List!Range(chain'[0])
        PROVE  node'[m].key \in DOMAIN dict' /\ dict'[node'[m].key] = node'[m].val
    <3>1. CASE m = n
      <4>1. node'[m].key = t /\ node'[m].val = v
        BY Zenon, <1>6, <1>8, <3>1
      <4> QED BY Zenon, <1>5, <4>1
    <3>2. CASE m # n
      <4>1. m \in List!Range(chain[0])
        BY Zenon, <1>14, <2>2, <3>2
      <4>2. node'[m] = node[m] /\ node[m].key # t
        BY Zenon, <1>2, <1>3, <1>8, <4>1
      <4>3. node[m].key \in DOMAIN dict /\ dict[node[m].key] = node[m].val
        BY Zenon, <1>2, <4>1 DEF ListEntries
      <4> QED BY Zenon, <1>5, <4>2, <4>3
    <3> QED BY Zenon, <3>1, <3>2
  <2>3. ASSUME NEW k \in DOMAIN dict' PROVE \E m \in List!Range(chain'[0]) : node'[m].key = k
    <3>1. k = t \/ k \in DOMAIN dict
      BY Zenon, <1>5, <2>3
    <3>2. CASE k = t
      BY Zenon, <1>6, <1>8, <1>14, <3>2
    <3>3. CASE k \in DOMAIN dict
      <4>1. PICK m \in List!Range(chain[0]) : node[m].key = k
        BY Zenon, <1>2, <3>3 DEF ListEntries
      <4> QED BY Zenon, <1>2, <1>8, <1>14, <4>1
    <3> QED BY Zenon, <3>1, <3>2, <3>3
  <2> QED BY Zenon, <2>1, <2>2, <2>3 DEF ListEntries
<1> QED BY Zenon, <1>11, <1>16, <1>17 DEF ListGood

\* erase() unlinks the node at the levels it is linked at, which are the ones
\* from 0 on.
LEMMA ListLinked ==
  ASSUME ListGood, NEW t \in Int, List!Hit(t) # List!head, NEW i \in 0 .. List!m_iMaxLevel
  PROVE  i \in List!Linked(List!Hit(t), List!find_previous_levels_nodes(t))
         <=> List!Hit(t) \in List!Range(chain[i])
<1> DEFINE prev == List!find_previous_levels_nodes(t)
           q == List!Hit(t)
<1>1. q \in List!Range(chain[0]) /\ node[q].key = t
  BY Zenon, ListHit
<1>2. \A j \in 0 .. List!m_iMaxLevel : q \in List!Range(chain[j]) <=> node[q].level >= j
  BY Zenon, <1>1 DEF ListGood, ListLevels
<1>3. \A j \in 0 .. m_iCurLevel : List!Behind(j, prev[j]) = q <=> q \in List!Range(chain[j])
  <2> SUFFICES ASSUME NEW j \in 0 .. m_iCurLevel
               PROVE  List!Behind(j, prev[j]) = q <=> q \in List!Range(chain[j])
    BY Zenon
  <2> QED BY Zenon, <1>1, ListFinds
<1>4. q \in List!Range(chain[i]) => ~(i > m_iCurLevel)
  BY Zenon, ListRangeEmpty DEF ListGood, ListLevels
<1>5. /\ m_iCurLevel \in Nat /\ \A j \in 0 .. m_iCurLevel : j \in 0 .. List!m_iMaxLevel
  BY Zenon, ListBelow
<1>6. node[q].level \in Nat
  <2>1. ListTypes /\ q \in DOMAIN node
    BY Zenon, <1>1, ListBelow
  <2>2. node[q] \in [key : Keys, val : Vals, level : 0 .. List!m_iMaxLevel]
    BY Zenon, <2>1, ListNodeRecords
  <2> HIDE DEF q
  <2> QED BY <2>2, ListTop
<1>7. i \in List!Linked(q, prev) <=> i \in 0 .. m_iCurLevel /\ \A j \in 0 .. i : List!Behind(j, prev[j]) = q
  BY Zenon DEF List!Linked
<1> HIDE DEF prev, q
<1>8. i \in List!Linked(q, prev) => q \in List!Range(chain[i])
  <2>1. i \in 0 .. i
    BY ListTop
  <2> QED BY Zenon, <1>3, <1>7, <2>1
<1>9. ASSUME q \in List!Range(chain[i]) PROVE i \in List!Linked(q, prev)
  <2>1. node[q].level >= i /\ ~(i > m_iCurLevel)
    BY Zenon, <1>2, <1>4, <1>9
  <2>2. i \in 0 .. m_iCurLevel
    BY <1>5, <2>1, ListTop
  <2>3. ASSUME NEW j \in 0 .. i PROVE List!Behind(j, prev[j]) = q
    <3>1. j \in 0 .. m_iCurLevel /\ node[q].level >= j
      BY <1>5, <1>6, <2>1, <2>2, <2>3
    <3> QED BY Zenon, <1>2, <1>3, <1>5, <3>1
  <2> QED BY Zenon, <1>7, <2>2, <2>3
<1> QED BY Zenon, <1>8, <1>9 DEF prev, q

INSTANCE FiniteSetTheorems

\* The current level falls by the levels that became empty, which are the
\* upper ones.
LEMMA ListFalls ==
  ASSUME NEW ch, NEW cur \in Nat,
         \A i \in 0 .. cur : \A j \in 0 .. i : ch[i] # <<>> => ch[j] # <<>>
  PROVE  LET k == cur - Cardinality({i \in 1 .. cur : ch[i] = <<>>})
         IN k \in 0 .. cur /\ \A i \in 0 .. cur : i > k => ch[i] = <<>>
<1> DEFINE T == {i \in 0 .. cur : i = 0 \/ ch[i] # <<>>}
           E == {i \in 1 .. cur : ch[i] = <<>>}
           k == List!Max(T)
<1>1. 0 \in 0 .. cur
  OBVIOUS
<1>2. T \subseteq 0 .. cur /\ T # {}
  BY Zenon, <1>1
<1>3. k \in T /\ \A y \in T : k >= y
  BY Zenon, <1>2, ListMax
<1>4. k \in 0 .. cur
  BY Zenon, <1>3
<1>5. \A i \in 0 .. cur : i > k => ch[i] = <<>>
  <2> SUFFICES ASSUME NEW i \in 0 .. cur, i > k PROVE ch[i] = <<>>
    BY Zenon
  <2>1. ~(k >= i)
    <3> HIDE DEF k
    <3> QED BY <1>4
  <2> QED BY Zenon, <1>3, <2>1
<1>6. \A i \in 1 .. cur : ~(i > k) => ch[i] # <<>>
  <2> SUFFICES ASSUME NEW i \in 1 .. cur, ~(i > k) PROVE ch[i] # <<>>
    BY Zenon
  <2>1. k # 0 /\ i \in 0 .. k
    <3> HIDE DEF k
    <3> QED BY <1>4
  <2>2. ch[k] # <<>>
    BY Zenon, <1>3, <2>1
  <2> HIDE DEF k
  <2> QED BY Zenon, <1>4, <2>1, <2>2
<1> HIDE DEF k
<1>7. E = k + 1 .. cur
  <2>1. \A i : i \in k + 1 .. cur <=> i \in 1 .. cur /\ i > k
    BY <1>4
  <2>2. \A i \in 1 .. cur : i \in 0 .. cur
    OBVIOUS
  <2>3. \A i \in 1 .. cur : i > k <=> ch[i] = <<>>
    BY Zenon, <1>5, <1>6, <2>2
  <2>4. \A i : i \in k + 1 .. cur <=> i \in E
    BY Zenon, <2>1, <2>3
  <2> HIDE DEF E
  <2> QED BY Zenon, <2>4
<1>8. Cardinality(k + 1 .. cur) = cur - k
  <2>1. k + 1 \in Int /\ cur \in Int
    BY <1>4
  <2>2. Cardinality(k + 1 .. cur) = IF k + 1 > cur THEN 0 ELSE cur - (k + 1) + 1
    BY Zenon, <2>1, FS_Interval
  <2> QED BY <1>4, <2>2
<1>9. cur - Cardinality(E) = k
  BY <1>4, <1>7, <1>8
<1> QED BY Zenon, <1>4, <1>5, <1>9

\* erase() unlinks and deletes the node of the key.
LEMMA ListErase ==
  ASSUME ListGood, NEW t \in Keys, List!erase(t)
  PROVE  ListGood'
<1> DEFINE prev == List!find_previous_levels_nodes(t)
           q == List!Hit(t)
<1>1. t \in Int
  BY Zenon, ListUse DEF List!ListAssumption
<1>2. ~List!ReadsFreed(t)
  BY Zenon, <1>1, ListReadsLive
<1>3. /\ q # List!head
      /\ chain' = [i \in DOMAIN chain |->
                     IF i \in List!Linked(q, prev)
                     THEN List!Unlink(chain[i], List!Position(chain[i], q)) ELSE chain[i]]
      /\ freed' = freed \union {q}
      /\ m_iCurLevel' = m_iCurLevel - Cardinality({i \in 1 .. m_iCurLevel : chain'[i] = <<>>})
      /\ dict' = [k \in DOMAIN dict \ {t} |-> dict[k]]
      /\ node' = node
  <2>1. \A E : List!Cardinality(E) = Cardinality(E)
    BY Zenon DEF List!Cardinality, Cardinality
  <2> QED BY Zenon, <1>2, <2>1 DEF List!erase
<1>4. /\ q \in List!Range(chain[0]) /\ node[q].key = t
      /\ \A n \in List!Range(chain[0]) : node[n].key = t => n = q
  BY Zenon, <1>1, <1>3, ListHit
<1>5. /\ ListTypes /\ ListLevels /\ ListEntries
      /\ 0 \in 0 .. List!m_iMaxLevel /\ m_iCurLevel \in Nat
      /\ \A i \in 0 .. m_iCurLevel : i \in 0 .. List!m_iMaxLevel
      /\ \A n \in List!Range(chain[0]) : n \in DOMAIN node
  BY Zenon, ListBelow DEF ListGood
<1>6. DOMAIN chain = 0 .. List!m_iMaxLevel
  BY Zenon, <1>5 DEF ListTypes
<1>7. ASSUME NEW i \in 0 .. List!m_iMaxLevel
      PROVE  chain'[i] = IF q \in List!Range(chain[i])
                         THEN List!Unlink(chain[i], List!Position(chain[i], q)) ELSE chain[i]
  <2>1. i \in List!Linked(q, prev) <=> q \in List!Range(chain[i])
    BY Zenon, <1>1, <1>3, <1>7, ListLinked
  <2> QED BY Zenon, <1>3, <1>6, <1>7, <2>1
<1> HIDE DEF prev, q
<1>8. ASSUME NEW i \in 0 .. List!m_iMaxLevel
      PROVE  List!Range(chain'[i]) = List!Range(chain[i]) \ {q} /\ ListSorted(chain[i])'
  <2> DEFINE c == chain[i]
             x == List!Position(c, q)
             d == List!Unlink(c, x)
             S == DOMAIN node
             K == ListKeys
  <2>1. ListSorted(c)
    BY Zenon, <1>5, <1>8 DEF ListLevels
  <2>2. CASE q \notin List!Range(c)
    <3>1. chain'[i] = c
      BY Zenon, <1>7, <1>8, <2>2
    <3>2. ListSorted(chain[i])'
      BY Zenon, <1>3, <2>1, <3>1 DEF ListSorted
    <3> QED BY Zenon, <2>2, <3>1, <3>2
  <2>3. CASE q \in List!Range(c)
    <3>1. chain'[i] = d
      BY Zenon, <1>7, <1>8, <2>3
    <3>2. /\ c \in Seq(S) /\ \A j, k \in 1 .. Len(c) : j < k => K[c[j]] < K[c[k]]
      BY Zenon, <1>5, <2>1, ListByKeys
    <3>3. /\ DOMAIN c = 1 .. Len(c) /\ Len(c) \in Nat
          /\ \A j, k \in 1 .. Len(c) : node[c[j]].key = node[c[k]].key => j = k
      BY Zenon, <1>5, <2>1, ListNodes
    <3>4. x \in 1 .. Len(c) /\ c[x] = q
      <4>1. PICK l \in 1 .. Len(c) : c[l] = q
        BY Zenon, <2>3, <3>3 DEF List!Range
      <4>2. x = l
        BY Zenon, <1>5, <2>1, <4>1, ListPosition
      <4> QED BY Zenon, <4>1, <4>2
    <3>5. \A j, k \in DOMAIN c : c[j] = c[k] => j = k
      BY Zenon, <3>3
    <3> HIDE DEF c, x, S, K
    <3>6. /\ d \in Seq(S) /\ Len(d) = Len(c) - 1
          /\ List!Range(d) = List!Range(c) \ {c[x]}
      BY Zenon, <3>2, <3>4, <3>5, ListUnlinked
    <3>7. \A j, k \in 1 .. Len(c) - 1 : j < k => K[d[j]] < K[d[k]]
      BY Zenon, <3>2, <3>4, ListUnlinkSorted
    <3> HIDE DEF d
    <3>8. \A j, k \in 1 .. Len(d) : j < k => K[d[j]] < K[d[k]]
      BY Zenon, <3>6, <3>7
    <3>9. ListSorted(d)
      BY Zenon, <1>5, <3>6, <3>8, ListByKeys DEF K, S
    <3>10. ListSorted(chain[i])'
      BY Zenon, <1>3, <3>1, <3>9 DEF ListSorted
    <3> QED BY Zenon, <3>1, <3>4, <3>6, <3>10 DEF c
  <2> QED BY Zenon, <2>2, <2>3
<1>9. ASSUME NEW i \in 0 .. List!m_iMaxLevel
      PROVE  List!Range(chain'[i]) = {n \in List!Range(chain'[0]) : node[n].level >= i}
  <2>1. List!Range(chain[i]) = {n \in List!Range(chain[0]) : node[n].level >= i}
    BY Zenon, <1>5, <1>9 DEF ListLevels
  <2> QED BY Zenon, <1>5, <1>8, <1>9, <2>1
<1>10. ASSUME NEW i \in 0 .. List!m_iMaxLevel
       PROVE  chain'[i] # <<>> <=> List!Range(chain'[i]) # {}
  <2>1. chain'[i] \in Seq(DOMAIN node')
    BY Zenon, <1>8, <1>10 DEF ListSorted
  <2> DEFINE c == chain'[i]
             S == DOMAIN node'
  <2> HIDE DEF c, S
  <2>2. c \in Seq(S)
    BY Zenon, <2>1 DEF c, S
  <2>3. c # <<>> => 1 \in DOMAIN c
    BY <2>2
  <2>4. c # <<>> => List!Range(c) # {}
    BY Zenon, <2>3 DEF List!Range
  <2> QED BY Zenon, <2>4, ListRangeEmpty DEF c
<1>11. /\ m_iCurLevel' \in 0 .. m_iCurLevel
       /\ \A i \in 0 .. m_iCurLevel : i > m_iCurLevel' => chain'[i] = <<>>
  <2>1. ASSUME NEW i \in 0 .. m_iCurLevel, NEW j \in 0 .. i, chain'[i] # <<>>
        PROVE  chain'[j] # <<>>
    <3>1. i \in 0 .. List!m_iMaxLevel /\ j \in 0 .. List!m_iMaxLevel
      <4>1. j \in 0 .. m_iCurLevel
        BY <1>5, <2>1
      <4> QED BY Zenon, <1>5, <2>1, <4>1
    <3>2. PICK n \in List!Range(chain'[i]) : TRUE
      BY Zenon, <1>10, <2>1, <3>1
    <3>3. n \in List!Range(chain'[0]) /\ node[n].level >= i
      BY Zenon, <1>9, <3>1, <3>2
    <3>4. node[n].level \in Nat
      <4>1. n \in DOMAIN node
        BY Zenon, <1>5, <1>8, <3>3
      <4>2. node[n] \in [key : Keys, val : Vals, level : 0 .. List!m_iMaxLevel]
        BY Zenon, <1>5, <4>1, ListNodeRecords
      <4> QED BY <4>2, ListTop
    <3>5. node[n].level >= j
      BY <1>5, <2>1, <3>3, <3>4
    <3> QED BY Zenon, <1>9, <1>10, <3>1, <3>3, <3>5
  <2> DEFINE ch == chain'
             cur == m_iCurLevel
  <2>2. \A i \in 0 .. cur : \A j \in 0 .. i : ch[i] # <<>> => ch[j] # <<>>
    BY Zenon, <2>1
  <2>3. m_iCurLevel' = cur - Cardinality({i \in 1 .. cur : ch[i] = <<>>}) /\ cur \in Nat
    BY Zenon, <1>3, <1>5
  <2> HIDE DEF ch, cur
  <2>4. m_iCurLevel' \in 0 .. cur /\ \A i \in 0 .. cur : i > m_iCurLevel' => ch[i] = <<>>
    BY Zenon, <2>2, <2>3, ListFalls
  <2> QED BY Zenon, <2>4 DEF ch, cur
<1>12. ListTypes'
  <2>1. chain' = [i \in 0 .. List!m_iMaxLevel |-> chain'[i]]
    BY Zenon, <1>3, <1>6
  <2> QED BY Zenon, <1>3, <1>4, <1>5, <1>11, <2>1 DEF ListTypes
<1>13. ASSUME NEW i \in 0 .. List!m_iMaxLevel, i > m_iCurLevel' PROVE chain'[i] = <<>>
  <2>1. CASE i \in 0 .. m_iCurLevel
    BY Zenon, <1>11, <1>13, <2>1
  <2>2. CASE i \notin 0 .. m_iCurLevel
    <3>1. i > m_iCurLevel
      BY <1>5, <1>13, <2>2, ListTop
    <3>2. chain[i] = <<>>
      BY Zenon, <1>5, <1>13, <3>1 DEF ListLevels
    <3> QED BY Zenon, <1>7, <1>13, <3>2, ListRangeEmpty
  <2> QED BY Zenon, <2>1, <2>2
<1>14. ListLevels'
  BY Zenon, <1>3, <1>8, <1>9, <1>13 DEF ListLevels
<1>15. ListEntries'
  <2>1. List!Range(chain'[0]) = List!Range(chain[0]) \ {q}
    BY Zenon, <1>5, <1>8
  <2>2. List!Range(chain'[0]) \intersect freed' = {}
    BY Zenon, <1>3, <1>5, <2>1 DEF ListEntries
  <2>3. ASSUME NEW n \in List!Range(chain'[0])
        PROVE  node[n].key \in DOMAIN dict' /\ dict'[node[n].key] = node[n].val
    <3>1. n \in List!Range(chain[0]) /\ node[n].key # t
      BY Zenon, <1>4, <2>1, <2>3
    <3>2. node[n].key \in DOMAIN dict /\ dict[node[n].key] = node[n].val
      BY Zenon, <1>5, <3>1 DEF ListEntries
    <3> QED BY Zenon, <1>3, <3>1, <3>2
  <2>4. ASSUME NEW k \in DOMAIN dict' PROVE \E n \in List!Range(chain'[0]) : node[n].key = k
    <3>1. k \in DOMAIN dict /\ k # t
      BY Zenon, <1>3, <2>4
    <3>2. PICK n \in List!Range(chain[0]) : node[n].key = k
      BY Zenon, <1>5, <3>1 DEF ListEntries
    <3> QED BY Zenon, <1>4, <2>1, <3>1, <3>2
  <2> QED BY Zenon, <1>3, <2>2, <2>3, <2>4 DEF ListEntries
<1> QED BY Zenon, <1>12, <1>14, <1>15 DEF ListGood

\* Agrees is what the invariant says; undefined behaviour stops the list, and
\* a level raised over smaller nodes is never forgotten.
LEMMA ListStep ==
  ASSUME ListIInv, [List!Next]_List!vars
  PROVE  ListIInv'
<1>1. CASE UNCHANGED List!vars
  BY Zenon, <1>1 DEF List!vars, ListIInv, ListGood, ListTypes, ListLevels, ListEntries, ListSorted
<1>2. CASE List!Next
  <2>1. CASE listUb
    BY Zenon, <1>2, <2>1 DEF List!Next, List!insert, List!erase, List!clear
  <2>2. CASE ~listUb /\ misplaced
    <3>1. ASSUME NEW t \in Keys, NEW v \in Vals, List!insert(t, v) PROVE misplaced'
      BY Zenon, <2>2, <3>1 DEF List!insert, List!Update, List!create, List!Undefined
    <3>2. ASSUME NEW t \in Keys, List!erase(t) PROVE misplaced'
      BY Zenon, <2>2, <3>2 DEF List!erase, List!Undefined
    <3>3. ASSUME List!clear PROVE misplaced'
      BY Zenon, <2>2, <3>3 DEF List!clear
    <3> QED BY Zenon, <1>2, <3>1, <3>2, <3>3 DEF List!Next, ListIInv
  <2>3. CASE ListGood
    <3>1. ASSUME NEW t \in Keys, NEW v \in Vals, List!insert(t, v) PROVE ListIInv'
      <4>1. CASE List!Undefined
        BY Zenon, <4>1 DEF List!Undefined, ListIInv
      <4>2. CASE List!Hit(t) # List!head /\ List!Update(t, v, List!Hit(t)) /\ List!Entered(t, v)
        BY Zenon, <2>3, <3>1, <4>2, ListUpdate DEF ListIInv
      <4>3. ASSUME NEW nodeLevel \in 0 .. List!m_iMaxLevel, List!Hit(t) = List!head,
                   List!create(t, v, nodeLevel, List!find_previous_levels_nodes(t)),
                   List!Entered(t, v)
            PROVE  ListIInv'
        <5>1. CASE misplaced'
          BY Zenon, <5>1 DEF ListIInv
        <5>2. CASE ~misplaced'
          BY Zenon, <2>3, <3>1, <4>3, <5>2, ListCreate DEF ListIInv
        <5> QED BY Zenon, <5>1, <5>2
      <4> QED BY Zenon, <3>1, <4>1, <4>2, <4>3 DEF List!insert, List!rand_level
    <3>2. ASSUME NEW t \in Keys, List!erase(t) PROVE ListIInv'
      BY Zenon, <2>3, <3>2, ListErase DEF ListIInv
    <3>3. ASSUME List!clear PROVE ListIInv'
      BY Zenon, <2>3, <3>3, ListClear DEF ListIInv
    <3> QED BY Zenon, <1>2, <3>1, <3>2, <3>3 DEF List!Next
  <2> QED BY Zenon, <2>1, <2>2, <2>3 DEF ListIInv
<1> QED BY Zenon, <1>1, <1>2

\* Until an insert raises the level over smaller nodes, the skip list is the
\* dictionary its operations describe: sorted at every level, and found at
\* every lookup, for any keys, values, levels drawn and number of nodes.
THEOREM ListIsDictionary == List!Spec => []ListAgrees
<1>1. List!Init => ListIInv
  BY Zenon, ListInit
<1>2. ListIInv /\ [List!Next]_List!vars => ListIInv'
  BY Zenon, ListStep
<1> QED BY <1>1, <1>2, ListGoodAgrees, PTL DEF List!Spec

----------------------------------------------------------------------------
(* The blocking queue. *)

INSTANCE SequenceTheorems

NoBlockedPush == m_iQueueMaxSize = 0 => \A t \in Threads : call[t] # "Push"

IInv == TypeOK /\ NoBlockedPush /\ NoLostWakeup

\* Woken is finite, so its size is a natural number.
LEMMA WokenFinite ==
    /\ IsFiniteSet(Woken)
    /\ Cardinality(Woken) \in Nat
  BY QueueAssumption, FS_Subset, FS_CardinalityType DEF Woken

\* The two parts of the invariant that say how the state is shaped hold after
\* every step of the queue.
LEMMA ShapeStep == TypeOK /\ NoBlockedPush /\ [Next]_vars => (TypeOK /\ NoBlockedPush)'
<1> SUFFICES ASSUME TypeOK, NoBlockedPush, [Next]_vars
             PROVE  (TypeOK /\ NoBlockedPush)'
  OBVIOUS
<1> USE QueueAssumption DEF TypeOK, NoBlockedPush
<1>1. ASSUME NEW t \in Threads, Pop(t) PROVE (TypeOK /\ NoBlockedPush)'
  <2>1. CASE Dequeue /\ Return(t)
    BY <1>1, <2>1 DEF Pop, Dequeue, Return, Running, NotifyOne
  <2>2. CASE m_queue = <<>> /\ Wait(t, "Pop")
    BY <1>1, <2>2 DEF Pop, Wait, Running
  <2> QED BY <1>1, <2>1, <2>2 DEF Pop
<1>2. ASSUME NEW t \in Threads, TryPop(t) PROVE (TypeOK /\ NoBlockedPush)'
  BY <1>2 DEF TryPop, Dequeue, Running, NotifyOne
<1>3. ASSUME NEW t \in Threads, Push(t) PROVE (TypeOK /\ NoBlockedPush)'
  <2>1. CASE ~Full /\ Enqueue /\ Return(t)
    BY <1>3, <2>1 DEF Push, Enqueue, Return, Running, NotifyOne
  <2>2. CASE Full /\ Wait(t, "Push")
    BY <1>3, <2>2 DEF Push, Wait, Running, Full
  <2> QED BY <1>3, <2>1, <2>2 DEF Push
<1>4. ASSUME NEW t \in Threads, TryPush(t) PROVE (TypeOK /\ NoBlockedPush)'
  BY <1>4 DEF TryPush, Enqueue, Running, NotifyOne
<1>5. ASSUME NEW t \in Threads, Clear(t) PROVE (TypeOK /\ NoBlockedPush)'
  BY <1>5 DEF Clear, Running, NotifyAll
<1>6. ASSUME NEW t \in Threads, SpuriousWakeup(t) PROVE (TypeOK /\ NoBlockedPush)'
  BY <1>6 DEF SpuriousWakeup
<1>7. CASE UNCHANGED vars
  BY <1>7 DEF vars
<1> QED BY <1>1, <1>2, <1>3, <1>4, <1>5, <1>6, <1>7 DEF Next

\* Notifying one sleeper moves it to Woken; with nobody asleep nothing changes.
LEMMA NotifyWakes ==
  ASSUME TypeOK, NotifyOne, waiting # {}, call' = call
  PROVE  Cardinality(Woken') = Cardinality(Woken) + 1
<1>1. PICK w \in waiting : waiting' = waiting \ {w}
  BY DEF NotifyOne
<1>2. Woken' = Woken \union {w} /\ w \notin Woken
  BY <1>1 DEF Woken, TypeOK
<1> QED BY <1>2, WokenFinite, FS_AddElement

\* A thread that leaves its call leaves Woken, which loses one element at most.
LEMMA ReturnShrinks ==
  ASSUME TypeOK, NEW t \in Threads, Return(t), waiting' = waiting
  PROVE  Cardinality(Woken') >= Cardinality(Woken) - 1
<1>1. Woken' = Woken \ {t}
  BY DEF Woken, TypeOK, Return
<1>2. Cardinality(Woken \ {t}) =
        IF t \in Woken THEN Cardinality(Woken) - 1 ELSE Cardinality(Woken)
  BY Zenon, WokenFinite, FS_RemoveElement
<1> QED BY <1>1, <1>2, WokenFinite

\* NoLostWakeup survives every step.
LEMMA WakeupStep == IInv /\ [Next]_vars => NoLostWakeup'
<1> SUFFICES ASSUME TypeOK, NoBlockedPush, NoLostWakeup, [Next]_vars,
                    m_iQueueMaxSize = 0, waiting' # {}
             PROVE  Len(m_queue') <= Cardinality(Woken')
  BY DEF IInv, NoLostWakeup
<1>0. /\ TypeOK' /\ NoBlockedPush'
      /\ Cardinality(Woken) \in Nat
      /\ Cardinality(Woken') \in Nat
  <2>1. TypeOK' /\ NoBlockedPush' BY ShapeStep
  <2>2. IsFiniteSet(Woken') BY QueueAssumption, FS_Subset DEF Woken
  <2> QED BY <2>1, <2>2, WokenFinite, FS_CardinalityType
<1>1. ASSUME NEW t \in Threads, Pop(t) PROVE Len(m_queue') <= Cardinality(Woken')
  <2>1. CASE Dequeue /\ Return(t)
    <3>1. waiting' = waiting /\ Len(m_queue') = Len(m_queue) - 1
      BY <2>1 DEF Dequeue, TypeOK
    <3> QED BY SMTT(60), <1>0, <2>1, <3>1, ReturnShrinks DEF NoLostWakeup, TypeOK
  <2>2. CASE m_queue = <<>> /\ Wait(t, "Pop")
    BY <1>0, <2>2 DEF Wait
  <2> QED BY <1>1, <2>1, <2>2 DEF Pop
<1>2. ASSUME NEW t \in Threads, TryPop(t) PROVE Len(m_queue') <= Cardinality(Woken')
  <2>1. waiting' = waiting /\ Len(m_queue') = Len(m_queue) - 1 /\ Woken' = Woken
    BY <1>2 DEF TryPop, Dequeue, TypeOK, Woken
  <2> QED BY <1>0, <2>1 DEF NoLostWakeup, TypeOK
<1>3. ASSUME Enqueue, call' = call PROVE Len(m_queue') <= Cardinality(Woken')
  <2>1. Len(m_queue') = Len(m_queue) + 1 /\ NotifyOne
    BY <1>3 DEF Enqueue, TypeOK
  <2>2. waiting # {}
    BY <2>1 DEF NotifyOne
  <2> QED BY <1>0, <1>3, <2>1, <2>2, NotifyWakes DEF NoLostWakeup, TypeOK
<1>4. ASSUME NEW t \in Threads, Push(t) PROVE Len(m_queue') <= Cardinality(Woken')
  <2>1. ~Full /\ Enqueue /\ Return(t)
    BY <1>4 DEF Push, Full
  <2>2. call' = call
    BY <1>4, <2>1 DEF Return, Push, Running, NoBlockedPush, TypeOK
  <2> QED BY <1>3, <2>1, <2>2
<1>5. ASSUME NEW t \in Threads, TryPush(t) PROVE Len(m_queue') <= Cardinality(Woken')
  BY <1>3, <1>5 DEF TryPush
<1>6. ASSUME NEW t \in Threads, Clear(t) PROVE Len(m_queue') <= Cardinality(Woken')
  BY <1>6 DEF Clear, NotifyAll
<1>7. ASSUME NEW t \in Threads, SpuriousWakeup(t) PROVE Len(m_queue') <= Cardinality(Woken')
  <2>1. Woken' = Woken \union {t} /\ t \notin Woken /\ t \in waiting
    BY <1>7 DEF SpuriousWakeup, Woken, TypeOK
  <2>2. Cardinality(Woken') = Cardinality(Woken) + 1
    BY Zenon, <2>1, WokenFinite, FS_AddElement
  <2> QED BY <1>0, <1>7, <2>1, <2>2 DEF NoLostWakeup, TypeOK, SpuriousWakeup
<1>8. CASE UNCHANGED vars
  BY <1>8 DEF vars, NoLostWakeup, Woken
<1> QED BY <1>1, <1>2, <1>4, <1>5, <1>6, <1>7, <1>8 DEF Next

\* The queue's variables keep their types, and a sleeping thread is in a call.
THEOREM QueueType == Spec => []TypeOK
<1>1. Init => TypeOK /\ NoBlockedPush
  BY QueueAssumption DEF Init, TypeOK, NoBlockedPush
<1> QED BY <1>1, ShapeStep, PTL DEF Spec

\* However many threads share an unbounded queue, no wakeup is lost: while a
\* consumer sleeps there are as many woken threads as items (the notify_one of
\* Push and TryPush is enough, and Clear and TryPop do no harm).
THEOREM QueueNoLostWakeup == Spec => []NoLostWakeup
<1>1. Init => IInv
  BY QueueAssumption DEF Init, IInv, TypeOK, NoBlockedPush, NoLostWakeup
<1>2. IInv /\ [Next]_vars => IInv'
  BY ShapeStep, WakeupStep DEF IInv
<1> QED BY <1>1, <1>2, PTL DEF Spec, IInv

\* Items leave an unbounded or a bounded queue in acceptance order, once each.
THEOREM QueueFIFO == Spec => []FIFO
<1>1. Init => TypeOK /\ NoBlockedPush /\ FIFO
  BY QueueAssumption DEF Init, TypeOK, NoBlockedPush, FIFO
<1>2. TypeOK /\ FIFO /\ [Next]_vars => FIFO'
  <2> SUFFICES ASSUME TypeOK, FIFO, [Next]_vars PROVE FIFO'
    OBVIOUS
  <2> USE DEF TypeOK, FIFO
  <2>1. CASE Dequeue
    <3>1. /\ m_queue \in Seq(Nat) /\ m_queue # <<>> /\ accepted' = accepted
          /\ m_queue' = Tail(m_queue) /\ last' = Head(m_queue)
      BY <2>1 DEF Dequeue
    <3>2. Len(m_queue) >= 1 /\ Head(m_queue) = m_queue[1]
      BY <3>1
    <3>3. /\ Len(m_queue') = Len(m_queue) - 1
          /\ \A i \in 1 .. Len(m_queue') : m_queue'[i] = m_queue[i + 1]
      BY <3>1, HeadTailProperties
    <3>4. last' = last + 1
      BY <3>1, <3>2
    <3>5. ASSUME NEW i \in 1 .. Len(m_queue') PROVE m_queue'[i] = last' + i
      <4>1. i \in Nat /\ i + 1 \in 1 .. Len(m_queue) /\ Len(m_queue) \in Nat
        BY <3>1, <3>2, <3>3, <3>5
      <4>2. m_queue'[i] = m_queue[i + 1] /\ m_queue[i + 1] = last + (i + 1)
        BY <3>3, <3>5, <4>1
      <4> QED BY <3>4, <4>1, <4>2
    <3>6. last' + Len(m_queue') = accepted'
      BY <3>1, <3>3, <3>4
    <3> QED BY <3>5, <3>6
  <2>2. CASE Enqueue
    <3>1. /\ m_queue \in Seq(Nat) /\ accepted' = accepted + 1 /\ last' = last
          /\ m_queue' = Append(m_queue, accepted + 1) /\ accepted + 1 \in Nat
      BY <2>2 DEF Enqueue
    <3>2. /\ Len(m_queue') = Len(m_queue) + 1
          /\ m_queue'[Len(m_queue) + 1] = accepted + 1
          /\ \A i \in 1 .. Len(m_queue) : m_queue'[i] = m_queue[i]
      BY <3>1, AppendProperties
    <3>3. ASSUME NEW i \in 1 .. Len(m_queue') PROVE m_queue'[i] = last' + i
      <4>1. i \in 1 .. Len(m_queue) \/ i = Len(m_queue) + 1
        BY <3>1, <3>2, <3>3
      <4>2. CASE i \in 1 .. Len(m_queue)
        BY <3>1, <3>2, <4>2
      <4>3. CASE i = Len(m_queue) + 1
        <5>1. m_queue'[i] = accepted + 1 /\ last + Len(m_queue) = accepted
          BY <3>2, <4>3
        <5>2. last' = last /\ last \in Nat /\ Len(m_queue) \in Nat /\ accepted \in Nat
          BY <3>1
        <5>3. last + i = accepted + 1
          BY <4>3, <5>1, <5>2
        <5> QED BY <5>1, <5>2, <5>3
      <4> QED BY <4>1, <4>2, <4>3
    <3>4. last' + Len(m_queue') = accepted'
      BY <3>1, <3>2
    <3> QED BY <3>3, <3>4
  <2>3. ASSUME NEW t \in Threads, Clear(t) PROVE FIFO'
    BY <2>3 DEF Clear
  <2>4. CASE UNCHANGED <<m_queue, accepted, last>>
    BY <2>4
  <2> QED BY <2>1, <2>2, <2>3, <2>4
          DEF Next, Pop, TryPop, Push, TryPush, Wait, SpuriousWakeup, vars
<1> QED BY <1>1, <1>2, ShapeStep, PTL DEF Spec

=============================================================================
