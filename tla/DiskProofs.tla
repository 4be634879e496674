----------------------------- MODULE DiskProofs -----------------------------
(***************************************************************************)
(* Proofs about what is on disk: directories made and removed side by      *)
(* side, the log file, and the file with a server's term and vote, which   *)
(* also survive a power loss.                                              *)
(***************************************************************************)
EXTENDS NodeDisk, SequenceTheorems, TLAPS

DirsTo(c, k) == SubSeq(pathOf[c], 1, k)

\* While only CreateDirPath runs, directories are added and nothing else happens.
DirsGrown ==
    /\ \A p \in DOMAIN first : first[p] \in {"dir", "file"}
    /\ DOMAIN first \subseteq DOMAIN tree
    /\ \A p \in DOMAIN tree : tree[p] = IF p \in DOMAIN first THEN first[p] ELSE "dir"

\* The prefixes a creator has come by are directories; what stat did not find
\* was not there at the start.
DirsCreated(c) ==
    /\ creator[c].k \in 1 .. Len(pathOf[c])
    /\ creator[c].at \in {"stat", "mkdir"} => \A j \in 1 .. creator[c].k - 1 : Dirs!IsDir(DirsTo(c, j))
    /\ creator[c].at = "mkdir" => Dirs!Prefix(c) \notin DOMAIN first
    /\ creator[c].at = "done" =>
         \/ creator[c].rc = 0 /\ \A j \in 1 .. Len(pathOf[c]) : Dirs!IsDir(DirsTo(c, j))
         \/ creator[c].rc = -1 /\ Dirs!InTheWay(c)

DirsCreating ==
    /\ creator \in [Creators -> [at : {"stat", "mkdir", "done"}, k : Nat, rc : {0, -1}]]
    /\ DirsGrown /\ \A c \in Creators : DirsCreated(c)

\* While only RemoveDirectory runs, the tree is a part of what it was, whole
\* above every entry, and what is gone was below Root.
DirsClosed ==
    \A p \in DOMAIN tree : \A k \in 1 .. Len(p) - 1 :
      SubSeq(p, 1, k) \in DOMAIN tree /\ tree[SubSeq(p, 1, k)] = "dir"

DirsShrunk(Names) ==
    /\ DOMAIN first \subseteq Seq(Names) \ {<<>>} /\ DOMAIN tree \subseteq DOMAIN first
    /\ first = [p \in DOMAIN first |-> first[p]] /\ tree = [p \in DOMAIN tree |-> first[p]]
    /\ \A p \in DOMAIN first : p \notin DOMAIN tree => Dirs!Under(p)

\* The directories that are open form a way down from Root.  What is still
\* in one of them has yet to be read or is being removed.
DirsBusy == remover.at \in {"open", "stat", "unlink", "rmdir"}

DirsCur(i) ==
        IF i < Len(dirs) THEN {dirs[i + 1].path} ELSE IF DirsBusy THEN {remover.path} ELSE {}

DirsLevel(Names, i) ==
    /\ dirs[i].path \in Seq(Names) /\ Len(dirs[i].path) = Len(Root) + (i - 1)
    /\ Dirs!Under(dirs[i].path) /\ Dirs!IsDir(dirs[i].path)
    /\ Dirs!Entries(dirs[i].path) = (dirs[i].listed \ dirs[i].seen) \union DirsCur(i)
    /\ DirsCur(i) \subseteq dirs[i].seen

DirsAt(Names) ==
    /\ DirsBusy => /\ remover.path \in Seq(Names) /\ Dirs!Under(remover.path)
                   /\ Len(remover.path) = Len(Root) + Len(dirs)
    /\ remover.at = "open" => (tree = first /\ dirs = <<>>) \/ Dirs!IsDir(remover.path)
    /\ remover.at \in {"stat", "unlink", "read"} => dirs # <<>>
    /\ remover.at = "unlink" => remover.path \in DOMAIN tree /\ ~Dirs!IsDir(remover.path)
    /\ remover.at = "rmdir" => Dirs!IsDir(remover.path) /\ Dirs!Entries(remover.path) = {}
    /\ remover.at = "failed" =>
         dirs = <<>> /\ tree = first /\ ~(Root \in DOMAIN first /\ first[Root] = "dir")
    /\ remover.at = "removed" =>
         tree = [p \in {p \in DOMAIN first : ~Dirs!Under(p)} |-> first[p]]

DirsRemoving(Names) ==
    /\ remover \in [at : {"open", "read", "stat", "unlink", "rmdir", "failed", "removed"},
                    path : {remover.path}]
    /\ \E S : dirs \in Seq(S)
    /\ \A i \in 1 .. Len(dirs) : dirs[i] = [path |-> dirs[i].path, listed |-> dirs[i].listed,
                                            seen |-> dirs[i].seen]
    /\ DirsShrunk(Names) /\ DirsClosed
    /\ \A i \in 1 .. Len(dirs) : DirsLevel(Names, i)
    /\ DirsAt(Names)

DirsIInv(Names) ==
        /\ running \in {{"creators"}, {"remover"}, {"creators", "remover"}}
        /\ running = {"creators"} => DirsCreating
        /\ running = {"remover"} => DirsRemoving(Names)

----------------------------------------------------------------------------
\* The front of a sequence, by index.
LEMMA DirsCut ==
  ASSUME NEW S, NEW s \in Seq(S), NEW n \in 0 .. Len(s)
  PROVE  /\ SubSeq(s, 1, n) \in Seq(S) /\ Len(SubSeq(s, 1, n)) = n
         /\ \A k \in 1 .. n : SubSeq(s, 1, n)[k] = s[k]
  OBVIOUS

\* The front of a front.
LEMMA DirsCutCut ==
  ASSUME NEW S, NEW s \in Seq(S), NEW n \in 0 .. Len(s), NEW k \in 0 .. n
  PROVE  SubSeq(SubSeq(s, 1, n), 1, k) = SubSeq(s, 1, k)
  <1> DEFINE t == SubSeq(s, 1, n)
             u == SubSeq(t, 1, k)
             v == SubSeq(s, 1, k)
  <1>1. t \in Seq(S) /\ Len(t) = n /\ (\A j \in 1 .. n : t[j] = s[j]) /\ k \in 0 .. Len(s)
    BY DirsCut
  <1>2. v \in Seq(S) /\ Len(v) = k /\ \A j \in 1 .. k : v[j] = s[j]
    BY Zenon, <1>1, DirsCut
  <1> HIDE DEF t, v
  <1>3. u \in Seq(S) /\ Len(u) = k /\ \A j \in 1 .. k : u[j] = t[j]
    BY Zenon, <1>1, DirsCut
  <1>4. \A j \in 1 .. k : j \in 1 .. n
    BY <1>1
  <1>5. u = v
    BY <1>1, <1>2, <1>3, <1>4, SeqEqual
  <1> QED
    BY Zenon, <1>5 DEF t, v

\* The prefixes of a path are paths of names.
LEMMA DirsPathFacts ==
  ASSUME NEW c \in Creators
  PROVE  /\ Len(pathOf[c]) \in Nat \ {0}
         /\ \A k \in 1 .. Len(pathOf[c]) :
              /\ Len(DirsTo(c, k)) = k
              /\ k > 1 => Dirs!Parent(DirsTo(c, k)) = DirsTo(c, k - 1)
  <1>2. PICK p \in Seq(DirNames) : p = pathOf[c] /\ p # <<>>
    BY Zenon, DirUse DEF Dirs!Named
  <1>3. Len(p) \in Nat \ {0}
    BY <1>2
  <1>4. ASSUME NEW k \in 1 .. Len(p)
        PROVE  Len(SubSeq(p, 1, k)) = k /\ (k > 1 => Dirs!Parent(SubSeq(p, 1, k)) = SubSeq(p, 1, k - 1))
    <2>1. k \in 0 .. Len(p) /\ k - 1 \in 0 .. k
      BY <1>3
    <2>2. Len(SubSeq(p, 1, k)) = k
      BY Zenon, <2>1, DirsCut
    <2>3. SubSeq(SubSeq(p, 1, k), 1, k - 1) = SubSeq(p, 1, k - 1)
      BY Zenon, <2>1, DirsCutCut
    <2> QED
      BY Zenon, <2>2, <2>3 DEF Dirs!Parent
  <1> QED
    BY Zenon, <1>2, <1>3, <1>4 DEF DirsTo

\* A creator whose CreateDir succeeded, or met a file.
DirsReturning(c, rc) ==
    /\ rc \in {0, -1} /\ Dirs!CreateDirReturns(c, rc)
    /\ creator[c].at \in {"stat", "mkdir"} /\ UNCHANGED first
    /\ \A p : Dirs!IsDir(p) => Dirs!IsDir(p)'
    /\ rc = 0 => DirsTo(c, creator[c].k) \in DOMAIN tree' /\ tree'[DirsTo(c, creator[c].k)] = "dir"
    /\ rc = -1 => Dirs!InTheWay(c)

\* CreateDirPath returns.
LEMMA DirsReturned ==
  ASSUME NEW c \in Creators, NEW rc, DirsCreating, DirsGrown', DirsReturning(c, rc)
  PROVE  DirsCreating'
  <1> USE DEF DirsReturning
  <1>1. PICK k : k = creator[c].k
    BY Zenon
  <1>2. k \in 1 .. Len(pathOf[c]) /\ k \in Nat /\ Len(pathOf[c]) \in Nat \ {0}
        /\ (\A j \in 1 .. k - 1 : Dirs!IsDir(DirsTo(c, j))) /\ creator[c].rc \in {0, -1}
    BY Zenon, <1>1, DirsPathFacts DEF DirsCreating, DirsCreated
  <1>3. \A j \in 1 .. k - 1 : Dirs!IsDir(DirsTo(c, j))'
    BY Zenon, <1>2
  <1>4. ASSUME rc = 0 PROVE \A j \in 1 .. k : Dirs!IsDir(DirsTo(c, j))'
    <2>1. Dirs!IsDir(DirsTo(c, k))'
      BY Zenon, <1>1, <1>4 DEF Dirs!IsDir, DirsTo
    <2>2. \A j \in 1 .. k : j = k \/ j \in 1 .. k - 1
      BY <1>2
    <2> QED
      BY Zenon, <1>3, <2>1, <2>2
  <1>5. ASSUME NEW d \in Creators, d # c PROVE DirsCreated(d)'
    <2>1. creator'[d] = creator[d] /\ DirsCreated(d)
      BY Zenon, <1>5 DEF Dirs!CreateDirReturns, DirsCreating
    <2>2. DirsTo(d, 1) = DirsTo(d, 1)' /\ \A j : Dirs!IsDir(DirsTo(d, j)) => Dirs!IsDir(DirsTo(d, j))'
      BY Zenon DEF DirsTo
    <2> QED
      BY Zenon, <2>1, <2>2 DEF DirsCreated, Dirs!Prefix, Dirs!InTheWay, DirsTo
  <1>6. CASE rc = 0 /\ k < Len(pathOf[c])
    <2>1. creator' = [creator EXCEPT ![c] = [at |-> "stat", k |-> k + 1, rc |-> 0]]
      BY Zenon, <1>1, <1>6 DEF Dirs!CreateDirReturns
    <2>2. creator'[c] = [at |-> "stat", k |-> k + 1, rc |-> 0]
      BY Zenon, <2>1 DEF DirsCreating
    <2>3. creator' \in [Creators -> [at : {"stat", "mkdir", "done"}, k : Nat, rc : {0, -1}]]
      BY <1>2, <2>1 DEF DirsCreating
    <2>4. k + 1 \in 1 .. Len(pathOf[c]) /\ (k + 1) - 1 = k
      BY <1>2, <1>6
    <2>5. DirsCreated(c)'
      BY <1>4, <1>6, <2>2, <2>4 DEF DirsCreated, DirsTo
    <2> QED
      BY Zenon, <1>5, <2>3, <2>5 DEF DirsCreating
  <1>7. CASE ~(rc = 0 /\ k < Len(pathOf[c]))
    <2>1. creator' = [creator EXCEPT ![c] = [at |-> "done", k |-> k, rc |-> rc]]
      BY Zenon, <1>1, <1>7 DEF Dirs!CreateDirReturns
    <2>2. creator'[c] = [at |-> "done", k |-> k, rc |-> rc]
      BY Zenon, <2>1 DEF DirsCreating
    <2>3. creator' \in [Creators -> [at : {"stat", "mkdir", "done"}, k : Nat, rc : {0, -1}]]
      BY Zenon, <1>2, <2>1 DEF DirsCreating
    <2>4. rc = 0 => k = Len(pathOf[c])
      BY <1>2, <1>7
    <2>5. Dirs!InTheWay(c)' <=> Dirs!InTheWay(c)
      BY Zenon DEF Dirs!InTheWay
    <2>6. DirsCreated(c)'
      BY <1>2, <1>4, <2>2, <2>4, <2>5 DEF DirsCreated, DirsTo
    <2> QED
      BY Zenon, <1>5, <2>3, <2>6 DEF DirsCreating
  <1> QED
    BY Zenon, <1>6, <1>7

\* stat finds the prefix or not.
LEMMA DirsStatStep ==
  ASSUME NEW c \in Creators, DirsCreating, Dirs!CreateDirStat(c)
  PROVE  DirsCreating'
  <1>1. UNCHANGED <<tree, first>> /\ creator[c].at = "stat" /\ DirsGrown'
    BY Zenon DEF Dirs!CreateDirStat, DirsCreating, DirsGrown
  <1>2. PICK p : p = Dirs!Prefix(c) /\ p = DirsTo(c, creator[c].k)
    BY Zenon DEF Dirs!Prefix, DirsTo
  <1>3. creator[c].k \in 1 .. Len(pathOf[c])
    BY Zenon DEF DirsCreating, DirsCreated
  <1>4. CASE p \in DOMAIN tree /\ Dirs!IsDir(p)
    <2>1. DirsReturning(c, 0)
      BY <1>1, <1>2, <1>4 DEF Dirs!CreateDirStat, Dirs!IsDir, DirsReturning
    <2> QED
      BY Zenon, <1>1, <2>1, DirsReturned
  <1>5. CASE p \in DOMAIN tree /\ ~Dirs!IsDir(p)
    <2>1. p \in DOMAIN first /\ first[p] = tree[p] /\ tree[p] # "dir"
      BY Zenon, <1>5 DEF Dirs!IsDir, DirsCreating, DirsGrown
    <2>2. Dirs!InTheWay(c)
      <3>1. first[p] = "file"
        BY Zenon, <2>1 DEF DirsCreating, DirsGrown
      <3> QED
        BY Zenon, <1>2, <1>3, <2>1, <3>1 DEF Dirs!InTheWay, DirsTo
    <2> QED
      <3>1. DirsReturning(c, -1)
        BY <1>1, <1>2, <1>5, <2>2 DEF Dirs!CreateDirStat, Dirs!IsDir, DirsReturning
      <3> QED
        BY Zenon, <1>1, <3>1, DirsReturned
  <1>6. CASE p \notin DOMAIN tree
    <2>1. creator' = [creator EXCEPT ![c].at = "mkdir"]
      BY Zenon, <1>2, <1>6 DEF Dirs!CreateDirStat
    <2>2. /\ creator' \in [Creators -> [at : {"stat", "mkdir", "done"}, k : Nat, rc : {0, -1}]]
          /\ creator'[c].at = "mkdir" /\ creator'[c].k = creator[c].k
          /\ \A d \in Creators : d # c => creator'[d] = creator[d]
      BY Zenon, <2>1 DEF DirsCreating
    <2>3. DirsCreated(c)'
      BY <1>1, <1>2, <1>3, <1>6, <2>2 DEF DirsCreated, DirsCreating, DirsGrown, Dirs!Prefix, DirsTo, Dirs!IsDir
    <2>4. \A d \in Creators : d # c => DirsCreated(d)'
      BY <1>1, <2>2 DEF DirsCreated, DirsCreating, Dirs!Prefix, DirsTo, Dirs!IsDir, Dirs!InTheWay
    <2> QED
      BY Zenon, <1>1, <2>2, <2>3, <2>4 DEF DirsCreating
  <1> QED
    BY Zenon, <1>4, <1>5, <1>6

\* mkdir makes the directory, unless somebody was faster.
LEMMA DirsMkdirStep ==
  ASSUME NEW c \in Creators, DirsCreating, Dirs!CreateDirMkdir(c)
  PROVE  DirsCreating'
  <1>1. UNCHANGED first /\ creator[c].at = "mkdir"
    BY Zenon DEF Dirs!CreateDirMkdir
  <1>2. PICK k : k = creator[c].k
    BY Zenon
  <1>3. PICK p : p = Dirs!Prefix(c) /\ p = DirsTo(c, k)
    BY Zenon, <1>2 DEF Dirs!Prefix, DirsTo
  <1>4. k \in 1 .. Len(pathOf[c]) /\ p \notin DOMAIN first /\ \A j \in 1 .. k - 1 : Dirs!IsDir(DirsTo(c, j))
    BY Zenon, <1>1, <1>2, <1>3 DEF DirsCreating, DirsCreated
  <1>5. Len(p) = k /\ (k > 1 => Dirs!Parent(p) = DirsTo(c, k - 1)) /\ Len(pathOf[c]) \in Nat
    BY Zenon, <1>3, <1>4, DirsPathFacts
  <1>6. Len(p) = 1 \/ Dirs!IsDir(Dirs!Parent(p))
    <2>1. CASE k > 1
      <3>1. k - 1 \in 1 .. k - 1
        BY <1>4, <1>5, <2>1
      <3> QED
        BY Zenon, <1>4, <1>5, <2>1, <3>1
    <2> QED
      BY <1>4, <1>5, <2>1
  <1>7. CASE p \in DOMAIN tree
    <2>1. tree' = tree /\ Dirs!CreateDirReturns(c, 0)
      BY Zenon, <1>3, <1>7 DEF Dirs!CreateDirMkdir
    <2>2. DirsGrown' /\ Dirs!IsDir(p)'
      BY Zenon, <1>1, <1>4, <1>7, <2>1 DEF DirsCreating, DirsGrown, Dirs!IsDir
    <2> QED
      <3>1. DirsReturning(c, 0)
        BY <1>1, <1>2, <1>3, <2>1, <2>2 DEF Dirs!IsDir, DirsReturning
      <3> QED
        BY Zenon, <2>2, <3>1, DirsReturned
  <1>8. CASE p \notin DOMAIN tree
    <2>1. /\ tree' = [q \in DOMAIN tree \union {p} |-> IF q = p THEN "dir" ELSE tree[q]]
          /\ Dirs!CreateDirReturns(c, 0)
      BY Zenon, <1>3, <1>6, <1>8 DEF Dirs!CreateDirMkdir
    <2>2. DirsGrown' /\ Dirs!IsDir(p)' /\ \A q : Dirs!IsDir(q) => Dirs!IsDir(q)'
      BY Zenon, <1>1, <1>4, <1>8, <2>1 DEF DirsCreating, DirsGrown, Dirs!IsDir
    <2> QED
      <3>1. DirsReturning(c, 0)
        BY <1>1, <1>2, <1>3, <2>1, <2>2 DEF Dirs!IsDir, DirsReturning
      <3> QED
        BY Zenon, <2>2, <3>1, DirsReturned
  <1> QED
    BY Zenon, <1>7, <1>8

----------------------------------------------------------------------------
\* The root is under itself.
LEMMA DirsRootIs ==
  ASSUME NEW Names, Dirs!Named(Names), NEW p \in Seq(Names), Dirs!Under(p), Len(p) = Len(Root)
  PROVE  p = Root
  BY Zenon, SeqEqual DEF Dirs!Under, Dirs!Named

\* An entry of a directory is under the root when the directory is.
LEMMA DirsChildUnder ==
  ASSUME NEW Names, Dirs!Named(Names), NEW p \in Seq(Names), NEW q \in Seq(Names), Dirs!Under(p),
         Len(q) = Len(p) + 1, Dirs!Parent(q) = p
  PROVE  Dirs!Under(q)
  <1>1. Len(p) \in 0 .. Len(q) /\ Len(q) - 1 = Len(p) /\ Len(Root) \in Nat /\ Len(p) \in Nat
    BY DEF Dirs!Named
  <1>2. p = SubSeq(q, 1, Len(p))
    BY Zenon, <1>1 DEF Dirs!Parent
  <1>3. \A k \in 1 .. Len(p) : p[k] = q[k]
    BY Zenon, <1>1, <1>2, DirsCut
  <1>4. Len(Root) <= Len(p) /\ \A k \in 1 .. Len(Root) : p[k] = Root[k] /\ k \in 1 .. Len(p)
    BY <1>1 DEF Dirs!Under
  <1>5. Len(Root) <= Len(q)
    BY <1>1, <1>4
  <1> QED
    BY Zenon, <1>3, <1>4, <1>5 DEF Dirs!Under

\* An entry of the tree stays where it is when an empty directory or a file goes.
LEMMA DirsGoneTree ==
  ASSUME NEW Names, Dirs!Named(Names), DirsShrunk(Names), DirsClosed, NEW p \in DOMAIN tree, Dirs!Under(p),
         Dirs!Entries(p) = {}, tree' = Dirs!Without(p), UNCHANGED first
  PROVE  DirsShrunk(Names)' /\ DirsClosed'
  <1>1. DOMAIN tree' = DOMAIN tree \ {p} /\ \A q \in DOMAIN tree' : tree'[q] = tree[q]
    BY Zenon DEF Dirs!Without
  <1>2. DirsShrunk(Names)'
    BY <1>1 DEF DirsShrunk, Dirs!Without, Dirs!Under
  <1>3. ASSUME NEW q \in DOMAIN tree', NEW k \in 1 .. Len(q) - 1
        PROVE  SubSeq(q, 1, k) # p
    <2>1. q \in Seq(Names) /\ Len(q) \in Nat /\ q \in DOMAIN tree
      BY <1>1 DEF DirsShrunk
    <2>2. PICK r \in DOMAIN tree : r = SubSeq(q, 1, k + 1)
      <3>1. CASE k + 1 \in 1 .. Len(q) - 1
        BY Zenon, <2>1, <3>1 DEF DirsClosed
      <3>2. CASE k + 1 = Len(q)
        <4>1. SubSeq(q, 1, Len(q)) = q
          <5>1. Len(q) \in 0 .. Len(q)
            BY <2>1
          <5>2. /\ SubSeq(q, 1, Len(q)) \in Seq(Names) /\ Len(SubSeq(q, 1, Len(q))) = Len(q)
                /\ \A j \in 1 .. Len(q) : SubSeq(q, 1, Len(q))[j] = q[j]
            BY Zenon, <2>1, <5>1, DirsCut
          <5> QED
            BY Zenon, <2>1, <5>2, SeqEqual
        <4> QED
          BY Zenon, <2>1, <3>2, <4>1
      <3> QED
        BY <2>1, <3>1, <3>2
    <2>3. k + 1 \in 0 .. Len(q) /\ k \in 0 .. k + 1 /\ k \in 0 .. Len(q)
      BY <2>1
    <2>4. Len(r) = k + 1 /\ Len(SubSeq(q, 1, k)) = k
      BY Zenon, <2>1, <2>2, <2>3, DirsCut
    <2>5. Dirs!Parent(r) = SubSeq(q, 1, k)
      <3>1. SubSeq(SubSeq(q, 1, k + 1), 1, k) = SubSeq(q, 1, k)
        BY Zenon, <2>1, <2>3, DirsCutCut
      <3>2. Len(r) - 1 = k
        BY <2>3, <2>4
      <3> QED
        BY Zenon, <2>2, <3>1, <3>2 DEF Dirs!Parent
    <2> QED
      BY Zenon, <2>2, <2>4, <2>5 DEF Dirs!Entries
  <1>4. DirsClosed'
    BY Zenon, <1>1, <1>3 DEF DirsClosed
  <1> QED
    BY Zenon, <1>2, <1>4

\* opendir lists a directory.
LEMMA DirsCleanStep ==
  ASSUME NEW Names, Dirs!Named(Names), DirsRemoving(Names), Dirs!CleanDirectory
  PROVE  DirsRemoving(Names)'
  <1>1. /\ remover.at = "open" /\ DirsBusy /\ UNCHANGED <<tree, first>>
        /\ remover.path \in Seq(Names) /\ Dirs!Under(remover.path)
        /\ Len(remover.path) = Len(Root) + Len(dirs)
    BY Zenon DEF Dirs!CleanDirectory, DirsRemoving, DirsAt, DirsBusy
  <1>2. PICK n \in Nat : n = Len(dirs)
    BY DEF DirsRemoving
  <1>3. DirsShrunk(Names)' /\ DirsClosed'
    BY <1>1 DEF DirsRemoving, DirsShrunk, DirsClosed, Dirs!Under
  <1>4. CASE Dirs!IsDir(remover.path)
    <2>1. PICK r : r = [path |-> remover.path, listed |-> Dirs!Entries(remover.path), seen |-> {}]
      BY Zenon
    <2>2. dirs' = Append(dirs, r) /\ remover' = [remover EXCEPT !.at = "read"]
      BY Zenon, <1>4, <2>1 DEF Dirs!CleanDirectory
    <2>3. /\ \E T : dirs' \in Seq(T)
          /\ Len(dirs') = n + 1 /\ dirs'[n + 1] = r /\ \A i \in 1 .. n : dirs'[i] = dirs[i]
      <3>1. PICK S : dirs \in Seq(S)
        BY Zenon DEF DirsRemoving
      <3>2. /\ \E T : Append(dirs, r) \in Seq(T)
            /\ Len(Append(dirs, r)) = Len(dirs) + 1 /\ Append(dirs, r)[Len(dirs) + 1] = r
            /\ \A k \in 1 .. Len(dirs) : Append(dirs, r)[k] = dirs[k]
        <4>1. dirs \in Seq(S \union {r}) /\ r \in S \union {r}
          BY Zenon, <3>1, SeqMonotonic
        <4> QED
          BY <4>1, AppendProperties
      <3> QED
        BY Zenon, <1>2, <2>2, <3>2
    <2>4. /\ remover' \in [at : {"open", "read", "stat", "unlink", "rmdir", "failed", "removed"},
                           path : {remover'.path}]
          /\ remover'.at = "read" /\ remover'.path = remover.path /\ ~DirsBusy'
      BY Zenon, <2>2 DEF DirsRemoving, DirsBusy
    <2>5. ASSUME NEW i \in 1 .. n PROVE DirsLevel(Names, i)'
      <3>1. DirsLevel(Names, i) /\ dirs'[i] = dirs[i]
        BY Zenon, <1>2, <2>3 DEF DirsRemoving
      <3>2. DirsCur(i)' = DirsCur(i)
        <4>1. CASE i < n
          <5>1. i + 1 \in 1 .. n /\ i < n + 1
            BY <4>1
          <5> QED
            BY Zenon, <1>2, <2>3, <4>1, <5>1 DEF DirsCur
        <4>2. CASE i = n
          <5>1. i < n + 1 /\ ~(i < n)
            BY <4>2
          <5> QED
            BY <1>1, <1>2, <2>1, <2>3, <4>2, <5>1 DEF DirsCur
        <4> QED
          BY <4>1, <4>2
      <3> QED
        BY Zenon, <1>1, <3>1, <3>2 DEF DirsLevel, Dirs!IsDir, Dirs!Entries
    <2>6. DirsLevel(Names, n + 1)'
      <3>1. DirsCur(n + 1)' = {}
        BY <2>3, <2>4 DEF DirsCur
      <3>2. (n + 1) - 1 = n
        OBVIOUS
      <3>3. Dirs!Entries(dirs[n + 1].path)' = Dirs!Entries(remover.path)
        BY <1>1, <2>1, <2>3 DEF Dirs!Entries
      <3> QED
        BY <1>1, <1>2, <1>4, <2>1, <2>3, <3>1, <3>2, <3>3 DEF DirsLevel, Dirs!IsDir
    <2>7. \A i \in 1 .. n + 1 : DirsLevel(Names, i)'
      BY <2>5, <2>6
    <2>8. DirsAt(Names)'
      BY <2>3, <2>4 DEF DirsAt
    <2>9. \A i \in 1 .. n + 1 : dirs'[i] = [path |-> dirs'[i].path, listed |-> dirs'[i].listed,
                                            seen |-> dirs'[i].seen]
      <3>1. r = [path |-> r.path, listed |-> r.listed, seen |-> r.seen]
        BY Zenon, <2>1
      <3>2. \A i \in 1 .. n : dirs[i] = [path |-> dirs[i].path, listed |-> dirs[i].listed,
                                         seen |-> dirs[i].seen]
        BY Zenon, <1>2 DEF DirsRemoving
      <3>3. \A i \in 1 .. n + 1 : i \in 1 .. n \/ i = n + 1
        OBVIOUS
      <3> QED
        BY Zenon, <2>3, <3>1, <3>2, <3>3
    <2> QED
      BY Zenon, <1>3, <2>3, <2>4, <2>7, <2>8, <2>9 DEF DirsRemoving
  <1>5. CASE ~Dirs!IsDir(remover.path)
    <2>1. /\ tree = first /\ dirs = <<>> /\ UNCHANGED dirs /\ remover' = [remover EXCEPT !.at = "failed"]
      BY Zenon, <1>1, <1>5 DEF Dirs!CleanDirectory, DirsRemoving, DirsAt
    <2>2. /\ remover' \in [at : {"open", "read", "stat", "unlink", "rmdir", "failed", "removed"},
                           path : {remover'.path}]
          /\ remover'.at = "failed" /\ ~DirsBusy'
      BY Zenon, <2>1 DEF DirsRemoving, DirsBusy
    <2>3. remover.path = Root
      <3>1. Len(remover.path) = Len(Root)
        BY <1>1, <2>1 DEF Dirs!Named
      <3> QED
        BY Zenon, <1>1, <3>1, DirsRootIs
    <2>4. DirsAt(Names)'
      BY Zenon, <1>1, <1>5, <2>1, <2>2, <2>3 DEF DirsAt, Dirs!IsDir
    <2> QED
      BY <1>3, <2>1, <2>2, <2>4 DEF DirsRemoving
  <1> QED
    BY Zenon, <1>4, <1>5

\* readdir returns an entry.
LEMMA DirsEntryStep ==
  ASSUME NEW Names, Dirs!Named(Names), DirsRemoving(Names), UNCHANGED <<tree, first>>,
         remover.at = "read", NEW n \in Nat, n = Len(dirs),
         NEW e \in (dirs[n].listed \union Dirs!Entries(dirs[n].path)) \ dirs[n].seen,
         remover' = [at |-> "stat", path |-> e],
         dirs' = [dirs EXCEPT ![n].seen = @ \union {e}]
  PROVE  DirsRemoving(Names)'
  <1>1. n \in 1 .. n /\ ~DirsBusy /\ DirsBusy' /\ remover'.at = "stat" /\ remover'.path = e
    BY DEF DirsRemoving, DirsAt, DirsBusy
  <1>2. DirsLevel(Names, n) /\ DirsCur(n) = {}
    BY <1>1 DEF DirsRemoving, DirsCur
  <1>3. e \in Dirs!Entries(dirs[n].path)
    BY Zenon, <1>2 DEF DirsLevel
  <1>4. /\ e \in DOMAIN tree /\ Len(e) = Len(dirs[n].path) + 1 /\ Dirs!Parent(e) = dirs[n].path
        /\ e \in Seq(Names)
    BY Zenon, <1>3 DEF Dirs!Entries, DirsRemoving, DirsShrunk
  <1>5. Dirs!Under(e)
    BY Zenon, <1>2, <1>4, DirsChildUnder DEF DirsLevel
  <1>6. /\ \E T : dirs' \in Seq(T)
        /\ Len(dirs') = n /\ (\A i \in 1 .. n : i # n => dirs'[i] = dirs[i])
        /\ dirs'[n] = [path |-> dirs[n].path, listed |-> dirs[n].listed, seen |-> dirs[n].seen \union {e}]
    <2>1. PICK S : dirs \in Seq(S)
      BY Zenon DEF DirsRemoving
    <2>2. dirs[n] = [path |-> dirs[n].path, listed |-> dirs[n].listed, seen |-> dirs[n].seen]
      BY Zenon, <1>1 DEF DirsRemoving
    <2>3. PICK x : x = [dirs[n] EXCEPT !.seen = @ \union {e}]
      BY Zenon
    <2>4. dirs' = [dirs EXCEPT ![n] = x]
      BY Zenon, <2>3
    <2>5. dirs' \in Seq(S \union {x}) /\ Len(dirs') = n
      <3>1. dirs \in Seq(S \union {x})
        BY Zenon, <2>1, SeqMonotonic
      <3> QED
        BY <1>1, <2>4, <3>1, ExceptSeq
    <2>6. dirs'[n] = x /\ \A i \in 1 .. n : i # n => dirs'[i] = dirs[i]
      BY <1>1, <2>1, <2>4
    <2>7. x = [path |-> dirs[n].path, listed |-> dirs[n].listed, seen |-> dirs[n].seen \union {e}]
      BY Zenon, <2>2, <2>3
    <2> QED
      BY Zenon, <2>5, <2>6, <2>7
  <1>7. DirsShrunk(Names)' /\ DirsClosed'
    BY DEF DirsRemoving, DirsShrunk, DirsClosed, Dirs!Under
  <1>8. ASSUME NEW i \in 1 .. n, i # n PROVE DirsLevel(Names, i)'
    <2>1. DirsLevel(Names, i) /\ dirs'[i] = dirs[i] /\ i + 1 \in 1 .. n /\ i < n
      BY <1>6, <1>8 DEF DirsRemoving
    <2>2. dirs'[i + 1].path = dirs[i + 1].path
      BY <1>6, <2>1
    <2>3. DirsCur(i)' = DirsCur(i)
      BY Zenon, <1>6, <2>1, <2>2 DEF DirsCur
    <2> QED
      BY <2>1, <2>3 DEF DirsLevel, Dirs!IsDir, Dirs!Entries
  <1>9. DirsLevel(Names, n)'
    <2>1. /\ dirs'[n].path = dirs[n].path /\ dirs'[n].listed = dirs[n].listed
          /\ dirs'[n].seen = dirs[n].seen \union {e}
      BY <1>6
    <2>2. DirsCur(n)' = {e}
      BY <1>1, <1>6 DEF DirsCur
    <2>3. Dirs!Entries(dirs[n].path)' = Dirs!Entries(dirs[n].path)
      BY Zenon, <2>1 DEF Dirs!Entries
    <2>4. Dirs!Entries(dirs[n].path) = dirs[n].listed \ dirs[n].seen
      BY Zenon, <1>2 DEF DirsLevel
    <2> QED
      BY <1>2, <1>3, <2>1, <2>2, <2>3, <2>4 DEF DirsLevel, Dirs!IsDir
  <1>10. DirsAt(Names)'
    <2>1. Len(e) = Len(Root) + n
      BY <1>1, <1>2, <1>4 DEF DirsLevel, Dirs!Named
    <2>2. dirs' # <<>>
      BY <1>1, <1>6
    <2> QED
      BY Zenon, <1>1, <1>4, <1>5, <1>6, <2>1, <2>2 DEF DirsAt, Dirs!Under
  <1>11. \A i \in 1 .. n : dirs'[i] = [path |-> dirs'[i].path, listed |-> dirs'[i].listed,
                                       seen |-> dirs'[i].seen]
    <2>1. dirs'[n] = [path |-> dirs'[n].path, listed |-> dirs'[n].listed, seen |-> dirs'[n].seen]
      BY Zenon, <1>6
    <2> QED
      BY Zenon, <1>6, <2>1 DEF DirsRemoving
  <1>12. remover' \in [at : {"open", "read", "stat", "unlink", "rmdir", "failed", "removed"},
                       path : {remover'.path}]
    BY Zenon
  <1> QED
    BY Zenon, <1>6, <1>7, <1>8, <1>9, <1>10, <1>11, <1>12 DEF DirsRemoving

\* readdir is at its end, and the directory is closed.
LEMMA DirsEndStep ==
  ASSUME NEW Names, Dirs!Named(Names), DirsRemoving(Names), UNCHANGED <<tree, first>>,
         remover.at = "read", NEW n \in Nat, n = Len(dirs),
         dirs[n].listed \subseteq dirs[n].seen,
         remover' = [at |-> "rmdir", path |-> dirs[n].path],
         dirs' = SubSeq(dirs, 1, n - 1)
  PROVE  DirsRemoving(Names)'
  <1>1. n \in 1 .. n /\ ~DirsBusy /\ DirsBusy' /\ remover'.at = "rmdir" /\ remover'.path = dirs[n].path
    BY DEF DirsRemoving, DirsAt, DirsBusy
  <1>2. DirsLevel(Names, n) /\ DirsCur(n) = {}
    BY <1>1 DEF DirsRemoving, DirsCur
  <1>3. Dirs!Entries(dirs[n].path) = {}
    BY Zenon, <1>2 DEF DirsLevel
  <1>4. /\ \E T : dirs' \in Seq(T)
        /\ Len(dirs') = n - 1 /\ \A i \in 1 .. n - 1 : dirs'[i] = dirs[i]
    <2>1. PICK S : dirs \in Seq(S)
      BY Zenon DEF DirsRemoving
    <2>2. n - 1 \in 0 .. Len(dirs)
      BY <1>1
    <2>3. SubSeq(dirs, 1, n - 1) \in Seq(S) /\ Len(SubSeq(dirs, 1, n - 1)) = n - 1
          /\ \A i \in 1 .. n - 1 : SubSeq(dirs, 1, n - 1)[i] = dirs[i]
      BY Zenon, <2>1, <2>2, DirsCut
    <2> QED
      BY Zenon, <2>3
  <1>5. DirsShrunk(Names)' /\ DirsClosed'
    BY DEF DirsRemoving, DirsShrunk, DirsClosed, Dirs!Under
  <1>6. ASSUME NEW i \in 1 .. n - 1 PROVE DirsLevel(Names, i)'
    <2>1. DirsLevel(Names, i) /\ dirs'[i] = dirs[i] /\ i \in 1 .. n
      BY <1>4 DEF DirsRemoving
    <2>2. DirsCur(i)' = DirsCur(i)
      <3>1. CASE i < n - 1
        <4>1. i + 1 \in 1 .. n - 1 /\ i < n
          BY <3>1
        <4> QED
          BY Zenon, <1>4, <3>1, <4>1 DEF DirsCur
      <3>2. CASE i = n - 1
        <4>1. i + 1 = n /\ i < n /\ ~(i < n - 1)
          BY <3>2
        <4> QED
          BY Zenon, <1>1, <1>4, <3>2, <4>1 DEF DirsCur
      <3> QED
        BY <3>1, <3>2
    <2> QED
      BY Zenon, <2>1, <2>2 DEF DirsLevel, Dirs!IsDir, Dirs!Entries
  <1>7. DirsAt(Names)'
    BY Zenon, <1>1, <1>2, <1>3, <1>4 DEF DirsAt, DirsLevel, Dirs!IsDir, Dirs!Entries, Dirs!Under
  <1>8. \A i \in 1 .. n - 1 : dirs'[i] = [path |-> dirs'[i].path, listed |-> dirs'[i].listed,
                                          seen |-> dirs'[i].seen]
    BY <1>4 DEF DirsRemoving
  <1>9. remover' \in [at : {"open", "read", "stat", "unlink", "rmdir", "failed", "removed"},
                       path : {remover'.path}]
    BY Zenon, <1>1
  <1> QED
    BY Zenon, <1>4, <1>5, <1>6, <1>7, <1>8, <1>9 DEF DirsRemoving

\* readdir gives an entry, or the end.
LEMMA DirsReadStep ==
  ASSUME NEW Names, Dirs!Named(Names), DirsRemoving(Names), Dirs!ReadDir
  PROVE  DirsRemoving(Names)'
  <1>1. PICK n \in Nat : n = Len(dirs)
    BY DEF DirsRemoving
  <1>3. UNCHANGED <<tree, first>> /\ remover.at = "read"
    BY Zenon DEF Dirs!ReadDir
  <1>4. \/ \E e \in (dirs[n].listed \union Dirs!Entries(dirs[n].path)) \ dirs[n].seen :
             /\ remover' = [at |-> "stat", path |-> e]
             /\ dirs' = [dirs EXCEPT ![n].seen = @ \union {e}]
        \/ /\ dirs[n].listed \subseteq dirs[n].seen
           /\ remover' = [at |-> "rmdir", path |-> dirs[n].path]
           /\ dirs' = SubSeq(dirs, 1, n - 1)
    BY Zenon, <1>1 DEF Dirs!ReadDir
  <1> QED
    BY <1>1, <1>3, <1>4, DirsEntryStep, DirsEndStep

\* A step that only moves on within one entry.
LEMMA DirsMovedOn ==
  ASSUME NEW Names, DirsRemoving(Names), UNCHANGED <<tree, first, dirs>>, DirsBusy, DirsBusy',
         remover' \in [at : {"open", "read", "stat", "unlink", "rmdir", "failed", "removed"},
                       path : {remover.path}], DirsAt(Names)'
  PROVE  DirsRemoving(Names)'
  <1>1. remover'.path = remover.path
    BY Zenon
  <1>2. DirsShrunk(Names)' /\ DirsClosed'
    BY DEF DirsRemoving, DirsShrunk, DirsClosed, Dirs!Under
  <1>3. \A i : DirsCur(i)' = DirsCur(i)
    BY Zenon, <1>1 DEF DirsCur
  <1>4. \A i \in 1 .. Len(dirs) : DirsLevel(Names, i)'
    BY Zenon, <1>3 DEF DirsRemoving, DirsLevel, Dirs!IsDir, Dirs!Entries, Dirs!Under
  <1> QED
    BY Zenon, <1>1, <1>2, <1>4 DEF DirsRemoving

\* stat tells a directory from a file.
LEMMA DirsStatEntryStep ==
  ASSUME NEW Names, Dirs!Named(Names), DirsRemoving(Names), Dirs!Stat
  PROVE  DirsRemoving(Names)'
  <1>1. remover.at = "stat" /\ DirsBusy /\ dirs # <<>> /\ UNCHANGED <<tree, first, dirs>>
    BY Zenon DEF Dirs!Stat, DirsRemoving, DirsAt, DirsBusy
  <1>2. remover.path \in DOMAIN tree
    <2>1. PICK n \in Nat : n = Len(dirs) /\ n \in 1 .. Len(dirs)
      BY <1>1 DEF DirsRemoving
    <2>2. DirsLevel(Names, n) /\ remover.path \in DirsCur(n)
      BY <1>1, <2>1 DEF DirsRemoving, DirsCur
    <2> QED
      BY Zenon, <2>2 DEF DirsLevel, Dirs!Entries
  <1>3. /\ remover' = [remover EXCEPT !.at = IF Dirs!IsDir(remover.path) THEN "open" ELSE "unlink"]
    BY Zenon, <1>2 DEF Dirs!Stat
  <1>4. /\ remover'.at = (IF Dirs!IsDir(remover.path) THEN "open" ELSE "unlink") /\ remover'.path = remover.path
        /\ DirsBusy'
        /\ remover' \in [at : {"open", "read", "stat", "unlink", "rmdir", "failed", "removed"},
                         path : {remover.path}]
    BY Zenon, <1>3 DEF DirsRemoving, DirsBusy
  <1>5. DirsAt(Names)'
    BY Zenon, <1>1, <1>2, <1>4 DEF DirsRemoving, DirsAt, Dirs!IsDir, Dirs!Under
  <1> QED
    BY Zenon, <1>1, <1>4, <1>5, DirsMovedOn

\* An entry has been removed, and the reading of its directory goes on.
LEMMA DirsGoneStep ==
  ASSUME NEW Names, Dirs!Named(Names), DirsRemoving(Names), DirsBusy, remover.path \in DOMAIN tree,
         Dirs!Entries(remover.path) = {}, dirs # <<>>, tree' = Dirs!Without(remover.path),
         remover' = [remover EXCEPT !.at = "read"], UNCHANGED <<first, dirs>>
  PROVE  DirsRemoving(Names)'
  <1>1. PICK p \in Seq(Names) : p = remover.path /\ Dirs!Under(p) /\ Len(p) = Len(Root) + Len(dirs)
    BY Zenon DEF DirsRemoving, DirsAt
  <1>2. PICK n \in Nat : n = Len(dirs) /\ n \in 1 .. n
    BY DEF DirsRemoving
  <1>3. DirsShrunk(Names)' /\ DirsClosed'
    BY Zenon, <1>1, DirsGoneTree DEF DirsRemoving
  <1>4. /\ remover'.at = "read" /\ ~DirsBusy'
        /\ remover' \in [at : {"open", "read", "stat", "unlink", "rmdir", "failed", "removed"},
                         path : {remover'.path}]
    BY Zenon DEF DirsRemoving, DirsBusy
  <1>5. DOMAIN tree' = DOMAIN tree \ {p} /\ \A q \in DOMAIN tree' : tree'[q] = tree[q]
    BY Zenon, <1>1 DEF Dirs!Without
  <1>6. ASSUME NEW i \in 1 .. n PROVE DirsLevel(Names, i)'
    <2>1. DirsLevel(Names, i) /\ Len(Root) \in Nat
      BY <1>2 DEF DirsRemoving, Dirs!Named
    <2>2. dirs[i].path # p
      BY <1>1, <1>2, <2>1 DEF DirsLevel
    <2>3. Dirs!IsDir(dirs[i].path)'
      BY Zenon, <1>5, <2>1, <2>2 DEF DirsLevel, Dirs!IsDir
    <2>4. Dirs!Entries(dirs[i].path)' = Dirs!Entries(dirs[i].path) \ {p}
      BY Zenon, <1>5 DEF Dirs!Entries
    <2>5. CASE i = n
      <3>1. DirsCur(i) = {p} /\ DirsCur(i)' = {}
        BY <1>1, <1>2, <1>4, <2>5 DEF DirsCur
      <3> QED
        BY Zenon, <2>1, <2>3, <2>4, <3>1 DEF DirsLevel, Dirs!Under
    <2>6. CASE i < n
      <3>1. DirsCur(i) = DirsCur(i)'
        BY Zenon, <1>2, <2>6 DEF DirsCur
      <3>2. p \notin Dirs!Entries(dirs[i].path)
        <4>1. Len(dirs[i].path) + 1 = Len(Root) + i /\ Len(p) = Len(Root) + n
          BY <1>1, <1>2, <2>1 DEF DirsLevel
        <4>2. Len(p) # Len(dirs[i].path) + 1
          BY <2>1, <2>6, <4>1
        <4> QED
          BY Zenon, <4>2 DEF Dirs!Entries
      <3> QED
        BY Zenon, <2>1, <2>3, <2>4, <3>1, <3>2 DEF DirsLevel, Dirs!Under
    <2> QED
      BY <2>5, <2>6
  <1>7. DirsAt(Names)'
    BY Zenon, <1>4 DEF DirsAt
  <1> QED
    BY Zenon, <1>2, <1>3, <1>4, <1>6, <1>7 DEF DirsRemoving

\* unlink removes a file.
LEMMA DirsUnlinkStep ==
  ASSUME NEW Names, Dirs!Named(Names), DirsRemoving(Names), Dirs!Unlink
  PROVE  DirsRemoving(Names)'
  <1>1. /\ remover.at = "unlink" /\ DirsBusy /\ dirs # <<>> /\ remover.path \in DOMAIN tree
        /\ ~Dirs!IsDir(remover.path)
    BY Zenon DEF Dirs!Unlink, DirsRemoving, DirsAt, DirsBusy
  <1>2. tree' = Dirs!Without(remover.path) /\ remover' = [remover EXCEPT !.at = "read"]
        /\ UNCHANGED <<first, dirs>>
    BY Zenon, <1>1 DEF Dirs!Unlink
  <1>3. ASSUME NEW q \in Dirs!Entries(remover.path) PROVE FALSE
    <2>1. q \in DOMAIN tree /\ q \in Seq(Names) /\ Len(q) = Len(remover.path) + 1
          /\ Dirs!Parent(q) = remover.path /\ remover.path \in Seq(Names) \ {<<>>}
      BY Zenon, <1>1 DEF Dirs!Entries, DirsRemoving, DirsShrunk
    <2>2. Len(q) - 1 \in 1 .. Len(q) - 1
      BY <2>1
    <2>3. tree[SubSeq(q, 1, Len(q) - 1)] = "dir"
      BY Zenon, <2>1, <2>2 DEF DirsRemoving, DirsClosed
    <2> QED
      BY Zenon, <1>1, <2>1, <2>3 DEF Dirs!Parent, Dirs!IsDir
  <1>4. Dirs!Entries(remover.path) = {}
    BY Zenon, <1>3
  <1> QED
    BY Zenon, <1>1, <1>2, <1>4, DirsGoneStep

\* rmdir removes a directory that was emptied before.
LEMMA DirsRmDirStep ==
  ASSUME NEW Names, Dirs!Named(Names), DirsRemoving(Names), Dirs!RmDir
  PROVE  DirsRemoving(Names)'
  <1>1. /\ remover.at = "rmdir" /\ DirsBusy /\ Dirs!IsDir(remover.path) /\ Dirs!Entries(remover.path) = {}
        /\ remover.path \in DOMAIN tree /\ Dirs!Under(remover.path) /\ remover.path \in Seq(Names)
        /\ Len(remover.path) = Len(Root) + Len(dirs)
    BY Zenon DEF Dirs!RmDir, DirsRemoving, DirsAt, DirsBusy, Dirs!IsDir
  <1>2. /\ tree' = Dirs!Without(remover.path) /\ UNCHANGED <<first, dirs>>
        /\ remover' = [remover EXCEPT !.at = IF dirs = <<>> THEN "removed" ELSE "read"]
    BY Zenon, <1>1 DEF Dirs!RmDir
  <1>3. CASE dirs # <<>>
    BY Zenon, <1>1, <1>2, <1>3, DirsGoneStep
  <1>4. CASE dirs = <<>>
    <2>1. remover.path = Root
      <3>1. Len(remover.path) = Len(Root)
        BY <1>1, <1>4 DEF Dirs!Named
      <3> QED
        BY Zenon, <1>1, <3>1, DirsRootIs
    <2>2. DirsShrunk(Names)' /\ DirsClosed'
      BY Zenon, <1>1, <1>2, DirsGoneTree DEF DirsRemoving
    <2>3. /\ remover'.at = "removed" /\ ~DirsBusy'
          /\ remover' \in [at : {"open", "read", "stat", "unlink", "rmdir", "failed", "removed"},
                           path : {remover'.path}]
      BY Zenon, <1>2, <1>4 DEF DirsRemoving, DirsBusy
    <2>4. ASSUME NEW p \in DOMAIN tree, Dirs!Under(p) PROVE p = Root
      <3>1. p \in Seq(Names) /\ Len(p) \in Nat /\ Root \in Seq(Names) /\ Len(Root) \in Nat \ {0}
        BY DEF DirsRemoving, DirsShrunk, Dirs!Named
      <3>2. SUFFICES ASSUME Len(p) > Len(Root) PROVE FALSE
        BY <2>4, <3>1, DirsRootIs DEF Dirs!Under
      <3>3. PICK n \in Nat : n = Len(Root)
        BY Zenon, <3>1
      <3>4. n + 1 \in 0 .. Len(p) /\ n \in 0 .. n + 1 /\ n \in 0 .. Len(p)
        BY <3>1, <3>2, <3>3
      <3>5. PICK q : q = SubSeq(p, 1, n + 1)
        BY Zenon
      <3>6. q \in DOMAIN tree
        <4>1. CASE n + 1 \in 1 .. Len(p) - 1
          BY Zenon, <3>5, <4>1 DEF DirsRemoving, DirsClosed
        <4>2. CASE n + 1 = Len(p)
          <5>1. SubSeq(p, 1, n + 1) = p
            <6>1. /\ SubSeq(p, 1, n + 1) \in Seq(Names) /\ Len(SubSeq(p, 1, n + 1)) = n + 1
                  /\ \A j \in 1 .. n + 1 : SubSeq(p, 1, n + 1)[j] = p[j]
              BY Zenon, <3>1, <3>4, DirsCut
            <6> QED
              BY Zenon, <3>1, <4>2, <6>1, SeqEqual
          <5> QED
            BY Zenon, <3>5, <5>1
        <4> QED
          BY <3>1, <3>4, <4>1, <4>2
      <3>7. Len(q) = n + 1 /\ SubSeq(q, 1, n) = SubSeq(p, 1, n)
        BY Zenon, <3>1, <3>4, <3>5, DirsCut, DirsCutCut
      <3>8. SubSeq(p, 1, n) = Root
        <4>1. /\ SubSeq(p, 1, n) \in Seq(Names) /\ Len(SubSeq(p, 1, n)) = n
              /\ \A j \in 1 .. n : SubSeq(p, 1, n)[j] = p[j]
          BY Zenon, <3>1, <3>4, DirsCut
        <4>2. \A j \in 1 .. n : p[j] = Root[j]
          BY Zenon, <2>4, <3>3 DEF Dirs!Under
        <4> QED
          BY Zenon, <3>1, <3>3, <4>1, <4>2, SeqEqual
      <3>9. Dirs!Parent(q) = Root
        <4>1. Len(q) - 1 = n
          BY <3>7
        <4> QED
          BY Zenon, <3>7, <3>8, <4>1 DEF Dirs!Parent
      <3> QED
        BY Zenon, <1>1, <2>1, <3>3, <3>6, <3>7, <3>9 DEF Dirs!Entries
    <2>5. DOMAIN tree' = {p \in DOMAIN first : ~Dirs!Under(p)}
      <3>1. Root \in DOMAIN tree /\ Dirs!Under(Root)
        BY Zenon, <1>1, <2>1
      <3>2. \A p \in DOMAIN first : p \in DOMAIN tree' <=> ~Dirs!Under(p)
        BY Zenon, <1>2, <2>1, <2>4, <3>1 DEF DirsRemoving, DirsShrunk, Dirs!Without
      <3>3. DOMAIN tree' \subseteq DOMAIN first
        BY Zenon, <1>2 DEF DirsRemoving, DirsShrunk, Dirs!Without
      <3> QED
        BY Zenon, <3>2, <3>3
    <2>6. tree' = [p \in {p \in DOMAIN first : ~Dirs!Under(p)} |-> first[p]]
      BY Zenon, <1>2, <2>2, <2>5 DEF DirsShrunk
    <2>7. DirsAt(Names)'
      BY Zenon, <1>2, <2>3, <2>6 DEF DirsAt
    <2> QED
      BY <1>2, <1>4, <2>2, <2>3, <2>7 DEF DirsRemoving
  <1> QED
    BY Zenon, <1>3, <1>4

\* At first the tree is the one both begin with.
LEMMA DirsInitIInv ==
  ASSUME NEW Names, Dirs!Named(Names), Dirs!Init
  PROVE  DirsIInv(Names)
  <1>1. /\ \A p \in DOMAIN tree : p \in Paths /\ tree[p] \in {"dir", "file"}
        /\ tree = [p \in DOMAIN tree |-> tree[p]] /\ first = tree /\ DirsClosed
    BY DEF Dirs!Init, Dirs!Trees, DirsClosed
  <1>2. DirsCreating
    <2>1. creator \in [Creators -> [at : {"stat", "mkdir", "done"}, k : Nat, rc : {0, -1}]]
      BY Zenon DEF Dirs!Init
    <2>2. \A c \in Creators : DirsCreated(c)
      BY DirsPathFacts DEF Dirs!Init, DirsCreated
    <2> QED
      BY Zenon, <1>1, <2>1, <2>2 DEF DirsCreating, DirsGrown
  <1>3. DirsRemoving(Names)
    <2>1. remover = [at |-> "open", path |-> Root] /\ dirs = <<>> /\ Len(dirs) = 0
      BY Zenon DEF Dirs!Init
    <2>2. DirsShrunk(Names)
      BY Zenon, <1>1 DEF DirsShrunk, Dirs!Named
    <2>3. Root \in Seq(Names) /\ Len(Root) \in Nat /\ Dirs!Under(Root)
      BY DEF Dirs!Named, Dirs!Under
    <2>4. DirsAt(Names)
      BY <1>1, <2>1, <2>3 DEF DirsAt, DirsBusy
    <2>5. dirs \in Seq({})
      BY <2>1
    <2> QED
      BY <1>1, <2>1, <2>2, <2>4, <2>5 DEF DirsRemoving
  <1> QED
    BY Zenon, <1>2, <1>3 DEF Dirs!Init, DirsIInv

\* Every step of a creator and of the remover keeps the invariant.
LEMMA DirsNextIInv ==
  ASSUME NEW Names, Dirs!Named(Names), DirsIInv(Names), [Dirs!Next]_(Dirs!vars)
  PROVE  DirsIInv(Names)'
  <1>1. running' = running
    BY Zenon DEF Dirs!Next, Dirs!vars, Dirs!RemoveDirectory, Dirs!CleanDirectory, Dirs!ReadDir, Dirs!Stat, Dirs!Unlink, Dirs!RmDir,
           Dirs!CreateDirPath,
           Dirs!CreateDirStat, Dirs!CreateDirMkdir
  <1>2. ASSUME running = {"creators"} PROVE DirsCreating'
    <2>1. CASE UNCHANGED Dirs!vars
      BY <1>2, <2>1 DEF DirsIInv, Dirs!vars, DirsCreating, DirsGrown, DirsCreated, Dirs!IsDir, DirsTo, Dirs!Prefix, Dirs!InTheWay
    <2>2. ~Dirs!RemoveDirectory
      BY Zenon, <1>2 DEF Dirs!RemoveDirectory, Dirs!CleanDirectory, Dirs!ReadDir, Dirs!Stat, Dirs!Unlink, Dirs!RmDir
    <2> QED
      BY Zenon, <1>2, <2>1, <2>2, DirsStatStep, DirsMkdirStep DEF DirsIInv, Dirs!Next, Dirs!CreateDirPath
  <1>3. ASSUME running = {"remover"} PROVE DirsRemoving(Names)'
    <2>1. CASE UNCHANGED Dirs!vars
      BY <1>3, <2>1
         DEF DirsIInv, Dirs!vars, DirsRemoving, DirsShrunk, DirsClosed, Dirs!Under, DirsLevel, DirsAt, DirsCur, DirsBusy, Dirs!IsDir, Dirs!Entries
    <2>2. \A c \in Creators : ~Dirs!CreateDirPath(c)
      BY Zenon, <1>3 DEF Dirs!CreateDirPath, Dirs!CreateDirStat, Dirs!CreateDirMkdir
    <2> QED
      BY Zenon, <1>3, <2>1, <2>2, DirsCleanStep, DirsReadStep, DirsStatEntryStep, DirsUnlinkStep, DirsRmDirStep
         DEF DirsIInv, Dirs!Next, Dirs!RemoveDirectory
  <1> QED
    BY Zenon, <1>1, <1>2, <1>3 DEF DirsIInv

\* What the invariant says of those who are done is DirsSettle.
LEMMA DirsIInvSettles ==
  ASSUME NEW Names, DirsIInv(Names)
  PROVE  Dirs!DirsSettle
  <1>1. ASSUME running = {"creators"}, NEW c \in Creators, creator[c].at = "done"
        PROVE  /\ creator[c].rc = (IF Dirs!InTheWay(c) THEN -1 ELSE 0)
               /\ creator[c].rc = 0 => \A k \in 1 .. Len(pathOf[c]) : Dirs!IsDir(SubSeq(pathOf[c], 1, k))
    <2>1. DirsCreating /\ DirsCreated(c)
      BY Zenon, <1>1 DEF DirsIInv, DirsCreating
    <2>2. CASE creator[c].rc = 0 /\ \A j \in 1 .. Len(pathOf[c]) : Dirs!IsDir(DirsTo(c, j))
      <3>1. ~Dirs!InTheWay(c)
        BY Zenon, <2>1, <2>2 DEF Dirs!InTheWay, Dirs!IsDir, DirsTo, DirsCreating, DirsGrown
      <3> QED
        BY Zenon, <2>2, <3>1 DEF DirsTo
    <2>3. CASE creator[c].rc = -1 /\ Dirs!InTheWay(c)
      BY <2>3
    <2> QED
      BY Zenon, <1>1, <2>1, <2>2, <2>3 DEF DirsCreated
  <1>2. ASSUME running = {"remover"}
        PROVE  /\ remover.at = "failed" =>
                    ~(Root \in DOMAIN first /\ first[Root] = "dir") /\ tree = first
               /\ remover.at = "removed" =>
                    tree = [p \in {p \in DOMAIN first : ~Dirs!Under(p)} |-> first[p]]
    BY Zenon, <1>2 DEF DirsIInv, DirsRemoving, DirsAt
  <1> QED
    BY Zenon, <1>1, <1>2 DEF Dirs!DirsSettle

\* Creators do not disturb each other, and an undisturbed RemoveDirectory
\* removes its directory and nothing else (DirsSettle).
THEOREM DirectoriesSettle == Dirs!Spec => []DirsSettle
  <1>1. Dirs!Init => DirsIInv(DirNames)
    BY Zenon, DirUse, DirsInitIInv
  <1>2. DirsIInv(DirNames) /\ [Dirs!Next]_(Dirs!vars) => DirsIInv(DirNames)'
    BY Zenon, DirUse, DirsNextIInv
  <1>3. DirsIInv(DirNames) => DirsSettle
    BY Zenon, DirsIInvSettles DEF DirsSettle
  <1> QED
    BY <1>1, <1>2, <1>3, PTL DEF Dirs!Spec

----------------------------------------------------------------------------
\* The file and what was promised of it are sequences of some cells, the fsync
\* covers the promise, and a process that writes does so at the end of the file.
LogCells(S) == file \in Seq(S) /\ promised \in Seq(S)

LogIInv ==
    /\ \E S : LogCells(S)
    /\ Len(promised) <= synced /\ synced \in 0 .. Len(file)
    /\ \A k \in 1 .. Len(promised) : promised[k] = file[k]
    /\ ~exists => file = <<>>
    /\ pc \in {"header", "seek", "up", "sync", "fsync"} => exists
    /\ pc \in {"header", "up", "sync", "fsync"} => fpos = Len(file)

\* A sequence that agrees with a longer one is a prefix of it.
LEMMA LogPrefixByIndex ==
  ASSUME NEW S, NEW s \in Seq(S), NEW t \in Seq(S), Len(s) <= Len(t),
         \A k \in 1 .. Len(s) : s[k] = t[k]
  PROVE  s = SubSeq(t, 1, Len(s))
  <1> DEFINE u == SubSeq(t, 1, Len(s))
  <1>1. Len(s) \in Nat /\ Len(t) \in Nat
    OBVIOUS
  <1>2. u \in Seq(S) /\ Len(u) = Len(s) /\ \A k \in 1 .. Len(s) : u[k] = t[k]
    BY <1>1
  <1> HIDE DEF u
  <1>3. s = u
    BY Zenon, <1>2, SeqEqual
  <1> QED
    BY Zenon, <1>3 DEF u

\* Before the first start there is no file.
LEMMA LogInitIInv == Log!Init => LogIInv
  <1> SUFFICES ASSUME Log!Init PROVE LogIInv
    BY Zenon
  <1>1. LogCells({})
    BY DEF Log!Init, LogCells
  <1> QED
    BY <1>1 DEF Log!Init, LogIInv

\* A step that leaves the file, the promise and what is synced alone.
LEMMA LogFileKept ==
  ASSUME LogIInv, UNCHANGED <<exists, file, synced, promised>>,
         pc' \in {"header", "seek", "up", "sync", "fsync"} => exists,
         pc' \in {"header", "up", "sync", "fsync"} => fpos' = Len(file)
  PROVE  LogIInv'
  BY Zenon DEF LogIInv, LogCells

\* A file that is empty promised nothing.
LEMMA LogFresh ==
  ASSUME LogIInv, file = <<>>
  PROVE  promised = <<>> /\ Len(file) = 0
  <1>1. PICK S : LogCells(S)
    BY Zenon DEF LogIInv
  <1>2. Len(file) = 0 /\ Len(promised) <= 0 /\ Len(promised) \in Nat
    BY <1>1 DEF LogIInv, LogCells
  <1> QED
    BY <1>1, <1>2 DEF LogCells

\* The constructor creates the file or reads it, and writes nothing into it.
LEMMA LogInitializeStep == Log!LogAssumption /\ LogIInv /\ Log!initialize => LogIInv'
  <1> SUFFICES ASSUME Log!LogAssumption, LogIInv, Log!initialize PROVE LogIInv'
    BY Zenon
  <1>1. CASE Log!Create
    <2>1. /\ file = <<>> /\ file' = <<>> /\ UNCHANGED <<synced, promised>> /\ fpos' = 0
          /\ exists' = TRUE
      BY Zenon, <1>1 DEF Log!Create, Log!Begin, LogIInv
    <2> QED
      BY Zenon, <2>1, LogFresh DEF LogIInv, LogCells
  <1>2. CASE Log!OpenEmpty
    <2>1. file = <<>> /\ UNCHANGED <<exists, file, synced, promised>> /\ fpos' = 0 /\ exists
      BY Zenon, <1>2 DEF Log!OpenEmpty, Log!Begin
    <2> QED
      BY Zenon, <2>1, LogFresh, LogFileKept
  <1>3. CASE Log!OpenCorrupt \/ Log!OpenHeader \/ Log!OpenEntries
    <2>1. Log!OpenHeader => exists
      BY Zenon DEF Log!OpenHeader, Log!Headed, LogIInv, Log!LogAssumption
    <2> QED
      BY Zenon, <1>3, <2>1, LogFileKept
         DEF Log!OpenCorrupt, Log!OpenHeader, Log!OpenEntries, Log!Begin
  <1>4. CASE Log!LSeek
    BY Zenon, <1>4, LogFileKept DEF Log!LSeek, Log!onDisk, LogIInv
  <1> QED
    BY Zenon, <1>1, <1>2, <1>3, <1>4 DEF Log!initialize

\* WriteFully adds to the end of the file.
LEMMA LogWriteFullyStep ==
  ASSUME LogIInv, NEW n \in 1 .. Len(unwritten), Log!WriteFully(n)
  PROVE  LogIInv'
  <1>1. PICK S : LogCells(S)
    BY Zenon DEF LogIInv
  <1>2. n \in Nat \ {0}
    OBVIOUS
  <1>3. PICK l \in Nat : l = Len(file)
    BY <1>1 DEF LogCells
  <1>4. /\ fpos = l /\ UNCHANGED <<exists, synced, promised>> /\ fpos' = l + n
        /\ file' = [k \in 1 .. l + n |-> IF k \in l + 1 .. l + n THEN unwritten[k - l] ELSE file[k]]
    <2>1. fpos = l /\ UNCHANGED <<exists, synced, promised>> /\ fpos' = l + n
      BY Zenon, <1>3 DEF Log!WriteFully, LogIInv
    <2>2. l + n > l
      BY <1>2
    <2> QED
      BY Zenon, <1>3, <2>1, <2>2 DEF Log!WriteFully
  <1>5. PICK T : T = S \cup {unwritten[k] : k \in 1 .. n}
    BY Zenon
  <1>6. file' \in [1 .. l + n -> T]
    <2>1. ASSUME NEW k \in 1 .. l + n
          PROVE  (IF k \in l + 1 .. l + n THEN unwritten[k - l] ELSE file[k]) \in T
      <3>1. CASE k \in l + 1 .. l + n
        <4>1. k - l \in 1 .. n
          BY <1>2, <3>1
        <4> QED
          BY Zenon, <1>5, <3>1, <4>1
      <3>2. CASE k \notin l + 1 .. l + n
        <4>1. k \in 1 .. l
          BY <1>2, <3>2
        <4> QED
          BY <1>1, <1>3, <1>5, <3>2, <4>1 DEF LogCells
      <3> QED
        BY Zenon, <3>1, <3>2
    <2> QED
      BY Zenon, <1>4, <2>1
  <1>7. l + n \in Nat /\ file' \in Seq(T) /\ Len(file') = l + n
    BY <1>2, <1>6
  <1>8. \A k \in 1 .. l : file'[k] = file[k]
    BY <1>2, <1>4
  <1>9. promised' \in Seq(T) /\ Len(promised) \in Nat
    <2>1. Seq(S) \subseteq Seq(T)
      BY Zenon, <1>5, SeqMonotonic
    <2> QED
      BY <1>1, <1>4, <2>1 DEF LogCells
  <1>10. LogCells(T)'
    BY Zenon, <1>7, <1>9 DEF LogCells
  <1>11. exists
    BY Zenon DEF LogIInv, Log!WriteFully
  <1>12. synced \in 0 .. l /\ Len(promised) <= synced
    BY Zenon, <1>3 DEF LogIInv
  <1>13. \A k \in 1 .. Len(promised) : promised'[k] = file'[k]
    <2>1. \A k \in 1 .. Len(promised) : k \in 1 .. l
      BY <1>9, <1>12
    <2> QED
      BY Zenon, <1>4, <1>8, <2>1 DEF LogIInv
  <1> QED
    BY <1>2, <1>4, <1>7, <1>9, <1>10, <1>11, <1>12, <1>13 DEF LogIInv

\* When fsync returns, the whole file is on disk.
LEMMA LogFSyncStep == LogIInv /\ Log!FSync => LogIInv'
  <1> SUFFICES ASSUME LogIInv, Log!FSync PROVE LogIInv'
    BY Zenon
  <1>1. PICK S : LogCells(S)
    BY Zenon DEF LogIInv
  <1>2. /\ UNCHANGED <<exists, file, fpos>> /\ synced' = Len(file) /\ promised' = file
        /\ pc = "fsync" /\ pc' = "up" /\ Len(file) \in Nat
    BY <1>1 DEF Log!FSync, LogCells
  <1>3. LogCells(S)'
    BY Zenon, <1>1, <1>2 DEF LogCells
  <1>4. Len(promised') <= synced' /\ synced' \in 0 .. Len(file')
    BY <1>2
  <1> QED
    BY Zenon, <1>2, <1>3, <1>4 DEF LogIInv

\* A power loss cuts the file somewhere behind what was synced.
LEMMA LogPowerLossStep == LogIInv /\ Log!PowerLoss => LogIInv'
  <1> SUFFICES ASSUME LogIInv, Log!PowerLoss PROVE LogIInv'
    BY Zenon
  <1>1. PICK S : LogCells(S)
    BY Zenon DEF LogIInv
  <1>2. PICK n \in synced .. Len(file) :
          /\ file' = SubSeq(file, 1, n) /\ synced' = n
          /\ UNCHANGED exists \/ n = 0
    BY Zenon DEF Log!PowerLoss
  <1>3. /\ Len(file) \in Nat /\ n \in 0 .. Len(file) /\ Len(promised) \in Nat /\ Len(promised) <= n
        /\ UNCHANGED promised /\ pc' = "down" /\ synced \in Nat
    BY <1>1, <1>2 DEF LogIInv, LogCells, Log!PowerLoss
  <1>4. file' \in Seq(S) /\ Len(file') = n /\ \A k \in 1 .. n : file'[k] = file[k]
    BY <1>1, <1>2, <1>3 DEF LogCells
  <1>5. LogCells(S)'
    BY Zenon, <1>1, <1>3, <1>4 DEF LogCells
  <1>6. \A k \in 1 .. Len(promised) : promised'[k] = file'[k]
    <2>1. \A k \in 1 .. Len(promised) : k \in 1 .. n
      BY <1>3
    <2> QED
      BY Zenon, <1>3, <1>4, <2>1 DEF LogIInv
  <1>7. ASSUME ~exists' PROVE file' = <<>>
    <2>1. n = 0
      BY <1>2, <1>3, <1>7 DEF LogIInv
    <2> QED
      BY <1>4, <2>1
  <1>8. Len(promised') <= synced' /\ synced' \in 0 .. Len(file')
    BY <1>2, <1>3, <1>4
  <1> QED
    BY Zenon, <1>3, <1>5, <1>6, <1>7, <1>8 DEF LogIInv

\* What Sync returned for stays in the file (LogKept).
THEOREM LogStays == Log!Spec => []LogKept
  <1> USE LogUse
  <1>1. Log!Init => LogIInv
    BY Zenon, LogInitIInv
  <1>2. LogIInv /\ [Log!Next]_(Log!vars) => LogIInv'
    <2> SUFFICES ASSUME LogIInv, [Log!Next]_(Log!vars) PROVE LogIInv'
      BY Zenon
    <2>1. CASE UNCHANGED Log!vars
      BY Zenon, <2>1, LogFileKept DEF Log!vars, Log!onDisk, LogIInv
    <2>2. ASSUME NEW batch \in Batches, Log!AppendEntries(batch) PROVE LogIInv'
      BY Zenon, <2>2, LogFileKept DEF Log!AppendEntries, Log!onDisk, LogIInv
    <2>3. CASE Log!Kill
      BY Zenon, <2>3, LogFileKept DEF Log!Kill, Log!onDisk
    <2> QED
      BY Zenon, <2>1, <2>2, <2>3, LogInitializeStep, LogWriteFullyStep, LogFSyncStep,
         LogPowerLossStep DEF Log!Next
  <1>3. LogIInv => LogKept
    <2> SUFFICES ASSUME LogIInv PROVE Log!LogKept
      BY Zenon DEF LogKept
    <2>1. PICK S : LogCells(S)
      BY Zenon DEF LogIInv
    <2>2. Len(promised) <= Len(file)
      BY <2>1 DEF LogIInv, LogCells
    <2> QED
      BY Zenon, <2>1, <2>2, LogPrefixByIndex DEF LogIInv, LogCells, Log!LogKept
  <1> QED
    BY <1>1, <1>2, <1>3, PTL DEF Log!Spec

----------------------------------------------------------------------------
\* Heads of a file that is long enough to hold a state.
RaftLong == {"zeros", "magic"}

\* Steps of a life that may still ask for votes.
RaftStanding == {"header", "constructed", "follower", "save", "rest", "sync"}

(***************************************************************************)
(* CandidacyKept needs to know what is written when fdatasync is reached,  *)
(* and that a process that finds a term recorded does not get past         *)
(* initialize, so that nothing is written after votes were asked for.      *)
(***************************************************************************)
RaftIInv ==
    /\ m_iCurrentTerm \in Nat /\ m_iVoteFor \in {0, m_iMyId} /\ asked \in Nat
    /\ raftFile \in [head : Raft!Heads, term : Nat, vote : {0, m_iMyId}]
    /\ unsynced \in [heads : SUBSET Raft!Heads, terms : SUBSET Nat, votes : SUBSET {0, m_iMyId}]
    /\ raftFile.head \in unsynced.heads
    /\ raftPc \in {"constructed", "follower", "save"} => raftFile.head \in {"empty", "magic"}
    /\ raftPc \in {"save", "rest", "sync"} => m_iCurrentTerm > 0 /\ m_iVoteFor = m_iMyId
    /\ raftPc \in {"rest", "sync"} => raftFile.head \in RaftLong /\ raftFile.term = m_iCurrentTerm
    /\ raftPc = "sync" => raftFile.vote = m_iMyId
    /\ asked > 0 =>
         /\ raftPc \notin RaftStanding
         /\ unsynced.heads \subseteq RaftLong
         /\ unsynced.terms = {asked} /\ unsynced.votes = {m_iMyId}

\* Before its first start the server has asked for nothing.
LEMMA RaftInitIInv == Raft!Init => RaftIInv
  BY DEF Raft!Init, RaftIInv, Raft!Heads

\* Every step keeps IInv, a power loss included: what it leaves was written.
LEMMA RaftNextIInv == RaftIInv /\ [Raft!Next]_(Raft!vars) => RaftIInv'
  <1> SUFFICES ASSUME RaftIInv, [Raft!Next]_(Raft!vars) PROVE RaftIInv'
    BY Zenon
  <1> USE DEF RaftIInv, RaftStanding, RaftLong, Raft!Heads
  <1>1. CASE Raft!Create
    BY <1>1 DEF Raft!Create, Raft!Begin, Raft!WriteHead
  <1>2. CASE Raft!WriteHeader
    BY <1>2 DEF Raft!WriteHeader, Raft!WriteHead
  <1>3. CASE Raft!OpenEmpty
    BY <1>3 DEF Raft!OpenEmpty, Raft!Begin
  <1>4. CASE Raft!OpenCorrupt
    BY <1>4 DEF Raft!OpenCorrupt, Raft!Begin
  <1>5. CASE Raft!OpenState
    BY <1>5 DEF Raft!OpenState, Raft!Begin, Raft!Deserialize
  <1>6. CASE Raft!FreeBuffer
    BY <1>6 DEF Raft!FreeBuffer
  <1>7. CASE Raft!Start
    BY <1>7 DEF Raft!Start
  <1>8. CASE Raft!prepare_new_election_env
    BY <1>8 DEF Raft!prepare_new_election_env
  <1>9. CASE Raft!save_rf_state
    <2>1. CASE raftPc = "save"
      <3>1. /\ raftPc' = "rest" /\ asked' = 0
            /\ m_iCurrentTerm' = m_iCurrentTerm /\ m_iVoteFor' = m_iVoteFor
        BY <1>9, <2>1 DEF Raft!save_rf_state
      <3>2. PICK h \in RaftLong :
              /\ raftFile' = [raftFile EXCEPT !.head = h, !.term = m_iCurrentTerm]
              /\ unsynced' = [unsynced EXCEPT !.heads = @ \union {h}, !.terms = @ \union {m_iCurrentTerm}]
        BY Zenon, <1>9, <2>1 DEF Raft!save_rf_state, Raft!WriteTerm
      <3>3. /\ raftFile' \in [head : Raft!Heads, term : Nat, vote : {0, m_iMyId}]
            /\ raftFile'.head = h /\ raftFile'.term = m_iCurrentTerm
        BY <3>2
      <3>4. /\ unsynced' \in [heads : SUBSET Raft!Heads, terms : SUBSET Nat, votes : SUBSET {0, m_iMyId}]
            /\ h \in unsynced'.heads
        BY <3>2
      <3> QED
        BY <3>1, <3>2, <3>3, <3>4, <2>1
    <2>2. CASE raftPc = "rest"
      BY <1>9, <2>2 DEF Raft!save_rf_state, Raft!WriteVote
    <2> QED
      BY Zenon, <1>9, <2>1, <2>2 DEF Raft!save_rf_state
  <1>10. CASE Raft!FDataSync
    BY <1>10 DEF Raft!FDataSync, Raft!Synced
  <1>11. CASE Raft!broadcast_request_vote
    BY <1>11 DEF Raft!broadcast_request_vote
  <1>12. CASE Raft!Kill
    BY <1>12 DEF Raft!Kill
  <1>13. CASE Raft!PowerLoss
    BY <1>13 DEF Raft!PowerLoss, Raft!Contents, Raft!Synced
  <1>14. CASE UNCHANGED Raft!vars
    BY <1>14 DEF Raft!vars
  <1> QED
    BY Zenon, <1>1, <1>2, <1>3, <1>4, <1>5, <1>6, <1>7, <1>8, <1>9, <1>10, <1>11, <1>12, <1>13, <1>14
       DEF Raft!Next, Raft!initialize, Raft!start_new_election

\* Once votes were asked for in a term, every content a power loss can leave
\* gives back that term and the vote for itself, and no later life stands for
\* election in it again, however often the process is started and wherever a
\* kill cuts the writes of save_rf_state and initialize short.
THEOREM RaftCandidacyKept == Raft!Spec => []CandidacyKept
  <1>1. RaftIInv => Raft!AskedIsRecorded
    BY DEF RaftIInv, Raft!AskedIsRecorded, Raft!Contents, Raft!Deserialize
  <1>2. RaftIInv => Raft!AskedOnce
    BY DEF RaftIInv, RaftStanding, Raft!AskedOnce
  <1>3. RaftIInv => CandidacyKept
    BY Zenon, <1>1, <1>2 DEF CandidacyKept, Raft!CandidacyKept
  <1> QED
    BY <1>3, RaftInitIInv, RaftNextIInv, PTL DEF Raft!Spec
=============================================================================
