------------------------------ MODULE FileTree ------------------------------
(***************************************************************************)
(* The directory operations of fsio/file-utils.cc: CreateDirPath, with     *)
(* which a server makes its log and data directories, and RemoveDirectory. *)
(*                                                                         *)
(* Several processes run them on one file system, which is external: stat, *)
(* mkdir, unlink, rmdir, opendir and readdir are atomic, and readdir may   *)
(* or may not return an entry made after opendir.  There are no links, and *)
(* nothing fails for want of permission or space.                          *)
(***************************************************************************)
EXTENDS Integers, Sequences, FiniteSets

CONSTANTS
    Creators,   \* the processes in CreateDirPath
    pathOf,     \* the path of each, a sequence of names
    Root,       \* the path given to RemoveDirectory
    Paths       \* the paths there may be

\* The paths are sequences of some names, and have one.
Named(Names) ==
    /\ Paths \subseteq Seq(Names) \ {<<>>} /\ Root \in Seq(Names) \ {<<>>}
    /\ pathOf \in [Creators -> Seq(Names) \ {<<>>}]

VARIABLES
    tree,      \* the existing paths: "dir" or "file"
    first,     \* the tree at the start
    running,   \* who takes part: the creators, the remover or both
    creator,   \* per creator: where it is, at which prefix, what it returned
    remover,   \* where RemoveDirectory is, and on which entry
    dirs       \* the directories it has open: entries at opendir, entries seen

vars == <<tree, first, running, creator, remover, dirs>>

Parent(p) == SubSeq(p, 1, Len(p) - 1)

\* The trees: whatever a path goes through is a directory.
Trees ==
    {t \in UNION {[S -> {"dir", "file"}] : S \in SUBSET Paths} :
       \A p \in DOMAIN t : \A k \in 1 .. Len(p) - 1 :
         SubSeq(p, 1, k) \in DOMAIN t /\ t[SubSeq(p, 1, k)] = "dir"}

Init ==
    /\ tree \in Trees /\ first = tree
    /\ running \in {{"creators"}, {"remover"}, {"creators", "remover"}}
    /\ creator = [c \in Creators |-> [at |-> "stat", k |-> 1, rc |-> 0]]
    /\ remover = [at |-> "open", path |-> Root] /\ dirs = <<>>

IsDir(p) == p \in DOMAIN tree /\ tree[p] = "dir"

----------------------------------------------------------------------------
(***************************************************************************)
(* CreateDirPath: CreateDir for every prefix of the path.                  *)
(***************************************************************************)
Prefix(c) == SubSeq(pathOf[c], 1, creator[c].k)

\* CreateDir returned: on to the next prefix, or back with rc.
CreateDirReturns(c, rc) ==
    creator' = [creator EXCEPT ![c] =
        IF rc = 0 /\ @.k < Len(pathOf[c]) THEN [at |-> "stat", k |-> @.k + 1, rc |-> 0]
        ELSE [at |-> "done", k |-> @.k, rc |-> rc]]

CreateDirStat(c) ==
    /\ "creators" \in running /\ creator[c].at = "stat"
    /\ IF Prefix(c) \in DOMAIN tree
       THEN CreateDirReturns(c, IF IsDir(Prefix(c)) THEN 0 ELSE -1)
       ELSE creator' = [creator EXCEPT ![c].at = "mkdir"]
    /\ UNCHANGED <<tree, first, running, remover, dirs>>

\* A mutant of CreateDirMkdir: EEXIST is a failure like any other.
CreateDirMkdirStrict(c) ==
    LET p == Prefix(c)
        ok == p \notin DOMAIN tree /\ (Len(p) = 1 \/ IsDir(Parent(p)))
    IN /\ "creators" \in running /\ creator[c].at = "mkdir"
       /\ CreateDirReturns(c, IF ok THEN 0 ELSE -1)
       /\ tree' = IF ok THEN [q \in DOMAIN tree \union {p} |-> IF q = p THEN "dir" ELSE tree[q]] ELSE tree
       /\ UNCHANGED <<first, running, remover, dirs>>

\* mkdir: EEXIST, whatever it is that exists, counts as success.
CreateDirMkdir(c) ==
    LET p == Prefix(c)
        ok == p \notin DOMAIN tree /\ (Len(p) = 1 \/ IsDir(Parent(p)))
    IN /\ "creators" \in running /\ creator[c].at = "mkdir"
       /\ CreateDirReturns(c, IF ok \/ p \in DOMAIN tree THEN 0 ELSE -1)
       /\ tree' = IF ok THEN [q \in DOMAIN tree \union {p} |-> IF q = p THEN "dir" ELSE tree[q]] ELSE tree
       /\ UNCHANGED <<first, running, remover, dirs>>

CreateDirPath(c) == CreateDirStat(c) \/ CreateDirMkdir(c)

----------------------------------------------------------------------------
(***************************************************************************)
(* RemoveDirectory and CleanDirectory, which call each other.  An error of *)
(* any call ends every loop above it, so that RemoveDirectory fails.       *)
(***************************************************************************)
Entries(p) == {q \in DOMAIN tree : Len(q) = Len(p) + 1 /\ Parent(q) = p}

\* CleanDirectory: opendir.
CleanDirectory ==
    /\ "remover" \in running /\ remover.at = "open"
    /\ IF IsDir(remover.path)
       THEN /\ dirs' = Append(dirs, [path |-> remover.path, listed |-> Entries(remover.path), seen |-> {}])
            /\ remover' = [remover EXCEPT !.at = "read"]
       ELSE remover' = [remover EXCEPT !.at = "failed"] /\ UNCHANGED dirs
    /\ UNCHANGED <<tree, first, running, creator>>

\* readdir: an entry, or the end, after which the directory is removed.
ReadDir ==
    LET d == dirs[Len(dirs)]
    IN /\ "remover" \in running /\ remover.at = "read"
       /\ \/ \E e \in (d.listed \union Entries(d.path)) \ d.seen :
               /\ remover' = [at |-> "stat", path |-> e]
               /\ dirs' = [dirs EXCEPT ![Len(dirs)].seen = @ \union {e}]
          \/ /\ d.listed \subseteq d.seen
             /\ remover' = [at |-> "rmdir", path |-> d.path]
             /\ dirs' = SubSeq(dirs, 1, Len(dirs) - 1)
       /\ UNCHANGED <<tree, first, running, creator>>

Stat ==
    /\ "remover" \in running /\ remover.at = "stat"
    /\ remover' = [remover EXCEPT !.at =
         IF remover.path \notin DOMAIN tree THEN "failed"
         ELSE IF IsDir(remover.path) THEN "open" ELSE "unlink"]
    /\ UNCHANGED <<tree, first, running, creator, dirs>>

Without(p) == [q \in DOMAIN tree \ {p} |-> tree[q]]

Unlink ==
    /\ "remover" \in running /\ remover.at = "unlink"
    /\ IF remover.path \in DOMAIN tree /\ ~IsDir(remover.path)
       THEN tree' = Without(remover.path) /\ remover' = [remover EXCEPT !.at = "read"]
       ELSE tree' = tree /\ remover' = [remover EXCEPT !.at = "failed"]
    /\ UNCHANGED <<first, running, creator, dirs>>

RmDir ==
    /\ "remover" \in running /\ remover.at = "rmdir"
    /\ IF IsDir(remover.path) /\ Entries(remover.path) = {}
       THEN /\ tree' = Without(remover.path)
            /\ remover' = [remover EXCEPT !.at = IF dirs = <<>> THEN "removed" ELSE "read"]
       ELSE tree' = tree /\ remover' = [remover EXCEPT !.at = "failed"]
    /\ UNCHANGED <<first, running, creator, dirs>>

RemoveDirectory == CleanDirectory \/ ReadDir \/ Stat \/ Unlink \/ RmDir

Next == RemoveDirectory \/ \E c \in Creators : CreateDirPath(c)

Spec == Init /\ [][Next]_vars

----------------------------------------------------------------------------
InTheWay(c) == \E k \in 1 .. Len(pathOf[c]) :
                 SubSeq(pathOf[c], 1, k) \in DOMAIN first /\ first[SubSeq(pathOf[c], 1, k)] = "file"

\* The path is Root, or under it.
Under(p) == Len(Root) <= Len(p) /\ \A k \in 1 .. Len(Root) : p[k] = Root[k]

\* Processes that only create do not disturb each other: CreateDirPath fails
\* for a file in the way and for nothing else, and when it returns its whole
\* path is there.  A RemoveDirectory nobody disturbs succeeds on every
\* directory, and leaves exactly the rest of the tree.
DirsSettle ==
    /\ running = {"creators"} =>
         \A c \in Creators : creator[c].at = "done" =>
           /\ creator[c].rc = (IF InTheWay(c) THEN -1 ELSE 0)
           /\ creator[c].rc = 0 => \A k \in 1 .. Len(pathOf[c]) : IsDir(SubSeq(pathOf[c], 1, k))
    /\ running = {"remover"} =>
         /\ remover.at = "failed" => ~(Root \in DOMAIN first /\ first[Root] = "dir") /\ tree = first
         /\ remover.at = "removed" =>
              tree = [p \in {p \in DOMAIN first : ~Under(p)} |-> first[p]]
=============================================================================
