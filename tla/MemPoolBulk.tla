---------------------------- MODULE MemPoolBulk -----------------------------
(***************************************************************************)
(* The bulk objects of ccsys::MemPool (src/src/ccsys/mem-pool.cc): sizes   *)
(* above m_bulk_obj_threshold, whose slots come and go.  A slot is its     *)
(* size in system pages.  All of Get and put runs under                    *)
(* m_bulk_obj_pages_lock, so each is one action.                           *)
(*                                                                         *)
(* m_free_bulk_objs (the ordered map) holds pointers into                  *)
(* m_free_hash_bulk_objs; "stale" are the ordered map's keys whose pointer *)
(* refers to an entry the hash map no longer has.  "ub" records that the   *)
(* code dereferenced an end() iterator or such a pointer; nothing is said  *)
(* of what happens afterwards.                                             *)
(***************************************************************************)
EXTENDS Integers, FiniteSets, FiniteSetsExt

CONSTANTS
    Slots,        \* sizes users ask for, in system pages
    Pages,        \* addresses PosixMemAlign may return
    MaxReserve,   \* m_available_reserve_bulk_obj_max_size, in system pages
    Factor,       \* m_expand_bulk_obj_cnt_factor
    ResidentCnt,  \* m_one_slot_bulk_obj_resident_cnts
    MaxHeld       \* bound: objects held at a time

\* Sizes are numbers of pages, and a page that is split holds some objects.
BulkAssumption == Slots \subseteq Nat /\ MaxReserve \in Nat /\ Factor \in Nat \ {0}

VARIABLES
    live,       \* pages allocated and not freed
    tracked,    \* m_bulk_obj_pages: the pages recorded for each slot
    trackKeys,  \* its keys
    hash,       \* keys of m_free_hash_bulk_objs
    objs,       \* the free objects of each entry
    cnt,        \* the counter of each entry
    tree,       \* keys of m_free_bulk_objs
    stale,
    held,       \* objects in users' hands
    ub

vars == <<live, tracked, trackKeys, hash, objs, cnt, tree, stale, held, ub>>

\* An object: the slot of its size, its page, its index, and whether it was
\* allocated alone.
Object(s, p, n) == [slot : {s}, page : {p}, idx : 1 .. n, alone : {n = 1}]

Init ==
    /\ live = {}
    /\ tracked = [s \in Slots |-> {}]
    /\ trackKeys = {}
    /\ hash = {}
    /\ objs = [s \in Slots |-> {}]
    /\ cnt = [s \in Slots |-> 0]
    /\ tree = {}
    /\ stale = {}
    /\ held = {}
    /\ ub = FALSE

Crash == ub' = TRUE /\ UNCHANGED <<live, tracked, trackKeys, hash, objs, cnt, tree,
                                   stale, held>>

----------------------------------------------------------------------------
(* get_suitable_bulk_page *)

\* Sizes that may serve a request for need: up to twice as large.
InRange(need) == {t \in tree : need < t /\ t <= 2 * need}

\* The slot chosen: the exact size; else the smallest free size if that is
\* larger than need and in range; else the largest size in range.
Exact(need, s) == need \in hash /\ s = need
Smallest(need, s) ==
    need \notin hash /\ tree # {} /\ Min(tree) > need /\ s = Min(tree) /\ s <= 2 * need
Largest(need, s) ==
    /\ need \notin hash /\ tree # {} /\ Min(tree) <= need
    /\ InRange(need) # {} /\ s = Max(InRange(need))

Found(need) == \E s \in Slots : Exact(need, s) \/ Smallest(need, s) \/ Largest(need, s)

\* Object o of slot s is handed out.  An entry that is now empty is erased
\* from both maps when the size was exact.  Otherwise it is erased from the
\* ordered map, and then the key is read again through the iterator just
\* invalidated: a forward iterator reads freed memory (any key, or none of
\* them), a reverse iterator now denotes the next smaller element.
Take(need, s, o) ==
    LET emptied == objs[s] = {o}
        erased == CASE ~emptied -> {{}}
                    [] Exact(need, s) -> {{s}}
                    [] Smallest(need, s) -> {{}} \union {{t} : t \in hash}
                    [] Largest(need, s) -> {{Max({t \in tree : t < s})}}
    IN \E gone \in erased :
        /\ hash' = hash \ gone
        /\ tree' = IF emptied THEN tree \ {s} ELSE tree
        /\ stale' = (stale \union gone) \intersect tree'
        /\ objs' = [t \in Slots |-> IF t \in gone THEN {}
                                    ELSE IF t = s THEN objs[s] \ {o} ELSE objs[t]]
        /\ cnt' = [t \in Slots |-> IF t \in gone THEN 0
                                   ELSE IF t = s THEN cnt[s] - 1 ELSE cnt[t]]
        /\ held' = held \union {o}
        /\ UNCHANGED <<live, tracked, trackKeys, ub>>

GetFound(need) ==
    \E s \in Slots :
        /\ Exact(need, s) \/ Smallest(need, s) \/ Largest(need, s)
        /\ IF s \in stale \/ objs[s] = {}
             THEN Crash
             ELSE \E o \in objs[s] : Take(need, s, o)

\* How many objects a new page holds.
ObjsPerPage(need) == IF need < MaxReserve THEN Factor ELSE 1

\* No suitable object: allocate.  The slot's record of pages is replaced.
GetNew(need) ==
    /\ ~Found(need)
    /\ \E p \in Pages \ live :
        \E o \in Object(need, p, ObjsPerPage(need)) :
            LET rest == Object(need, p, ObjsPerPage(need)) \ {o} IN
            /\ live' = live \union {p}
            /\ tracked' = [tracked EXCEPT ![need] = {p}]
            /\ trackKeys' = trackKeys \union {need}
            /\ hash' = IF rest = {} THEN hash ELSE hash \union {need}
            /\ tree' = IF rest = {} THEN tree \ {need} ELSE tree \union {need}
            /\ stale' = stale \ {need}
            /\ objs' = [objs EXCEPT ![need] = rest]
            /\ cnt' = [cnt EXCEPT ![need] = Cardinality(rest)]
            /\ held' = held \union {o}
            /\ UNCHANGED ub

\* PosixMemAlign fails: Get returns nullptr, and the record of pages is gone.
GetFails(need) ==
    /\ ~Found(need)
    /\ tracked' = [tracked EXCEPT ![need] = {}]
    /\ trackKeys' = trackKeys \union {need}
    /\ tree' = tree \ {need}
    /\ stale' = stale \ {need}
    /\ UNCHANGED <<live, hash, objs, cnt, held, ub>>

Get(need) ==
    /\ Cardinality(held) < MaxHeld
    /\ GetFound(need) \/ GetNew(need) \/ GetFails(need)

----------------------------------------------------------------------------
(* put *)

\* Objects too large to be kept are freed at once.
PutDrop(o) ==
    LET s == o.slot IN
    /\ s > MaxReserve
    /\ IF s \notin trackKeys
         THEN Crash
         ELSE /\ tracked' = [tracked EXCEPT ![s] = @ \ {o.page}]
              /\ trackKeys' = IF tracked'[s] = {} THEN trackKeys \ {s} ELSE trackKeys
              /\ live' = live \ {o.page}
              /\ held' = held \ {o}
              /\ UNCHANGED <<hash, objs, cnt, tree, stale, ub>>

\* A mutant of FullPages: a page with one free object is as good as full.
FullPagesHasty(f) == {p \in live : \E o \in f : o.page = p}

FullPages(f) == {p \in live : Cardinality({o \in f : o.page = p}) = Factor}

\* Other objects are kept; with too many free ones a wholly free page goes.
PutKeep(o) ==
    LET s == o.slot
        known == s \in hash
        free == objs[s] \union {o}
        n == cnt[s] + 1
        victims == IF n >= ResidentCnt + Factor THEN FullPages(free) ELSE {}
        last == victims # {} /\ n = Factor
    IN
    /\ s <= MaxReserve
    /\ hash' = IF last THEN hash \ {s} ELSE hash \union {s}
    /\ tree' = IF last THEN tree \ {s} ELSE IF known THEN tree ELSE tree \union {s}
    /\ stale' = (IF known THEN stale ELSE stale \ {s}) \intersect tree'
    /\ held' = held \ {o}
    /\ UNCHANGED ub
    /\ \/ \E p \in victims :
            /\ tracked' = [tracked EXCEPT ![s] = @ \ {p}]
            /\ trackKeys' = trackKeys \union {s}
            /\ live' = live \ {p}
            /\ objs' = [objs EXCEPT ![s] = {x \in free : x.page # p}]
            /\ cnt' = [cnt EXCEPT ![s] = n - Factor]
       \/ /\ victims = {}
          /\ objs' = [objs EXCEPT ![s] = free]
          /\ cnt' = [cnt EXCEPT ![s] = n]
          /\ UNCHANGED <<live, tracked, trackKeys>>

Next ==
    /\ ~ub
    /\ \/ \E need \in Slots : Get(need)
       \/ \E o \in held : PutDrop(o) \/ PutKeep(o)

Spec == Init /\ [][Next]_vars

----------------------------------------------------------------------------
\* No two users share bulk memory and none holds freed memory: what is held is
\* not free and lies in a live page.  True even along the paths that lose track
\* of entries, as long as no dangling pointer has been read.
Exclusive ==
    /\ \A o \in held : o.page \in live /\ \A s \in Slots : o \notin objs[s]
    /\ \A s \in Slots : \A o \in objs[s] : o.page \in live /\ o.slot = s
    /\ \A o, x \in held : o.page = x.page /\ o.idx = x.idx => o = x
=============================================================================
