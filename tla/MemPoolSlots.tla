---------------------------- MODULE MemPoolSlots ----------------------------
(***************************************************************************)
(* The tiny, small and big objects of ccsys::MemPool (src/src/ccsys/       *)
(* mem-pool.cc).  The three classes run the same code on slots that differ *)
(* only in how many objects a page is split into and how many free objects *)
(* are kept, so a slot here is any of them; each slot has its own lock and *)
(* Get and put run whole under it.  MemPoolBulk models the fourth class.   *)
(*                                                                         *)
(* A page is the address PosixMemAlign returned, an object is a page and   *)
(* an index into it.  The free lists of a slot are the set of its free     *)
(* objects: a page is a key of the map "objs" iff one of its objects is    *)
(* free.  A MemObject is the handle the user holds.                        *)
(***************************************************************************)
EXTENDS Integers, FiniteSets

CONSTANTS
    Slots,           \* tiny, and every small and big slot index
    Pages,           \* addresses PosixMemAlign may return
    MemObjects,      \* handles
    onePageObjsCnt,  \* objects per page of each slot
    residentCnts,    \* m_one_slot_{tiny,small,big}_obj_resident_cnts
    NoContent        \* of a MemObject that nobody holds

ASSUME SlotsAssumption ==
    /\ IsFiniteSet(Pages)
    /\ onePageObjsCnt \in [Slots -> Nat \ {0}]
    /\ residentCnts \in [Slots -> Nat]

VARIABLES
    pages,   \* m_*_obj_pages: the pages of each slot
    objs,    \* its free objects
    cnt,     \* its counter of free objects
    state,   \* of each MemObject: "none", "held", "putting", "free"
    content  \* the slot, page and index a MemObject refers to

vars == <<pages, objs, cnt, state, content>>

PageObjs(s, p) == {p} \X (1 .. onePageObjsCnt[s])

Contents == [slot : Slots, page : Pages, idx : Nat]

Object(m) == <<content[m].page, content[m].idx>>

Init ==
    /\ pages = [s \in Slots |-> {}]
    /\ objs = [s \in Slots |-> {}]
    /\ cnt = [s \in Slots |-> 0]
    /\ state = [m \in MemObjects |-> "none"]
    /\ content = [m \in MemObjects |-> NoContent]

----------------------------------------------------------------------------
\* get_mem_object: reuse a handle from m_free_mem_objs, or make a new one.
get_mem_object(m, s, o) ==
    /\ IF \E n \in MemObjects : state[n] = "free" THEN state[m] = "free"
                                                  ELSE state[m] = "none"
    /\ state' = [state EXCEPT ![m] = "held"]
    /\ content' = [content EXCEPT ![m] = [slot |-> s, page |-> o[1], idx |-> o[2]]]

\* The pages the allocator may return: none that is in use.
NewPages(s) == Pages \ UNION {pages[t] : t \in Slots}

\* Get: any free object of the slot; when there is none, a new page is split
\* (alloc_page_objs) and one of its objects taken.
Get(s, m) ==
    \/ \E o \in objs[s] :
        /\ objs' = [objs EXCEPT ![s] = @ \ {o}]
        /\ cnt' = [cnt EXCEPT ![s] = @ - 1]
        /\ get_mem_object(m, s, o)
        /\ UNCHANGED pages
    \/ /\ objs[s] = {}
       /\ \E p \in NewPages(s) :
            \E o \in PageObjs(s, p) :
                /\ pages' = [pages EXCEPT ![s] = @ \union {p}]
                /\ objs' = [objs EXCEPT ![s] = PageObjs(s, p) \ {o}]
                /\ cnt' = [cnt EXCEPT ![s] = onePageObjsCnt[s] - 1]
                /\ get_mem_object(m, s, o)

\* A mutant of FullPages: a page with a free object counts as wholly free.
FullPagesHasty(s, f) == {p \in pages[s] : PageObjs(s, p) \intersect f # {}}

\* Pages all of whose objects are in the set f.
FullPages(s, f) == {p \in pages[s] : PageObjs(s, p) \subseteq f}

\* A mutant of TooManyFree: one object late.
TooManyFreeLate(s, n) == n > residentCnts[s] + onePageObjsCnt[s]

TooManyFree(s, n) == n >= residentCnts[s] + onePageObjsCnt[s]

\* put: the object becomes free; with too many free objects one page that is
\* wholly free, if there is one, is given back.
put(m) ==
    LET s == content[m].slot
        freed == objs[s] \union {Object(m)}
        n == cnt[s] + 1
        victims == IF TooManyFree(s, n) THEN FullPages(s, freed) ELSE {}
    IN
    /\ state[m] = "held"
    /\ state' = [state EXCEPT ![m] = "putting"]
    /\ UNCHANGED content
    /\ \/ \E p \in victims :
            /\ pages' = [pages EXCEPT ![s] = @ \ {p}]
            /\ objs' = [objs EXCEPT ![s] = freed \ PageObjs(s, p)]
            /\ cnt' = [cnt EXCEPT ![s] = n - onePageObjsCnt[s]]
       \/ /\ victims = {}
          /\ objs' = [objs EXCEPT ![s] = freed]
          /\ cnt' = [cnt EXCEPT ![s] = n]
          /\ UNCHANGED pages

\* The second half of Put, under its own lock: the handle may be used again
\* (refresh overwrites its fields before anybody reads them).
PutHandle(m) ==
    /\ state[m] = "putting"
    /\ state' = [state EXCEPT ![m] = "free"]
    /\ content' = [content EXCEPT ![m] = NoContent]
    /\ UNCHANGED <<pages, objs, cnt>>

Next ==
    \E m \in MemObjects :
        \/ \E s \in Slots : Get(s, m)
        \/ put(m)
        \/ PutHandle(m)

Spec == Init /\ [][Next]_vars

----------------------------------------------------------------------------
Held(s) == {m \in MemObjects : state[m] = "held" /\ content[m].slot = s}

\* Types of the state; a handle in use has a content.
TypeOK ==
    /\ pages \in [Slots -> SUBSET Pages]
    /\ objs \in [Slots -> SUBSET (Pages \X Nat)]
    /\ cnt \in [Slots -> Nat]
    /\ state \in [MemObjects -> {"none", "held", "putting", "free"}]
    /\ content \in [MemObjects -> Contents \union {NoContent}]
    /\ \A m \in MemObjects : state[m] = "held" => content[m] \in Contents

\* No two users share memory and none holds freed memory: the objects held are
\* distinct, not free, and lie in pages the pool has not given back.
Exclusive ==
    \A s \in Slots : \A m \in Held(s) :
        /\ content[m].page \in pages[s]
        /\ content[m].idx \in 1 .. onePageObjsCnt[s]
        /\ Object(m) \notin objs[s]
        /\ \A n \in Held(s) : Object(n) = Object(m) => n = m

\* No object leaks: every object of every page is free or held, and nothing
\* else is free.
NoLeak ==
    \A s \in Slots :
        objs[s] \union {Object(m) : m \in Held(s)}
            = pages[s] \X (1 .. onePageObjsCnt[s])

\* The counter is the number of free objects, although page allocation assigns
\* it, page release subtracts from it, and nothing ever recounts.
CountExact == \A s \in Slots : cnt[s] = Cardinality(objs[s])

\* The pool never hoards: with too many free objects no page is wholly free,
\* so every page that is kept is kept for a user.
Trimmed ==
    \A s \in Slots :
        cnt[s] >= residentCnts[s] + onePageObjsCnt[s]
            => \A p \in pages[s] : ~(PageObjs(s, p) \subseteq objs[s])

=============================================================================
