------------------------- MODULE MemPoolSlotsProofs -------------------------
(***************************************************************************)
(* Proofs about MemPool.  First its slots: memory safety, no leak, the     *)
(* exact counter and trimming, for any slots, page sizes, limits and       *)
(* number of users.  Then its bulk objects: memory safety for any sizes.   *)
(* Then the choice of a slot for a size, for any thresholds.               *)
(*                                                                         *)
(* Of the slots, each property needs the others: releasing a page is safe  *)
(* only because all of its objects are free and therefore (Exclusive) not  *)
(* held; the counter drops by a whole page exactly because the page was    *)
(* full; and trimming relies on the counter.                               *)
(***************************************************************************)
EXTENDS MemPoolSlots, PoolMemory, FiniteSetTheorems, TLAPS

\* No page belongs to two slots.
PagesApart == \A s, t \in Slots : s # t => pages[s] \intersect pages[t] = {}

IInv == TypeOK /\ Exclusive /\ PagesApart /\ NoLeak /\ CountExact /\ Trimmed

\* What the invariant says of one slot.
Safe(s) ==
    \A m \in Held(s) :
        /\ content[m].page \in pages[s]
        /\ content[m].idx \in 1 .. onePageObjsCnt[s]
        /\ Object(m) \notin objs[s]
        /\ \A n \in Held(s) : Object(n) = Object(m) => n = m

Covered(s) ==
    objs[s] \union {Object(m) : m \in Held(s)} = pages[s] \X (1 .. onePageObjsCnt[s])

SlotInv(s) ==
    /\ Safe(s)
    /\ Covered(s)
    /\ cnt[s] = Cardinality(objs[s])
    /\ TooManyFree(s, cnt[s]) => FullPages(s, objs[s]) = {}

\* A page of a slot is split into onePageObjsCnt objects.
LEMMA PageSize ==
  ASSUME NEW s \in Slots, NEW p
  PROVE  /\ IsFiniteSet(PageObjs(s, p))
         /\ Cardinality(PageObjs(s, p)) = onePageObjsCnt[s]
<1>1. onePageObjsCnt[s] \in Nat /\ onePageObjsCnt[s] >= 1
  BY SlotsAssumption
<1>2. IsFiniteSet(1 .. onePageObjsCnt[s])
      /\ Cardinality(1 .. onePageObjsCnt[s]) = onePageObjsCnt[s]
  BY SMTT(60), <1>1, FS_Interval
<1>3. IsFiniteSet({p}) /\ Cardinality({p}) = 1
  BY Zenon, FS_Singleton
<1>4. /\ IsFiniteSet({p} \X (1 .. onePageObjsCnt[s]))
      /\ Cardinality({p} \X (1 .. onePageObjsCnt[s]))
           = Cardinality({p}) * Cardinality(1 .. onePageObjsCnt[s])
  BY Zenon, <1>2, <1>3, FS_Product
<1>5. Cardinality({p}) * Cardinality(1 .. onePageObjsCnt[s]) = onePageObjsCnt[s]
  <2>1. 1 * onePageObjsCnt[s] = onePageObjsCnt[s]
    BY <1>1
  <2> QED BY Zenon, <1>2, <1>3, <2>1
<1> QED BY Zenon, <1>4, <1>5 DEF PageObjs

\* The free objects of a slot are finitely many objects of its pages.
LEMMA FreeFinite ==
  ASSUME TypeOK, NoLeak, NEW s \in Slots
  PROVE  /\ objs[s] \subseteq pages[s] \X (1 .. onePageObjsCnt[s])
         /\ IsFiniteSet(objs[s])
         /\ Cardinality(objs[s]) \in Nat
<1>1. objs[s] \subseteq pages[s] \X (1 .. onePageObjsCnt[s])
  BY Zenon DEF NoLeak
<1>2. IsFiniteSet(pages[s])
  BY Zenon, SlotsAssumption, FS_Subset DEF TypeOK
<1>3. IsFiniteSet(1 .. onePageObjsCnt[s])
  BY SlotsAssumption, FS_Interval
<1>4. IsFiniteSet(pages[s] \X (1 .. onePageObjsCnt[s]))
  BY Zenon, <1>2, <1>3, FS_Product
<1> QED BY Zenon, <1>1, <1>4, FS_Subset, FS_CardinalityType

\* What taking a handle does to the sets of handles in use.
LEMMA HandleTaken ==
  ASSUME TypeOK, NEW m \in MemObjects, NEW s \in Slots, NEW o \in Pages \X Nat,
         get_mem_object(m, s, o)
  PROVE  /\ state' \in [MemObjects -> {"none", "held", "putting", "free"}]
         /\ content' \in [MemObjects -> Contents \union {NoContent}]
         /\ \A n \in MemObjects : state'[n] = "held" => content'[n] \in Contents
         /\ m \notin Held(s)
         /\ Held(s)' = Held(s) \union {m}
         /\ \A t \in Slots \ {s} : Held(t)' = Held(t)
         /\ \A n \in MemObjects \ {m} : content'[n] = content[n]
         /\ content'[m] = [slot |-> s, page |-> o[1], idx |-> o[2]]
         /\ Object(m)' = o
<1>1. /\ state[m] \in {"free", "none"}
      /\ state' = [state EXCEPT ![m] = "held"]
      /\ content' = [content EXCEPT ![m] = [slot |-> s, page |-> o[1], idx |-> o[2]]]
  BY Zenon DEF get_mem_object
<1>2. /\ o[1] \in Pages /\ o[2] \in Nat /\ o = <<o[1], o[2]>>
      /\ [slot |-> s, page |-> o[1], idx |-> o[2]] \in Contents
  BY DEF Contents
<1>3. /\ \A n \in MemObjects \ {m} : content'[n] = content[n] /\ state'[n] = state[n]
      /\ content'[m] = [slot |-> s, page |-> o[1], idx |-> o[2]]
      /\ state'[m] = "held"
  BY Zenon, <1>1 DEF TypeOK
<1>4. /\ state' \in [MemObjects -> {"none", "held", "putting", "free"}]
      /\ content' \in [MemObjects -> Contents \union {NoContent}]
      /\ \A n \in MemObjects : state'[n] = "held" => content'[n] \in Contents
  BY Zenon, <1>1, <1>2, <1>3 DEF TypeOK
<1>5. Object(m)' = o
  BY <1>2, <1>3 DEF Object
<1>6. m \notin Held(s) /\ \A t \in Slots : m \notin Held(t)
  BY Zenon, <1>1 DEF Held
<1>7. Held(s)' = Held(s) \union {m} /\ \A t \in Slots \ {s} : Held(t)' = Held(t)
  BY <1>1, <1>3, <1>6 DEF Held
<1> QED BY Zenon, <1>3, <1>4, <1>5, <1>6, <1>7

\* The invariant, slot by slot.
LEMMA BySlot == IInv <=> TypeOK /\ PagesApart /\ \A s \in Slots : SlotInv(s)
  BY Zenon DEF IInv, SlotInv, Safe, Covered, Exclusive, NoLeak, CountExact, Trimmed, TooManyFree, FullPages

\* The same of the state after a step.
LEMMA BySlotNext == IInv' <=> TypeOK' /\ PagesApart' /\ \A s \in Slots : SlotInv(s)'
  BY Zenon DEF IInv, SlotInv, Safe, Covered, Exclusive, NoLeak, CountExact, Trimmed, TooManyFree, FullPages

\* A slot that a step does not touch keeps its part of the invariant.
LEMMA Frame ==
  ASSUME NEW t \in Slots, SlotInv(t), pages'[t] = pages[t], objs'[t] = objs[t],
         cnt'[t] = cnt[t], Held(t)' = Held(t),
         \A n \in Held(t) : content'[n] = content[n]
  PROVE  SlotInv(t)'
<1>1. \A n \in Held(t) : Object(n)' = Object(n)
  BY Zenon DEF Object
<1>2. {Object(n)' : n \in Held(t)} = {Object(n) : n \in Held(t)}
  BY Zenon, <1>1
<1>3. Safe(t)'
  BY <1>1 DEF SlotInv, Safe
<1>4. Covered(t)'
  BY Zenon, <1>2 DEF SlotInv, Covered
<1>5. cnt'[t] = Cardinality(objs'[t])
  BY Zenon DEF SlotInv
<1>6. TooManyFree(t, cnt'[t]) => FullPages(t, objs[t])' = {}
  BY Zenon DEF SlotInv, FullPages
<1> QED BY Zenon, <1>3, <1>4, <1>5, <1>6 DEF SlotInv, TooManyFree, FullPages

\* Handing out object o of the slot's free set F, where F is the old free set
\* or the objects of a fresh page.
LEMMA Taking ==
  ASSUME TypeOK, NEW s \in Slots, SlotInv(s), NEW m \in MemObjects, NEW F, NEW o \in F,
         NEW P, get_mem_object(m, s, o), o \in Pages \X Nat,
         pages'[s] = P, objs'[s] = F \ {o}, cnt'[s] = Cardinality(F) - 1,
         IsFiniteSet(F), P \in SUBSET Pages, pages[s] \subseteq P,
         F \union {Object(n) : n \in Held(s)} = P \X (1 .. onePageObjsCnt[s]),
         F \intersect {Object(n) : n \in Held(s)} = {},
         TooManyFree(s, Cardinality(F) - 1) =>
             \A p \in P : PageObjs(s, p) \subseteq F => o \in PageObjs(s, p)
  PROVE  SlotInv(s)'
<1>1. /\ m \notin Held(s) /\ Held(s)' = Held(s) \union {m}
      /\ \A n \in MemObjects \ {m} : content'[n] = content[n]
      /\ content'[m] = [slot |-> s, page |-> o[1], idx |-> o[2]]
      /\ Object(m)' = o
  BY HandleTaken
<1>2. \A n \in Held(s) : Object(n)' = Object(n) /\ content'[n] = content[n]
  BY Zenon, <1>1 DEF Object, Held
<1>3. o[1] \in P /\ o[2] \in 1 .. onePageObjsCnt[s]
  BY Zenon
<1>4. Safe(s)'
  <2> SUFFICES ASSUME NEW n \in Held(s)'
               PROVE  /\ content'[n].page \in pages'[s]
                      /\ content'[n].idx \in 1 .. onePageObjsCnt[s]
                      /\ Object(n)' \notin objs'[s]
                      /\ \A k \in Held(s)' : Object(k)' = Object(n)' => k = n
    BY Zenon DEF Safe
  <2>1. CASE n = m
    BY <1>1, <1>2, <1>3, <2>1
  <2>2. CASE n \in Held(s)
    <3>1. /\ content[n].page \in pages[s] /\ content[n].idx \in 1 .. onePageObjsCnt[s]
          /\ \A k \in Held(s) : Object(k) = Object(n) => k = n
      BY Zenon, <2>2 DEF SlotInv, Safe
    <3>2. Object(n) \notin F /\ Object(n) # o
      BY Zenon, <2>2
    <3> QED BY Zenon, <1>1, <1>2, <2>2, <3>1, <3>2
  <2> QED BY Zenon, <1>1, <2>1, <2>2
<1>5. Covered(s)'
  <2>1. {Object(n)' : n \in Held(s)'} = {Object(n) : n \in Held(s)} \union {o}
    BY <1>1, <1>2
  <2> QED BY Zenon, <2>1 DEF Covered
<1>6. cnt'[s] = Cardinality(objs'[s])
  BY Zenon, FS_RemoveElement
<1>7. TooManyFree(s, cnt'[s]) => FullPages(s, objs[s])' = {}
  BY Zenon DEF FullPages
<1> QED BY Zenon, <1>4, <1>5, <1>6, <1>7 DEF SlotInv, TooManyFree, FullPages

\* Get keeps the invariant, whether or not it allocates a page.
LEMMA GetKeeps ==
  ASSUME IInv, NEW s \in Slots, NEW m \in MemObjects, Get(s, m)
  PROVE  IInv'
<1>0. TypeOK /\ PagesApart /\ NoLeak /\ \A t \in Slots : SlotInv(t)
  BY Zenon, BySlot DEF IInv
<1>1. onePageObjsCnt[s] \in Nat \ {0} /\ residentCnts[s] \in Nat
  BY Zenon, SlotsAssumption
<1>2. ASSUME NEW o \in Pages \X Nat, get_mem_object(m, s, o), SlotInv(s)',
             pages' \in [Slots -> SUBSET Pages], PagesApart',
             objs' \in [Slots -> SUBSET (Pages \X Nat)], cnt' \in [Slots -> Nat],
             \A t \in Slots \ {s} : /\ pages'[t] = pages[t] /\ objs'[t] = objs[t]
                                    /\ cnt'[t] = cnt[t]
      PROVE  IInv'
  <2>1. TypeOK'
    BY Zenon, <1>0, <1>2, HandleTaken DEF TypeOK
  <2>2. ASSUME NEW t \in Slots PROVE SlotInv(t)'
    <3>1. CASE t = s
      BY Zenon, <1>2, <3>1
    <3>2. CASE t # s
      <4>1. Held(t)' = Held(t) /\ \A n \in MemObjects \ {m} : content'[n] = content[n]
        BY Zenon, <1>0, <1>2, <3>2, HandleTaken
      <4>2. m \notin Held(t)
        BY Zenon, <1>2 DEF get_mem_object, Held
      <4>3. \A n \in Held(t) : content'[n] = content[n]
        BY Zenon, <4>1, <4>2 DEF Held
      <4> QED BY Zenon, <1>0, <1>2, <3>2, <4>1, <4>3, Frame
    <3> QED BY Zenon, <3>1, <3>2
  <2> QED BY Zenon, <1>2, <2>1, <2>2, BySlotNext
<1>3. ASSUME NEW o \in objs[s], objs' = [objs EXCEPT ![s] = @ \ {o}],
             cnt' = [cnt EXCEPT ![s] = @ - 1], get_mem_object(m, s, o), pages' = pages
      PROVE  IInv'
  <2>1. /\ IsFiniteSet(objs[s]) /\ cnt[s] = Cardinality(objs[s])
        /\ Cardinality(objs[s]) \in Nat /\ Cardinality(objs[s]) >= 1
        /\ o \in Pages \X Nat
    BY <1>0, FreeFinite, FS_EmptySet DEF TypeOK, SlotInv
  <2>2. /\ pages'[s] = pages[s] /\ objs'[s] = objs[s] \ {o}
        /\ cnt'[s] = Cardinality(objs[s]) - 1
    BY Zenon, <1>0, <1>3, <2>1 DEF TypeOK
  <2>3. /\ pages[s] \in SUBSET Pages
        /\ objs[s] \union {Object(n) : n \in Held(s)} = pages[s] \X (1 .. onePageObjsCnt[s])
        /\ objs[s] \intersect {Object(n) : n \in Held(s)} = {}
    BY <1>0 DEF TypeOK, SlotInv, Safe, Covered
  <2>4. TooManyFree(s, Cardinality(objs[s]) - 1) =>
          \A p \in pages[s] : PageObjs(s, p) \subseteq objs[s] => o \in PageObjs(s, p)
    BY <1>0, <1>1, <2>1 DEF TooManyFree, SlotInv, FullPages
  <2>5. SlotInv(s)'
    BY Zenon, <1>0, <1>3, <2>1, <2>2, <2>3, <2>4, Taking
  <2>6. /\ objs' \in [Slots -> SUBSET (Pages \X Nat)] /\ cnt' \in [Slots -> Nat]
        /\ pages' \in [Slots -> SUBSET Pages] /\ PagesApart'
    BY <1>0, <1>3, <2>1 DEF TypeOK, PagesApart
  <2>7. \A t \in Slots \ {s} : /\ pages'[t] = pages[t] /\ objs'[t] = objs[t]
                               /\ cnt'[t] = cnt[t]
    BY Zenon, <1>0, <1>3 DEF TypeOK
  <2> QED BY Zenon, <1>2, <1>3, <2>1, <2>5, <2>6, <2>7
<1>4. ASSUME objs[s] = {}, NEW p \in Pages \ UNION {pages[t] : t \in Slots},
             NEW o \in PageObjs(s, p), pages' = [pages EXCEPT ![s] = @ \union {p}],
             objs' = [objs EXCEPT ![s] = PageObjs(s, p) \ {o}],
             cnt' = [cnt EXCEPT ![s] = onePageObjsCnt[s] - 1], get_mem_object(m, s, o)
      PROVE  IInv'
  <2>1. /\ IsFiniteSet(PageObjs(s, p)) /\ Cardinality(PageObjs(s, p)) = onePageObjsCnt[s]
        /\ PageObjs(s, p) \subseteq Pages \X Nat /\ o \in Pages \X Nat
    <3>1. PageObjs(s, p) \subseteq Pages \X Nat
      BY <1>1, <1>4 DEF PageObjs
    <3> QED BY Zenon, <1>4, <3>1, PageSize
  <2>2. /\ pages'[s] = pages[s] \union {p} /\ objs'[s] = PageObjs(s, p) \ {o}
        /\ cnt'[s] = Cardinality(PageObjs(s, p)) - 1
    BY Zenon, <1>0, <1>4, <2>1 DEF TypeOK
  <2>3. pages[s] \union {p} \in SUBSET Pages /\ p \notin pages[s]
    BY Zenon, <1>0, <1>4 DEF TypeOK
  <2>4. {Object(n) : n \in Held(s)} = pages[s] \X (1 .. onePageObjsCnt[s])
    BY Zenon, <1>0, <1>4 DEF SlotInv, Covered
  <2>5. /\ PageObjs(s, p) \union {Object(n) : n \in Held(s)}
             = (pages[s] \union {p}) \X (1 .. onePageObjsCnt[s])
        /\ PageObjs(s, p) \intersect {Object(n) : n \in Held(s)} = {}
    BY Zenon, <2>3, <2>4 DEF PageObjs
  <2>6. TooManyFree(s, Cardinality(PageObjs(s, p)) - 1) =>
          \A q \in pages[s] \union {p} :
            PageObjs(s, q) \subseteq PageObjs(s, p) => o \in PageObjs(s, q)
    <3> SUFFICES ASSUME NEW q \in pages[s] \union {p},
                        PageObjs(s, q) \subseteq PageObjs(s, p)
                 PROVE  o \in PageObjs(s, q)
      BY Zenon
    <3>1. <<q, 1>> \in PageObjs(s, q)
      BY <1>1 DEF PageObjs
    <3>2. q = p
      BY Zenon, <3>1 DEF PageObjs
    <3> QED BY Zenon, <1>4, <3>2
  <2>7. SlotInv(s)'
    BY Zenon, <1>0, <1>4, <2>1, <2>2, <2>3, <2>5, <2>6, Taking
  <2>8. /\ objs' \in [Slots -> SUBSET (Pages \X Nat)] /\ cnt' \in [Slots -> Nat]
        /\ pages' \in [Slots -> SUBSET Pages]
    BY <1>0, <1>1, <1>4, <2>1, <2>3 DEF TypeOK
  <2>9. PagesApart'
    BY <1>0, <1>4 DEF TypeOK, PagesApart
  <2>10. \A t \in Slots \ {s} : /\ pages'[t] = pages[t] /\ objs'[t] = objs[t]
                                /\ cnt'[t] = cnt[t]
    BY Zenon, <1>0, <1>4 DEF TypeOK
  <2> QED BY Zenon, <1>2, <1>4, <2>1, <2>7, <2>8, <2>9, <2>10
<1> QED BY Zenon, <1>3, <1>4 DEF NewPages, Get

\* Returning an object keeps the invariant: the handle's object was not free,
\* and a page is given back only when none of its objects is held.
LEMMA PutKeeps ==
  ASSUME IInv, NEW m \in MemObjects, put(m)
  PROVE  IInv'
<1>0. TypeOK /\ PagesApart /\ NoLeak /\ \A t \in Slots : SlotInv(t)
  BY Zenon, BySlot DEF IInv
<1>a. PICK s \in Slots : s = content[m].slot
  BY Zenon, <1>0 DEF put, TypeOK, Contents
<1> DEFINE o == Object(m)
           freed == objs[s] \union {o}
           n == cnt[s] + 1
           rest == {Object(k) : k \in Held(s) \ {m}}
<1>1. /\ state[m] = "held" /\ state' = [state EXCEPT ![m] = "putting"]
      /\ content' = content
      /\ \/ \E p \in FullPages(s, freed) :
              /\ TooManyFree(s, n)
              /\ pages' = [pages EXCEPT ![s] = @ \ {p}]
              /\ objs' = [objs EXCEPT ![s] = freed \ PageObjs(s, p)]
              /\ cnt' = [cnt EXCEPT ![s] = n - onePageObjsCnt[s]]
         \/ /\ TooManyFree(s, n) => FullPages(s, freed) = {}
            /\ objs' = [objs EXCEPT ![s] = freed]
            /\ cnt' = [cnt EXCEPT ![s] = n]
            /\ pages' = pages
  BY Zenon, <1>a DEF put
<1>2. /\ m \in Held(s) /\ SlotInv(s)
      /\ onePageObjsCnt[s] \in Nat \ {0} /\ residentCnts[s] \in Nat
  BY Zenon, <1>0, <1>1, <1>a, SlotsAssumption DEF Held
<1>3. /\ Held(s)' = Held(s) \ {m}
      /\ \A t \in Slots \ {s} : Held(t)' = Held(t)
      /\ \A k \in MemObjects : Object(k)' = Object(k)
  BY Zenon, <1>0, <1>1, <1>2, <1>a DEF Held, Object, TypeOK
<1>4. /\ o \in pages[s] \X (1 .. onePageObjsCnt[s]) /\ o \notin objs[s] /\ o \notin rest
      /\ freed \union rest = pages[s] \X (1 .. onePageObjsCnt[s])
      /\ freed \intersect rest = {}
  BY <1>2 DEF SlotInv, Safe, Covered, Object
<1>5. /\ IsFiniteSet(freed) /\ Cardinality(freed) = n /\ n \in Nat /\ n >= 1
      /\ cnt[s] = Cardinality(objs[s]) /\ cnt[s] \in Nat
  BY <1>0, <1>2, <1>4, FreeFinite, FS_AddElement DEF SlotInv, TypeOK
<1>6. /\ freed \in SUBSET (Pages \X Nat)
      /\ state' \in [MemObjects -> {"none", "held", "putting", "free"}]
      /\ content' \in [MemObjects -> Contents \union {NoContent}]
      /\ \A k \in MemObjects : state'[k] = "held" => content'[k] \in Contents
  <2>1. pages[s] \X (1 .. onePageObjsCnt[s]) \subseteq Pages \X Nat
    BY <1>0, <1>2 DEF TypeOK
  <2> QED BY Zenon, <1>0, <1>1, <1>4, <2>1 DEF TypeOK
<1>7. ASSUME pages' \in [Slots -> SUBSET Pages], objs' \in [Slots -> SUBSET (Pages \X Nat)],
             cnt' \in [Slots -> Nat], SlotInv(s)', \A t \in Slots : pages'[t] \subseteq pages[t],
             \A t \in Slots \ {s} : /\ pages'[t] = pages[t] /\ objs'[t] = objs[t]
                                    /\ cnt'[t] = cnt[t]
      PROVE  IInv'
  <2>1. TypeOK' /\ PagesApart'
    BY Zenon, <1>0, <1>6, <1>7 DEF TypeOK, PagesApart
  <2>2. ASSUME NEW t \in Slots \ {s} PROVE SlotInv(t)'
    BY Zenon, <1>0, <1>1, <1>3, <1>7, <2>2, Frame
  <2> QED BY Zenon, <1>7, <2>1, <2>2, BySlotNext
<1>8. {Object(k)' : k \in Held(s)'} = rest
  BY <1>2, <1>3 DEF Held
<1>9. ASSUME NEW p \in FullPages(s, freed), TooManyFree(s, n),
             pages' = [pages EXCEPT ![s] = @ \ {p}],
             objs' = [objs EXCEPT ![s] = freed \ PageObjs(s, p)],
             cnt' = [cnt EXCEPT ![s] = n - onePageObjsCnt[s]]
      PROVE  IInv'
  <2>1. /\ pages'[s] = pages[s] \ {p} /\ objs'[s] = freed \ PageObjs(s, p)
        /\ cnt'[s] = n - onePageObjsCnt[s]
        /\ \A t \in Slots \ {s} : pages'[t] = pages[t] /\ objs'[t] = objs[t] /\ cnt'[t] = cnt[t]
    BY Zenon, <1>0, <1>2, <1>9 DEF TypeOK
  <2>2. p \in pages[s] /\ PageObjs(s, p) \subseteq freed
    BY Zenon, <1>9 DEF FullPages
  <2>3. /\ IsFiniteSet(freed \ PageObjs(s, p))
        /\ Cardinality(freed \ PageObjs(s, p)) = n - onePageObjsCnt[s]
    <3>1. freed \intersect PageObjs(s, p) = PageObjs(s, p)
      BY Zenon, <2>2
    <3>2. Cardinality(PageObjs(s, p)) = onePageObjsCnt[s]
      BY Zenon, PageSize
    <3>3. /\ IsFiniteSet(freed \ PageObjs(s, p))
          /\ Cardinality(freed \ PageObjs(s, p))
               = Cardinality(freed) - Cardinality(freed \intersect PageObjs(s, p))
      BY Zenon, <1>5, FS_Difference
    <3> QED BY Zenon, <1>5, <3>1, <3>2, <3>3
  <2>4. n - onePageObjsCnt[s] \in Nat
    BY Zenon, <2>3, FS_CardinalityType
  <2>5. Safe(s)'
    <3> SUFFICES ASSUME NEW k \in Held(s) \ {m}
                 PROVE  /\ content[k].page \in pages[s] \ {p}
                        /\ content[k].idx \in 1 .. onePageObjsCnt[s]
                        /\ Object(k) \notin freed \ PageObjs(s, p)
                        /\ \A j \in Held(s) \ {m} : Object(j) = Object(k) => j = k
      BY Zenon, <1>1, <1>3, <2>1 DEF Safe, Object, Held
    <3>1. /\ content[k].page \in pages[s] /\ content[k].idx \in 1 .. onePageObjsCnt[s]
          /\ \A j \in Held(s) : Object(j) = Object(k) => j = k
      BY Zenon, <1>2 DEF SlotInv, Safe
    <3>2. Object(k) \notin freed
      BY Zenon, <1>4
    <3>3. content[k].page # p
      BY Zenon, <2>2, <3>1, <3>2 DEF PageObjs, Object
    <3> QED BY Zenon, <3>1, <3>2, <3>3
  <2>6. Covered(s)'
    <3>1. (freed \ PageObjs(s, p)) \union rest
            = (pages[s] \ {p}) \X (1 .. onePageObjsCnt[s])
      BY Zenon, <1>4, <2>2 DEF PageObjs
    <3> QED BY Zenon, <1>8, <2>1, <3>1 DEF Covered
  <2>7. TooManyFree(s, cnt'[s]) => FullPages(s, objs[s])' = {}
    <3> SUFFICES ASSUME TooManyFree(s, n - onePageObjsCnt[s]) PROVE FullPages(s, objs[s])' = {}
      BY Zenon, <2>1
    <3>1. TooManyFree(s, cnt[s])
      BY <1>2, <1>5, <2>4 DEF TooManyFree
    <3>2. \A q \in pages[s] : ~(PageObjs(s, q) \subseteq objs[s])
      BY Zenon, <1>2, <3>1 DEF SlotInv, FullPages
    <3>3. ASSUME NEW q \in pages[s] \ {p}
          PROVE  ~(PageObjs(s, q) \subseteq freed \ PageObjs(s, p))
      <4>1. o \in PageObjs(s, p)
        BY Zenon, <2>2, <3>2
      <4> QED BY Zenon, <3>2, <4>1
    <3> QED BY Zenon, <2>1, <3>3 DEF FullPages
  <2>8. SlotInv(s)'
    BY Zenon, <2>1, <2>3, <2>5, <2>6, <2>7 DEF SlotInv, TooManyFree, FullPages
  <2>9. /\ pages' \in [Slots -> SUBSET Pages] /\ objs' \in [Slots -> SUBSET (Pages \X Nat)]
        /\ cnt' \in [Slots -> Nat] /\ \A t \in Slots : pages'[t] \subseteq pages[t]
    BY Zenon, <1>0, <1>2, <1>6, <1>9, <2>4 DEF TypeOK
  <2> QED BY Zenon, <1>7, <2>1, <2>8, <2>9
<1>10. ASSUME TooManyFree(s, n) => FullPages(s, freed) = {}, pages' = pages,
              objs' = [objs EXCEPT ![s] = freed], cnt' = [cnt EXCEPT ![s] = n]
       PROVE  IInv'
  <2>1. /\ objs'[s] = freed /\ cnt'[s] = n
        /\ \A t \in Slots \ {s} : pages'[t] = pages[t] /\ objs'[t] = objs[t] /\ cnt'[t] = cnt[t]
    BY Zenon, <1>0, <1>2, <1>10 DEF TypeOK
  <2>2. Safe(s)'
    <3> SUFFICES ASSUME NEW k \in Held(s) \ {m}
                 PROVE  /\ content[k].page \in pages[s]
                        /\ content[k].idx \in 1 .. onePageObjsCnt[s]
                        /\ Object(k) \notin freed
                        /\ \A j \in Held(s) \ {m} : Object(j) = Object(k) => j = k
      BY Zenon, <1>1, <1>3, <1>10, <2>1 DEF Safe, Object, Held
    <3> QED BY Zenon, <1>2, <1>4 DEF SlotInv, Safe
  <2>3. Covered(s)'
    BY Zenon, <1>4, <1>8, <1>10, <2>1 DEF Covered
  <2>4. SlotInv(s)'
    BY Zenon, <1>5, <1>10, <2>1, <2>2, <2>3 DEF SlotInv, TooManyFree, FullPages
  <2>5. /\ pages' \in [Slots -> SUBSET Pages] /\ objs' \in [Slots -> SUBSET (Pages \X Nat)]
        /\ cnt' \in [Slots -> Nat] /\ \A t \in Slots : pages'[t] \subseteq pages[t]
    BY Zenon, <1>0, <1>2, <1>5, <1>6, <1>10 DEF TypeOK
  <2> QED BY Zenon, <1>7, <2>1, <2>4, <2>5
<1> QED BY Zenon, <1>1, <1>9, <1>10

\* The handle goes back to the free handles; no object is involved.
LEMMA PutHandleKeeps ==
  ASSUME IInv, NEW m \in MemObjects, PutHandle(m)
  PROVE  IInv'
<1>0. TypeOK /\ PagesApart /\ \A t \in Slots : SlotInv(t)
  BY Zenon, BySlot DEF IInv
<1>1. /\ state[m] = "putting" /\ state' = [state EXCEPT ![m] = "free"]
      /\ content' = [content EXCEPT ![m] = NoContent]
      /\ pages' = pages /\ objs' = objs /\ cnt' = cnt
  BY Zenon DEF PutHandle
<1>2. TypeOK' /\ PagesApart'
  BY Zenon, <1>0, <1>1 DEF TypeOK, PagesApart
<1>3. ASSUME NEW t \in Slots PROVE SlotInv(t)'
  <2>1. Held(t)' = Held(t) /\ \A k \in Held(t) : content'[k] = content[k]
    BY Zenon, <1>0, <1>1 DEF Held, TypeOK
  <2> QED BY Zenon, <1>0, <1>1, <2>1, Frame
<1> QED BY Zenon, <1>2, <1>3, BySlotNext

\* The inductive invariant holds of every reachable state.
THEOREM SlotsInvariant == Spec => []IInv
<1>1. Init => IInv
  <2> SUFFICES ASSUME Init PROVE IInv
    BY Zenon
  <2>1. \A s \in Slots : Held(s) = {} /\ pages[s] = {} /\ objs[s] = {} /\ cnt[s] = 0
    BY Zenon DEF Init, Held
  <2>2. TypeOK /\ PagesApart
    BY Zenon DEF Init, TypeOK, PagesApart
  <2>3. \A s \in Slots : SlotInv(s)
    BY Zenon, <2>1, FS_EmptySet DEF SlotInv, Safe, Covered, FullPages
  <2> QED BY Zenon, <2>2, <2>3, BySlot
<1>2. IInv /\ [Next]_vars => IInv'
  <2> SUFFICES ASSUME IInv, [Next]_vars PROVE IInv'
    BY Zenon
  <2>1. CASE UNCHANGED vars
    BY <2>1 DEF vars, IInv, TypeOK, Exclusive, PagesApart, NoLeak, CountExact, Trimmed,
                Held, Object, FullPages
  <2> QED BY Zenon, <2>1, GetKeeps, PutKeeps, PutHandleKeeps DEF Next
<1> QED BY <1>1, <1>2, PTL DEF Spec

\* Memory safety of tiny, small and big objects: no two users share memory and
\* none holds memory that put has given back to the system.
THEOREM SlotsExclusive == Spec => []Exclusive
  BY SlotsInvariant, PTL DEF IInv

\* No object is ever lost, so the destructor frees everything.
THEOREM SlotsNoLeak == Spec => []NoLeak
  BY SlotsInvariant, PTL DEF IInv

\* The counters of free objects are exact and the pool does not hoard pages.
THEOREM SlotsTrimmed == Spec => [](CountExact /\ Trimmed)
  BY SlotsInvariant, PTL DEF IInv

----------------------------------------------------------------------------
\* The objects a page of slot s is split into.
BulkPageObjs(s, p) == Bulk!Object(s, p, Bulk!ObjsPerPage(s))

\* Object o is one of those its page was split into, and the page is live.
BulkProper(o) ==
    o.slot \in BulkSlots /\ o.page \in live /\ o \in BulkPageObjs(o.slot, o.page)

BulkFree(o) == \E s \in BulkSlots : o \in bulkObjs[s]

\* Every object that is held or free is proper, free objects are where their
\* size says and not held, and the objects of a page are all of one size.
BulkIInv ==
    /\ bulkObjs = [s \in BulkSlots |-> bulkObjs[s]]
    /\ \A o : o \in held \/ BulkFree(o) => BulkProper(o)
    /\ \A s \in BulkSlots : \A o \in bulkObjs[s] : o.slot = s /\ o \notin held
    /\ \A o, x : /\ o \in held \/ BulkFree(o)
                 /\ x \in held \/ BulkFree(x)
                 /\ o.page = x.page
                 => o.slot = x.slot

\* An object is known by its slot, its page and its index.
LEMMA BulkSame ==
  ASSUME NEW o, NEW x, BulkProper(o), BulkProper(x),
         o.slot = x.slot, o.page = x.page, o.idx = x.idx
  PROVE  o = x
  BY DEF BulkProper, BulkPageObjs, Bulk!Object

\* No page is live and no object held at first.
LEMMA BulkInitIInv == Bulk!Init => BulkIInv
  BY Zenon DEF Bulk!Init, BulkIInv, BulkFree

\* What Get found moves from the free objects to the held ones; a whole entry
\* may be lost.
LEMMA BulkTake ==
  ASSUME BulkIInv, NEW need \in BulkSlots, NEW s \in BulkSlots, NEW o \in bulkObjs[s],
         Bulk!Take(need, s, o)
  PROVE  BulkIInv'
  <1>1. PICK gone : /\ bulkObjs' = [t \in BulkSlots |->
                                      IF t \in gone THEN {}
                                      ELSE IF t = s THEN bulkObjs[s] \ {o} ELSE bulkObjs[t]]
                    /\ held' = held \union {o}
                    /\ live' = live
    BY Zenon DEF Bulk!Take
  <1>2. \A t \in BulkSlots : bulkObjs'[t] \subseteq bulkObjs[t] \ {o}
    BY Zenon, <1>1 DEF BulkIInv
  <1>3. \A x : x \in held' \/ BulkFree(x)' => x \in held \/ BulkFree(x)
    BY Zenon, <1>1, <1>2 DEF BulkFree
  <1>4. bulkObjs' = [t \in BulkSlots |-> bulkObjs'[t]]
    BY Zenon, <1>1
  <1>5. \A x : x \in held' \/ BulkFree(x)' => BulkProper(x)'
    BY Zenon, <1>1, <1>3 DEF BulkIInv, BulkProper, BulkPageObjs, Bulk!Object, Bulk!ObjsPerPage
  <1>6. \A t \in BulkSlots : \A x \in bulkObjs'[t] : x.slot = t /\ x \notin held'
    BY Zenon, <1>1, <1>2 DEF BulkIInv
  <1> QED
    BY Zenon, <1>3, <1>4, <1>5, <1>6 DEF BulkIInv

\* A new page brings objects of its own.
LEMMA BulkGetNew ==
  ASSUME BulkIInv, NEW need \in BulkSlots, Bulk!GetNew(need)
  PROVE  BulkIInv'
  <1>1. PICK p, o :
            /\ p \in BulkPages \ live /\ o \in BulkPageObjs(need, p)
            /\ live' = live \union {p}
            /\ bulkObjs' = [bulkObjs EXCEPT ![need] = BulkPageObjs(need, p) \ {o}]
            /\ held' = held \union {o}
    BY Zenon DEF Bulk!GetNew, BulkPageObjs
  <1>2. \A x \in BulkPageObjs(need, p) : x.slot = need /\ x.page = p /\ BulkProper(x)'
    BY Zenon, <1>1 DEF BulkPageObjs, Bulk!Object, BulkProper, Bulk!ObjsPerPage
  <1>3. \A x : x \in held \/ BulkFree(x) =>
                 x.page # p /\ x \notin BulkPageObjs(need, p) /\ BulkProper(x)'
    <2> SUFFICES ASSUME NEW x, x \in held \/ BulkFree(x)
                 PROVE  x.page # p /\ x \notin BulkPageObjs(need, p) /\ BulkProper(x)'
      BY Zenon
    <2>1. x.page \in live /\ BulkProper(x)
      BY Zenon DEF BulkIInv, BulkProper
    <2>2. x.page # p /\ x.page \in live'
      BY Zenon, <1>1, <2>1
    <2> QED
      BY Zenon, <1>2, <2>1, <2>2 DEF BulkProper, BulkPageObjs, Bulk!Object, Bulk!ObjsPerPage
  <1>4. /\ bulkObjs' = [t \in BulkSlots |-> bulkObjs'[t]]
        /\ bulkObjs'[need] = BulkPageObjs(need, p) \ {o}
        /\ \A t \in BulkSlots : t # need => bulkObjs'[t] = bulkObjs[t]
    BY Zenon, <1>1 DEF BulkIInv
  <1>5. \A x : x \in held' \/ BulkFree(x)' =>
                 x \in BulkPageObjs(need, p) \/ x \in held \/ BulkFree(x)
    BY Zenon, <1>1, <1>4 DEF BulkFree
  <1>6. \A x : x \in held' \/ BulkFree(x)' => BulkProper(x)'
    BY Zenon, <1>2, <1>3, <1>5
  <1>7. \A t \in BulkSlots : \A x \in bulkObjs'[t] : x.slot = t /\ x \notin held'
    <2> SUFFICES ASSUME NEW t \in BulkSlots, NEW x \in bulkObjs'[t]
                 PROVE  x.slot = t /\ x \notin held'
      BY Zenon
    <2>1. CASE t = need
      BY Zenon, <1>1, <1>2, <1>3, <1>4, <2>1
    <2>2. CASE t # need
      <3>1. x \in bulkObjs[t] /\ BulkFree(x)
        BY Zenon, <1>4, <2>2 DEF BulkFree
      <3> QED
        BY Zenon, <1>1, <1>3, <3>1 DEF BulkIInv
    <2> QED
      BY Zenon, <2>1, <2>2
  <1>8. \A x, y : /\ x \in held' \/ BulkFree(x)'
                  /\ y \in held' \/ BulkFree(y)'
                  /\ x.page = y.page
                  => x.slot = y.slot
    <2> SUFFICES ASSUME NEW x, NEW y, x \in held' \/ BulkFree(x)', y \in held' \/ BulkFree(y)',
                        x.page = y.page
                 PROVE  x.slot = y.slot
      BY Zenon
    <2>1. CASE x \in BulkPageObjs(need, p)
      BY Zenon, <1>2, <1>3, <1>5, <2>1
    <2>2. CASE y \in BulkPageObjs(need, p)
      BY Zenon, <1>2, <1>3, <1>5, <2>2
    <2>3. CASE x \notin BulkPageObjs(need, p) /\ y \notin BulkPageObjs(need, p)
      BY Zenon, <1>5, <2>3 DEF BulkIInv
    <2> QED
      BY Zenon, <2>1, <2>2, <2>3
  <1> QED
    BY Zenon, <1>4, <1>6, <1>7, <1>8 DEF BulkIInv

\* What is left when object o is put and page p, if any, goes with it.
BulkRest(o, p) ==
    /\ o \in held /\ held' = held \ {o} /\ live' = live \ p
    /\ bulkObjs' = [t \in BulkSlots |-> bulkObjs'[t]]
    /\ \A t \in BulkSlots : \A x \in bulkObjs'[t] :
         (x \in bulkObjs[t] \/ (x = o /\ t = o.slot)) /\ x.page \notin p
    /\ \A x \in held : x # o => x.page \notin p

\* Putting an object keeps the invariant if the page that goes is nobody's.
LEMMA BulkRestIInv ==
  ASSUME BulkIInv, NEW o, NEW p, BulkRest(o, p)
  PROVE  BulkIInv'
  <1>1. \A x : x \in held' \/ BulkFree(x)' => (x \in held \/ BulkFree(x)) /\ x.page \notin p
    BY Zenon DEF BulkRest, BulkFree
  <1>2. \A x : x \in held' \/ BulkFree(x)' => BulkProper(x)'
    BY Zenon, <1>1 DEF BulkIInv, BulkProper, BulkPageObjs, Bulk!Object, Bulk!ObjsPerPage, BulkRest
  <1>3. \A t \in BulkSlots : \A x \in bulkObjs'[t] : x.slot = t /\ x \notin held'
    BY Zenon DEF BulkIInv, BulkRest
  <1>4. bulkObjs' = [t \in BulkSlots |-> bulkObjs'[t]]
    BY Zenon DEF BulkRest
  <1> QED
    BY Zenon, <1>1, <1>2, <1>3, <1>4 DEF BulkIInv

\* An object above the limit has its page to itself.
LEMMA BulkAlone ==
  ASSUME NEW o, NEW x, BulkProper(o), BulkProper(x), o.slot = x.slot, o.page = x.page,
         Bulk!ObjsPerPage(o.slot) = 1
  PROVE  o = x
  <1>1. o.idx \in 1 .. 1 /\ x.idx \in 1 .. 1
    BY Zenon DEF BulkProper, BulkPageObjs, Bulk!Object
  <1>2. o.idx = x.idx
    BY <1>1
  <1> QED
    BY Zenon, <1>2, BulkSame

\* The invariant is about the pages, the free and the held objects only.
LEMMA BulkUnchanged == BulkIInv /\ UNCHANGED <<live, bulkObjs, held>> => BulkIInv'
  BY Zenon DEF BulkIInv, BulkFree, BulkProper, BulkPageObjs, Bulk!Object, Bulk!ObjsPerPage

\* An object above the limit is dropped with its page, which has no other.
LEMMA BulkPutDrop ==
  ASSUME BulkIInv, NEW o \in held, Bulk!PutDrop(o)
  PROVE  BulkIInv'
  <1>1. CASE o.slot \notin trackKeys
    BY Zenon, <1>1, BulkUnchanged DEF Bulk!PutDrop, Bulk!Crash
  <1>2. CASE o.slot \in trackKeys
    <2>1. BulkProper(o) /\ o.slot \in BulkSlots
      BY Zenon DEF BulkIInv, BulkProper
    <2>2. Bulk!ObjsPerPage(o.slot) = 1
      <3>1. o.slot \in Nat /\ MaxReserve \in Nat /\ o.slot > MaxReserve
        BY Zenon, <2>1, BulkUse DEF Bulk!BulkAssumption, Bulk!PutDrop
      <3> QED
        BY <3>1 DEF Bulk!ObjsPerPage
    <2>3. \A x : x # o /\ (x \in held \/ BulkFree(x)) => x.page # o.page
      BY Zenon, <2>1, <2>2, BulkAlone DEF BulkIInv
    <2>4. held' = held \ {o} /\ live' = live \ {o.page} /\ bulkObjs' = bulkObjs
      BY Zenon, <1>2 DEF Bulk!PutDrop
    <2>5. BulkRest(o, {o.page})
      BY Zenon, <2>3, <2>4 DEF BulkRest, BulkIInv, BulkFree
    <2> QED
      BY Zenon, <2>5, BulkRestIInv
  <1> QED
    BY Zenon, <1>1, <1>2

\* As many free objects on a page as a full page has are all there are.
LEMMA BulkFullPage ==
  ASSUME BulkIInv, NEW o \in held,
         NEW p, p \in Bulk!FullPages(bulkObjs[o.slot] \union {o})
  PROVE  /\ \A t \in BulkSlots : t # o.slot => \A x \in bulkObjs[t] : x.page # p
         /\ \A y \in held : y.page = p => y = o
  <1> DEFINE F == {x \in bulkObjs[o.slot] \union {o} : x.page = p}
             s == o.slot
             n == Bulk!ObjsPerPage(s)
             f == [x \in F |-> x.idx]
  <1>1. Cardinality(F) = Factor /\ Factor \in Nat \ {0}
    <2>1. Bulk!Cardinality(F) = Cardinality(F)
      BY Zenon DEF Bulk!Cardinality, Cardinality
    <2> QED
      BY Zenon, <2>1, BulkUse DEF Bulk!BulkAssumption, Bulk!FullPages
  <1>2. PICK z : z \in F
    <2>1. F # {}
      BY Zenon, <1>1, FS_EmptySet
    <2> QED
      BY Zenon, <2>1
  <1>3. /\ s \in BulkSlots
        /\ \A x \in F : /\ x.slot = s /\ x.page = p /\ BulkProper(x)
                        /\ x \in held \/ BulkFree(x)
    BY Zenon DEF BulkIInv, BulkProper, BulkFree
  <1>0. \A t \in BulkSlots : t # o.slot => \A x \in bulkObjs[t] : x.page # p
    <2> SUFFICES ASSUME NEW t \in BulkSlots, NEW x \in bulkObjs[t], x.page = p PROVE t = o.slot
      BY Zenon
    <2>1. x.slot = t /\ BulkFree(x)
      BY Zenon DEF BulkIInv, BulkFree
    <2> QED
      BY Zenon, <1>2, <1>3, <2>1 DEF BulkIInv
  <1> SUFFICES ASSUME NEW y \in held, y.page = p PROVE y = o
    BY Zenon, <1>0
  <1>4. y.slot = s /\ BulkProper(y)
    BY Zenon, <1>2, <1>3 DEF BulkIInv
  <1>5. \E x \in F : x.idx = y.idx
    <2>1. CASE n = 1
      BY Zenon, <1>2, <1>3, <1>4, <2>1, BulkAlone
    <2>2. CASE n = Factor
      <3>1. \A x \in F : x.idx \in 1 .. Factor
        BY Zenon, <1>3, <2>2 DEF BulkProper, BulkPageObjs, Bulk!Object
      <3>2. y.idx \in 1 .. Factor
        BY Zenon, <1>4, <2>2 DEF BulkProper, BulkPageObjs, Bulk!Object
      <3>3. \A x, w \in F : x.idx = w.idx => x = w
        BY Zenon, <1>3, BulkSame
      <3> HIDE DEF F
      <3>4. f \in Injection(F, 1 .. Factor)
        <4>1. f \in [F -> 1 .. Factor] /\ \A x \in F : f[x] = x.idx
          BY Zenon, <3>1
        <4> HIDE DEF f
        <4>2. \A x, w \in F : f[x] = f[w] => x = w
          BY Zenon, <3>3, <4>1
        <4> QED
          BY Zenon, <4>1, <4>2 DEF Injection, IsInjective
      <3>5. IsFiniteSet(1 .. Factor) /\ Cardinality(1 .. Factor) = Factor
        BY <1>1, FS_Interval
      <3>6. f \in Surjection(F, 1 .. Factor)
        BY Zenon, <1>1, <3>4, <3>5, FS_Injection
      <3> QED
        BY Zenon, <3>2, <3>6 DEF Surjection
    <2> QED
      BY Zenon, <2>1, <2>2 DEF Bulk!ObjsPerPage
  <1>6. y \in F
    BY Zenon, <1>3, <1>4, <1>5, BulkSame
  <1> QED
    BY Zenon, <1>3, <1>6 DEF BulkIInv

\* An object that is kept is free, or goes with a page all of whose objects are.
LEMMA BulkPutKeep ==
  ASSUME BulkIInv, NEW o \in held, Bulk!PutKeep(o)
  PROVE  BulkIInv'
  <1> DEFINE s == o.slot
             free == bulkObjs[s] \union {o}
  <1>1. s \in BulkSlots /\ o.page \in live /\ s <= MaxReserve /\ held' = held \ {o}
    BY Zenon DEF BulkIInv, BulkProper, Bulk!PutKeep
  <1>2. CASE /\ live' = live
             /\ bulkObjs' = [bulkObjs EXCEPT ![s] = free]
    <2>1. live' = live \ {}
      BY Zenon, <1>2
    <2>2. BulkRest(o, {})
      BY Zenon, <1>1, <1>2, <2>1 DEF BulkRest, BulkIInv
    <2> QED
      BY Zenon, <2>2, BulkRestIInv
  <1>3. ASSUME NEW p \in Bulk!FullPages(free), live' = live \ {p},
               bulkObjs' = [bulkObjs EXCEPT ![s] = {x \in free : x.page # p}]
        PROVE  BulkIInv'
    <2>1. /\ \A t \in BulkSlots : t # s => \A x \in bulkObjs[t] : x.page # p
          /\ \A y \in held : y.page = p => y = o
      BY Zenon, <1>3, BulkFullPage
    <2>3. BulkRest(o, {p})
      BY Zenon, <1>1, <1>3, <2>1 DEF BulkRest, BulkIInv
    <2> QED
      BY Zenon, <2>3, BulkRestIInv
  <1> QED
    BY Zenon, <1>2, <1>3 DEF Bulk!PutKeep

\* Every step of Get and put keeps the invariant.
LEMMA BulkNextIInv == BulkIInv /\ [Bulk!Next]_(Bulk!vars) => BulkIInv'
  <1> SUFFICES ASSUME BulkIInv, [Bulk!Next]_(Bulk!vars) PROVE BulkIInv'
    BY Zenon
  <1>2. ASSUME NEW need \in BulkSlots, Bulk!Get(need) PROVE BulkIInv'
    <2>1. CASE Bulk!GetFound(need)
      BY Zenon, <2>1, BulkUnchanged, BulkTake DEF Bulk!GetFound, Bulk!Crash
    <2>2. CASE Bulk!GetFails(need)
      BY Zenon, <2>2, BulkUnchanged DEF Bulk!GetFails
    <2> QED
      BY Zenon, <1>2, <2>1, <2>2, BulkGetNew DEF Bulk!Get
  <1> QED
    BY Zenon, <1>2, BulkUnchanged, BulkPutDrop, BulkPutKeep DEF Bulk!Next, Bulk!vars

\* Bulk objects are handed to one user at a time and never lie in a page that
\* was given back (BulkExclusive), however Get reuses larger sizes, whichever
\* entries its two maps lose, and although put counts a page as full by the
\* number of its free objects only.
THEOREM BulkApart == Bulk!Spec => []BulkExclusive
  <1>1. BulkIInv => BulkExclusive
    <2> SUFFICES ASSUME BulkIInv PROVE Bulk!Exclusive
      BY Zenon DEF BulkExclusive
    <2>1. \A o \in held : o.page \in live /\ \A s \in BulkSlots : o \notin bulkObjs[s]
      BY Zenon DEF BulkIInv, BulkProper
    <2>2. \A s \in BulkSlots : \A o \in bulkObjs[s] : o.page \in live /\ o.slot = s
      BY Zenon DEF BulkIInv, BulkProper, BulkFree
    <2>3. \A o, x \in held : o.page = x.page /\ o.idx = x.idx => o = x
      BY Zenon, BulkSame DEF BulkIInv
    <2> QED
      BY Zenon, <2>1, <2>2, <2>3 DEF Bulk!Exclusive
  <1> QED
    BY <1>1, BulkInitIInv, BulkNextIInv, PTL DEF Bulk!Spec

----------------------------------------------------------------------------
\* Division with remainder.
LEMMA DivMod ==
  ASSUME NEW n \in Nat, NEW d \in Nat \ {0}
  PROVE  n \div d \in Nat /\ n % d \in 0 .. d - 1 /\ n = ((n \div d) * d) + (n % d)
  OBVIOUS

\* Multiples of d are d apart.
LEMMA MultiplesApart ==
  ASSUME NEW d \in Nat, NEW p \in Nat, NEW q \in Nat, p < q
  PROVE  p * d + d <= q * d
  <1>1. PICK k \in Nat : q = p + 1 + k
    <2>1. q - p - 1 \in Nat /\ q = p + 1 + (q - p - 1)
      OBVIOUS
    <2> QED
      BY Zenon, <2>1
  <1>2. q * d = p * d + d + k * d
    BY <1>1
  <1>3. k * d \in Nat /\ p * d \in Nat
    OBVIOUS
  <1> QED
    BY <1>2, <1>3

\* Multiplying by d keeps the order.
LEMMA MultiplesOrdered ==
  ASSUME NEW d \in Nat, NEW p \in Nat, NEW q \in Nat, p <= q
  PROVE  p * d <= q * d
  <1>1. CASE p = q
    BY <1>1
  <1>2. CASE p < q
    <2>1. p * d \in Nat /\ q * d \in Nat
      OBVIOUS
    <2> QED
      BY <1>2, <2>1, MultiplesApart
  <1> QED
    BY <1>1, <1>2

\* Quotient and remainder are unique.
LEMMA ModUnique ==
  ASSUME NEW d \in Nat \ {0}, NEW q \in Nat, NEW r \in 0 .. d - 1
  PROVE  (q * d + r) % d = r /\ (q * d + r) \div d = q
  <1> DEFINE a == q * d + r
             p == a \div d
             s == a % d
  <1>1. a \in Nat /\ q * d \in Nat
    OBVIOUS
  <1>2. p \in Nat /\ s \in 0 .. d - 1 /\ a = p * d + s
    BY Zenon, <1>1, DivMod
  <1>3. q * d + r = p * d + s
    BY Zenon, <1>2
  <1> HIDE DEF p, s
  <1>4. ~(p < q)
    BY <1>1, <1>2, <1>3, MultiplesApart
  <1>5. ~(q < p)
    BY <1>1, <1>2, <1>3, MultiplesApart
  <1>6. p = q
    BY <1>2, <1>4, <1>5
  <1>7. s = r
    BY <1>2, <1>3, <1>6
  <1> QED
    BY Zenon, <1>6, <1>7 DEF p, s

\* A number below 2^Width is kept.
LEMMA SizesUint ==
  ASSUME NEW n \in Nat, 2 ^ Width \in Nat \ {0}, n < 2 ^ Width
  PROVE  Sizes!Uint(n) = n
  <1>1. n % 2 ^ Width = n
    <2> DEFINE U == 2 ^ Width
    <2> HIDE DEF U
    <2>1. U \in Nat \ {0} /\ n \in 0 .. U - 1
      BY DEF U
    <2>2. (0 * U + n) % U = n
      BY Zenon, <2>1, ModUnique
    <2>3. 0 * U + n = n
      BY <2>1
    <2> QED
      BY Zenon, <2>2, <2>3 DEF U
  <1> QED
    BY Zenon, <1>1 DEF Sizes!Uint

\* A size is rounded up to the next multiple, if that is still a size.
LEMMA SizesRoundup ==
  ASSUME NEW e, Sizes!PowersOfTwo(e), NEW n \in Nat, n <= 2 ^ Width - 2 ^ e
  PROVE  \E q \in Nat :
           /\ Sizes!roundup_to_the_next_highest_multiple_of_exponent2(n, e) = q * 2 ^ e
           /\ n <= q * 2 ^ e /\ q * 2 ^ e < n + 2 ^ e
  <1> DEFINE U == 2 ^ Width
             f == 2 ^ e
             k == 2 ^ (Width - e)
             h == 2 ^ (e - 1)
             q == n \div f
             r == n % f
  <1>1. /\ U \in Nat \ {0} /\ f \in Nat \ {0} /\ k \in Nat \ {0} /\ h \in Nat \ {0}
        /\ f = 2 * h /\ U = k * f /\ n <= U - f
    BY Zenon DEF Sizes!PowersOfTwo
  <1>2. Sizes!roundup_to_the_next_highest_multiple_of_exponent2(n, e)
          = IF Sizes!Uint(n * k) = 0 THEN n ELSE Sizes!Uint(q * f + 2 * h)
    BY Zenon DEF Sizes!roundup_to_the_next_highest_multiple_of_exponent2
  <1>3. Sizes!Uint(n * k) = (n * k) % U
    BY Zenon DEF Sizes!Uint
  <1>4. \A m \in Nat : m < U => Sizes!Uint(m) = m
    BY Zenon, <1>1, SizesUint
  <1> HIDE DEF U, f, k, h
  <1>5. q \in Nat /\ r \in 0 .. f - 1 /\ n = q * f + r
    BY Zenon, <1>1, DivMod
  <1> HIDE DEF q, r
  <1>6. (n * k) % U = r * k
    <2>1. n * k = q * U + r * k
      BY <1>1, <1>5
    <2>2. r * k \in 0 .. U - 1
      <3>1. r * k + k <= f * k
        BY <1>1, <1>5, MultiplesApart
      <3>2. f * k = U /\ r * k \in Nat
        BY <1>1, <1>5
      <3> QED
        BY <1>1, <3>1, <3>2
    <2>3. (q * U + r * k) % U = r * k
      BY Zenon, <1>1, <1>5, <2>2, ModUnique
    <2> QED
      BY Zenon, <2>1, <2>3
  <1>7. CASE r = 0
    <2>1. (n * k) % U = 0
      BY <1>1, <1>6, <1>7
    <2>2. n = q * f /\ q * f < n + f
      BY <1>1, <1>5, <1>7
    <2> QED
      BY <1>2, <1>3, <1>5, <2>1, <2>2 DEF f
  <1>8. CASE r # 0
    <2>1. r * k # 0
      <3>1. 0 * k + k <= r * k
        BY <1>1, <1>5, <1>8, MultiplesApart
      <3> QED
        BY <1>1, <3>1
    <2>2. (q + 1) * f = q * f + 2 * h /\ (q + 1) * f \in Nat /\ (q + 1) * f < n + f
          /\ n <= (q + 1) * f /\ (q + 1) * f < U /\ q + 1 \in Nat
      <3>1. (q + 1) * f = q * f + f /\ q * f \in Nat
        BY <1>1, <1>5
      <3>2. q * f < n /\ n <= q * f + f
        BY <1>1, <1>5, <1>8, <3>1
      <3> QED
        BY <1>1, <1>5, <3>1, <3>2
    <2>3. Sizes!roundup_to_the_next_highest_multiple_of_exponent2(n, e) = (q + 1) * f
      BY Zenon, <1>2, <1>3, <1>4, <1>6, <2>1, <2>2
    <2> QED
      BY Zenon, <2>2, <2>3 DEF f
  <1> QED
    BY Zenon, <1>5, <1>7, <1>8

\* Rounding stays below a threshold that is a multiple itself, and the slot of
\* the rounded size is one of those up to the threshold's.
LEMMA SizesSlot ==
  ASSUME NEW e, Sizes!PowersOfTwo(e), NEW n \in Nat \ {0}, n <= 2 ^ Width - 2 ^ e,
         NEW limit \in Nat, limit % 2 ^ e = 0, n <= limit
  PROVE  LET rounded == Sizes!roundup_to_the_next_highest_multiple_of_exponent2(n, e)
         IN /\ rounded \in Nat /\ n <= rounded /\ rounded <= limit
            /\ rounded \div 2 ^ e \in 1 .. (limit \div 2 ^ e)
  <1> DEFINE f == 2 ^ e
             b == limit \div f
             R == Sizes!roundup_to_the_next_highest_multiple_of_exponent2(n, e)
  <1>1. PICK q \in Nat : R = q * f /\ n <= q * f /\ q * f < n + f
    BY Zenon, SizesRoundup
  <1>2. f \in Nat \ {0} /\ limit % f = 0
    BY Zenon DEF Sizes!PowersOfTwo
  <1> HIDE DEF f, R
  <1>3. b \in Nat /\ limit = b * f
    <2>1. b \in Nat /\ limit = (b * f) + (limit % f)
      BY Zenon, <1>2, DivMod
    <2> QED
      BY <1>2, <2>1
  <1> HIDE DEF b
  <1>4. q <= b
    <2> SUFFICES ASSUME b < q PROVE FALSE
      BY <1>1, <1>3
    <2>1. b * f + f <= q * f
      BY Zenon, <1>1, <1>2, <1>3, MultiplesApart
    <2>2. b * f \in Nat /\ q * f \in Nat
      BY <1>1, <1>2, <1>3
    <2> QED
      BY <1>1, <1>2, <1>3, <2>1, <2>2
  <1>5. q # 0
    BY <1>1, <1>2
  <1>6. R \in Nat /\ n <= R /\ R <= limit
    <2>1. q * f <= b * f /\ q * f \in Nat
      BY <1>1, <1>2, <1>3, <1>4, MultiplesOrdered
    <2> QED
      BY Zenon, <1>1, <1>3, <2>1
  <1>7. R \div f = q
    <2>1. (q * f + 0) \div f = q
      BY <1>1, <1>2, ModUnique
    <2>2. q * f + 0 = R
      BY <1>1, <1>2
    <2> QED
      BY Zenon, <2>1, <2>2
  <1>8. R \div f \in 1 .. b
    BY <1>1, <1>3, <1>4, <1>5, <1>7
  <1> QED
    BY Zenon, <1>6, <1>8 DEF f, R, b

\* A page that is not smaller than the objects holds one, and no more than fit.
LEMMA SizesPerPage ==
  ASSUME NEW page \in Nat, NEW s \in Nat \ {0}, s <= page
  PROVE  page \div s >= 1 /\ (page \div s) * s <= page
  <1> DEFINE q == page \div s
             r == page % s
  <1>1. q \in Nat /\ r \in 0 .. s - 1 /\ page = q * s + r
    BY Zenon, DivMod
  <1> HIDE DEF q, r
  <1>2. q # 0
    BY <1>1
  <1>3. q * s \in Nat /\ q * s <= page /\ q >= 1
    BY <1>1, <1>2
  <1> QED
    BY Zenon, <1>3 DEF q

\* gen_expand_slot_page_size gives a page that holds the objects asked for.
LEMMA SizesExpand ==
  ASSUME Sizes!SizesAssumption, NEW s \in Nat \ {0}, NEW k \in Nat \ {0}, NEW limit \in Nat,
         s <= limit, limit * k + Sizes!m_sys_page_size <= 2 ^ Width
  PROVE  LET page == Sizes!gen_expand_slot_page_size(s, k, Sizes!m_sys_page_size)
         IN page \in Nat /\ s <= page
  <1> DEFINE U == 2 ^ Width
             P == Sizes!m_sys_page_size
             cal == s * k
             q == cal \div P
             r == cal % P
             pageCnt == q + (IF r # 0 THEN 1 ELSE 0)
  <1>1. U \in Nat \ {0} /\ P \in Nat \ {0}
    BY Zenon DEF Sizes!SizesAssumption, Sizes!PowersOfTwo, Sizes!m_sys_page_size
  <1>2. \A m \in Nat : m < U => Sizes!Uint(m) = m
    BY Zenon, <1>1, SizesUint
  <1> HIDE DEF U, P
  <1>3. cal \in Nat /\ s <= cal /\ cal + P <= U
    <2>1. s * k <= limit * k
      BY Zenon, MultiplesOrdered
    <2>2. 1 * s <= k * s
      BY MultiplesOrdered
    <2>3. s * k \in Nat /\ limit * k \in Nat /\ k * s = s * k /\ 1 * s = s
      OBVIOUS
    <2>4. limit * k + P <= U
      BY Zenon DEF P, U
    <2> QED
      BY <1>1, <2>1, <2>2, <2>3, <2>4
  <1>4. cal < U
    BY <1>1, <1>3
  <1> HIDE DEF cal
  <1>5. q \in Nat /\ r \in 0 .. P - 1 /\ cal = q * P + r
    BY Zenon, <1>1, <1>3, DivMod
  <1>6. Sizes!gen_expand_slot_page_size(s, k, P) = Sizes!Uint(pageCnt * P)
    <2>1. Sizes!Uint(s * k) = cal
      BY Zenon, <1>2, <1>3, <1>4 DEF cal
    <2> QED
      BY Zenon, <2>1 DEF Sizes!gen_expand_slot_page_size
  <1> HIDE DEF q, r
  <1>7. pageCnt * P \in Nat /\ cal <= pageCnt * P /\ pageCnt * P < cal + P
    <2>1. q * P \in Nat /\ (q + 1) * P = q * P + P
      BY <1>1, <1>5
    <2>2. CASE r = 0
      <3>1. pageCnt = q
        BY <1>5, <2>2
      <3> HIDE DEF pageCnt
      <3> QED
        BY <1>1, <1>5, <2>1, <2>2, <3>1
    <2>3. CASE r # 0
      <3>1. pageCnt = q + 1
        BY Zenon, <1>5, <2>3
      <3> HIDE DEF pageCnt
      <3> QED
        BY <1>1, <1>5, <2>1, <2>3, <3>1
    <2> QED
      BY Zenon, <2>2, <2>3
  <1> HIDE DEF pageCnt
  <1>8. pageCnt * P < U
    BY <1>1, <1>3, <1>7
  <1>9. Sizes!Uint(pageCnt * P) = pageCnt * P
    BY Zenon, <1>2, <1>7, <1>8
  <1> QED
    BY <1>3, <1>6, <1>7, <1>9 DEF P

\* The size of the slot that serves size n.
SizesServed(n) ==
    IF Sizes!Type(n) = "tiny" THEN m_tiny_obj_threshold
    ELSE Sizes!roundup_to_the_next_highest_multiple_of_exponent2(n, Sizes!Exponent(Sizes!Type(n)))

\* The object Get makes for size n.
SizesMade(n) ==
    LET type == Sizes!Type(n)
        slotSize == SizesServed(n)
        pageSize == Sizes!PageSize(type, slotSize)
    IN [type |-> type, slotSize |-> slotSize,
        slotIdx |-> IF type = "tiny" THEN 0
                    ELSE Sizes!convert_slot_obj_size_to_slot_idx(slotSize, 2 ^ Sizes!Exponent(type)),
        pageSize |-> pageSize,
        objs |-> IF slotSize = 0 THEN 0 ELSE pageSize \div slotSize]

\* The slot put works out for an object, and the objects of a full page of it.
SizesFound(o) ==
    <<IF o.type = "tiny" THEN 0
      ELSE Sizes!convert_slot_obj_size_to_slot_idx(o.slotSize, 2 ^ Sizes!Exponent(o.type)),
      Sizes!PutPageSize(o.type, o.slotSize) \div o.slotSize>>

\* The object is what Get makes of the size, and put has worked out nothing or
\* what the object says.
SizesIInv ==
    /\ Sizes!MemPool
    /\ \/ size = 0 /\ putIdx = <<0, 0>>
       \/ /\ size \in 1 .. 2 ^ Width - 1 /\ obj = SizesMade(size)
          /\ putIdx = <<0, 0>> \/ putIdx = SizesFound(obj)

\* The slot is large enough for the size, its page for the slot, and a small or
\* a big slot is one the constructor made.
LEMMA SizesServe ==
  ASSUME NEW n \in Nat \ {0}, n <= 2 ^ Width - Sizes!m_sys_page_size
  PROVE  LET type == Sizes!Type(n)
             slotSize == SizesServed(n)
             pageSize == Sizes!PageSize(type, slotSize)
         IN /\ slotSize \in Nat /\ n <= slotSize
            /\ pageSize \in Nat /\ slotSize <= pageSize
            /\ type = "small" =>
                 slotSize \div 2 ^ FootstepExponent
                   \in 1 .. (m_big_obj_threshold \div 2 ^ FootstepExponent)
            /\ type = "big" =>
                 slotSize \div 2 ^ PageExponent
                   \in 1 .. (m_bulk_obj_threshold \div 2 ^ PageExponent)
  <1> DEFINE type == Sizes!Type(n)
             R(e) == Sizes!roundup_to_the_next_highest_multiple_of_exponent2(n, e)
             P == 2 ^ PageExponent
             F == 2 ^ FootstepExponent
             U == 2 ^ Width
  <1>1. Sizes!SizesAssumption /\ Sizes!m_sys_page_size = P
    BY Zenon, SizesUse DEF Sizes!m_sys_page_size
  <1>2. /\ Sizes!PowersOfTwo(PageExponent) /\ Sizes!PowersOfTwo(FootstepExponent)
        /\ F <= P /\ m_tiny_obj_threshold \in 0 .. P
        /\ m_big_obj_threshold \in Nat /\ m_big_obj_threshold % F = 0
        /\ m_bulk_obj_threshold \in Nat /\ m_bulk_obj_threshold % P = 0
        /\ m_available_reserve_bulk_obj_max_size \in Nat
        /\ m_expand_obj_cnt_factor \in Nat \ {0} /\ m_expand_bulk_obj_cnt_factor \in Nat \ {0}
    BY Zenon, <1>1 DEF Sizes!SizesAssumption, Sizes!m_sys_page_size,
       Sizes!m_small_obj_slot_footstep_size
  <1>3. U \in Nat \ {0} /\ P \in Nat \ {0} /\ F \in Nat \ {0} /\ n <= U - P
    BY Zenon, <1>1, <1>2 DEF Sizes!PowersOfTwo
  <1>4. CASE n <= m_tiny_obj_threshold
    <2>1. type = "tiny"
      <3>1. ~(n > m_tiny_obj_threshold)
        <4> HIDE DEF P
        <4> QED
          BY <1>2, <1>3, <1>4
      <3> QED
        BY Zenon, <1>4, <3>1 DEF Sizes!Type
    <2>2. SizesServed(n) = m_tiny_obj_threshold /\ Sizes!PageSize(type, SizesServed(n)) = P
      BY Zenon, <1>1, <2>1 DEF SizesServed, Sizes!PageSize
    <2>3. m_tiny_obj_threshold \in Nat /\ m_tiny_obj_threshold <= P
      <3> HIDE DEF P
      <3> QED
        BY <1>2, <1>3
    <2> QED
      BY Zenon, <1>3, <1>4, <2>1, <2>2, <2>3
  <1>5. CASE n > m_tiny_obj_threshold /\ n <= m_bulk_obj_threshold /\ n <= m_big_obj_threshold
    <2>1. type = "small"
      <3>1. ~(n <= m_tiny_obj_threshold) /\ ~(n > m_big_obj_threshold)
        <4> HIDE DEF P
        <4> QED
          BY <1>2, <1>3, <1>5
      <3> QED
        BY Zenon, <1>5, <3>1 DEF Sizes!Type
    <2>2. SizesServed(n) = R(FootstepExponent)
      BY Zenon, <2>1 DEF SizesServed, Sizes!Exponent
    <2>3. n <= U - F
      <3> HIDE DEF U, F, P
      <3> QED
        BY <1>2, <1>3
    <2>4. /\ R(FootstepExponent) \in Nat /\ n <= R(FootstepExponent)
          /\ R(FootstepExponent) <= m_big_obj_threshold
          /\ R(FootstepExponent) \div F \in 1 .. (m_big_obj_threshold \div F)
      BY Zenon, <1>2, <1>5, <2>3, SizesSlot
    <2>5. Sizes!PageSize(type, SizesServed(n))
            = Sizes!gen_expand_slot_page_size(SizesServed(n), m_expand_obj_cnt_factor, Sizes!m_sys_page_size)
      BY Zenon, <2>1 DEF Sizes!PageSize
    <2>6. m_big_obj_threshold * m_expand_obj_cnt_factor + Sizes!m_sys_page_size <= 2 ^ Width
      BY Zenon, <1>1 DEF Sizes!SizesAssumption
    <2>7. SizesServed(n) \in Nat \ {0} /\ SizesServed(n) <= m_big_obj_threshold
      <3> HIDE DEF R
      <3> QED
        BY <2>2, <2>4
    <2>8. Sizes!PageSize(type, SizesServed(n)) \in Nat
          /\ SizesServed(n) <= Sizes!PageSize(type, SizesServed(n))
      BY Zenon, <1>1, <1>2, <2>5, <2>6, <2>7, SizesExpand
    <2> QED
      BY Zenon, <2>1, <2>2, <2>4, <2>8
  <1>6. CASE n > m_tiny_obj_threshold /\ n <= m_bulk_obj_threshold /\ n > m_big_obj_threshold
    <2>1. type = "big"
      <3>1. ~(n <= m_tiny_obj_threshold) /\ ~(n <= m_big_obj_threshold)
        <4> HIDE DEF P
        <4> QED
          BY <1>2, <1>3, <1>6
      <3> QED
        BY Zenon, <1>6, <3>1 DEF Sizes!Type
    <2>2. SizesServed(n) = R(PageExponent)
      BY Zenon, <2>1 DEF SizesServed, Sizes!Exponent
    <2>3. /\ R(PageExponent) \in Nat /\ n <= R(PageExponent)
          /\ R(PageExponent) <= m_bulk_obj_threshold
          /\ R(PageExponent) \div P \in 1 .. (m_bulk_obj_threshold \div P)
      BY Zenon, <1>2, <1>3, <1>6, SizesSlot
    <2>4. Sizes!PageSize(type, SizesServed(n))
            = Sizes!gen_expand_slot_page_size(SizesServed(n), m_expand_obj_cnt_factor, Sizes!m_sys_page_size)
      BY Zenon, <2>1 DEF Sizes!PageSize
    <2>5. m_bulk_obj_threshold * m_expand_obj_cnt_factor + Sizes!m_sys_page_size <= 2 ^ Width
      BY Zenon, <1>1 DEF Sizes!SizesAssumption
    <2>6. SizesServed(n) \in Nat \ {0} /\ SizesServed(n) <= m_bulk_obj_threshold
      <3> HIDE DEF R
      <3> QED
        BY <2>2, <2>3
    <2>7. Sizes!PageSize(type, SizesServed(n)) \in Nat
          /\ SizesServed(n) <= Sizes!PageSize(type, SizesServed(n))
      BY Zenon, <1>1, <1>2, <2>4, <2>5, <2>6, SizesExpand
    <2> QED
      BY Zenon, <2>1, <2>2, <2>3, <2>7
  <1>7. CASE n > m_tiny_obj_threshold /\ ~(n <= m_bulk_obj_threshold)
    <2>1. type = "bulk"
      <3>1. ~(n <= m_tiny_obj_threshold)
        <4> HIDE DEF P
        <4> QED
          BY <1>2, <1>3, <1>7
      <3> QED
        BY Zenon, <1>7, <3>1 DEF Sizes!Type
    <2>2. SizesServed(n) = R(PageExponent)
      BY Zenon, <2>1 DEF SizesServed, Sizes!Exponent
    <2>3. PICK q \in Nat : R(PageExponent) = q * P /\ n <= q * P
      BY Zenon, <1>2, <1>3, SizesRoundup
    <2>4. SizesServed(n) \in Nat \ {0} /\ n <= SizesServed(n)
      <3> HIDE DEF P, R
      <3>1. q * P \in Nat
        BY <1>3
      <3> QED
        BY <2>2, <2>3, <3>1
    <2>5. Sizes!PageSize(type, SizesServed(n)) \in Nat
          /\ SizesServed(n) <= Sizes!PageSize(type, SizesServed(n))
      <3>1. CASE SizesServed(n) < m_available_reserve_bulk_obj_max_size
        <4>1. Sizes!PageSize(type, SizesServed(n))
                = Sizes!gen_expand_slot_page_size(SizesServed(n), m_expand_bulk_obj_cnt_factor,
                                                  Sizes!m_sys_page_size)
          BY Zenon, <2>1, <3>1 DEF Sizes!PageSize
        <4>2. m_available_reserve_bulk_obj_max_size * m_expand_bulk_obj_cnt_factor
                + Sizes!m_sys_page_size <= 2 ^ Width
          BY Zenon, <1>1 DEF Sizes!SizesAssumption
        <4>3. SizesServed(n) <= m_available_reserve_bulk_obj_max_size
          BY <1>2, <2>4, <3>1
        <4> QED
          BY Zenon, <1>1, <1>2, <2>4, <4>1, <4>2, <4>3, SizesExpand
      <3>2. CASE ~(SizesServed(n) < m_available_reserve_bulk_obj_max_size)
        <4>1. Sizes!PageSize(type, SizesServed(n)) = SizesServed(n)
          BY Zenon, <2>1, <3>2 DEF Sizes!PageSize
        <4> QED
          BY <2>4, <4>1
      <3> QED
        BY Zenon, <3>1, <3>2
    <2> QED
      BY Zenon, <2>1, <2>4, <2>5
  <1> QED
    <2>1. \/ n <= m_tiny_obj_threshold
          \/ n > m_tiny_obj_threshold /\ n <= m_bulk_obj_threshold /\ n <= m_big_obj_threshold
          \/ n > m_tiny_obj_threshold /\ n <= m_bulk_obj_threshold /\ n > m_big_obj_threshold
          \/ n > m_tiny_obj_threshold /\ ~(n <= m_bulk_obj_threshold)
      <3> HIDE DEF P
      <3> QED
        BY <1>2, <1>3
    <2> QED
      BY Zenon, <1>4, <1>5, <1>6, <1>7, <2>1

\* The invariant gives what is claimed of the object of the last Get.
LEMMA SizesIInvFits == SizesIInv => SlotFits
  <1> SUFFICES ASSUME SizesIInv, size > 0, size <= 2 ^ Width - Sizes!m_sys_page_size
               PROVE  /\ obj.slotSize >= size
                      /\ obj.type = "small" => obj.slotIdx \in m_free_small_objs
                      /\ obj.type = "big" => obj.slotIdx \in m_free_big_objs
                      /\ obj.objs >= 1 /\ obj.objs * obj.slotSize <= obj.pageSize
                      /\ putIdx # <<0, 0>> =>
                           /\ putIdx[1] = obj.slotIdx
                           /\ putIdx[2] = obj.objs
                              \/ obj.slotSize = m_available_reserve_bulk_obj_max_size
    BY Zenon DEF SlotFits, Sizes!SlotFits
  <1> DEFINE type == Sizes!Type(size)
             s == SizesServed(size)
             page == Sizes!PageSize(type, s)
  <1>1. /\ obj = SizesMade(size)
        /\ putIdx = <<0, 0>> \/ putIdx = SizesFound(obj)
        /\ size \in Nat \ {0}
    <2>1. 2 ^ Width \in Nat
      BY Zenon, SizesUse DEF Sizes!SizesAssumption, Sizes!PowersOfTwo
    <2>2. size # 0
      <3>1. size = 0 => ~(size > 0)
        OBVIOUS
      <3> QED
        BY Zenon, <3>1
    <2>3. /\ size \in 1 .. 2 ^ Width - 1 /\ obj = SizesMade(size)
          /\ putIdx = <<0, 0>> \/ putIdx = SizesFound(obj)
      BY Zenon, <2>2 DEF SizesIInv
    <2>4. size \in Nat \ {0}
      BY <2>1, <2>3
    <2> QED
      BY Zenon, <2>3, <2>4
  <1>2. /\ s \in Nat /\ size <= s /\ page \in Nat /\ s <= page
        /\ type = "small" =>
             s \div 2 ^ FootstepExponent \in 1 .. (m_big_obj_threshold \div 2 ^ FootstepExponent)
        /\ type = "big" =>
             s \div 2 ^ PageExponent \in 1 .. (m_bulk_obj_threshold \div 2 ^ PageExponent)
    BY Zenon, <1>1, SizesServe
  <1>3. s \in Nat \ {0}
    BY <1>1, <1>2
  <1>4. /\ obj.type = type /\ obj.slotSize = s /\ obj.pageSize = page
        /\ obj.slotIdx = IF type = "tiny" THEN 0 ELSE s \div 2 ^ Sizes!Exponent(type)
        /\ obj.objs = page \div s
    BY Zenon, <1>1, <1>3 DEF SizesMade, Sizes!convert_slot_obj_size_to_slot_idx
  <1>5. /\ type = "small" => obj.slotIdx \in m_free_small_objs
        /\ type = "big" => obj.slotIdx \in m_free_big_objs
    BY Zenon, <1>2, <1>4 DEF SizesIInv, Sizes!MemPool, Sizes!Exponent, Sizes!m_sys_page_size,
       Sizes!m_small_obj_slot_footstep_size
  <1>6. page \div s >= 1 /\ (page \div s) * s <= page
    BY Zenon, <1>2, <1>3, SizesPerPage
  <1>7. ASSUME putIdx # <<0, 0>>
        PROVE  /\ putIdx[1] = obj.slotIdx
               /\ putIdx[2] = obj.objs \/ obj.slotSize = m_available_reserve_bulk_obj_max_size
    <2>1. /\ putIdx[1] = IF type = "tiny" THEN 0 ELSE s \div 2 ^ Sizes!Exponent(type)
          /\ putIdx[2] = Sizes!PutPageSize(type, s) \div s
      <3>1. putIdx = <<IF type = "tiny" THEN 0 ELSE s \div 2 ^ Sizes!Exponent(type),
                       Sizes!PutPageSize(type, s) \div s>>
        BY Zenon, <1>1, <1>4, <1>7 DEF SizesFound, Sizes!convert_slot_obj_size_to_slot_idx
      <3> HIDE DEF type, s
      <3> QED
        BY Zenon, <3>1
    <2>2. s # m_available_reserve_bulk_obj_max_size => Sizes!PutPageSize(type, s) = page
      BY Zenon DEF Sizes!PutPageSize
    <2> QED
      BY Zenon, <1>4, <2>1, <2>2
  <1>8. obj.slotSize >= size
    BY Zenon, <1>1, <1>2, <1>4
  <1> QED
    BY Zenon, <1>4, <1>5, <1>6, <1>7, <1>8

\* Nothing was asked for at first.
LEMMA SizesInitIInv == Sizes!Init => SizesIInv
  BY Zenon DEF Sizes!Init, SizesIInv

\* Get and put keep the invariant.
LEMMA SizesNextIInv == SizesIInv /\ [Sizes!Next]_(Sizes!vars) => SizesIInv'
  <1> SUFFICES ASSUME SizesIInv, [Sizes!Next]_(Sizes!vars) PROVE SizesIInv'
    BY Zenon
  <1>1. CASE UNCHANGED Sizes!vars
    BY Zenon, <1>1 DEF Sizes!vars, SizesIInv, Sizes!MemPool
  <1>2. ASSUME NEW n \in 1 .. 2 ^ Width - 1, Sizes!Get(n) PROVE SizesIInv'
    <2>1. size' = n /\ obj' = SizesMade(n) /\ size = 0
          /\ UNCHANGED <<m_free_small_objs, m_free_big_objs, putIdx>>
      BY Zenon, <1>2 DEF Sizes!Get, SizesMade, SizesServed
    <2> QED
      <3>1. Sizes!MemPool'
        BY Zenon, <2>1 DEF SizesIInv, Sizes!MemPool
      <3>2. putIdx = <<0, 0>>
        <4>1. 0 \notin 1 .. 2 ^ Width - 1
          <5>1. 2 ^ Width \in Nat
            BY Zenon, SizesUse DEF Sizes!SizesAssumption, Sizes!PowersOfTwo
          <5> QED
            BY <5>1
        <4> QED
          BY Zenon, <2>1, <4>1 DEF SizesIInv
      <3> QED
        BY Zenon, <1>2, <2>1, <3>1, <3>2 DEF SizesIInv
  <1>3. CASE Sizes!put
    <2>1. size > 0 /\ putIdx' = SizesFound(obj)
          /\ UNCHANGED <<m_free_small_objs, m_free_big_objs, size, obj>>
      BY Zenon, <1>3 DEF Sizes!put, SizesFound
    <2>2. size # 0
      <3>1. size = 0 => ~(size > 0)
        OBVIOUS
      <3> QED
        BY Zenon, <2>1, <3>1
    <2> QED
      BY Zenon, <2>1, <2>2 DEF SizesIInv, Sizes!MemPool
  <1> QED
    BY Zenon, <1>1, <1>2, <1>3 DEF Sizes!Next

\* For every width of a size and every threshold, a request is served by a
\* slot that exists and is large enough, from a page that holds whole objects,
\* and put finds the slot again (SlotFits).
THEOREM SizesFitSlots == Sizes!Spec => []SlotFits
  BY SizesInitIInv, SizesNextIInv, SizesIInvFits, PTL DEF Sizes!Spec
=============================================================================
