---------------------------- MODULE MemPoolSizes ----------------------------
(***************************************************************************)
(* The arithmetic of MemPool: which kind of object serves a request of     *)
(* some size, the slot it is taken from and the page that is split for it, *)
(* and the slot Put finds from the size the object was given.              *)
(*                                                                         *)
(* Sizes are uint32_t in the build: they have Width bits here, and every   *)
(* result wraps.  What the slots then hold is in MemPoolSlots and          *)
(* MemPoolBulk, whose Slots these are.                                     *)
(***************************************************************************)
EXTENDS Integers

CONSTANTS
    Width,                  \* bits of a size
    PageExponent,           \* log2 of m_sys_page_size
    FootstepExponent,       \* log2 of m_small_obj_slot_footstep_size
    m_tiny_obj_threshold,
    m_big_obj_threshold,
    m_bulk_obj_threshold,
    m_available_reserve_bulk_obj_max_size,
    m_expand_obj_cnt_factor,
    m_expand_bulk_obj_cnt_factor

m_sys_page_size == 2 ^ PageExponent
m_small_obj_slot_footstep_size == 2 ^ FootstepExponent

VARIABLES
    m_free_small_objs,   \* the slots the constructor made: their indices
    m_free_big_objs,
    size,                \* the size asked for, 0 before the first request
    obj,                 \* the object of the last Get
    putIdx               \* the slot and objects of a page Put went by

vars == <<m_free_small_objs, m_free_big_objs, size, obj, putIdx>>

NoObject == [type |-> "none", slotSize |-> 0, slotIdx |-> 0, pageSize |-> 0, objs |-> 0]

Uint(n) == n % 2 ^ Width

\* What shifting by exponent relies on, of numbers of Width bits.
PowersOfTwo(exponent) ==
    /\ 2 ^ Width \in Nat \ {0} /\ 2 ^ exponent \in Nat \ {0}
    /\ 2 ^ (exponent - 1) \in Nat \ {0} /\ 2 ^ (Width - exponent) \in Nat \ {0}
    /\ 2 ^ exponent = 2 * 2 ^ (exponent - 1)
    /\ 2 ^ Width = 2 ^ (Width - exponent) * 2 ^ exponent

\* The thresholds are multiples of the footsteps, and nothing a kept object is
\* multiplied by its factor for exceeds a size; the defaults of mem-pool.h meet
\* this by far.
SizesAssumption ==
    /\ PowersOfTwo(PageExponent) /\ PowersOfTwo(FootstepExponent)
    /\ m_small_obj_slot_footstep_size <= m_sys_page_size
    /\ m_tiny_obj_threshold \in 0 .. m_sys_page_size
    /\ m_big_obj_threshold \in Nat /\ m_big_obj_threshold % m_small_obj_slot_footstep_size = 0
    /\ m_bulk_obj_threshold \in Nat /\ m_bulk_obj_threshold % m_sys_page_size = 0
    /\ m_available_reserve_bulk_obj_max_size \in Nat
    /\ m_expand_obj_cnt_factor \in Nat \ {0} /\ m_expand_bulk_obj_cnt_factor \in Nat \ {0}
    /\ m_big_obj_threshold * m_expand_obj_cnt_factor + m_sys_page_size <= 2 ^ Width
    /\ m_bulk_obj_threshold * m_expand_obj_cnt_factor + m_sys_page_size <= 2 ^ Width
    /\ m_available_reserve_bulk_obj_max_size * m_expand_bulk_obj_cnt_factor
         + m_sys_page_size <= 2 ^ Width

\* The constructor makes a slot for every multiple of the footstep.
MemPool ==
    /\ m_free_small_objs = 1 .. m_big_obj_threshold \div m_small_obj_slot_footstep_size
    /\ m_free_big_objs = 1 .. m_bulk_obj_threshold \div m_sys_page_size

Init ==
    /\ MemPool
    /\ size = 0 /\ obj = NoObject /\ putIdx = <<0, 0>>

----------------------------------------------------------------------------
\* A mutant of roundup: a multiple is rounded up as well.
roundup_always(in, exponent) == Uint((in \div 2 ^ exponent) * 2 ^ exponent + 2 * 2 ^ (exponent - 1))

\* The low bits are tested by shifting the others out.
roundup_to_the_next_highest_multiple_of_exponent2(in, exponent) ==
    IF Uint(in * 2 ^ (Width - exponent)) = 0 THEN in
    ELSE Uint((in \div 2 ^ exponent) * 2 ^ exponent + 2 * 2 ^ (exponent - 1))

convert_slot_obj_size_to_slot_idx(n, footstep) == n \div footstep

gen_expand_slot_page_size(objSize, factor, pageSize) ==
    LET cal == Uint(objSize * factor)
        pageCnt == cal \div pageSize + (IF cal % pageSize # 0 THEN 1 ELSE 0)
    IN Uint(pageCnt * pageSize)

\* The type of object that serves a size.
Type(n) ==
    CASE n <= m_tiny_obj_threshold -> "tiny"
      [] n > m_tiny_obj_threshold /\ n <= m_bulk_obj_threshold /\ n <= m_big_obj_threshold -> "small"
      [] n > m_tiny_obj_threshold /\ n <= m_bulk_obj_threshold /\ n > m_big_obj_threshold -> "big"
      [] OTHER -> "bulk"

Exponent(type) == IF type = "small" THEN FootstepExponent ELSE PageExponent

\* The page a slot without free objects is given.
PageSize(type, slotSize) ==
    CASE type = "tiny" -> m_sys_page_size
      [] type \in {"small", "big"} ->
           gen_expand_slot_page_size(slotSize, m_expand_obj_cnt_factor, m_sys_page_size)
      [] type = "bulk" /\ slotSize < m_available_reserve_bulk_obj_max_size ->
           gen_expand_slot_page_size(slotSize, m_expand_bulk_obj_cnt_factor, m_sys_page_size)
      [] OTHER -> slotSize

Get(n) ==
    LET type == Type(n)
        slotSize == IF type = "tiny" THEN m_tiny_obj_threshold
                    ELSE roundup_to_the_next_highest_multiple_of_exponent2(n, Exponent(type))
        pageSize == PageSize(type, slotSize)
    IN /\ size = 0 /\ size' = n
       /\ obj' = [type |-> type, slotSize |-> slotSize,
                  slotIdx |-> IF type = "tiny" THEN 0
                              ELSE convert_slot_obj_size_to_slot_idx(slotSize, 2 ^ Exponent(type)),
                  pageSize |-> pageSize,
                  objs |-> IF slotSize = 0 THEN 0 ELSE pageSize \div slotSize]
       /\ UNCHANGED <<m_free_small_objs, m_free_big_objs, putIdx>>

\* The page put takes an object to come from.  A bulk object above the limit
\* is dropped with its page; one at the limit is not, although Get gave it a
\* page of its own.
PutPageSize(type, slotSize) ==
    IF type = "bulk" /\ slotSize = m_available_reserve_bulk_obj_max_size
    THEN gen_expand_slot_page_size(slotSize, m_expand_bulk_obj_cnt_factor, m_sys_page_size)
    ELSE PageSize(type, slotSize)

\* put is given what SlotIdx() answers, which is the size of the slot; it works
\* out the slot and how many objects a full page of it has.
put ==
    /\ size > 0 /\ putIdx = <<0, 0>> /\ obj.slotSize > 0
    /\ putIdx' = <<IF obj.type = "tiny" THEN 0
                   ELSE convert_slot_obj_size_to_slot_idx(obj.slotSize, 2 ^ Exponent(obj.type)),
                   PutPageSize(obj.type, obj.slotSize) \div obj.slotSize>>
    /\ UNCHANGED <<m_free_small_objs, m_free_big_objs, size, obj>>

Next == put \/ \E n \in 1 .. 2 ^ Width - 1 : Get(n)

Spec == Init /\ [][Next]_vars

----------------------------------------------------------------------------
\* Every size up to the last whole page a uint32_t can name gets an object that
\* holds it, from a slot the constructor made, on a page of whole objects; and
\* put returns it to that slot and counts as many objects on a full page as
\* Get split the page into, but for a bulk object exactly at the limit, whose
\* page put never finds full (mem-pool.cc, Get and put; mem-pool.h).
SlotFits ==
    size > 0 /\ size <= 2 ^ Width - m_sys_page_size =>
      /\ obj.slotSize >= size
      /\ obj.type = "small" => obj.slotIdx \in m_free_small_objs
      /\ obj.type = "big" => obj.slotIdx \in m_free_big_objs
      /\ obj.objs >= 1 /\ obj.objs * obj.slotSize <= obj.pageSize
      /\ putIdx # <<0, 0>> =>
           /\ putIdx[1] = obj.slotIdx
           /\ putIdx[2] = obj.objs \/ obj.slotSize = m_available_reserve_bulk_obj_max_size
=============================================================================
