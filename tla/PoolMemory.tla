----------------------------- MODULE PoolMemory -----------------------------
(***************************************************************************)
(* The bulk objects of MemPool, the arithmetic that chooses a slot for a   *)
(* size, and what is claimed of them.  TLC checks it and                   *)
(* MemPoolSlotsProofs proves it.                                           *)
(***************************************************************************)

CONSTANTS
    BulkSlots, BulkPages, MaxReserve, Factor, ResidentCnt, MaxHeld,  \* of MemPoolBulk
    Width, PageExponent, FootstepExponent, m_tiny_obj_threshold,     \* of MemPoolSizes
    m_big_obj_threshold, m_bulk_obj_threshold, m_available_reserve_bulk_obj_max_size,
    m_expand_obj_cnt_factor, m_expand_bulk_obj_cnt_factor

VARIABLES
    live, tracked, trackKeys, hash, bulkObjs, bulkCnt, tree, stale, held, ub,
    m_free_small_objs, m_free_big_objs, size, obj, putIdx

bulkVars == <<live, tracked, trackKeys, hash, bulkObjs, bulkCnt, tree, stale, held, ub>>
sizeVars == <<m_free_small_objs, m_free_big_objs, size, obj, putIdx>>

Bulk == INSTANCE MemPoolBulk WITH
    Slots <- BulkSlots, Pages <- BulkPages, objs <- bulkObjs, cnt <- bulkCnt

Sizes == INSTANCE MemPoolSizes

ASSUME BulkUse == Bulk!BulkAssumption
ASSUME SizesUse == Sizes!SizesAssumption

\* No two users share bulk memory and none holds freed memory, whichever
\* size a bulk object was split from or reused for (mem-pool.cc, the bulk
\* branches of Get and put), as long as no dangling pointer has been read.
BulkExclusive == Bulk!Exclusive

\* Every size a page can still be named for gets an object that holds it, from
\* a slot that exists, and put finds that slot again and knows a full page of
\* it, but for a bulk object exactly at the limit (mem-pool.cc, mem-pool.h).
SlotFits == Sizes!SlotFits
=============================================================================
