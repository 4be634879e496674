SPECIFICATION MCSpec
CONSTANTS
    NoContent = NoContent
    tiny = tiny
    small = small
    Slots <- MCSlots
    Pages = {p1, p2, p3}
    MemObjects = {m1, m2, m3, m4}
    onePageObjsCnt <- MCOnePageObjsCnt
    residentCnts <- MCResidentCnts
    \* bulk sizes below, at and above the largest that is kept, such that one
    \* may serve another
    BulkSlots = {2, 3, 4, 5}
    BulkPages = {p1, p2, p3}
    MaxReserve = 4
    Factor = 2
    ResidentCnt = 1
    MaxHeld = 3
    \* sizes of 12 bits: pages of 32 bytes, slots of 8, and the thresholds in
    \* the proportions of mem-pool.h
    Width = 12
    PageExponent = 5
    FootstepExponent = 3
    m_tiny_obj_threshold = 4
    m_big_obj_threshold = 32
    m_bulk_obj_threshold = 256
    m_available_reserve_bulk_obj_max_size = 768
    m_expand_obj_cnt_factor = 5
    m_expand_bulk_obj_cnt_factor = 4
    \* the default list, which has four levels
    Keys = {1, 2, 3}
    Vals = {1, 2}
    Levels = 15
    MaxNodes = 3
INVARIANTS Exclusive NoLeak Trimmed BulkExclusive Roundtrip ListAgrees SlotFits
CHECK_DEADLOCK FALSE
