------------------------------- MODULE RfLog --------------------------------
(***************************************************************************)
(* RtDiskRfLogger: the log of a server in memory, and its file, over       *)
(* several lives of the process.  The file is made and opened by           *)
(* initialize and grows by Sync, which AppendEntries calls (RaftConsensus  *)
(* asks for autoSync).  A write may be done in pieces, the process may be  *)
(* killed between any two steps, and the machine may lose power: then the  *)
(* file keeps what was synced and any part of what was written behind it.  *)
(*                                                                         *)
(* The file is a sequence of cells.  An integer takes Width of them, its   *)
(* high part, zero, first, and an entry is what protobuf made of it        *)
(* (external).  Junk is memory that nobody wrote.                          *)
(***************************************************************************)
EXTENDS Integers, Sequences

CONSTANTS
    Width,      \* RFLOG_MAGIC_NO_LEN and the width of an integer, 4 in the code
    Magic,      \* RFLOG_MAGIC_NO
    Batches,    \* the sequences of entries that are appended in one call
    MaxLives,   \* bound: how often the process is started
    MaxAppends  \* bound: calls of AppendEntries

Junk == -1

\* An integer takes some room in the file.
LogAssumption == Width \in Nat \ {0}

VARIABLES
    pc,              \* where the process stands, or how it ended
    lives, appends,  \* how many of them there were
    exists, file,    \* the file as the process sees it
    synced,          \* how much of it a power loss leaves
    fpos,            \* the offset of m_iFd
    unwritten,       \* what WriteFully has not written yet
    m_vEntries,
    m_iCurIdxToSync,
    m_iFileSize,
    promised         \* the file when Sync returned last

onDisk == <<exists, file, synced>>
members == <<m_vEntries, m_iCurIdxToSync, m_iFileSize>>
vars == <<pc, lives, appends, onDisk, fpos, unwritten, members, promised>>

Init ==
    /\ pc = "down" /\ lives = 0 /\ appends = 0
    /\ exists = FALSE /\ file = <<>> /\ synced = 0
    /\ fpos = 0 /\ unwritten = <<>>
    /\ m_vEntries = <<>> /\ m_iCurIdxToSync = 0 /\ m_iFileSize = 0
    /\ promised = <<>>

Down == pc \in {"down", "fatal", "aborted"}

WriteUInt32(n) == [k \in 1 .. Width |-> IF k = Width THEN n ELSE 0]

----------------------------------------------------------------------------
(***************************************************************************)
(* The constructor and initialize.                                         *)
(***************************************************************************)
\* A new process, whose members have their initial values.
Begin ==
    /\ Down /\ lives < MaxLives
    /\ lives' = lives + 1
    /\ fpos' = 0
    /\ m_vEntries' = <<>> /\ m_iCurIdxToSync' = 0
    /\ UNCHANGED <<appends, synced, promised>>

\* There is no file: it is created, and its header written next.
Create ==
    /\ Begin
    /\ ~exists
    /\ exists' = TRUE /\ file' = <<>>
    /\ unwritten' = WriteUInt32(Magic)
    /\ m_iFileSize' = 0
    /\ pc' = "header"

\* The file is there and empty: initialize returns.
OpenEmpty ==
    /\ Begin
    /\ exists /\ file = <<>>
    /\ m_iFileSize' = 0
    /\ pc' = "up"
    /\ unwritten' = <<>>
    /\ UNCHANGED <<exists, file>>

Headed == Len(file) >= Width /\ SubSeq(file, 1, Width) = WriteUInt32(Magic)

\* LOGFFUN: the header is torn, or is not the magic number.
OpenCorrupt ==
    /\ Begin
    /\ exists /\ file # <<>> /\ ~Headed
    /\ m_iFileSize' = Len(file)
    /\ pc' = "fatal"
    /\ unwritten' = <<>>
    /\ UNCHANGED <<exists, file>>

\* There is a header and nothing else; lseek comes next.
OpenHeader ==
    /\ Begin
    /\ Headed /\ Len(file) = Width
    /\ m_iFileSize' = Len(file)
    /\ pc' = "seek"
    /\ unwritten' = <<>>
    /\ UNCHANGED <<exists, file>>

(***************************************************************************)
(* There are entries.  The first is either refused, since what is read as  *)
(* its start position is not its offset or protobuf does not take it, or   *)
(* it is read through a Buffer that then deletes the mapped file, which    *)
(* new never returned.  Either ends the process.                           *)
(***************************************************************************)
OpenEntries ==
    /\ Begin
    /\ Headed /\ Len(file) > Width
    /\ m_iFileSize' = Len(file)
    /\ pc' \in {"fatal", "aborted"}
    /\ unwritten' = <<>>
    /\ UNCHANGED <<exists, file>>

LSeek ==
    /\ pc = "seek"
    /\ fpos' = Len(file)
    /\ pc' = "up"
    /\ UNCHANGED <<lives, appends, onDisk, unwritten, members, promised>>

initialize == Create \/ OpenEmpty \/ OpenCorrupt \/ OpenHeader \/ OpenEntries \/ LSeek

----------------------------------------------------------------------------
(***************************************************************************)
(* Appending.  Sync lays out every entry from m_iCurIdxToSync on, which    *)
(* only initialize advances, in a buffer of the length they need.  Its     *)
(* position moves on by all of offset, not by what offset grew, and what   *)
(* is stored behind the buffer's end does not reach the file.              *)
(***************************************************************************)
SyncLength(entries) ==
    LET length[i \in 0 .. Len(entries)] ==
          IF i = 0 THEN 0 ELSE length[i - 1] + 2 * Width + Len(entries[i])
    IN length[Len(entries)]

Stored(mem, pos, cells) ==
    [k \in DOMAIN mem |-> IF k - pos \in DOMAIN cells THEN cells[k - pos] ELSE mem[k]]

SyncEntry(b, e) ==
    LET entryStartOffset == m_iFileSize + b.offset
        content == b.offset + Width
        tail == content + Len(e)
        pos1 == b.pos + content
        pos2 == pos1 + tail
    IN [mem |-> Stored(Stored(Stored(b.mem, b.pos, WriteUInt32(Len(e))), pos1, e),
                       pos2, WriteUInt32(entryStartOffset)),
        pos |-> pos2 + tail + Width,
        offset |-> tail + Width]

SyncBuffer(entries) ==
    LET buffer[i \in 0 .. Len(entries)] ==
          IF i = 0 THEN [mem |-> [k \in 1 .. SyncLength(entries) |-> Junk], pos |-> 0, offset |-> 0]
          ELSE SyncEntry(buffer[i - 1], entries[i])
    IN buffer[Len(entries)].mem

ToSync(entries) == SubSeq(entries, m_iCurIdxToSync + 1, Len(entries))

AppendEntries(batch) ==
    /\ pc = "up" /\ appends < MaxAppends
    /\ appends' = appends + 1
    /\ m_vEntries' = m_vEntries \o batch
    /\ unwritten' = SyncBuffer(ToSync(m_vEntries \o batch))
    /\ pc' = "sync"
    /\ UNCHANGED <<lives, onDisk, fpos, m_iCurIdxToSync, m_iFileSize, promised>>

\* One write of WriteFully, of the header or of what Sync laid out.
WriteFully(n) ==
    /\ pc \in {"header", "sync"}
    /\ n \in 1 .. Len(unwritten)
    /\ LET end == fpos + n
       IN /\ file' = [k \in 1 .. (IF end > Len(file) THEN end ELSE Len(file)) |->
                        IF k \in fpos + 1 .. end THEN unwritten[k - fpos] ELSE file[k]]
          /\ fpos' = end
    /\ unwritten' = SubSeq(unwritten, n + 1, Len(unwritten))
    /\ pc' = IF n < Len(unwritten) THEN pc ELSE IF pc = "header" THEN "seek" ELSE "fsync"
    /\ UNCHANGED <<lives, appends, exists, synced, members, promised>>

\* A mutant of FSync: Sync returns without it.
FSyncNot ==
    /\ pc = "fsync"
    /\ m_iFileSize' = m_iFileSize + SyncLength(ToSync(m_vEntries))
    /\ promised' = file
    /\ pc' = "up"
    /\ UNCHANGED <<lives, appends, onDisk, fpos, unwritten, m_vEntries, m_iCurIdxToSync>>

\* fsync, and Sync returns.
FSync ==
    /\ pc = "fsync"
    /\ synced' = Len(file)
    /\ m_iFileSize' = m_iFileSize + SyncLength(ToSync(m_vEntries))
    /\ promised' = file
    /\ pc' = "up"
    /\ UNCHANGED <<lives, appends, exists, file, fpos, unwritten, m_vEntries, m_iCurIdxToSync>>

----------------------------------------------------------------------------
\* External: the process is killed, or LOGFFUN ends it on an error of a call.
Kill ==
    /\ ~Down
    /\ pc' = "down"
    /\ UNCHANGED <<lives, appends, onDisk, fpos, unwritten, members, promised>>

\* External: the machine loses power.
PowerLoss ==
    /\ pc' = "down"
    /\ \E n \in synced .. Len(file) :
         /\ file' = SubSeq(file, 1, n)
         /\ synced' = n
         /\ \/ UNCHANGED exists
            \/ n = 0 /\ exists' = FALSE
    /\ UNCHANGED <<lives, appends, fpos, unwritten, members, promised>>

Next ==
    \/ initialize
    \/ \E batch \in Batches : AppendEntries(batch)
    \/ \E n \in 1 .. Len(unwritten) : WriteFully(n)
    \/ FSync \/ Kill \/ PowerLoss

Spec == Init /\ [][Next]_vars

----------------------------------------------------------------------------
\* What Sync returned for stays in the file, through later appends, kills,
\* power losses and restarts, whatever part of a write they cut off.
LogKept == Len(promised) <= Len(file) /\ promised = SubSeq(file, 1, Len(promised))
=============================================================================
