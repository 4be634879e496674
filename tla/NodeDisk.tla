------------------------------ MODULE NodeDisk ------------------------------
(***************************************************************************)
(* What a server has on disk, its raft state, its log and the directories  *)
(* it makes, and what is claimed of each.  TLC checks it and DiskProofs    *)
(* proves it.                                                              *)
(***************************************************************************)

CONSTANTS
    MaxLives,                                \* bound: starts of the process
    Width, Magic, Batches, MaxAppends,       \* of RfLog
    m_iMyId,                                 \* of RaftState
    Creators, pathOf, Root, Paths, DirNames  \* of FileTree, and the names in paths

VARIABLES
    pc, lives, appends, exists, file, synced, fpos, unwritten, m_vEntries,
    m_iCurIdxToSync, m_iFileSize, promised,
    raftPc, raftLives, raftFile, unsynced, m_iCurrentTerm, m_iVoteFor, asked,
    tree, first, running, creator, remover, dirs

logVars == <<pc, lives, appends, exists, file, synced, fpos, unwritten, m_vEntries,
             m_iCurIdxToSync, m_iFileSize, promised>>
raftVars == <<raftPc, raftLives, raftFile, unsynced, m_iCurrentTerm, m_iVoteFor, asked>>
dirVars == <<tree, first, running, creator, remover, dirs>>

Log == INSTANCE RfLog

Raft == INSTANCE RaftState WITH pc <- raftPc, lives <- raftLives, file <- raftFile

Dirs == INSTANCE FileTree

ASSUME LogUse == Log!LogAssumption

ASSUME DirUse == Dirs!Named(DirNames)

\* What RtDiskRfLogger::Sync returned for stays in the log file, through later
\* appends, kills, power losses and restarts.
LogKept == Log!LogKept

\* Once the server asked for votes in a term (raft-consensus.cc
\* start_new_election), that term and its vote for itself can be read back after
\* any kill or power loss, and no later life asks for votes in that term again,
\* though WriteFully may leave a state half written (save_rf_state, initialize).
CandidacyKept == Raft!CandidacyKept

\* Processes in CreateDirPath do not disturb each other, and RemoveDirectory
\* removes a directory and nothing else.
DirsSettle == Dirs!DirsSettle
=============================================================================
