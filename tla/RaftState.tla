----------------------------- MODULE RaftState -----------------------------
(***************************************************************************)
(* RaftConsensus of one server: its current term and vote, the rfstate     *)
(* file that keeps them, and the steps of an election, over several lives  *)
(* of the process.  WriteFully may write in portions, the process may be   *)
(* killed between any two steps (a call that fails ends it too, with       *)
(* LOGFFUN), and the machine may lose power: then each part of the file    *)
(* not yet synced is one of the contents it had since the last fdatasync,  *)
(* the parts independently of each other.                                  *)
(*                                                                         *)
(* The elector manager is taken to be there, and the log to be empty: no   *)
(* code appends to it.  OnRequestVote is a stub that grants every request  *)
(* and neither reads nor changes what is modelled here, so what is claimed *)
(* is about the server's own candidacies and not about votes for others.   *)
(***************************************************************************)
EXTENDS Integers, FiniteSets

CONSTANTS
    m_iMyId,   \* the id of this server, not zero
    MaxLives   \* bound: how often the process is started

\* The parts of the file: the first four bytes, and the two fields of the
\* serialised state, 0 when not there.  "absent" and "empty" tell a file that is
\* not there from one of length 0, and "short" is one of less than four bytes.
Heads == {"absent", "empty", "short", "zeros", "magic"}

VARIABLES
    pc,              \* where the process stands, or how it ended
    lives,           \* how often it was started
    file,            \* the rfstate file as the process sees it
    unsynced,        \* the contents each part had since it was last synced
    m_iCurrentTerm,
    m_iVoteFor,
    asked            \* history: the term for which votes were last asked, or 0

vars == <<pc, lives, file, unsynced, m_iCurrentTerm, m_iVoteFor, asked>>

Init ==
    /\ pc = "down" /\ lives = 0
    /\ file = [head |-> "absent", term |-> 0, vote |-> 0]
    /\ unsynced = [heads |-> {"absent"}, terms |-> {0}, votes |-> {0}]
    /\ m_iCurrentTerm = 0 /\ m_iVoteFor = 0 /\ asked = 0

Down == pc \in {"down", "aborted", "fatal", "crashed"}

\* A write of one of the parts; behind nothing a term leaves a hole, which reads
\* as zeros.
WriteHead(h) ==
    /\ file' = [file EXCEPT !.head = h]
    /\ unsynced' = [unsynced EXCEPT !.heads = @ \union {h}]

WriteTerm(t) ==
    LET h == IF file.head = "empty" THEN "zeros" ELSE file.head
    IN /\ file' = [file EXCEPT !.head = h, !.term = t]
       /\ unsynced' = [unsynced EXCEPT !.heads = @ \union {h}, !.terms = @ \union {t}]

WriteVote(v) ==
    /\ file' = [file EXCEPT !.vote = v]
    /\ unsynced' = [unsynced EXCEPT !.votes = @ \union {v}]

Synced(f) == unsynced' = [heads |-> {f.head}, terms |-> {f.term}, votes |-> {f.vote}]

\* Deserialize, whose result nobody looks at: the fields up to the first that is
\* cut short or made of zeros.
Deserialize(f) == [term |-> f.term, vote |-> IF f.term = 0 THEN 0 ELSE f.vote]

----------------------------------------------------------------------------
(***************************************************************************)
(* The constructor and initialize.                                         *)
(***************************************************************************)
\* A new process.
Begin ==
    /\ Down /\ lives < MaxLives
    /\ lives' = lives + 1
    /\ UNCHANGED asked

\* There is no file: it is created, and its header written next ...
Create ==
    /\ Begin
    /\ file.head = "absent"
    /\ WriteHead("empty")
    /\ pc' = "header" /\ m_iCurrentTerm' = 0 /\ m_iVoteFor' = 0

\* ... at once or in portions.
WriteHeader ==
    /\ pc = "header"
    /\ \/ file.head = "empty" /\ WriteHead("short") /\ UNCHANGED pc
       \/ WriteHead("magic") /\ pc' = "constructed"
    /\ UNCHANGED <<lives, m_iCurrentTerm, m_iVoteFor, asked>>

\* The file is there and empty: initialize returns.
OpenEmpty ==
    /\ Begin
    /\ file.head = "empty"
    /\ pc' = "constructed" /\ m_iCurrentTerm' = 0 /\ m_iVoteFor' = 0
    /\ UNCHANGED <<file, unsynced>>

\* The header is cut short or not the magic number: LOGFFUN ends the process.
OpenCorrupt ==
    /\ Begin
    /\ file.head \in {"short", "zeros"}
    /\ pc' = "fatal" /\ m_iCurrentTerm' = 0 /\ m_iVoteFor' = 0
    /\ UNCHANGED <<file, unsynced>>

\* The term and the vote are read back through a Buffer on buf + 4 ...
OpenState ==
    /\ Begin
    /\ file.head = "magic"
    /\ pc' = "read"
    /\ m_iCurrentTerm' = Deserialize(file).term /\ m_iVoteFor' = Deserialize(file).vote
    /\ UNCHANGED <<file, unsynced>>

\* ... whose destructor deletes buf + 4, which new never returned: abort.
FreeBuffer ==
    /\ pc = "read"
    /\ pc' = "aborted"
    /\ UNCHANGED <<lives, file, unsynced, m_iCurrentTerm, m_iVoteFor, asked>>

initialize == Create \/ WriteHeader \/ OpenEmpty \/ OpenCorrupt \/ OpenState \/ FreeBuffer

----------------------------------------------------------------------------
(***************************************************************************)
(* Start subscribes to the heartbeat timer; its callback, with no leader,  *)
(* is start_new_election.                                                  *)
(***************************************************************************)
Start ==
    /\ pc = "constructed"
    /\ pc' = "follower"
    /\ UNCHANGED <<lives, file, unsynced, m_iCurrentTerm, m_iVoteFor, asked>>

prepare_new_election_env ==
    /\ pc = "follower"
    /\ pc' = "save"
    /\ m_iCurrentTerm' = m_iCurrentTerm + 1 /\ m_iVoteFor' = m_iMyId
    /\ UNCHANGED <<lives, file, unsynced, asked>>

\* A mutant of save_rf_state: the vote is left out.
save_rf_state_term ==
    /\ pc = "save"
    /\ WriteTerm(m_iCurrentTerm)
    /\ pc' = "sync"
    /\ UNCHANGED <<lives, m_iCurrentTerm, m_iVoteFor, asked>>

\* save_rf_state: lseek, the two fields in one or two writes (a portion that
\* ends within a field is read like one that ends before it) ...
save_rf_state ==
    /\ \/ pc = "save" /\ WriteTerm(m_iCurrentTerm) /\ pc' = "rest"
       \/ pc = "rest" /\ WriteVote(m_iVoteFor) /\ pc' = "sync"
    /\ UNCHANGED <<lives, m_iCurrentTerm, m_iVoteFor, asked>>

\* A mutant of FDataSync: it is left out.
NoDataSync ==
    /\ pc = "sync"
    /\ pc' = "broadcast" /\ asked' = m_iCurrentTerm
    /\ UNCHANGED <<lives, file, unsynced, m_iCurrentTerm, m_iVoteFor>>

\* ... and fdatasync; then the votes are asked for.
FDataSync ==
    /\ pc = "sync"
    /\ Synced(file)
    /\ pc' = "broadcast" /\ asked' = m_iCurrentTerm
    /\ UNCHANGED <<lives, file, m_iCurrentTerm, m_iVoteFor>>

\* GetLastEntry of the empty log is nullptr, and is dereferenced.
broadcast_request_vote ==
    /\ pc = "broadcast"
    /\ pc' = "crashed"
    /\ UNCHANGED <<lives, file, unsynced, m_iCurrentTerm, m_iVoteFor, asked>>

start_new_election ==
    prepare_new_election_env \/ save_rf_state \/ FDataSync \/ broadcast_request_vote

----------------------------------------------------------------------------
\* External: the process is killed; what it wrote stays in the page cache.
Kill ==
    /\ ~Down
    /\ pc' = "down"
    /\ UNCHANGED <<lives, file, unsynced, m_iCurrentTerm, m_iVoteFor, asked>>

\* What a power loss may leave; a file shorter than its header holds no state.
Contents ==
    {f \in [head : unsynced.heads, term : unsynced.terms, vote : unsynced.votes] :
       f.head \in {"absent", "empty", "short"} => f.term = 0 /\ f.vote = 0}

\* External: the machine loses power.
PowerLoss ==
    /\ pc # "down" \/ Cardinality(Contents) > 1
    /\ pc' = "down"
    /\ \E f \in Contents : file' = f /\ Synced(f)
    /\ UNCHANGED <<lives, m_iCurrentTerm, m_iVoteFor, asked>>

Next == initialize \/ Start \/ start_new_election \/ Kill \/ PowerLoss

Spec == Init /\ [][Next]_vars

----------------------------------------------------------------------------
\* The types of the state, and that the file as the process sees it is among
\* the contents a power loss may leave.
TypeOK ==
    /\ pc \in {"down", "aborted", "fatal", "crashed", "header", "constructed", "read",
               "follower", "save", "rest", "sync", "broadcast"}
    /\ lives \in 0 .. MaxLives
    /\ file \in Contents
    /\ unsynced.heads \subseteq Heads
    /\ m_iCurrentTerm \in Nat /\ m_iVoteFor \in {0, m_iMyId} /\ asked \in Nat

\* Once votes were asked for, what a power loss leaves still gives back that
\* term and the candidate's vote for itself: save_rf_state came first, wrote
\* both and synced, and no later life of the process writes anything else.
AskedIsRecorded ==
    asked > 0 => \A f \in Contents : Deserialize(f) = [term |-> asked, vote |-> m_iMyId]

\* No later life stands for election in a term it has asked votes for before,
\* whatever a kill in the middle of a write or a power loss left of the file.
AskedOnce ==
    pc \in {"save", "rest", "sync"} => m_iCurrentTerm > asked

\* A candidacy is kept through kills, torn writes, power losses and restarts.
CandidacyKept == AskedIsRecorded /\ AskedOnce
============================================================================
