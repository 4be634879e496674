---------------------------- MODULE ScopedLocks -----------------------------
(***************************************************************************)
(* The scoped locks of sys/ with the threads that use them, and what is    *)
(* claimed of them.  TLC checks it and ThreadingProofs proves it.          *)
(***************************************************************************)

CONSTANTS
    LockUsers, NoLockUser,  \* the threads, and none of them
    MaxReads                \* bound: how often a thread is counted as a reader

VARIABLES m_psl, readers, writer, object, at, m_bOwnLock, threw, exited

lockVars == <<m_psl, readers, writer, object, at, m_bOwnLock, threw, exited>>

Locks == INSTANCE Locks WITH Threads <- LockUsers, NoThread <- NoLockUser

ASSUME LockUse == Locks!LocksAssumption

\* While an object owns a lock no other thread has it, in a way that
\* excludes it: SpinLock excludes SpinLock, WriteLock all of RwMutex,
\* however the objects were built, tried, unlocked and destroyed.
LocksExclusive == Locks!LocksExclusive
=============================================================================
