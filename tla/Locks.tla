------------------------------- MODULE Locks -------------------------------
(***************************************************************************)
(* The scoped locks of ccsys: SpinLock on a spin_lock_t, ReadLock and      *)
(* WriteLock on a RwMutex.  Each thread has one lock object at a time, of  *)
(* any of the three classes, built locked or deferred, and calls its       *)
(* methods in any order before it destroys it.                             *)
(*                                                                         *)
(* The pthread_rwlock_t under RwMutex is external: it admits one writer or *)
(* several readers, and fails with EDEADLK for a thread that writes.       *)
(***************************************************************************)
EXTENDS Integers

CONSTANTS
    Threads,
    NoThread,
    MaxReads   \* bound: how often a thread is counted as a reader

\* What the model needs of its constants.
LocksAssumption == NoThread \notin Threads /\ MaxReads \in Nat

Classes == {"SpinLock", "ReadLock", "WriteLock"}

VARIABLES
    m_psl,        \* the spin lock word, "UNLOCKED" or "LOCKED"
    readers,      \* pthread_rwlock_t: the read locks of each thread
    writer,       \* pthread_rwlock_t: the thread that writes
    object,       \* the class of the lock object of each thread, or "none"
    at,           \* the call it is in: "out", "ctor" or "Lock"
    m_bOwnLock,   \* of the object of each thread
    threw,        \* the last call of the thread threw
    exited        \* exit was called

rw == <<readers, writer>>
vars == <<m_psl, rw, object, at, m_bOwnLock, threw, exited>>

Init ==
    /\ m_psl = "UNLOCKED"
    /\ readers = [t \in Threads |-> 0] /\ writer = NoThread
    /\ object = [t \in Threads |-> "none"] /\ at = [t \in Threads |-> "out"]
    /\ m_bOwnLock = [t \in Threads |-> FALSE] /\ threw = [t \in Threads |-> FALSE]
    /\ exited = FALSE

Ready(t) == ~exited /\ object[t] # "none" /\ at[t] = "out"

\* The lock of the object can be taken now.
Free(t) ==
    CASE object[t] = "SpinLock" -> m_psl = "UNLOCKED"
      [] object[t] = "ReadLock" -> writer = NoThread
      [] OTHER -> writer = NoThread /\ \A u \in Threads : readers[u] = 0

\* atomic_cas, pthread_rwlock_rdlock and pthread_rwlock_wrlock.
Take(t) ==
    CASE object[t] = "SpinLock" -> m_psl' = "LOCKED" /\ UNCHANGED rw
      [] object[t] = "ReadLock" ->
           /\ readers[t] < MaxReads
           /\ readers' = [readers EXCEPT ![t] = @ + 1]
           /\ UNCHANGED <<m_psl, writer>>
      [] OTHER -> writer' = t /\ UNCHANGED <<m_psl, readers>>

\* atomic_zero and pthread_rwlock_unlock.
Give(t) ==
    CASE object[t] = "SpinLock" -> m_psl' = "UNLOCKED" /\ UNCHANGED rw
      [] object[t] = "ReadLock" ->
           readers' = [readers EXCEPT ![t] = @ - 1] /\ UNCHANGED <<m_psl, writer>>
      [] OTHER -> writer' = NoThread /\ UNCHANGED <<m_psl, readers>>

----------------------------------------------------------------------------
\* The constructors; the deferred ones return at once.
Construct(t, c, defer) ==
    /\ ~exited /\ object[t] = "none"
    /\ object' = [object EXCEPT ![t] = c]
    /\ at' = [at EXCEPT ![t] = IF defer THEN "out" ELSE "ctor"]
    /\ m_bOwnLock' = [m_bOwnLock EXCEPT ![t] = FALSE]
    /\ threw' = [threw EXCEPT ![t] = FALSE]
    /\ UNCHANGED <<m_psl, rw, exited>>

Lock(t) ==
    /\ Ready(t)
    /\ threw' = [threw EXCEPT ![t] = m_bOwnLock[t]]
    /\ at' = [at EXCEPT ![t] = IF m_bOwnLock[t] THEN "out" ELSE "Lock"]
    /\ UNCHANGED <<m_psl, rw, object, m_bOwnLock, exited>>

\* The lock is taken.  Lock of ReadLock and WriteLock does not note it.
Acquire(t) ==
    /\ ~exited /\ at[t] # "out"
    /\ Free(t) /\ Take(t)
    /\ m_bOwnLock' = [m_bOwnLock EXCEPT ![t] = object[t] = "SpinLock" \/ at[t] = "ctor"]
    /\ at' = [at EXCEPT ![t] = "out"]
    /\ UNCHANGED <<object, threw, exited>>

\* RLock and WLock call exit when pthread finds the thread writing already.
LockFails(t) ==
    /\ ~exited /\ at[t] # "out"
    /\ object[t] # "SpinLock" /\ writer = t
    /\ exited' = TRUE
    /\ UNCHANGED <<m_psl, rw, object, at, m_bOwnLock, threw>>

TryLock(t) ==
    /\ Ready(t)
    /\ threw' = [threw EXCEPT ![t] = m_bOwnLock[t]]
    /\ \/ ~m_bOwnLock[t] /\ Free(t) /\ Take(t) /\ m_bOwnLock' = [m_bOwnLock EXCEPT ![t] = TRUE]
       \/ (m_bOwnLock[t] \/ ~Free(t)) /\ UNCHANGED <<m_psl, rw, m_bOwnLock>>
    /\ UNCHANGED <<object, at, exited>>

Unlock(t) ==
    /\ Ready(t)
    /\ threw' = [threw EXCEPT ![t] = ~m_bOwnLock[t]]
    /\ IF m_bOwnLock[t] THEN Give(t) ELSE UNCHANGED <<m_psl, rw>>
    /\ m_bOwnLock' = [m_bOwnLock EXCEPT ![t] = FALSE]
    /\ UNCHANGED <<object, at, exited>>

\* A mutant of Destroy: the destructor unlocks without looking at m_bOwnLock.
DestroyUnlocks(t) ==
    /\ Ready(t)
    /\ Give(t)
    /\ object' = [object EXCEPT ![t] = "none"]
    /\ m_bOwnLock' = [m_bOwnLock EXCEPT ![t] = FALSE]
    /\ UNCHANGED <<at, threw, exited>>

Destroy(t) ==
    /\ Ready(t)
    /\ IF m_bOwnLock[t] THEN Give(t) ELSE UNCHANGED <<m_psl, rw>>
    /\ object' = [object EXCEPT ![t] = "none"]
    /\ m_bOwnLock' = [m_bOwnLock EXCEPT ![t] = FALSE]
    /\ UNCHANGED <<at, threw, exited>>

Next ==
    \E t \in Threads :
      \/ \E c \in Classes, defer \in BOOLEAN : Construct(t, c, defer)
      \/ Lock(t) \/ Acquire(t) \/ LockFails(t) \/ TryLock(t) \/ Unlock(t) \/ Destroy(t)

Spec == Init /\ [][Next]_vars

----------------------------------------------------------------------------
\* The types of the locks and of the objects.
TypeOK ==
    /\ m_psl \in {"UNLOCKED", "LOCKED"}
    /\ readers \in [Threads -> 0 .. MaxReads] /\ writer \in Threads \union {NoThread}
    /\ object \in [Threads -> Classes \union {"none"}]
    /\ at \in [Threads -> {"out", "ctor", "Lock"}]
    /\ m_bOwnLock \in [Threads -> BOOLEAN] /\ threw \in [Threads -> BOOLEAN]
    /\ exited \in BOOLEAN

Owns(t, c) == object[t] = c /\ m_bOwnLock[t]

\* While an object owns a lock no other thread has it, in a way that
\* excludes it: SpinLock excludes SpinLock, WriteLock all of RwMutex,
\* however the objects were built, tried, unlocked and destroyed.
LocksExclusive ==
    \A t, u \in Threads : t # u =>
      /\ ~(Owns(t, "SpinLock") /\ Owns(u, "SpinLock"))
      /\ Owns(t, "WriteLock") => readers[u] = 0 /\ ~Owns(u, "WriteLock")
      /\ Owns(t, "ReadLock") => writer # u

\* The spin lock word is set only while an object that will clear it lives:
\* no way out of SpinLock leaves it locked.
SpinReleased == m_psl = "LOCKED" <=> \E t \in Threads : Owns(t, "SpinLock")
============================================================================
