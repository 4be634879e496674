------------------------------- MODULE Timer --------------------------------
(***************************************************************************)
(* ccsys::Timer (src/src/ccsys/timer.{h,cc}): one thread that runs the     *)
(* callbacks of subscribed events when they are due.                       *)
(*                                                                         *)
(* Subscriptions live in two maps, both guarded by the spin lock           *)
(* m_thread_safe_sl: m_mapSubscribedEvents, ordered by time, and           *)
(* m_mapEventsEntry, from the id <<when, callback>> the subscriber was     *)
(* given to the position in the first map.  The number "n" of a            *)
(* subscription stands for that position.  The worker holds the lock while *)
(* it is at "drain"; it does not hold it, nor wait yet, at "unlocked".     *)
(* Notifications are sent without m_evs_mtx, so they reach the worker only *)
(* once it is "waiting".                                                   *)
(***************************************************************************)
EXTENDS Naturals

CONSTANTS
    Callbacks,  \* addresses of callbacks: numbers, compared by operator<
    MaxTime,    \* bound: the clock stops here
    MaxSubs,    \* bound: accepted subscriptions
    MaxStarts   \* bound: calls of Start that start the timer

ASSUME TimerAssumption ==
    /\ Callbacks \subseteq Nat
    /\ MaxTime \in Nat /\ MaxSubs \in Nat /\ MaxStarts \in Nat

VARIABLES
    m_stop,
    worker,     \* where the thread running process() is
    events,     \* m_mapSubscribedEvents
    entries,    \* m_mapEventsEntry
    min,        \* the position process() took before it unlocked, 0 if none
    deadline,   \* what wait_until waits for
    now,        \* the clock
    subs,       \* subscriptions accepted so far
    fired,      \* subscriptions whose callback has run
    cancelled,  \* subscriptions UnsubscribeEvent has removed
    stopping,   \* a Stop() is between its two critical sections
    starts      \* calls of Start that started the timer

maps == <<events, entries, subs, fired, cancelled>>
vars == <<m_stop, worker, maps, min, deadline, now, stopping, starts>>

Times == 0 .. MaxTime
Forever == MaxTime + 1
Id(e) == <<e.when, e.callback>>
Subscription == [when : Times, callback : Callbacks, n : 1 .. MaxSubs]

Init ==
    /\ m_stop = TRUE /\ worker = "none"
    /\ events = {} /\ entries = {} /\ subs = 0 /\ fired = {} /\ cancelled = {}
    /\ min = 0 /\ deadline = Forever /\ now = 0
    /\ stopping = FALSE /\ starts = 0

SpinLockFree == worker # "drain"

\* m_cv.notify_one()
NotifyWorker == worker' = IF worker = "waiting" THEN "test" ELSE worker

\* operator< puts each of two ids before the other when one is earlier and has
\* the larger callback address.
Clash(d, e) ==
    \/ d.when < e.when /\ d.callback > e.callback
    \/ d.when > e.when /\ d.callback < e.callback

\* The results m_mapEventsEntry.find may have for an id: the entry of that id,
\* except that the tree search can miss it when other entries clash with it.
Find(when, callback) ==
    LET hit == {e \in entries : Id(e) = <<when, callback>>} IN
    {hit} \union (IF \E h \in hit : \E e \in entries : Clash(h, e) THEN {{}} ELSE {})

----------------------------------------------------------------------------
Start ==
    /\ SpinLockFree /\ m_stop /\ starts < MaxStarts
    /\ m_stop' = FALSE
    /\ starts' = starts + 1
    /\ worker' = IF worker = "none" THEN "test" ELSE worker
    /\ UNCHANGED <<maps, min, deadline, now, stopping>>

UnsubscribeAllEvent ==
    /\ SpinLockFree
    /\ events' = {} /\ entries' = {}
    /\ UNCHANGED <<m_stop, worker, subs, fired, cancelled, min, deadline, now, starts>>

\* Stop() clears the maps, and then takes the lock again to stop the worker.
StopClear == ~stopping /\ stopping' = TRUE /\ UnsubscribeAllEvent

StopNotify ==
    /\ stopping /\ SpinLockFree
    /\ stopping' = FALSE
    /\ m_stop' = TRUE
    /\ NotifyWorker
    /\ UNCHANGED <<maps, min, deadline, now, starts>>

\* A subscription is refused when some event has this very time and an event
\* at this time or later has this callback.
Present(when, callback) ==
    /\ \E e \in events : e.when = when
    /\ \E e \in events : e.when >= when /\ e.callback = callback

\* A refused subscription changes nothing.
SubscribeEventAt(when, callback) ==
    /\ SpinLockFree /\ subs < MaxSubs
    /\ ~Present(when, callback)
    /\ LET new == [when |-> when, callback |-> callback, n |-> subs + 1] IN
       /\ events' = events \union {new}
       /\ entries' = IF {hit \in entries : Id(hit) = Id(new)} = {}
                       THEN entries \union {new} ELSE entries
    /\ subs' = subs + 1
    /\ IF \A e \in events : when < e.when THEN NotifyWorker ELSE UNCHANGED worker
    /\ UNCHANGED <<m_stop, fired, cancelled, min, deadline, now, stopping, starts>>

\* A mutant of UnsubscribeEvent: only the entry is erased.
UnsubscribeEventById(when, callback) ==
    /\ SpinLockFree
    /\ \E hit \in Find(when, callback) :
        /\ entries' = entries \ hit
        /\ cancelled' = cancelled \union {e.n : e \in hit}
    /\ UNCHANGED <<m_stop, worker, events, subs, fired, min, deadline, now, stopping, starts>>

\* An entry whose event is gone has a dangling position; erasing it is
\* undefined, and taken here to change nothing but the entries.
UnsubscribeEvent(when, callback) ==
    /\ SpinLockFree
    /\ \E hit \in Find(when, callback) :
        /\ entries' = entries \ hit
        /\ events' = {e \in events : \A h \in hit : h.n # e.n}
        /\ cancelled' = cancelled \union {e.n : e \in events \ events'}
    /\ UNCHANGED <<m_stop, worker, subs, fired, min, deadline, now, stopping, starts>>

----------------------------------------------------------------------------
(* process() *)

ProcTest ==
    /\ worker = "test"
    /\ worker' = IF m_stop THEN "ended" ELSE "lock"
    /\ UNCHANGED <<m_stop, maps, min, deadline, now, stopping, starts>>

ProcLock ==
    /\ worker = "lock"
    /\ worker' = "drain"
    /\ UNCHANGED <<m_stop, maps, min, deadline, now, stopping, starts>>

\* m_mapSubscribedEvents.begin(): the earliest event, the first subscribed of
\* those at the same time.
Begin(e) ==
    /\ e \in events
    /\ \A d \in events : e.when < d.when \/ (e.when = d.when /\ e.n <= d.n)

\* A mutant of ProcFire: the event is not erased from the table of ids.
ProcFireKeeping ==
    /\ worker = "drain"
    /\ \E e \in events :
        /\ Begin(e) /\ e.when <= now
        /\ events' = events \ {e}
        /\ fired' = fired \union {e.n}
    /\ UNCHANGED <<m_stop, worker, entries, subs, cancelled, min, deadline, now,
                   stopping, starts>>

\* Run the callback of the first event if it is due, and erase the event.
ProcFire ==
    /\ worker = "drain"
    /\ \E e \in events :
        /\ Begin(e) /\ e.when <= now
        /\ events' = events \ {e}
        /\ fired' = fired \union {e.n}
        /\ \E hit \in Find(e.when, e.callback) : entries' = entries \ hit
    /\ UNCHANGED <<m_stop, worker, subs, cancelled, min, deadline, now, stopping, starts>>

\* Nothing is due (any more): remember the first event, and unlock.
ProcUnlock ==
    /\ worker = "drain"
    /\ \A e \in events : e.when > now
    /\ worker' = "unlocked"
    /\ min' \in IF events = {} THEN {0} ELSE {e.n : e \in {d \in events : Begin(d)}}
    /\ UNCHANGED <<m_stop, maps, deadline, now, stopping, starts>>

\* Wait for a notification, or until the time of the remembered event.  The
\* event may have been erased since: then its time is read from freed memory.
ProcWait ==
    /\ worker = "unlocked"
    /\ worker' = "waiting"
    /\ deadline' \in IF min = 0 THEN {Forever}
                     ELSE IF \E e \in events : e.n = min
                            THEN {e.when : e \in {d \in events : d.n = min}}
                            ELSE 0 .. Forever
    /\ UNCHANGED <<m_stop, maps, min, now, stopping, starts>>

Timeout ==
    /\ worker = "waiting" /\ deadline <= now
    /\ worker' = "test"
    /\ UNCHANGED <<m_stop, maps, min, deadline, now, stopping, starts>>

SpuriousWakeup ==
    /\ worker = "waiting"
    /\ worker' = "test"
    /\ UNCHANGED <<m_stop, maps, min, deadline, now, stopping, starts>>

process == ProcTest \/ ProcLock \/ ProcFire \/ ProcUnlock \/ ProcWait \/ Timeout

Tick ==
    /\ now < MaxTime
    /\ now' = now + 1
    /\ UNCHANGED <<m_stop, worker, maps, min, deadline, stopping, starts>>

Next ==
    \/ Start \/ StopClear \/ StopNotify
    \/ UnsubscribeAllEvent /\ UNCHANGED stopping
    \/ \E when \in Times, callback \in Callbacks :
        SubscribeEventAt(when, callback) \/ UnsubscribeEvent(when, callback)
    \/ process \/ SpuriousWakeup \/ Tick

Spec == Init /\ [][Next]_vars

\* The worker is scheduled, time goes on, and a Stop() that has begun ends.
FairSpec == Spec /\ WF_vars(process) /\ WF_vars(Tick) /\ WF_vars(StopNotify)

----------------------------------------------------------------------------
\* Types; every subscription in the map has been counted.
TypeOK ==
    /\ m_stop \in BOOLEAN /\ stopping \in BOOLEAN
    /\ worker \in {"none", "test", "lock", "drain", "unlocked", "waiting", "ended"}
    /\ events \subseteq Subscription /\ entries \subseteq Subscription
    /\ \A e \in events : e.n <= subs
    /\ subs \in 0 .. MaxSubs /\ starts \in 0 .. MaxStarts
    /\ fired \subseteq 1 .. subs /\ cancelled \subseteq 1 .. subs
    /\ min \in 0 .. MaxSubs /\ deadline \in 0 .. Forever /\ now \in Times

\* Every subscription ends at most one way: it is never run twice, never run
\* after UnsubscribeEvent removed it, never removed after it has run.
EndsOnce ==
    /\ fired \intersect cancelled = {}
    /\ \A e \in events : e.n \notin fired \union cancelled
    /\ \A d, e \in events : d.n = e.n => d = e

\* The two maps describe the same subscriptions whenever the lock is free, so
\* no id leads to an erased position.
EntriesAgree == entries = events

\* A subscribed event fires when its time comes (timer.h:84), unless it is
\* removed or the timer is stopped.
EventsFire ==
    \A n \in 1 .. MaxSubs :
        (\E e \in events : e.n = n) ~> (m_stop \/ ~ \E e \in events : e.n = n)

=============================================================================
