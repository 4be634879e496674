----------------------------- MODULE HandlerUse -----------------------------
(***************************************************************************)
(* The handlers of the connections to a peer, which SendMessage borrows,   *)
(* and what is claimed of them.  TLC checks it and ConnectionProofs proves *)
(* it.                                                                     *)
(***************************************************************************)

CONSTANTS Handlers, NoHandler, Senders, Disc, IO, realOf

VARIABLES
    mem, m_iRef, owned, adding, m_hmap_workers, m_hmap_rp_lp, toAdd, toWrite,
    toDelete, epoll, ioLoop, thr, touched, miscounted

lifeVars == <<mem, m_iRef, owned, adding, m_hmap_workers, m_hmap_rp_lp, toAdd,
              toWrite, toDelete, epoll, ioLoop, thr, touched, miscounted>>

Life == INSTANCE HandlerLife WITH
    m_pOwnEvWorker <- owned, m_lAddEpExtEvents <- toAdd, m_lRwOpExtEvents <- toWrite,
    m_lDelEpExtEvents <- toDelete, loop <- ioLoop, undefined <- touched

ASSUME LifeUse == Life!HandlersAssumption

\* No handler is freed under the manager, a thread that holds a reference or the
\* loop, until the count fails it, because two senders borrowed it at a time or
\* on_finish released a handler other than the one it removed; on_finish may
\* rely on its handler even then.
HandlersAlive == Life!HandlersAlive
=============================================================================
