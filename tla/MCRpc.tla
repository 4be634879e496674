-------------------------------- MODULE MCRpc -------------------------------
(***************************************************************************)
(* The layers of rpc calls, for TLC: a synchronous client with its         *)
(* callers, network threads and timer; the messenger that numbers the      *)
(* calls of a node and dispatches what comes back; the messages that       *)
(* client and server hand to the socket service; and the handlers it       *)
(* borrows to send them.  The messenger hands a client no response (see    *)
(* Messenger), who frees a message does not depend on what it is for, and  *)
(* MsgOwner lets handlers be deleted at any time, so none of them acts on  *)
(* another and subject says which one a behaviour is about.                *)
(***************************************************************************)
EXTENDS MCRpcSyncClient, RpcMessages, HandlerUse

CONSTANTS
    as, aa, ra, pa, pb,  \* calls of the messenger and their peers
    g1, g2, s1, s2       \* handlers and senders

VARIABLES subject

\* A call of each kind, to two peers (AppendEntriesSync and RequestVoteSync
\* take the same steps); the ids wrap after three.
MCKindOf ==
    [c \in {as, aa, ra} |->
       CASE c = as -> "AppendEntriesSync" [] c = aa -> "AppendEntriesAsync"
         [] OTHER -> "RequestVoteAsync"]
MCToPeer == [c \in {as, aa, ra} |-> IF c = ra THEN pb ELSE pa]

\* Handlers made by connect(), which have the address the peer listens on.
MCRealOf == [h \in {g1, g2} |-> pa]

\* The bound on handlers: a second handler beside one sender, or a second sender
\* beside one handler.
OneOrTheOther == adding[g2] = "connect" \/ thr[s2].at = "idle"

MCInit ==
    /\ subject \in {"client", "messenger", "owner", "handler"}
    /\ Init /\ Messenger!Init /\ Own!Init /\ Life!Init

MCNext ==
    \/ subject = "client" /\ Next /\ UNCHANGED <<subject, messengerVars, ownVars, lifeVars>>
    \/ subject = "messenger" /\ Messenger!Next /\ UNCHANGED <<subject, vars, ownVars, lifeVars>>
    \/ subject = "owner" /\ Own!Next /\ UNCHANGED <<subject, vars, messengerVars, lifeVars>>
    \/ /\ subject = "handler" /\ Life!Next /\ OneOrTheOther'
       /\ UNCHANGED <<subject, vars, messengerVars, ownVars>>

MCSpec == MCInit /\ [][MCNext]_<<subject, vars, messengerVars, ownVars, lifeVars>>
=============================================================================
