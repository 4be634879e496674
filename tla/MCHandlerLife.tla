--------------------------- MODULE MCHandlerLife ---------------------------
(* HandlerLife for TLC: connections the peer opened, each with an address of *)
(* its own.                                                                  *)
EXTENDS HandlerLife

MCOwnReal == [h \in Handlers |-> h]
============================================================================
