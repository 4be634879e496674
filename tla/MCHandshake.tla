---------------------------- MODULE MCHandshake ----------------------------
(* Handshake for TLC: a and b connect to each other, a may try again. *)
EXTENDS Handshake

CONSTANTS a, b, c1, c2, c3

MCNodes == {a, b}
MCConns == {c1, c2, c3}
MCClientOf == [c \in Conns |-> IF c = c2 THEN b ELSE a]
MCTwoConns == {c1, c2}
============================================================================
