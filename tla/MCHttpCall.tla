----------------------------- MODULE MCHttpCall -----------------------------
(* Two calls of one user, who share a token. *)
EXTENDS HttpCall

CONSTANTS c1, c2, u

MCCalls == {c1, c2}
MCUsers == {u}
MCUserOf == [c \in MCCalls |-> u]
=============================================================================
