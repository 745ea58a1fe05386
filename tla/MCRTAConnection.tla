-------------------------- MODULE MCRTAConnection --------------------------
(* Small instances of RTAConnection for TLC. *)
EXTENDS RTAConnection, TLC

CONSTANTS c1, c2, c3, u1, u2

\* Two clients that share a URI.
SharedUri == [c \in {c1, c2} |-> u1]
\* Two clients with a URI each.
OwnUri == [c \in {c1, c2} |-> IF c = c1 THEN u1 ELSE u2]
\* Two that share a URI, and a third one.
Mixed == [c \in {c1, c2, c3} |-> IF c = c3 THEN u2 ELSE u1]
OneClient == [c \in {c1} |-> u1]

=============================================================================
