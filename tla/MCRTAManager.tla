---------------------------- MODULE MCRTAManager ----------------------------
(* Small instances of RTAManager for TLC. *)
EXTENDS RTAManager, TLC

CONSTANTS alice, bob, s1, s2

\* One user with two subscriptions, and two users with one each.
SameUser == [s \in {s1, s2} |-> alice]
OwnUser == [s \in {s1, s2} |-> IF s = s1 THEN alice ELSE bob]

=============================================================================
