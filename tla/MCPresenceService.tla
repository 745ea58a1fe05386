------------------------- MODULE MCPresenceService -------------------------
(* Small instances of PresenceService for TLC. *)
EXTENDS PresenceService, TLC

CONSTANTS alice, bob, mine, other

UserSymmetry == Permutations({alice, bob})

=============================================================================
