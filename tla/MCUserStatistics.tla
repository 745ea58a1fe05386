-------------------------- MODULE MCUserStatistics --------------------------
(* Two statistics of one user and one of another, for TLC. *)
EXTENDS UserStatistics

CONSTANTS alice, bob, kills, deaths

MCTracked == {<<alice, kills>>, <<alice, deaths>>, <<bob, kills>>}

=============================================================================
