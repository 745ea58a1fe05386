---------------------------- MODULE MCSocialGraph ----------------------------
(* A graph with one user who may come to be followed and one who does not. *)
EXTENDS SocialGraph

CONSTANTS friend, stranger, online, offline, list, filter

MCUsers == {friend, stranger}
MCPresences == {online, offline}
MCOnline == {online}
MCFollowedSets == {{}, {friend}}
MCLists == {{friend}, {stranger}}
MCGroups == {list, filter}
MCListGroups == {list}
=============================================================================
