---------------------------- MODULE MCUserTags ----------------------------
(* Two jobs of two users that may share the node.                           *)
EXTENDS UserTags
Jobs == {"j1", "j2"}
Users == {"u1", "u2"}
Submitters == [j \in Jobs |-> IF j = "j1" THEN "u1" ELSE "u2"]
=============================================================================
