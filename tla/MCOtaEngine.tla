---------------------------- MODULE MCOtaEngine ----------------------------
(***************************************************************************)
(* One service with two releases: the second adds a container, comes from  *)
(* the private registry and still uses an image of the first.              *)
(***************************************************************************)
EXTENDS OtaEngine

OneService == {"om1"}
TwoContainers == {"main", "extra"}
TwoTags == {"v1", "v2"}
CfgOf(s, t) == IF t = "v1" THEN {"main"} ELSE {"main", "extra"}
ImageTagsOf(t) == IF t = "v1" THEN {"v1"} ELSE {"v2", "v1"}
SecondTag == {"v2"}

(* An engine waits for messages for ever; a handler that waits for ever    *)
(* is a deadlock.                                                          *)
WaitingSpec == Init /\ [][Next \/ (plan = <<>> /\ UNCHANGED vars)]_vars
=============================================================================
