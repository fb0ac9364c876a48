----------------------------- MODULE MCAceLoad -----------------------------
(* AceLoad on small instances *)
EXTENDS AceLoad

(* The post-gear switch one segment past the entry switch, or two. *)
NearGears == {2, 3}

(* What the hub sees of a 10 mm chunk: nothing, the dip of a first chunk,  *)
(* all of it, and a free-running spool.                                    *)
HubMotions == {0, 7, 10, 25}
HubCounts  == {0, 40}
=============================================================================
