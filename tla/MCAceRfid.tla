----------------------------- MODULE MCAceRfid -----------------------------
(* AceRfid on small instances: which tags the spools carry *)
EXTENDS AceRfid, TLC

CONSTANTS A, B, C

OneUntagged  == [sp \in Spools |-> IF sp = A THEN "native" ELSE "none"]
NativeAndRaw == [sp \in Spools |-> IF sp = A THEN "native" ELSE "raw"]
Untrusted    == [sp \in Spools |-> IF sp = A THEN "dirty" ELSE "foreign"]
Odd          == [sp \in Spools |->
                   CASE sp = A -> "badInjected" [] sp = B -> "uid" [] OTHER -> "native"]
=============================================================================
