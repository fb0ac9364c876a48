---------------------------- MODULE MCAceAssist ----------------------------
(* AceAssist on small instances *)
EXTENDS AceAssist, TLC

CONSTANTS s0, s1

(* The lanes are interchangeable in everything but liveness runs. *)
Lanes == Permutations({s0, s1})
=============================================================================
