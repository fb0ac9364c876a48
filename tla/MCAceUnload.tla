---------------------------- MODULE MCAceUnload ----------------------------
(* AceUnload on small instances *)
EXTENDS AceUnload
=============================================================================
