---------------------------- MODULE MCAceTandem ----------------------------
(* AceTandem on small instances *)
EXTENDS AceTandem

(* Switches within reach of the cap: the tip parked on the post-gear       *)
(* switch, a segment into it, or past it.                                  *)
NearPlaces == { [seat |-> 2, entry |-> 4], [seat |-> 1, entry |-> 2],
                [seat |-> 0, entry |-> 3] }
NextTools  == {0, 4}
=============================================================================
