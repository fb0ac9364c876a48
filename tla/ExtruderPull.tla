---------------------------- MODULE ExtruderPull ----------------------------
(***************************************************************************)
(* What a tandem pull promises to whoever calls it (the docstrings of      *)
(* _tandem_extract and _retract_async_verified, klipper/instance.py): the  *)
(* extruder stands still until the unit has accepted to unwind the lane,   *)
(* pulls at most the cap and one margin segment, and has come to rest when *)
(* the pull is declared over; a pull declared free has freed the entry.    *)
(***************************************************************************)
EXTENDS Naturals

CONSTANTS Cap    \* the jam guard, in segments

VARIABLES
  stage,   \* "rest": nobody pulls; "asked": the unit has been asked;
           \* "pulling": the unit has accepted
  drawn,   \* segments the extruder has executed in this pull
  free,    \* the entry switch is clear
  outcome  \* how the last pull ended: "none", "free", "raised", or "broken"
           \* when the printer refused the extruder's own move

pvars == <<stage, drawn, free, outcome>>

Init ==
  /\ stage = "rest"
  /\ drawn = 0
  /\ free \in BOOLEAN
  /\ outcome = "none"

Ask ==
  /\ stage = "rest"
  /\ stage' = "asked"
  /\ drawn' = 0
  /\ outcome' = "none"
  /\ UNCHANGED free

Grant ==
  /\ stage = "asked"
  /\ stage' = "pulling"
  /\ UNCHANGED <<drawn, free, outcome>>

(* Refused, or never let through: the extruder has not moved. *)
Refuse ==
  /\ stage \in {"rest", "asked"}
  /\ stage' = "rest"
  /\ drawn' = 0
  /\ outcome' = "raised"
  /\ UNCHANGED free

(* One segment; the strand may follow far enough to free the entry. *)
Draw ==
  /\ stage = "pulling"
  /\ drawn <= Cap
  /\ drawn' = drawn + 1
  /\ free' \in {free, TRUE}
  /\ UNCHANGED <<stage, outcome>>

Succeed ==
  /\ stage = "pulling"
  /\ free
  /\ stage' = "rest"
  /\ outcome' = "free"
  /\ UNCHANGED <<drawn, free>>

Fail ==
  /\ stage = "pulling"
  /\ stage' = "rest"
  /\ outcome' = "raised"
  /\ UNCHANGED <<drawn, free>>

(* The printer refuses a segment: what it has queued before still runs. *)
Break ==
  /\ stage = "pulling"
  /\ stage' = "rest"
  /\ outcome' = "broken"
  /\ UNCHANGED <<drawn, free>>

Coast ==
  /\ stage = "rest"
  /\ outcome = "broken"
  /\ drawn <= Cap
  /\ drawn' = drawn + 1
  /\ free' \in {free, TRUE}
  /\ UNCHANGED <<stage, outcome>>

Next == Ask \/ Grant \/ Refuse \/ Draw \/ Succeed \/ Fail \/ Break \/ Coast

Spec == Init /\ [][Next]_pvars
=============================================================================
