------------------------------- MODULE AceUnit -------------------------------
(***************************************************************************)
(* The motion channel of an ACE unit as one G-code command on one lane     *)
(* meets it: the serial queue, the unit, and the status frame the driver   *)
(* caches.  AceTandem, AceLoad and AceUnload build their commands on it.   *)
(*                                                                         *)
(* The unit is not part of the repository.  It behaves as the driver's     *)
(* comments record it (klipper/instance.py):                               *)
(*   - FORBIDDEN while a previous move runs, and after a stop for a while; *)
(*   - in that while it may also acknowledge a motion and not execute it,  *)
(*     as it does with motion sent while an assist runs;                   *)
(*   - stopping a feed, an unwind and an assist is one and the same frame; *)
(*   - a motor that cannot move stops itself and reports a slot error,     *)
(*     which the next accepted motion clears.                              *)
(***************************************************************************)
EXTENDS Integers, Sequences

CONSTANTS MaxFaults    \* bound: faults in a behaviour

ASSUME FaultsAreNat == MaxFaults \in Nat

VARIABLES
  motor,    \* what the unit does on the lane
  window,   \* a stop is recent: motion may be refused or discarded
  slot,     \* the state of the slot: "ready", "error" or "empty"
  queue,    \* requests handed to the serial manager
  answer,   \* response_container of the attempt the command waits for
  frame,    \* _info: the last status frame
  beat,     \* a frame has arrived since the command last looked twice
  stopLost, \* history: a stop was lost on the link
  faults

unit == <<motor, window, slot>>
link == <<queue, answer>>
seen == <<frame, beat>>
channel == <<unit, link, seen, stopLost, faults>>

Ops     == {"wind", "feed", "assist", "stop"}
Moves   == {"wind", "feed"}
Request == [op : Ops, live : BOOLEAN]
Frame   == [ready : BOOLEAN, slot : {"ready", "error", "empty"},
            assisting : BOOLEAN]

UnitTypeOK ==
  /\ motor \in {"idle", "wind", "feed", "assist"}
  /\ window \in BOOLEAN
  /\ slot \in {"ready", "error", "empty"}
  /\ queue \in Seq(Request)
  /\ answer \in {"none", "ok", "forbidden"}
  /\ frame \in Frame
  /\ beat \in BOOLEAN
  /\ stopLost \in BOOLEAN
  /\ faults \in 0 .. MaxFaults

-----------------------------------------------------------------------------
(* Requests.  `live' marks the attempt whose callback somebody still reads.*)
Asks(op)  == [op |-> op, live |-> TRUE]
Tells(op) == [op |-> op, live |-> FALSE]

Later(r)  == queue' = Append(queue, r)
Sooner(r) == queue' = <<r>> \o queue

(* A new response_container: answers to the earlier attempts go nowhere. *)
Orphaned(q) == [i \in DOMAIN q |-> [q[i] EXCEPT !.live = FALSE]]

Attempt(op) ==
  /\ queue' = Append(Orphaned(queue), Asks(op))
  /\ answer' = "none"

GivenUp == queue' = Orphaned(queue) /\ answer' = "none"

(* _stop_retract queues its stop; _stop_feed sends it ahead. *)
StopRetract == Later(Tells("stop"))
StopFeed    == Sooner(Tells("stop"))

(* No answer is on its way: the request or the reply was lost. *)
Silent == answer = "none" /\ \A i \in DOMAIN queue : ~queue[i].live

Fault == faults < MaxFaults /\ faults' = faults + 1

-----------------------------------------------------------------------------
(* The cached status *)
Shown == [ready |-> motor = "idle", slot |-> slot,
          assisting |-> motor = "assist"]

Heartbeat ==
  /\ frame # Shown \/ ~beat
  /\ frame' = Shown
  /\ beat' = TRUE
  /\ UNCHANGED <<unit, link, stopLost, faults>>

(* _is_slot_empty, _get_slot_feed_error *)
ShownEmpty == frame.slot = "empty"
ShownError == frame.slot = "error"

-----------------------------------------------------------------------------
(* The unit *)
Replies(r, a) ==
  /\ queue' = Tail(queue)
  /\ answer' = IF r.live THEN a ELSE answer

Stops(r) ==
  /\ r.op = "stop"
  /\ motor' = "idle"
  /\ window' = TRUE
  /\ Replies(r, "ok")
  /\ UNCHANGED slot

Runs(r) ==
  /\ r.op # "stop"
  /\ motor = "idle"
  /\ motor' = r.op
  /\ slot' = IF slot = "error" THEN "ready" ELSE slot
  /\ Replies(r, "ok")
  /\ UNCHANGED window

Refuses(r) ==
  /\ r.op # "stop"
  /\ motor # "idle" \/ window
  /\ Replies(r, "forbidden")
  /\ UNCHANGED unit

(* "acknowledged and IGNORED" *)
Discards(r) ==
  /\ r.op # "stop"
  /\ motor = "assist" \/ (motor = "idle" /\ window)
  /\ Replies(r, "ok")
  /\ UNCHANGED unit

(* "a second retract command issued while one is already running *)
(* evidently disrupts it"                                        *)
Disrupted(r) ==
  /\ r.op \in Moves
  /\ motor = r.op
  /\ motor' = "idle"
  /\ Replies(r, "ok")
  /\ UNCHANGED <<window, slot>>

Executes(r) == Stops(r) \/ Runs(r) \/ Refuses(r) \/ Discards(r) \/ Disrupted(r)

Transact ==
  /\ queue # <<>>
  /\ Executes(Head(queue))
  /\ UNCHANGED <<seen, stopLost, faults>>

WindowEnds ==
  /\ window
  /\ window' = FALSE
  /\ UNCHANGED <<motor, slot, link, seen, stopLost, faults>>

MoveEnds ==
  /\ motor \in Moves
  /\ motor' = "idle"
  /\ UNCHANGED <<window, slot, link, seen, stopLost, faults>>

-----------------------------------------------------------------------------
(* Faults *)
RequestLost ==
  /\ Fault
  /\ queue # <<>>
  /\ queue' = Tail(queue)
  /\ stopLost' = (stopLost \/ Head(queue).op = "stop")
  /\ UNCHANGED <<unit, answer, seen>>

(* Carried out, and nobody hears of it. *)
ReplyLost ==
  /\ Fault
  /\ queue # <<>>
  /\ Head(queue).live
  /\ \/ Runs([Head(queue) EXCEPT !.live = FALSE])
     \/ Refuses([Head(queue) EXCEPT !.live = FALSE])
  /\ UNCHANGED <<seen, stopLost>>

(* The motor cannot move the filament and stops itself. *)
MotorFails ==
  /\ Fault
  /\ slot # "empty"
  /\ motor # "idle"
  /\ motor' = "idle"
  /\ slot' = "error"
  /\ UNCHANGED <<window, link, seen, stopLost>>

(* The end of the spool leaves the slot. *)
SpoolRunsOut ==
  /\ Fault
  /\ slot # "empty"
  /\ slot' = "empty"
  /\ UNCHANGED <<motor, window, link, seen, stopLost>>

UnitNext == Transact \/ WindowEnds \/ MoveEnds \/ Heartbeat
UnitFails == RequestLost \/ ReplyLost \/ MotorFails \/ SpoolRunsOut
=============================================================================
