------------------------------ MODULE AceUnload ------------------------------
(***************************************************************************)
(* Unloading a lane (klipper/instance.py): the blocking _retract, the      *)
(* RDM-monitored unload, the fixed-length unload that falls back on it,    *)
(* and the feed assist the unload takes and gives back (ACE2: an assist    *)
(* keeps the unit busy).                                                   *)
(*                                                                         *)
(* The commands trust a status frame up to a second old, two switches, and *)
(* the acknowledgements of a unit that may refuse, discard or repeat.      *)
(* `tip' is where the strand ends: 2 at the toolhead, 1 in the RDM, 0      *)
(* parked.  A stub is a piece of filament that stays at the toolhead.      *)
(***************************************************************************)
EXTENDS AceUnit

CONSTANTS
  MaxRetries,  \* MAX_RETRIES
  MaxCalls     \* bound: unloads in a behaviour

ASSUME BoundsAreNat == MaxRetries \in Nat \ {0} /\ MaxCalls \in Nat

VARIABLES
  rdm,         \* has_rdm_sensor
  tip, stub,
  pc,
  phase,       \* which _retract runs: of "rmd", or the "smart", "extra" or
               \* "nested" one of _smart_unload_slot
  try,
  early,       \* early_stop_state: the slot was seen empty
  cleared,     \* rdm_state: the RDM was seen clear
  first,       \* initial_state of the toolhead monitor
  toolchange,  \* toolchange_in_progress
  claim,       \* _feed_assist_index: "none", "this" lane, or an "other" one
  captured,    \* f_index
  arming,      \* an assist request is unanswered
  result,      \* what the monitored unload is about to return
  outcome,     \* how the last unload ended
  refused,     \* history: the unit did not confirm the restored assist
  adrift,      \* history: an assist ran on after its answer was lost
  calls

told == <<refused, adrift, calls>>

command == <<pc, phase, try, early, cleared, first, toolchange, claim,
             captured, arming, result, outcome>>
path    == <<rdm, tip, stub>>
vars    == <<channel, path, command, told>>

Lanes == {"none", "this", "other"}

TypeOK ==
  /\ UnitTypeOK
  /\ rdm \in BOOLEAN /\ stub \in BOOLEAN
  /\ tip \in 0 .. 2
  /\ pc \in {"idle", "ready", "await", "dwell", "overshoot", "settle",
             "overshooting", "stopped", "validate", "restore", "rearm"}
  /\ phase \in {"rmd", "smart", "extra", "nested"}
  /\ try \in 0 .. MaxRetries
  /\ early \in BOOLEAN /\ cleared \in BOOLEAN /\ first \in BOOLEAN
  /\ toolchange \in BOOLEAN /\ arming \in BOOLEAN
  /\ claim \in Lanes /\ captured \in Lanes
  /\ result \in BOOLEAN
  /\ outcome \in {"none", "true", "false", "raised"}
  /\ refused \in BOOLEAN /\ adrift \in BOOLEAN
  /\ calls \in 0 .. MaxCalls

RdmMade      == tip >= 1
ToolheadMade == tip = 2 \/ stub
Monitored    == phase \in {"rmd", "nested"}
PathClear    == ~ToolheadMade /\ ~RdmMade

Said(b) == IF b THEN "true" ELSE "false"
Ends(o) == pc' = "idle" /\ outcome' = o

Init ==
  /\ rdm \in BOOLEAN /\ stub \in BOOLEAN /\ tip \in 0 .. 2
  /\ slot \in {"ready", "empty"}
  /\ claim \in Lanes
  /\ motor = IF claim = "none" THEN "idle" ELSE "assist"
  /\ window = FALSE
  /\ queue = <<>> /\ answer = "none"
  /\ frame = Shown
  /\ beat = TRUE /\ stopLost = FALSE /\ faults = 0
  /\ pc = "idle" /\ phase = "rmd" /\ try = 0 /\ early = FALSE
  /\ cleared = FALSE /\ first = FALSE /\ toolchange = FALSE
  /\ captured = "none" /\ arming = FALSE /\ result = FALSE
  /\ outcome = "none" /\ refused = FALSE /\ adrift = FALSE /\ calls = 0

-----------------------------------------------------------------------------
(* Taking the assist: the lane's own is disabled by the command, anybody   *)
(* else's by the guard of _retract; on the wire it is one stop.            *)
TakesAssist ==
  /\ claim' = "none"
  /\ queue' = IF claim = "none" THEN queue ELSE Append(queue, Tells("stop"))

(* Calls.  A command waits for the answer of the assist before it, as its  *)
(* callback comes within the round trip.                                   *)
Call(tc) ==
  /\ pc = "idle" /\ ~arming /\ calls < MaxCalls
  /\ calls' = calls + 1
  /\ toolchange' = tc
  /\ try' = 0 /\ early' = FALSE /\ cleared' = FALSE /\ first' = FALSE
  /\ result' = FALSE /\ refused' = FALSE
  /\ UNCHANGED adrift

CallRmd(tc) ==
  /\ Call(tc)
  /\ phase' = "rmd"
  /\ \/ /\ rdm
        /\ captured' = claim
        /\ TakesAssist
        /\ pc' = "ready"
        /\ outcome' = "none"
     \/ /\ ~rdm
        /\ captured' = "none"
        /\ Ends("false")
        /\ UNCHANGED <<claim, queue>>
  /\ UNCHANGED <<unit, answer, seen, stopLost, faults, path, arming>>

CallSmart(tc) ==
  /\ Call(tc)
  /\ phase' = "smart"
  /\ captured' = "none"
  /\ TakesAssist
  /\ pc' = "ready"
  /\ outcome' = "none"
  /\ UNCHANGED <<unit, answer, seen, stopLost, faults, path, arming>>

-----------------------------------------------------------------------------
(* How _retract hands back to its caller: `empty' when its message says so.*)
Returns(empty) ==
  /\ IF Monitored
       THEN pc' = "restore" /\ UNCHANGED phase
       ELSE \/ pc' = "validate" /\ UNCHANGED phase
            \/ /\ phase = "smart"           \* the toolhead cleared late
               /\ first # ToolheadMade
               /\ pc' = "ready" /\ phase' = "extra"
  /\ result' = (empty \/ cleared)
  /\ UNCHANGED outcome

(* Mutant: an unload that raises leaves the unit alone. *)
RaisesUnstopped ==
  /\ IF Monitored
       THEN pc' = "restore" /\ result' = cleared /\ UNCHANGED outcome
       ELSE Ends("raised") /\ UNCHANGED result
  /\ queue' = Orphaned(queue)
  /\ answer' = "none"
  /\ UNCHANGED phase

Raises ==
  /\ IF Monitored
       THEN pc' = "restore" /\ result' = cleared /\ UNCHANGED outcome
       ELSE Ends("raised") /\ UNCHANGED result
  /\ queue' = Append(Orphaned(queue), Tells("stop"))
  /\ answer' = "none"
  /\ UNCHANGED phase

(* wait_ready: the cached status, or TimeoutError after a minute. *)
WaitTimesOut ==
  /\ pc \in {"ready", "settle", "stopped"}
  /\ ~frame.ready
  /\ Raises
  /\ UNCHANGED <<unit, seen, stopLost, faults, path, try, early, cleared,
                 first, toolchange, claim, captured, arming, told>>

SkipsEmpty ==
  /\ pc = "ready"
  /\ frame.ready
  /\ ShownEmpty
  /\ early' = TRUE
  /\ Returns(TRUE)
  /\ UNCHANGED <<channel, path, try, cleared, first, toolchange, claim,
                 captured, arming, told>>

Sends ==
  /\ pc = "ready"
  /\ frame.ready
  /\ ~ShownEmpty
  /\ Attempt("wind")
  /\ try' = 1 /\ early' = FALSE
  /\ pc' = "await"
  /\ UNCHANGED <<unit, seen, stopLost, faults, path, phase, cleared, first,
                 toolchange, claim, captured, arming, result, outcome, told>>

(* Mutant: attempts are not counted. *)
TriesForever ==
  /\ Attempt("wind")
  /\ UNCHANGED <<pc, try, phase, result, outcome>>

TriesAgain ==
  IF try < MaxRetries
    THEN /\ Attempt("wind")
         /\ try' = try + 1
         /\ UNCHANGED <<pc, phase, result, outcome>>
    ELSE Raises /\ UNCHANGED try

Unanswered ==
  /\ answer = "none"
  /\ \/ Silent /\ UNCHANGED faults
     \/ ~Silent /\ Fault

RetriesRetract ==
  /\ pc = "await"
  /\ \/ Unanswered
     \/ answer = "forbidden" /\ UNCHANGED faults
  /\ TriesAgain
  /\ UNCHANGED <<unit, seen, stopLost, path, early, cleared, first, toolchange,
                 claim, captured, arming, told>>

Accepted ==
  /\ pc = "await"
  /\ answer = "ok"
  /\ pc' = "dwell"
  /\ first' = ToolheadMade
  /\ beat' = FALSE
  /\ UNCHANGED <<unit, link, frame, stopLost, faults, path, phase, try, early,
                 cleared, toolchange, claim, captured, arming, result, outcome,
                 told>>

(* check_slot_empty, in the dwell and in the wait for ready after it. *)
SeesEmpty ==
  /\ pc \in {"dwell", "settle"}
  /\ ~early
  /\ ShownEmpty
  /\ early' = TRUE
  /\ StopRetract
  /\ pc' = IF pc = "dwell" THEN "stopped" ELSE pc
  /\ UNCHANGED <<unit, answer, seen, stopLost, faults, path, phase, try,
                 cleared, first, toolchange, claim, captured, arming, result,
                 outcome, told>>

(* Mutant: a retract under way is taken for a cleared RDM. *)
SeesClearUnread ==
  /\ pc \in {"dwell", "settle"}
  /\ Monitored /\ ~cleared
  /\ cleared' = TRUE
  /\ pc' = IF pc = "dwell" THEN "overshoot" ELSE "overshooting"
  /\ UNCHANGED <<channel, path, phase, try, early, first, toolchange, claim,
                 captured, arming, result, outcome, told>>

(* rdm_early_stop_check: the RDM is clear; the motor runs on a little. *)
SeesClear ==
  /\ pc \in {"dwell", "settle"}
  /\ Monitored /\ ~cleared
  /\ ~RdmMade
  /\ cleared' = TRUE
  /\ pc' = IF pc = "dwell" THEN "overshoot" ELSE "overshooting"
  /\ UNCHANGED <<channel, path, phase, try, early, first, toolchange, claim,
                 captured, arming, result, outcome, told>>

StopsPastClear ==
  /\ pc \in {"overshoot", "overshooting"}
  /\ StopRetract
  /\ pc' = IF pc = "overshoot" THEN "stopped" ELSE "settle"
  /\ UNCHANGED <<unit, answer, seen, stopLost, faults, path, phase, try, early,
                 cleared, first, toolchange, claim, captured, arming, result,
                 outcome, told>>

(* The dwell lasts the length of the retract: a frame arrives in it. *)
DwellEnds ==
  /\ pc = "dwell"
  /\ beat
  /\ pc' = "settle"
  /\ UNCHANGED <<channel, path, phase, try, early, cleared, first, toolchange,
                 claim, captured, arming, result, outcome, told>>

RetractReturns ==
  /\ pc \in {"settle", "stopped"}
  /\ frame.ready
  /\ Returns(early)
  /\ UNCHANGED <<channel, path, try, early, cleared, first, toolchange, claim,
                 captured, arming, told>>

-----------------------------------------------------------------------------
(* _smart_unload_slot looks at the switches, and unloads once more by the  *)
(* RDM when they disagree with it.                                         *)
Validates ==
  /\ pc = "validate"
  /\ \/ rdm /\ PathClear /\ Ends("true") /\ UNCHANGED <<phase, cleared>>
     \/ /\ rdm /\ ~PathClear
        /\ pc' = "ready" /\ phase' = "nested" /\ cleared' = FALSE
        /\ UNCHANGED outcome
     \/ ~rdm /\ Ends(Said(~ToolheadMade)) /\ UNCHANGED <<phase, cleared>>
  /\ captured' = claim
  /\ UNCHANGED <<channel, path, try, early, first, toolchange, claim, arming,
                 result, told>>

(* The monitored unload is over: a standalone one returns its result, one  *)
(* within _smart_unload_slot decides it.                                   *)
Finishes(stops) ==
  /\ Ends(IF phase = "nested" /\ ~result THEN "raised" ELSE Said(result))
  /\ queue' = IF phase = "nested" /\ ~result THEN Append(stops, Tells("stop"))
                                             ELSE stops

(* Mutants: the assist given back whoever owns it, and not at all. *)
GivesBackAlways == captured # "none"
GivesBackNever  == FALSE

GivesBack == ~toolchange /\ captured # "none"

(* _restore_assist_after_unload.  _enable_feed_assist claims the lane and  *)
(* then waits for the unit.                                                *)
Restores ==
  /\ pc = "restore"
  /\ IF GivesBack
       THEN claim' = captured /\ pc' = "rearm" /\ UNCHANGED <<queue, outcome>>
       ELSE Finishes(queue) /\ UNCHANGED claim
  /\ UNCHANGED <<unit, answer, seen, stopLost, faults, path, phase, try, early,
                 cleared, first, toolchange, captured, arming, result, told>>

Rearms ==
  /\ pc = "rearm"
  /\ frame.ready
  /\ Finishes(Append(Orphaned(queue), Asks("assist")))
  /\ answer' = "none"
  /\ arming' = TRUE
  /\ UNCHANGED <<unit, seen, stopLost, faults, path, phase, try, early,
                 cleared, first, toolchange, claim, captured, result, told>>

(* Nothing in the monitored unload catches the timeout of its last wait. *)
RearmTimesOut ==
  /\ pc = "rearm"
  /\ ~frame.ready
  /\ Ends("raised")
  /\ UNCHANGED <<channel, path, phase, try, early, cleared, first, toolchange,
                 claim, captured, arming, result, told>>

(* The callback of the enable: a refusal drops the claim, unless the frame *)
(* shows the assist running.                                               *)
AssistAnswered ==
  /\ arming
  /\ answer # "none" \/ Silent
  /\ arming' = FALSE
  /\ answer' = "none"
  /\ IF answer = "ok" \/ frame.assisting
       THEN UNCHANGED <<claim, refused, adrift>>
       ELSE /\ claim' = "none"
            /\ refused' = TRUE
            /\ adrift' = (adrift \/ answer = "none")
  /\ UNCHANGED <<unit, queue, seen, stopLost, faults, path, pc, phase, try,
                 early, cleared, first, toolchange, captured, result, outcome,
                 calls>>

-----------------------------------------------------------------------------
(* The strand comes back while the unit winds it, until it leaves the gear.*)
StrandMoves ==
  /\ motor = "wind"
  /\ slot # "empty"
  /\ tip > 0
  /\ tip' = tip - 1
  /\ UNCHANGED <<channel, rdm, stub, command, told>>

Still == UNCHANGED <<path, command, told>>

Driver ==
  \/ WaitTimesOut \/ SkipsEmpty \/ Sends \/ RetriesRetract \/ Accepted
  \/ SeesEmpty \/ SeesClear \/ StopsPastClear \/ DwellEnds \/ RetractReturns
  \/ Validates \/ Restores \/ Rearms \/ RearmTimesOut \/ AssistAnswered

Next ==
  \/ \E tc \in BOOLEAN : CallRmd(tc) \/ CallSmart(tc)
  \/ Driver
  \/ StrandMoves
  \/ (UnitNext \/ UnitFails) /\ Still

(* The reactor runs the command on, the serial manager delivers and polls, *)
(* and the unit ends what it began.                                        *)
Fairness ==
  /\ WF_vars(Driver)
  /\ WF_vars(Transact /\ Still)
  /\ WF_vars(Heartbeat /\ Still)
  /\ WF_vars(MoveEnds /\ Still)
  /\ WF_vars(WindowEnds /\ Still)

Spec == Init /\ [][Next]_vars /\ Fairness

-----------------------------------------------------------------------------
(* Properties *)

(* An unload that returns True has freed the path it can see: the RDM is   *)
(* clear or the spool has left its slot, whatever was refused, discarded,  *)
(* lost or late on the way; without an RDM, the toolhead switch is clear.  *)
TrueMeansUnloaded ==
  outcome = "true" =>
    \/ rdm  /\ (~RdmMade \/ slot = "empty")
    \/ ~rdm /\ ~ToolheadMade

(* Whichever way an unload ends, errors and timeouts included, the unit    *)
(* winds no more once what the command has queued is delivered.            *)
NothingLeftWinding ==
  pc = "idle" /\ queue = <<>> /\ ~stopLost => motor # "wind"

(* "re-arming the OLD tool's here runs a second assist in parallel": when  *)
(* an unload of a toolchange ends, no assist is claimed, and none runs (a  *)
(* monitored unload without an RDM does nothing).  An assist whose answer  *)
(* was lost is not claimed, and nothing stops it.                          *)
ToolchangeOwnsAssist ==
  toolchange /\ pc = "idle" /\ (rdm \/ phase # "rmd") =>
    /\ claim = "none"
    /\ queue = <<>> /\ ~stopLost /\ ~adrift => motor # "assist"

(* "Standalone unloads must give back the assist they took": a monitored   *)
(* unload outside a toolchange returns, on its error paths too, with the   *)
(* captured lane claimed again, or the unit has not confirmed it.          *)
AssistGivenBack ==
  rdm /\ outcome \in {"true", "false"} /\ phase = "rmd" /\ ~toolchange =>
    claim = captured \/ refused

(* No unload lasts forever: its attempts are bounded, its waits time out.  *)
UnloadEnds == pc # "idle" ~> pc = "idle"
=============================================================================
