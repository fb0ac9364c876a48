------------------------------- MODULE AceLoad -------------------------------
(***************************************************************************)
(* Loading a lane (klipper/instance.py): the bowden feed to the entry      *)
(* switch, the crossing to the post-gear switch or the bite behind the     *)
(* stub of a consumed spool, the assist that must be running before the    *)
(* extruder pulls, the push into the melt zone, what a failed load puts    *)
(* back, and the unpark of a lane that was loaded cold (ACE2).             *)
(*                                                                         *)
(* Positions count crossing segments: 0 parked, 1 at the entry switch,     *)
(* `gears' at the post-gear switch.  Anything past it is the same.         *)
(***************************************************************************)
EXTENDS AcePush

CONSTANTS
  MaxRetries,     \* MAX_RETRIES
  EnableAttempts, \* enables sent before a load refuses to seat
  CrossCap,       \* 60 mm of crossing, in segments
  BiteLength,     \* runout_bite_length, in segments
  BackoffCap,     \* RELEASE_BACKOFF_CAP_MM, in segments
  StepCap,        \* 24 mm of handoff feed, in segments
  GearPlaces,     \* where the post-gear switch may be
  FeedsOutlast,   \* every feed lasts longer than a heartbeat
  MaxCalls        \* bound: loads and unparks in a behaviour

ASSUME LoadBoundsAreNat ==
  /\ MaxRetries \in Nat \ {0} /\ EnableAttempts \in Nat \ {0}
  /\ CrossCap \in Nat \ {0} /\ BiteLength \in Nat \ {0}
  /\ BackoffCap \in Nat \ {0} /\ StepCap \in Nat \ {0}
  /\ GearPlaces \subseteq Nat \ {0, 1}
  /\ FeedsOutlast \in BOOLEAN
  /\ MaxCalls \in Nat

VARIABLES
  seat,     \* seat_verify_sensor is configured
  gears,    \* where the post-gear switch is
  tip,      \* where the head of the lane is
  stub,     \* the tail of a consumed spool fills the gears
  covered,  \* and covers the entry switch
  queued,   \* segments commanded and not executed
  heat,     \* the nozzle: "hot", "heating" or "cold"
  pc,
  goal,     \* what the running feed, retract or enable is for
  try,
  done,     \* segments commanded in the loop
  doubt,    \* an error was shown and is being confirmed
  printing, \* a print is running
  stubDone, \* _stub_load_completed
  loading,  \* _loading_slot is this lane
  claim,    \* _feed_assist_index is this lane
  arming,   \* an assist request is unanswered
  outcome,
  overtaken,\* history: a stop was sent ahead of a feed still queued
  confirmed,\* history: the unit assists since the last enable
  calls

lane    == <<seat, gears, tip, stub, covered>>
nozzle  == <<queued, heat>>
flags   == <<stubDone, loading, claim, arming>>
steps   == <<goal, try, done, doubt, printing>>
told    == <<overtaken, confirmed, calls>>
vars    == <<channel, book, lane, nozzle, flags, steps, pc, outcome, told>>

ToolheadMade == tip >= 1 \/ covered
SeatMade     == tip >= gears \/ stub
(* _seat_sensor_triggered answers True without a sensor. *)
SeatTriggered == seat => SeatMade

Feeds   == {"bowden", "bite", "cross", "step", "nip"}
Watched == {"approach", "late", "bite", "cross", "backoff"}
Outcomes == {"none", "refused", "raised", "parked", "nozzle"}

TypeOK ==
  /\ UnitTypeOK /\ BookOK
  /\ seat \in BOOLEAN /\ gears \in GearPlaces /\ tip \in Nat
  /\ stub \in BOOLEAN /\ covered \in BOOLEAN
  /\ queued \in 0 .. 1 /\ heat \in {"hot", "heating", "cold"}
  /\ pc \in {"idle", "start", "align", "nudge", "feed", "feeding", "approach",
             "late", "nursed", "arrived", "bite", "cross", "backoff", "step",
             "rewind", "rewinding", "settle", "ready", "arm", "armwait",
             "confirm", "seated", "hug", "door", "push", "cleanup"}
  /\ goal \in Feeds \cup {"met", "bitten", "crossed", "load", "late",
                          "unpark", "backoff", "cleanup"}
  /\ try \in 0 .. MaxRetries + EnableAttempts
  /\ done \in 0 .. CrossCap + BiteLength + BackoffCap + StepCap
  /\ doubt \in BOOLEAN /\ printing \in BOOLEAN /\ stubDone \in BOOLEAN
  /\ loading \in BOOLEAN /\ claim \in BOOLEAN /\ arming \in BOOLEAN
  /\ outcome \in Outcomes
  /\ overtaken \in BOOLEAN /\ confirmed \in BOOLEAN
  /\ calls \in 0 .. MaxCalls

Init ==
  /\ motor \in {"idle", "assist"}
  /\ claim = (motor = "assist") /\ confirmed = claim
  /\ window = FALSE /\ slot \in {"ready", "error"}
  /\ queue = <<>> /\ answer = "none"
  /\ frame = Shown /\ beat = TRUE /\ stopLost = FALSE /\ faults = 0
  /\ BookInit
  /\ seat \in BOOLEAN /\ gears \in GearPlaces
  /\ tip = 0 /\ stub = FALSE /\ covered = FALSE
  /\ queued = 0 /\ heat = "cold"
  /\ pc = "idle" /\ goal = "load" /\ try = 0 /\ done = 0 /\ doubt = FALSE
  /\ printing = FALSE /\ stubDone = FALSE /\ loading = FALSE /\ arming = FALSE
  /\ outcome = "none" /\ overtaken = FALSE /\ calls = 0

Quiet   == UNCHANGED <<unit, seen, stopLost, faults>>
Goto(l) == pc' = l /\ UNCHANGED outcome
Ends(o) == pc' = "idle" /\ outcome' = o
Stop    == <<Tells("stop")>>
Feeding(q) == \E i \in DOMAIN q : q[i].op = "feed"

(* Attempts are answered one at a time: nobody reads the others.  The      *)
(* callback of an assist request is its own reader.                        *)
Unread(q) == IF arming THEN q ELSE Orphaned(q)

(* Mutant: the recovery leaves the feed alone. *)
FailsUnstopped(q) ==
  /\ answer' = IF arming THEN answer ELSE "none"
  /\ IF goal \in {"cleanup", "unpark"} THEN Ends("raised") /\ loading' = FALSE
                                       ELSE Goto("cleanup") /\ UNCHANGED loading
  /\ queue' = Unread(q)
  /\ doubt' = FALSE
  /\ UNCHANGED overtaken

(* An exception.  In the load it stops the feed, ahead of what is queued,  *)
(* and rewinds; in the recovery itself, or in an unpark, it goes out.      *)
Fails(q) ==
  /\ answer' = IF arming THEN answer ELSE "none"
  /\ IF goal \in {"cleanup", "unpark"}
       THEN /\ Ends("raised")
            /\ queue' = Unread(q)
            /\ loading' = FALSE
            /\ UNCHANGED overtaken
       ELSE /\ Goto("cleanup")
            /\ queue' = Stop \o Unread(q)
            /\ overtaken' = (overtaken \/ Feeding(q))
            /\ UNCHANGED loading
  /\ doubt' = FALSE

Raises ==
  /\ Fails(queue)
  /\ UNCHANGED <<stubDone, claim, arming, goal, try, done, printing, confirmed,
                 calls>>

-----------------------------------------------------------------------------
(* Calls.  Between two of them the lane has been unloaded, or has run out  *)
(* and left its stub.                                                      *)
NextLane ==
  /\ tip' \in {0, tip}
  /\ stub' \in BOOLEAN
  /\ covered' \in {FALSE, stub'}
  /\ heat' \in {"hot", "heating", "cold"}
  /\ UNCHANGED <<seat, gears, queued>>

Calls(l, g) ==
  /\ pc = "idle" /\ ~arming /\ calls < MaxCalls
  /\ calls' = calls + 1
  /\ pc' = l /\ goal' = g /\ outcome' = "none"
  /\ try' = 0 /\ done' = 0 /\ doubt' = FALSE
  /\ ledger' = Empty /\ push' = "none" /\ truth' = Clean
  /\ UNCHANGED <<channel, hub, flags, overtaken, confirmed>>

CallLoad(p) ==
  /\ Calls("start", "load")
  /\ NextLane
  /\ printing' = p

(* unpark_to_nozzle, of a lane parked before or by the load just over: the *)
(* tip waits at the post-gear switch.                                      *)
CallUnpark ==
  /\ outcome \in {"none", "parked"}
  /\ Calls(IF claim THEN "confirm" ELSE "arm", "unpark")
  /\ heat' \in {"hot", "heating", "cold"}
  /\ tip' = gears
  /\ UNCHANGED <<seat, gears, stub, covered, queued, printing>>

(* The bowden feed, the lane's own assist disabled first. *)
Bowden ==
  /\ Goto("feed")
  /\ goal' = "bowden" /\ try' = 0
  /\ claim' = FALSE
  /\ queue' = IF claim THEN queue \o Stop ELSE queue

Prepares(made) ==
  IF SeatTriggered /\ made
    THEN Goto("nudge") /\ UNCHANGED <<goal, try, claim, queue>>
    ELSE Bowden

(* Mutant: the flag of the last stub load survives. *)
KeepsFlag == UNCHANGED stubDone

ForgetsStub == stubDone' = FALSE

Start ==
  /\ pc = "start"
  /\ frame.ready
  /\ loading' = TRUE
  /\ ForgetsStub
  /\ \/ Bowden /\ ~ToolheadMade                       \* the path is clear
     \/ /\ SeatTriggered /\ ~ToolheadMade             \* unchecked
        /\ Goto("align")
        /\ UNCHANGED <<goal, try, claim, queue>>
     \/ (SeatTriggered => ToolheadMade) /\ Prepares(ToolheadMade)
  /\ UNCHANGED <<unit, answer, seen, stopLost, faults, book, lane, nozzle,
                 arming, done, doubt, printing, told>>

(* A precondition fails, or the unit never becomes ready. *)
RefusesLoad ==
  /\ pc = "start"
  /\ Ends("refused")
  /\ UNCHANGED <<channel, book, lane, nozzle, flags, steps, told>>

(* _wait_hot_for_seat *)
Heats == heat # "cold" /\ heat' = "hot"

(* _align_tail_at_entry: the tail ends under the switch, or is not found.  *)
Aligns ==
  /\ pc = "align"
  /\ Heats
  /\ covered' \in {FALSE, stub}
  /\ Prepares(covered')
  /\ UNCHANGED <<unit, answer, seen, stopLost, faults, book, seat, gears, tip,
                 stub, queued, stubDone, loading, arming, done, doubt,
                 printing, told>>

(* _clear_stub_from_entry *)
Nudges ==
  /\ pc = "nudge"
  /\ Heats
  /\ covered' = FALSE
  /\ tip = 0
  /\ Bowden
  /\ UNCHANGED <<unit, answer, seen, stopLost, faults, book, seat, gears, tip,
                 stub, queued, stubDone, loading, arming, done, doubt,
                 printing, told>>

(* A cold nozzle, or an entry switch that stays covered: outside the try.  *)
PreparationRaises ==
  /\ pc \in {"align", "nudge"}
  /\ heat = "cold" \/ pc = "nudge"
  /\ Ends("raised")
  /\ UNCHANGED <<channel, book, lane, nozzle, flags, steps, told>>

-----------------------------------------------------------------------------
(* execute_feed_with_retries *)
FeedSends ==
  /\ pc = "feed"
  /\ frame.ready /\ ~arming
  /\ Attempt("feed")
  /\ Goto("feeding")
  /\ Quiet
  /\ UNCHANGED <<book, lane, nozzle, flags, steps, told>>

FeedAccepted ==
  /\ pc = "feeding"
  /\ answer = "ok"
  /\ Goto(CASE goal = "bowden" -> "approach"
            [] goal \in {"step", "nip"} -> "ready"
            [] OTHER -> goal)
  /\ done' = IF goal \in {"bite", "cross"} THEN 0 ELSE done
  /\ beat' = FALSE
  /\ UNCHANGED <<unit, link, frame, stopLost, faults, book, lane, nozzle,
                 flags, goal, try, doubt, printing, told>>

(* Mutant: no last attempt. *)
FeedForbiddenForever ==
  /\ pc = "feeding"
  /\ answer = "forbidden"
  /\ Goto("feed")
  /\ try' = try + 1
  /\ Quiet
  /\ UNCHANGED <<link, book, lane, nozzle, flags, goal, done, doubt, printing,
                 told>>

FeedForbidden ==
  /\ pc = "feeding"
  /\ answer = "forbidden"
  /\ \/ /\ try + 1 < MaxRetries
        /\ Goto("feed")
        /\ try' = try + 1
        /\ UNCHANGED <<link, flags, goal, done, doubt, printing, told>>
     \/ try + 1 >= MaxRetries /\ Raises
  /\ Quiet
  /\ UNCHANGED <<book, lane, nozzle>>

(* Ten seconds without an answer end the load: the request may be queued.  *)
FeedUnanswered ==
  /\ pc = "feeding"
  /\ answer = "none"
  /\ \/ Silent /\ UNCHANGED faults
     \/ ~Silent /\ Fault
  /\ Raises
  /\ UNCHANGED <<unit, seen, stopLost, book, lane, nozzle>>

(* wait_ready gives up after a minute. *)
WaitTimesOut ==
  /\ pc \in {"feed", "ready", "rewind", "settle", "armwait"}
  /\ ~frame.ready
  /\ Raises
  /\ Quiet
  /\ UNCHANGED <<book, lane, nozzle>>

-----------------------------------------------------------------------------
(* _confirmed_slot_error, and the same test written out in the approach:   *)
(* an error counts when it survives a frame.                               *)
Doubts ==
  /\ pc \in Watched /\ ~doubt
  /\ queued = 0
  /\ ShownError
  /\ doubt' = TRUE /\ beat' = FALSE
  /\ UNCHANGED <<unit, link, frame, stopLost, faults, book, lane, nozzle,
                 flags, pc, goal, try, done, printing, outcome, told>>

Relents ==
  /\ doubt /\ beat
  /\ ~ShownError
  /\ doubt' = FALSE
  /\ UNCHANGED <<channel, book, lane, nozzle, flags, pc, goal, try, done,
                 printing, outcome, told>>

Condemns ==
  /\ doubt /\ beat
  /\ ShownError
  /\ Fails(IF pc \in {"late", "backoff"} THEN queue ELSE Stop \o queue)
  /\ Quiet
  /\ UNCHANGED <<book, lane, nozzle, stubDone, claim, arming, goal, try, done,
                 printing, confirmed, calls>>

Sound == ~doubt /\ ~ShownError

-----------------------------------------------------------------------------
(* The approach, and the minute of assist that a late head is given. *)
Arrives ==
  /\ pc = "approach"
  /\ ToolheadMade
  /\ Goto("arrived")
  /\ doubt' = FALSE
  /\ UNCHANGED <<channel, book, lane, nozzle, flags, goal, try, done, printing,
                 told>>

IsLate ==
  /\ pc = "approach"
  /\ ~ToolheadMade
  /\ Goto("late")
  /\ doubt' = FALSE
  /\ UNCHANGED <<channel, book, lane, nozzle, flags, goal, try, done, printing,
                 told>>

Nurses ==
  /\ pc = "late"
  /\ Sound
  /\ Goto("arm")
  /\ goal' = "late"
  /\ UNCHANGED <<channel, book, lane, nozzle, flags, try, done, doubt,
                 printing, told>>

(* The minute is over, or the head is there; the assist is disabled.       *)
Nursed ==
  /\ pc = "nursed"
  /\ ~arming
  /\ claim' = FALSE
  /\ LET q == IF claim THEN queue \o Stop ELSE queue
     IN  \/ /\ ToolheadMade
            /\ Goto("arrived")
            /\ queue' = q
            /\ UNCHANGED <<answer, loading, overtaken, doubt>>
         \/ ~ToolheadMade /\ Fails(q)
  /\ Quiet
  /\ UNCHANGED <<book, lane, nozzle, stubDone, arming, goal, try, done,
                 printing, confirmed, calls>>

StopsFeed(g) ==
  /\ StopFeed
  /\ overtaken' = (overtaken \/ Feeding(queue))
  /\ Goto("ready")
  /\ goal' = g
  /\ UNCHANGED answer

(* Short feeds, of a segment or two, end before a frame has shown them.    *)
Seen == FeedsOutlast => beat

Settled == UNCHANGED <<flags, try, doubt, printing, confirmed, calls>>

(* The bulk feed is stopped before anything else moves. *)
StopsBulk ==
  /\ pc = "arrived" /\ Seen
  /\ \/ seat /\ StopsFeed("met")
     \/ ~seat /\ StopFeed /\ Goto("backoff") /\ UNCHANGED <<answer, goal, overtaken>>
  /\ done' = 0
  /\ Quiet /\ Settled
  /\ UNCHANGED <<book, lane, nozzle>>

(* Mutant: the bite does not wait for the nozzle. *)
MeetsUngated ==
  /\ pc = "ready" /\ goal = "met"
  /\ frame.ready
  /\ goal' = IF SeatMade THEN "bite" ELSE "cross"
  /\ Goto("feed")
  /\ try' = 0
  /\ UNCHANGED <<channel, book, lane, nozzle, flags, done, doubt, printing,
                 told>>

(* Head and gears: a post-gear switch that is already made is a stub.      *)
Meets ==
  /\ pc = "ready" /\ goal = "met"
  /\ frame.ready
  /\ \/ SeatMade /\ Heats /\ goal' = "bite"
     \/ ~SeatMade /\ goal' = "cross" /\ UNCHANGED heat
  /\ Goto("feed")
  /\ try' = 0
  /\ UNCHANGED <<channel, book, lane, queued, flags, done, doubt, printing,
                 told>>

MeetsCold ==
  /\ pc = "ready" /\ goal = "met"
  /\ frame.ready
  /\ SeatMade /\ heat = "cold"
  /\ Raises
  /\ Quiet
  /\ UNCHANGED <<book, lane, nozzle>>

(* One segment of the bite or the crossing; the loop goes on drained.      *)
Segment ==
  /\ queued' = queued + 1
  /\ done' = done + 1
  /\ UNCHANGED <<channel, book, lane, heat, flags, pc, goal, try, doubt,
                 printing, outcome, told>>

Bites ==
  /\ pc = "bite" /\ queued = 0
  /\ done < BiteLength
  /\ Sound
  /\ Segment

Bitten ==
  /\ pc = "bite" /\ queued = 0 /\ ~doubt
  /\ done >= BiteLength /\ Seen
  /\ StopsFeed("bitten")
  /\ Quiet /\ Settled
  /\ UNCHANGED <<book, lane, nozzle, done>>

(* Mutant: the next segment is commanded while the last one runs. *)
CrossesUndrained ==
  /\ pc = "cross" /\ queued <= 1
  /\ ~SeatMade /\ done < CrossCap
  /\ Sound
  /\ Segment

Crosses ==
  /\ pc = "cross" /\ queued = 0
  /\ ~SeatMade /\ done < CrossCap
  /\ Sound
  /\ Segment

Crossed ==
  /\ pc = "cross" /\ queued = 0 /\ ~doubt
  /\ SeatMade /\ Seen
  /\ StopsFeed("crossed")
  /\ Quiet /\ Settled
  /\ UNCHANGED <<book, lane, nozzle, done>>

NeverCrosses ==
  /\ pc = "cross" /\ queued = 0
  /\ ~SeatMade /\ done >= CrossCap
  /\ Sound
  /\ Fails(Stop \o queue)
  /\ Quiet
  /\ UNCHANGED <<book, lane, nozzle, stubDone, claim, arming, goal, try, done,
                 printing, confirmed, calls>>
-----------------------------------------------------------------------------
(* Machines without a post-gear switch back the head off to the release    *)
(* edge of the entry switch, step to its re-trip, and feed to the nip.     *)
BacksOff ==
  /\ pc = "backoff" /\ ToolheadMade
  /\ done < BackoffCap
  /\ Sound
  /\ Goto("rewind")
  /\ goal' = "backoff" /\ try' = 1 /\ done' = done + 1
  /\ UNCHANGED <<channel, book, lane, nozzle, flags, doubt, printing, told>>

Released ==
  /\ pc = "backoff" /\ ~doubt
  /\ ~ToolheadMade
  /\ Goto("step")
  /\ done' = 0
  /\ UNCHANGED <<channel, book, lane, nozzle, flags, goal, try, doubt,
                 printing, told>>

Steps ==
  /\ pc = "step"
  /\ \/ ToolheadMade /\ goal' = "nip" /\ UNCHANGED done
     \/ /\ ~ToolheadMade /\ done < StepCap
        /\ goal' = "step" /\ done' = done + 1
  /\ Goto("feed")
  /\ try' = 0
  /\ UNCHANGED <<channel, book, lane, nozzle, flags, doubt, printing, told>>

Stuck ==
  /\ \/ pc = "backoff" /\ ToolheadMade /\ done >= BackoffCap /\ Sound
     \/ pc = "step" /\ ~ToolheadMade /\ done >= StepCap
  /\ Raises
  /\ Quiet
  /\ UNCHANGED <<book, lane, nozzle>>

Stepped ==
  /\ pc = "ready" /\ goal \in {"step", "nip"}
  /\ frame.ready /\ Seen
  /\ Goto(IF goal = "step" THEN "step" ELSE "arm")
  /\ goal' = IF goal = "step" THEN goal ELSE "load"
  /\ try' = 1
  /\ UNCHANGED <<channel, book, lane, nozzle, flags, done, doubt, printing,
                 told>>

-----------------------------------------------------------------------------
(* _retract, as AceUnload has it, within the back-off and the recovery.    *)
RewindReturns(q) ==
  /\ queue' = q
  /\ IF goal = "cleanup"
       THEN Ends("raised") /\ loading' = FALSE
       ELSE Goto("backoff") /\ UNCHANGED loading
  /\ UNCHANGED <<stubDone, claim, arming, answer, steps, told>>

RewindSends ==
  /\ pc = "rewind"
  /\ frame.ready /\ ~arming
  /\ \/ ShownEmpty /\ RewindReturns(queue)
     \/ /\ ~ShownEmpty
        /\ Attempt("wind")
        /\ Goto("rewinding")
        /\ UNCHANGED <<flags, steps, told>>
  /\ Quiet
  /\ UNCHANGED <<book, lane, nozzle>>

RewindAccepted ==
  /\ pc = "rewinding"
  /\ answer = "ok"
  /\ Goto("settle")
  /\ UNCHANGED <<channel, book, lane, nozzle, flags, steps, told>>

RewindRetries ==
  /\ pc = "rewinding"
  /\ \/ answer = "forbidden" /\ UNCHANGED faults
     \/ answer = "none" /\ Silent /\ UNCHANGED faults
     \/ answer = "none" /\ ~Silent /\ Fault
  /\ \/ /\ try < MaxRetries
        /\ Attempt("wind")
        /\ try' = try + 1
        /\ UNCHANGED <<pc, outcome, flags, goal, done, doubt, printing, told>>
     \/ try >= MaxRetries /\ Raises
  /\ UNCHANGED <<unit, seen, stopLost, book, lane, nozzle>>

Rewound ==
  /\ pc = "settle"
  /\ frame.ready
  /\ \/ RewindReturns(queue)
     \/ ShownEmpty /\ RewindReturns(queue \o Stop)
  /\ Quiet
  /\ UNCHANGED <<book, lane, nozzle>>

(* The recovery: the stop is sent, the unit waited for, the lane rewound;  *)
(* `finally' gives the lane up whatever comes of it.                       *)
Recovers ==
  /\ pc = "cleanup"
  /\ goal' = "cleanup" /\ try' = 1
  /\ \/ /\ frame.ready
        /\ Goto("rewind")
        /\ claim' = FALSE
        /\ queue' = IF claim THEN queue \o Stop ELSE queue
        /\ UNCHANGED loading
     \/ /\ ~frame.ready
        /\ Ends("raised") /\ loading' = FALSE
        /\ UNCHANGED <<claim, queue>>
  /\ UNCHANGED <<unit, answer, seen, stopLost, faults, book, lane, nozzle,
                 stubDone, arming, done, doubt, printing, told>>

-----------------------------------------------------------------------------
(* The assist, enabled and then confirmed by the unit's own frames. *)
ThroughGears ==
  /\ pc = "ready" /\ goal \in {"bitten", "crossed"}
  /\ frame.ready
  /\ stubDone' = (stubDone \/ goal = "bitten")
  /\ Goto("arm")
  /\ goal' = "load" /\ try' = 1
  /\ UNCHANGED <<channel, book, lane, nozzle, loading, claim, arming, done,
                 doubt, printing, told>>

Active(c) == frame.assisting \/ (~frame.ready /\ c)

(* START goes out; its callback and the frames tell what came of it.       *)
SendsStart ==
  /\ queue' = Append(queue, Asks("assist"))
  /\ answer' = "none"
  /\ arming' = TRUE
  /\ confirmed' = FALSE

(* _enable_feed_assist: already running, claimed and sent again at once    *)
(* (a busy unit is then taken for the assist), or claimed and waited for.  *)
Arms ==
  /\ pc = "arm" /\ ~arming
  /\ \/ /\ claim /\ frame.assisting
        /\ Goto("confirm")
        /\ UNCHANGED <<queue, answer, flags, confirmed>>
     \/ /\ claim /\ ~frame.assisting
        /\ SendsStart
        /\ Goto(IF Active(TRUE) /\ goal # "late" THEN "seated" ELSE "confirm")
        /\ UNCHANGED <<stubDone, loading, claim>>
     \/ /\ ~claim
        /\ claim' = TRUE
        /\ Goto("armwait")
        /\ UNCHANGED <<queue, answer, stubDone, loading, arming, confirmed>>
  /\ Quiet
  /\ UNCHANGED <<book, lane, nozzle, steps, overtaken, calls>>

Enables ==
  /\ pc = "armwait"
  /\ frame.ready
  /\ SendsStart
  /\ Goto(IF goal = "late" THEN "nursed" ELSE "confirm")
  /\ Quiet
  /\ UNCHANGED <<book, lane, nozzle, stubDone, loading, claim, steps,
                 overtaken, calls>>

AssistAnswered ==
  /\ arming
  /\ answer # "none" \/ Silent
  /\ arming' = FALSE
  /\ answer' = "none"
  /\ claim' = (claim /\ (answer = "ok" \/ frame.assisting))
  /\ UNCHANGED <<unit, queue, seen, stopLost, faults, book, lane, nozzle,
                 stubDone, loading, steps, pc, outcome, told>>

(* Mutant: the claim alone is taken for the assist. *)
ConfirmsClaim ==
  /\ pc = "confirm" /\ claim
  /\ Goto(IF goal = "unpark" THEN "door" ELSE "seated")
  /\ UNCHANGED <<channel, book, lane, nozzle, flags, steps, told>>

(* _wait_assist_active, polled every 0.3 s: by then the answer is in.      *)
Confirms ==
  /\ pc = "confirm" /\ ~arming
  /\ Active(claim)
  /\ Goto(IF goal = "unpark" THEN "door" ELSE "seated")
  /\ UNCHANGED <<channel, book, lane, nozzle, flags, steps, told>>

Unconfirmed ==
  /\ pc = "confirm" /\ ~arming
  /\ ~Active(claim)
  /\ \/ /\ goal # "unpark" /\ try < EnableAttempts
        /\ Goto("arm")
        /\ try' = try + 1
        /\ UNCHANGED <<link, flags, goal, done, doubt, printing, told>>
     \/ (goal = "unpark" \/ try >= EnableAttempts) /\ Raises
  /\ Quiet
  /\ UNCHANGED <<book, lane, nozzle>>

-----------------------------------------------------------------------------
(* Seated: the load proper is over, and an idle one parks here, cold.      *)
Over(o) == Ends(o) /\ UNCHANGED <<channel, goal, try, done, doubt, printing, told>>

SeatsBlind ==
  /\ pc = "seated" /\ ~seat /\ heat # "hot"    \* no cold extrusion
  /\ Raises
  /\ Quiet
  /\ UNCHANGED <<book, lane, nozzle>>

Seats ==
  /\ pc = "seated"
  /\ seat \/ heat = "hot"
  /\ loading' = FALSE
  /\ tip' = IF tip < gears /\ ~seat THEN gears ELSE tip
  /\ \/ /\ ~printing
        /\ Over("parked")
        /\ heat' = "cold"
        /\ UNCHANGED stubDone
     \/ /\ printing
        /\ Goto(IF stubDone THEN "hug" ELSE "door")
        /\ stubDone' = FALSE
        /\ UNCHANGED <<channel, heat, steps, told>>
  /\ UNCHANGED <<book, seat, gears, stub, covered, queued, claim, arming>>

(* The hug: a short push of the head against the tail. *)
Hugs ==
  /\ pc = "hug"
  /\ stub' = FALSE /\ covered' = FALSE /\ tip' = gears
  /\ Over("nozzle")
  /\ UNCHANGED <<book, seat, gears, nozzle, flags>>

(* The melt-zone door: the only place a load may block for temperature.    *)
Enters ==
  /\ pc = "door"
  /\ \/ /\ heat # "cold"
        /\ heat' = "hot"
        /\ Goto("push")
        /\ Begins
     \/ heat = "cold" /\ Ends("raised") /\ UNCHANGED <<heat, book>>
  /\ UNCHANGED <<channel, lane, queued, flags, steps, told>>

(* Mutant: an overrun ends the push and nothing else. *)
PushesOn ==
  /\ pc = "push"
  /\ Chunk
  /\ IF push' = "overrun" THEN Ends("raised") ELSE UNCHANGED <<pc, outcome>>
  /\ UNCHANGED <<unit, link, seen, stopLost, lane, nozzle, flags, steps, told>>

Pushes ==
  /\ pc = "push"
  /\ Chunk
  /\ IF push' = "overrun"
       THEN Ends("raised") /\ StopRetract /\ claim' = FALSE
       ELSE UNCHANGED <<pc, outcome, queue, claim>>
  /\ UNCHANGED <<unit, answer, seen, stopLost, lane, nozzle, stubDone, loading,
                 arming, steps, told>>

Pushed ==
  /\ pc = "push"
  /\ Concludes
  /\ Over("nozzle")
  /\ UNCHANGED <<lane, nozzle, flags>>

-----------------------------------------------------------------------------
(* The machine: the feed brings the head to the entry switch, a segment of *)
(* the extruder carries it on while the unit pays out, an unwind brings it *)
(* back.                                                                   *)
HeadMoves ==
  /\ slot # "empty"
  /\ \/ motor = "feed" /\ tip = 0 /\ tip' = 1
     \/ motor = "wind" /\ tip > 0 /\ tip' = tip - 1
  /\ UNCHANGED <<channel, book, seat, gears, stub, covered, nozzle, flags,
                 steps, pc, outcome, told>>

SegmentRuns ==
  /\ queued > 0
  /\ queued' = queued - 1
  /\ tip' = IF motor = "feed" /\ tip \in 1 .. gears THEN tip + 1 ELSE tip
  /\ UNCHANGED <<channel, book, seat, gears, stub, covered, heat, flags, steps,
                 pc, outcome, told>>

UnitActs ==
  /\ UnitNext \/ UnitFails
  /\ confirmed' = (confirmed \/ motor' = "assist")
  /\ UNCHANGED <<book, lane, nozzle, flags, steps, pc, outcome, overtaken,
                 calls>>

Driver ==
  \/ Start \/ RefusesLoad \/ Aligns \/ Nudges \/ PreparationRaises
  \/ FeedSends \/ FeedAccepted \/ FeedForbidden \/ FeedUnanswered
  \/ WaitTimesOut \/ Doubts \/ Relents \/ Condemns
  \/ Arrives \/ IsLate \/ Nurses \/ Nursed \/ StopsBulk \/ Meets \/ MeetsCold
  \/ Bites \/ Bitten \/ Crosses \/ Crossed \/ NeverCrosses
  \/ BacksOff \/ Released \/ Steps \/ Stuck \/ Stepped
  \/ RewindSends \/ RewindAccepted \/ RewindRetries \/ Rewound \/ Recovers
  \/ ThroughGears \/ Arms \/ Enables \/ AssistAnswered \/ Confirms \/ Unconfirmed
  \/ SeatsBlind \/ Seats \/ Hugs \/ Enters \/ Pushes \/ Pushed

Next ==
  \/ \E p \in BOOLEAN : CallLoad(p)
  \/ CallUnpark
  \/ Driver
  \/ HeadMoves \/ SegmentRuns \/ UnitActs

Spec == Init /\ [][Next]_vars

-----------------------------------------------------------------------------
(* Properties *)

(* "Kill it first": however a load or an unpark ends, the lane feeds no    *)
(* more once what was queued is delivered.  The one exception is a feed    *)
(* still queued when the stop, sent with priority, overtook it.            *)
NothingLeftFeeding ==
  pc = "idle" /\ queue = <<>> /\ ~stopLost /\ ~overtaken => motor # "feed"

(* "refusing to seat against a static ACE grip": no extruder push of a     *)
(* load or an unpark begins unless the unit has really assisted since the  *)
(* enable was last sent; a busy unit or a claim has not stood in for it.   *)
PushUnderAssist == pc \in {"hug", "push"} => confirmed

(* "nothing may enter the melt zone cold": every path into it, the hug     *)
(* that has no gate of its own included, finds the nozzle hot.             *)
MeltZoneHot == pc \in {"bite", "hug", "push"} => heat = "hot"

(* A hug presses the head against a tail: it follows a bite of this load,  *)
(* never one of a load before it.                                          *)
HugFollowsBite == pc = "hug" => stub

(* The crossing is judged against the real position, not the commanded     *)
(* one: it never drives the head a segment past the post-gear switch.      *)
CrossingTrue ==
  goal \in {"cross", "crossed"} => tip <= gears

(* An overrun leaves the assist off: its stop is the next thing sent.      *)
OverrunStops ==
  pc = "idle" /\ push = "overrun" /\ queue = <<>> /\ ~stopLost
    => motor # "assist" /\ ~claim
=============================================================================
