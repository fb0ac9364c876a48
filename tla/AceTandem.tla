------------------------------ MODULE AceTandem ------------------------------
(***************************************************************************)
(* The tandem extract (_tandem_extract, klipper/instance.py) and the       *)
(* verified starter it stands on (_retract_async_verified).                *)
(*                                                                         *)
(* Two actors pull one strand: the unit unwinds the lane under its own     *)
(* command, and the extruder runs backward in segments that FORCE_MOVE     *)
(* queues and the toolhead executes later.  The command reads the entry    *)
(* switch, the post-gear switch and the slot state while both run, and has *)
(* to tell a strand that travels from one that is ground at the nip.       *)
(*                                                                         *)
(* Distances are segments of seg = 4 mm.  `tip' is how far the strand has  *)
(* come back; the post-gear switch clears when tip reaches at.seat, the    *)
(* entry switch when it reaches at.entry.                                  *)
(***************************************************************************)
EXTENDS AceUnit

CONSTANTS
  Slot,         \* the lane of the command, local to the unit
  ToolOffset,   \* tool_offset: the first tool of this unit
  Unreadable,   \* the loaded-tool index cannot be read
  Indices,      \* values of ace_current_index, or Unreadable
  Cap,          \* cap_mm, in segments
  StallWindow,  \* STALL_WINDOW_MM, in segments
  GearClear,    \* POSTGEAR_CLEAR_MM, in segments
  Attempts,     \* STOP_SETTLE_ATTEMPTS
  Places,       \* where the two switches are: records [seat, entry]
  MaxCalls      \* bound: pulls in a behaviour

ASSUME DistancesAreNat ==
  /\ Cap \in Nat \ {0}
  /\ StallWindow \in Nat \ {0}
  /\ GearClear \in Nat
  /\ Attempts \in Nat \ {0}
  /\ MaxCalls \in Nat
  /\ Places \subseteq [seat : Nat, entry : Nat]
(* The strand leaves the post-gear switch first, and POSTGEAR_CLEAR_MM     *)
(* "falls on the second STALL_WINDOW_MM boundary": on a boundary, at any   *)
(* rate.                                                                   *)
ASSUME WindowsFit ==
  /\ \A p \in Places : p.seat <= p.entry
  /\ \E k \in 1 .. GearClear : GearClear = k * StallWindow
ASSUME IndicesAre ==
  /\ Slot \in Nat
  /\ ToolOffset \in Nat
  /\ Indices \subseteq (Nat \cup {-1, Unreadable})
  /\ Unreadable \notin Int

VARIABLES
  pc,        \* where the command is
  by,        \* its arguments and what it read of the ownership
  try,       \* attempt of the verified starter
  seatAtStart, \* start_seat: "made", "clear" or "none"
  pulled,    \* segments commanded
  checked,   \* last_checked_at
  claimed,   \* an assist claim that _ensure_assists_off_for_motion stops
  verdict,   \* how the last pull ended
  queued,    \* segments commanded and not executed
  tip, at,   \* the strand and the switches
  caught,    \* the strand cannot move at the nip
  \* history and bounds
  from,      \* tip when the pull began
  granted,   \* the unit has acknowledged an unwind of this pull
  starts,    \* unwinds the unit began
  silences,  \* attempts given up without an answer
  blind,     \* windows in which the post-gear switch could not be read
  calls

command == <<pc, by, try, seatAtStart, pulled, checked, claimed, verdict>>
nip     == <<queued, tip, at, caught>>
told    == <<from, granted, starts, silences, blind, calls>>
vars    == <<channel, command, nip, told>>

Verdicts == {"none", "free", "unowned", "empty", "refused", "error", "cap",
             "gear", "broken"}

TypeOK ==
  /\ UnitTypeOK
  /\ pc \in {"idle", "starter", "await", "loop", "confirm", "push", "check",
             "margin", "finish"}
  /\ by \in [index : Indices \cup {Unreadable}, forced : BOOLEAN]
  /\ try \in 0 .. Attempts
  /\ seatAtStart \in {"made", "clear", "none"}
  /\ pulled \in 0 .. Cap + 1
  /\ checked \in 0 .. Cap + 1
  /\ claimed \in BOOLEAN
  /\ verdict \in Verdicts
  /\ queued \in 0 .. Cap + 1
  /\ tip \in Nat
  /\ at \in Places
  /\ caught \in BOOLEAN
  /\ from \in Nat
  /\ granted \in BOOLEAN
  /\ starts \in Nat
  /\ silences \in Nat
  /\ blind \in 0 .. MaxFaults
  /\ calls \in 0 .. MaxCalls

EntryMade == tip < at.entry
SeatMade  == tip < at.seat
Executed  == pulled - queued

Goto(l) == pc' = l
Ends(v) == pc' = "idle" /\ verdict' = v

-----------------------------------------------------------------------------
(* Mutant: the global tool compared with the local slot. *)
OwnedByLane(i) == i \in Nat /\ i = Slot

(* The ownership guard *)
Owned(i) == i \in Nat /\ i = Slot + ToolOffset

Init ==
  /\ motor \in {"idle", "assist"}
  /\ window = FALSE
  /\ slot \in {"ready", "error"}
  /\ queue = <<>> /\ answer = "none"
  /\ frame = Shown
  /\ beat = TRUE /\ stopLost = FALSE /\ faults = 0
  /\ pc = "idle" /\ by = [index |-> Unreadable, forced |-> FALSE]
  /\ try = 0 /\ seatAtStart = "none" /\ pulled = 0 /\ checked = 0
  /\ claimed = (motor = "assist")
  /\ verdict = "none"
  /\ queued = 0 /\ tip = 0 /\ at \in Places /\ caught = FALSE
  /\ from = 0 /\ granted = FALSE /\ starts = 0 /\ silences = 0
  /\ blind = 0 /\ calls = 0

(* The command, from its guard to the wait for a fresh frame (which is     *)
(* bounded and lets the pull proceed either way).  Forcing a pull that is  *)
(* owned changes nothing.                                                  *)
CallTandem(i, forced) ==
  /\ pc = "idle" /\ queued = 0 /\ calls < MaxCalls
  /\ forced => ~Owned(i)
  /\ calls' = calls + 1
  /\ by' = [index |-> i, forced |-> forced]
  /\ try' = 0 /\ pulled' = 0 /\ checked' = 0 /\ seatAtStart' = "none"
  /\ from' = tip /\ granted' = FALSE /\ blind' = 0
  /\ IF forced \/ Owned(i)
       THEN pc' = "starter" /\ verdict' = "none"
       ELSE Ends("unowned")
  /\ UNCHANGED <<channel, claimed, nip, starts, silences>>

-----------------------------------------------------------------------------
(* _retract_async_verified *)
StopsAssist(q) == IF claimed THEN Append(q, Tells("stop")) ELSE q

Starter ==
  /\ pc = "starter"
  /\ claimed' = FALSE
  /\ IF ShownEmpty
       THEN /\ queue' = StopsAssist(queue)
            /\ Ends("empty")
            /\ UNCHANGED <<try, answer>>
       ELSE /\ queue' = Append(StopsAssist(Orphaned(queue)), Asks("wind"))
            /\ answer' = "none"
            /\ try' = 1
            /\ Goto("await")
            /\ UNCHANGED verdict
  /\ UNCHANGED <<unit, seen, stopLost, faults, by, seatAtStart, pulled,
                 checked, nip, told>>

(* The seat is read once, when the unit has accepted. *)
SeatReading == IF SeatMade THEN "made" ELSE "clear"

Accepted ==
  /\ pc = "await"
  /\ answer = "ok"
  /\ Goto("loop")
  /\ seatAtStart' \in {SeatReading, "none"}
  /\ UNCHANGED <<channel, by, try, pulled, checked, claimed, verdict, nip, told>>

(* Mutant: one attempt too many. *)
TriesOnceMore ==
  IF try <= Attempts
    THEN Attempt("wind") /\ try' = try + 1 /\ UNCHANGED <<pc, verdict>>
    ELSE GivenUp /\ Ends("refused") /\ UNCHANGED try

TriesAgain ==
  IF try < Attempts
    THEN Attempt("wind") /\ try' = try + 1 /\ UNCHANGED <<pc, verdict>>
    ELSE GivenUp /\ Ends("refused") /\ UNCHANGED try

(* Mutant: any answer is taken for a refusal. *)
RefusedByAnyAnswer ==
  /\ pc = "await"
  /\ answer # "none"
  /\ TriesAgain
  /\ UNCHANGED <<unit, seen, stopLost, faults, by, seatAtStart, pulled,
                 checked, claimed, nip, told>>

Refused ==
  /\ pc = "await"
  /\ answer = "forbidden"
  /\ TriesAgain
  /\ UNCHANGED <<unit, seen, stopLost, faults, by, seatAtStart, pulled,
                 checked, claimed, nip, told>>

(* Three seconds without an answer: nothing is coming, or the link is slow.*)
NoAnswer ==
  /\ pc = "await"
  /\ answer = "none"
  /\ \/ Silent /\ UNCHANGED faults
     \/ ~Silent /\ Fault
  /\ silences' = silences + 1
  /\ TriesAgain
  /\ UNCHANGED <<unit, seen, stopLost, by, seatAtStart, pulled, checked,
                 claimed, nip, from, granted, starts, blind, calls>>

-----------------------------------------------------------------------------
(* The loop *)
Looks ==
  /\ pc = "loop"
  /\ Goto(IF ~EntryMade THEN "margin"
          ELSE IF ShownError THEN "confirm" ELSE "push")
  /\ beat' = (pc' # "confirm")
  /\ UNCHANGED <<unit, link, frame, stopLost, faults, by, try, seatAtStart,
                 pulled, checked, claimed, verdict, nip, told>>

(* FEED_ERROR_CONFIRM_S outlasts a heartbeat: the error survives a frame,  *)
(* and then the queue is drained before the stop.                          *)
Confirms ==
  /\ pc = "confirm"
  /\ beat
  /\ \/ ~ShownError /\ Goto("push") /\ UNCHANGED <<link, verdict>>
     \/ /\ ShownError
        /\ queued = 0
        /\ Ends("error")
        /\ StopRetract
        /\ UNCHANGED answer
  /\ UNCHANGED <<unit, seen, stopLost, faults, by, try, seatAtStart, pulled,
                 checked, claimed, nip, told>>

(* FORCE_MOVE queues and returns. *)
ForceMove ==
  /\ queued' = queued + 1
  /\ pulled' = pulled + 1

Pushes ==
  /\ pc = "push"
  /\ pulled < Cap
  /\ ForceMove
  /\ Goto(IF pulled' - checked >= StallWindow THEN "check" ELSE "loop")
  /\ UNCHANGED <<channel, by, try, seatAtStart, checked, claimed, verdict,
                 tip, at, caught, told>>

(* The printer refuses the segment: no clause of the pull catches it. *)
ForceMoveRaises ==
  /\ pc \in {"push", "margin"}
  /\ pc = "push" => pulled < Cap
  /\ Fault
  /\ Ends("broken")
  /\ UNCHANGED <<unit, link, seen, stopLost, by, try, seatAtStart, pulled,
                 checked, claimed, nip, told>>

(* Mutant: the cap judged on commanded motion. *)
AtCapCommanded ==
  /\ pc = "push"
  /\ pulled >= Cap
  /\ Ends("cap") /\ StopRetract
  /\ UNCHANGED <<answer, unit, seen, stopLost, faults, by, try, seatAtStart,
                 pulled, checked, claimed, nip, told>>

(* At the cap: drain, look again, and only then judge. *)
AtCap ==
  /\ pc = "push"
  /\ pulled >= Cap
  /\ queued = 0
  /\ \/ ~EntryMade /\ Goto("margin") /\ UNCHANGED <<link, verdict>>
     \/ EntryMade /\ Ends("cap") /\ StopRetract /\ UNCHANGED answer
  /\ UNCHANGED <<unit, seen, stopLost, faults, by, try, seatAtStart, pulled,
                 checked, claimed, nip, told>>

(* Mutant: the hub encoder, which turns with the unit, taken as witness. *)
JudgedByHub(seat) ==
  \/ /\ motor # "wind" /\ pulled >= GearClear
     /\ Ends("gear")
     /\ StopRetract
     /\ UNCHANGED <<answer, checked>>
  \/ /\ ~(motor # "wind" /\ pulled >= GearClear)
     /\ Goto("loop")
     /\ checked' = pulled
     /\ UNCHANGED <<link, verdict>>

(* Every window the queue is drained and the post-gear switch judged; a    *)
(* switch that cannot be read is no evidence.                              *)
Judged(seat) ==
  \/ /\ seatAtStart = "made" /\ seat = "made" /\ pulled >= GearClear
     /\ Ends("gear")
     /\ StopRetract
     /\ UNCHANGED <<answer, checked>>
  \/ /\ ~(seatAtStart = "made" /\ seat = "made" /\ pulled >= GearClear)
     /\ Goto("loop")
     /\ checked' = pulled
     /\ UNCHANGED <<link, verdict>>

(* Mutant: the switches read against motion that has not happened. *)
ChecksUndrained ==
  /\ pc = "check"
  /\ Judged(SeatReading)
  /\ UNCHANGED <<unit, seen, stopLost, faults, by, try, seatAtStart, pulled,
                 claimed, nip, told>>

Checks ==
  /\ pc = "check"
  /\ queued = 0
  /\ \/ Judged(SeatReading) /\ UNCHANGED <<faults, blind>>
     \/ Judged("none") /\ Fault /\ blind' = blind + 1
  /\ UNCHANGED <<unit, seen, stopLost, by, try, seatAtStart, pulled, claimed,
                 nip, from, granted, starts, silences, calls>>

(* One margin segment, the drain, and the stop. *)
Margin ==
  /\ pc = "margin"
  /\ ForceMove
  /\ Goto("finish")
  /\ UNCHANGED <<channel, by, try, seatAtStart, checked, claimed, verdict,
                 tip, at, caught, told>>

(* Mutants: the stop before the drain, and no stop at all. *)
FinishesUndrained ==
  /\ pc = "finish"
  /\ Ends("free")
  /\ StopRetract
  /\ UNCHANGED <<unit, answer, seen, stopLost, faults, by, try, seatAtStart,
                 pulled, checked, claimed, nip, told>>

FinishesUnstopped ==
  /\ pc = "finish"
  /\ queued = 0
  /\ Ends("free")
  /\ UNCHANGED <<channel, by, try, seatAtStart, pulled, checked, claimed,
                 nip, told>>

Finishes ==
  /\ pc = "finish"
  /\ queued = 0
  /\ Ends("free")
  /\ StopRetract
  /\ UNCHANGED <<unit, answer, seen, stopLost, faults, by, try, seatAtStart,
                 pulled, checked, claimed, nip, told>>

-----------------------------------------------------------------------------
(* The toolhead executes a segment: the strand comes along when the unit   *)
(* pays it back and nothing holds it, and is ground otherwise.             *)
Follows == motor = "wind" /\ ~caught

Executes1 ==
  /\ queued > 0
  /\ queued' = queued - 1
  /\ tip' = IF Follows THEN tip + 1 ELSE tip
  /\ UNCHANGED <<channel, command, at, caught, told>>

StrandCatches ==
  /\ Fault
  /\ ~caught
  /\ caught' = TRUE
  /\ UNCHANGED <<unit, link, seen, stopLost, command, queued, tip, at, told>>

(* What the unit does, and the history of its acknowledgements. *)
Winds(r) == r.op = "wind"

UnitActs ==
  /\ UnitNext \/ UnitFails
  /\ granted' = (granted \/ (answer = "none" /\ answer' = "ok"))
  /\ starts' = IF motor # "wind" /\ motor' = "wind" THEN starts + 1 ELSE starts
  /\ UNCHANGED <<command, nip, from, silences, blind, calls>>

Driver ==
  \/ Starter \/ Accepted \/ Refused \/ NoAnswer
  \/ Looks \/ Confirms \/ Pushes \/ AtCap \/ Checks \/ Margin \/ Finishes

Next ==
  \/ \E i \in Indices, f \in BOOLEAN : CallTandem(i, f)
  \/ Driver
  \/ ForceMoveRaises
  \/ Executes1
  \/ StrandCatches
  \/ UnitActs

Spec == Init /\ [][Next]_vars

-----------------------------------------------------------------------------
(* Properties *)

(* "raises before any extruder motion if the device refuses", and "it      *)
(* pulls whatever strand is in the nip, which belongs to the LOADED lane": *)
(* whatever is lost, late or repeated, the extruder has not been commanded *)
(* unless the unit acknowledged an unwind of this very pull, on the lane   *)
(* that owns the nip or one the operator vouched for.                      *)
PullWarranted ==
  pulled > 0 => granted /\ (by.forced \/ by.index = Slot + ToolOffset)

(* With the post-gear switch as its witness, a pull whose strand does not  *)
(* travel stops after GearClear executed segments, not at the cap: lost    *)
(* acknowledgements, discarded unwinds and a strand caught at the nip all  *)
(* end there.  A window in which the switch cannot be read costs a window. *)
GroundWitnessed ==
  seatAtStart = "made" /\ SeatMade =>
    Executed <= GearClear + StallWindow * blind

(* "the entry-switch read below is never more than this far behind the     *)
(* real position": a successful pull rests at most a window past the       *)
(* switch, its margin segment included, or a segment past where it began.  *)
OvershootBounded ==
  verdict = "free" => tip <= at.entry + StallWindow \/ tip <= from + 1

(* The verdict is about executed motion, not queued motion: it falls on a  *)
(* drained queue (a stop never leaves the extruder pulling alone), and     *)
(* what it says of the switches and of the unit is so.                     *)
VerdictTrue ==
  /\ verdict \in {"free", "cap", "gear", "error"} => queued = 0
  /\ verdict = "free" => ~EntryMade
  /\ verdict = "cap"  => EntryMade /\ Executed >= Cap
  /\ verdict = "gear" => SeatMade /\ Executed >= GearClear
  /\ verdict = "error" => slot = "error" \/ slot = "empty"

(* A pull that ends with a stop leaves the lane at rest once the queue has *)
(* drained, whatever attempts were given up before: no abandoned unwind is *)
(* behind the stop.                                                        *)
LaneLeftStill ==
  verdict \in {"free", "cap", "gear", "error"} /\ queue = <<>> /\ ~stopLost
    => motor # "wind"

(* The retry that follows a silent attempt may be a second unwind, and     *)
(* nothing else may: a pull whose attempts are all answered unwinds once.  *)
OneUnwindPerSilence == starts <= calls + silences

-----------------------------------------------------------------------------
(* The pull implements its contract. *)
Stage ==
  CASE pc \in {"starter", "await"} -> "asked"
    [] pc \in {"loop", "confirm", "push", "check", "margin", "finish"} -> "pulling"
    [] OTHER -> "rest"

Outcome ==
  CASE verdict = "none"   -> "none"
    [] verdict = "free"   -> "free"
    [] verdict = "broken" -> "broken"
    [] OTHER              -> "raised"

Contract == INSTANCE ExtruderPull WITH
              stage <- Stage, drawn <- Executed, free <- ~EntryMade,
              outcome <- Outcome

Implements == Contract!Spec
=============================================================================
