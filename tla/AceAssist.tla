------------------------------ MODULE AceAssist ------------------------------
(***************************************************************************)
(* The assist claims of one AceInstance (klipper/instance.py).             *)
(*                                                                         *)
(* An ACE unit can run a forward FEED ASSIST (mode 2) or a backward        *)
(* ROLLBACK ASSIST (mode 3) on a slot for as long as nobody stops it.  The *)
(* driver remembers what it believes to be running in two indices,         *)
(* `feedIdx' and `rollIdx', publishes them to the macros that move the     *)
(* extruder, and mirrors the first one in a file that survives a restart.  *)
(*                                                                         *)
(* Actors:                                                                 *)
(*   - the G-code thread, which runs one command at a time and yields in   *)
(*     every wait (reactor.pause, dwell);                                  *)
(*   - the heartbeat callback, which updates the cached status, notices    *)
(*     lost assists and restores them, and can itself wait 5 s;            *)
(*   - the serial queue, which executes requests in order and runs their   *)
(*     callbacks (the serial manager is not part of the repository);       *)
(*   - the device and the operator (spools, power, cables).                *)
(***************************************************************************)
EXTENDS Naturals, Sequences, FiniteSets

CONSTANTS
  Slots,            \* the lanes of this unit
  None,             \* "-1": no slot
  AssistIsBusy,     \* protocol.feed_assist_causes_busy(): TRUE ACE2, FALSE ACE1
  RestoreAttempts,  \* FEED_ASSIST_RESTORE_MAX_ATTEMPTS
  SettleAttempts,   \* STOP_SETTLE_ATTEMPTS
  Prompt,           \* a 1 s dwell and a 3 s deadline outlast the serial queue
  Calls,            \* the G-code calls the environment makes (see CallNames)
  MaxCalls,         \* bound: calls in a behaviour
  MaxFaults,        \* bound: faults in a behaviour
  MaxWire           \* bound: requests queued when a heartbeat is handled

CallNames == { "enable", "reenable", "disable", "startRoll", "stopRoll",
               "stopFeed", "move", "toolchange", "reset" }

ASSUME NoneIsNoSlot   == None \notin Slots
ASSUME AssistIsBusyIs == AssistIsBusy \in BOOLEAN
ASSUME PromptIs       == Prompt \in BOOLEAN
ASSUME BoundsAreNat   == /\ RestoreAttempts \in Nat
                         /\ SettleAttempts \in Nat \ {0}
                         /\ MaxCalls \in Nat
                         /\ MaxFaults \in Nat
                         /\ MaxWire \in Nat

VARIABLES
  \* driver memory
  feedIdx,      \* _feed_assist_index
  rollIdx,      \* _rollback_assist_index
  ackPending,   \* _feed_assist_ack_pending
  topo,         \* _feed_assist_topology_position against the present position
  pending,      \* _pending_feed_assist_restore
  attempts,     \* _feed_assist_restore_attempts
  streak,       \* _assist_lost_streak
  loading,      \* _loading_slot
  info,         \* _info: the last status frame
  restoring,    \* slots whose restore waits in wait_ready(timeout_s=5.0)
  g,            \* what the G-code thread is doing
  \* state store and manager
  persisted,    \* ace_feed_assist_index_<n>
  owner,        \* slot of ace_current_index on this instance, None otherwise
  toolchange,   \* manager.toolchange_in_progress
  \* serial link
  linkUp, wire,
  \* the device
  dev,          \* per slot: "idle", "assist" (mode 2) or "rollback" (mode 3)
  devBusy,      \* busy for a reason of its own (RFID read, preload, drying)
  empty,        \* slots without a spool
  geared,       \* a slot has reached 'ready' since the last status frame
  \* history and bounds
  endedBehind,  \* assists <<mode, slot>> that ended without a claim-clearing
                \* stop since the device last accepted that assist
  calls, faults

claims  == <<feedIdx, rollIdx, ackPending, topo, persisted>>
restore == <<pending, attempts, streak, restoring>>
manager == <<owner, toolchange, loading>>
device  == <<dev, devBusy, empty, geared, endedBehind>>
vars    == <<claims, restore, manager, info, g, linkUp, wire, device,
             calls, faults>>

SlotOrNone == Slots \cup {None}
Modes      == {"assist", "rollback"}
Assists    == Modes \X Slots

-----------------------------------------------------------------------------
(* Requests.  `cb' names the callback the reply runs. *)
Request == [kind : {"start2", "start3", "stop", "move"}, slot : Slots,
            cb : {"enable", "restore", "await", "none"}]

Start2(s, cb) == [kind |-> "start2", slot |-> s, cb |-> cb]
Start3(s)     == [kind |-> "start3", slot |-> s, cb |-> "await"]
Stop(s)       == [kind |-> "stop", slot |-> s, cb |-> "none"]
Move(s)       == [kind |-> "move", slot |-> s, cb |-> "none"]

Send(r) == wire' = Append(wire, r)
(* send_high_prio_request *)
SendFirst(r) == wire' = <<r>> \o wire

(* A status frame: the work status, the slots whose detail reads assisting *)
(* or shifting, and the empty slots.                                       *)
Frame == [ready : BOOLEAN, assisting : SUBSET Slots, empty : SUBSET Slots]

(* The G-code thread: `op' is the command, `slot' its argument, `off' the  *)
(* slot _disable_feed_assist is stopping, `tries' and `got' the attempt of *)
(* a verified starter and the answer it has received.                      *)
Pcs == { "idle", "enable", "enableWait", "ensure", "offWait", "offTail",
         "ensureRoll", "dwell", "go", "await", "failWait" }
WaitPcs == {"enableWait", "offWait", "failWait"}
Thread == [pc : Pcs, op : {"none", "enable", "disable", "stopRoll", "move",
                           "startRoll", "recover"},
           slot : SlotOrNone, off : SlotOrNone,
           tries : 0 .. SettleAttempts, got : {"none", "ok", "no"}]

Idle == [pc |-> "idle", op |-> "none", slot |-> None, off |-> None,
         tries |-> 0, got |-> "none"]
Begin(pc, op, s) == g' = [Idle EXCEPT !.pc = pc, !.op = op, !.slot = s]
Goto(pc) == g' = [g EXCEPT !.pc = pc]
Return   == g' = Idle

TypeOK ==
  /\ feedIdx \in SlotOrNone
  /\ rollIdx \in SlotOrNone
  /\ ackPending \in BOOLEAN
  /\ topo \in {"unset", "same", "other"}
  /\ pending \in SlotOrNone
  /\ attempts \in 0 .. RestoreAttempts + 1
  /\ streak \in 0 .. 1
  /\ loading \in SlotOrNone
  /\ info \in Frame
  /\ restoring \in SUBSET Slots
  /\ g \in Thread
  /\ persisted \in SlotOrNone
  /\ owner \in SlotOrNone
  /\ toolchange \in BOOLEAN
  /\ linkUp \in BOOLEAN
  /\ wire \in Seq(Request)
  /\ dev \in [Slots -> {"idle", "assist", "rollback"}]
  /\ devBusy \in BOOLEAN
  /\ empty \in SUBSET Slots
  /\ geared \in BOOLEAN
  /\ endedBehind \in SUBSET Assists
  /\ calls \in Nat
  /\ faults \in Nat

Init ==
  /\ feedIdx = None /\ rollIdx = None /\ ackPending = FALSE
  /\ topo = "unset" /\ persisted = None
  /\ pending = None /\ attempts = 0 /\ streak = 0 /\ restoring = {}
  /\ owner \in SlotOrNone /\ toolchange = FALSE /\ loading = None
  /\ info = [ready |-> TRUE, assisting |-> {}, empty |-> Slots]
  /\ g = Idle
  /\ linkUp = TRUE /\ wire = <<>>
  /\ dev = [s \in Slots |-> "idle"] /\ devBusy = FALSE
  /\ empty = {} /\ geared = FALSE /\ endedBehind = {}
  /\ calls = 0 /\ faults = 0

-----------------------------------------------------------------------------
(* Building blocks of the driver *)

(* _clear_assist_claims_for_slot: one STOP frame ends both modes, so both  *)
(* claims on the slot go.                                                  *)
ClearClaims(s) ==
  /\ feedIdx' = IF feedIdx = s THEN None ELSE feedIdx
  /\ topo' = IF feedIdx = s THEN "unset" ELSE topo
  /\ ackPending' = IF feedIdx = s THEN FALSE ELSE ackPending
  /\ persisted' = IF feedIdx = s THEN None ELSE persisted
  /\ rollIdx' = IF rollIdx = s THEN None ELSE rollIdx

(* The refusal branch and the stale branches: the feed claim is forgotten. *)
ForgetFeed ==
  /\ feedIdx' = None
  /\ topo' = "unset"

(* Mutant: the stop clears its own flag only (the defect D-B of 2026-09-01). *)
StopRollbackOwnFlag(s) ==
  /\ rollIdx' = IF rollIdx = s THEN None ELSE rollIdx
  /\ UNCHANGED <<feedIdx, topo, ackPending, persisted>>
  /\ Send(Stop(s))

(* _stop_rollback_assist past its guards; the caller goes to "dwell". *)
StopRollback(s) ==
  /\ ClearClaims(s)
  /\ Send(Stop(s))

(* A wait of a second or more has passed; a wait for 'ready' of five or    *)
(* sixty has, and several heartbeats with it.                              *)
Settled == Prompt /\ linkUp => wire = <<>>

DeviceReady ==
  ~devBusy /\ ~(AssistIsBusy /\ \E s \in Slots : dev[s] # "idle")

StillBusy ==
  /\ ~info.ready
  /\ Settled
  /\ Prompt /\ linkUp => ~DeviceReady

DwellEnds ==
  /\ g.pc = "dwell" /\ Settled
  /\ CASE g.op = "enable"   -> Goto("enable")
       [] g.op = "stopRoll" -> Return
       [] OTHER             -> Goto("go")
  /\ UNCHANGED <<claims, restore, manager, info, linkUp, wire, device, calls,
                 faults>>

(* _is_slot_empty and _device_slot_detail read the cached frame *)
ShownEmpty(s)     == s \in info.empty
ShownAssisting(s) == s \in info.assisting

(* The slots a caller may enable: the lane being loaded, else the lane of  *)
(* the current tool.                                                       *)
Enablable == IF loading # None THEN {loading} ELSE {owner} \ {None}

Calling(name) ==
  /\ name \in Calls
  /\ g.pc = "idle"
  /\ calls < MaxCalls
  /\ calls' = calls + 1

-----------------------------------------------------------------------------
(* _enable_feed_assist *)

(* unpark_to_nozzle enables only a slot the claim does not name; the       *)
(* seating loop and the macros enable unconditionally.                     *)
CallEnable(s) ==
  /\ \/ Calling("enable") /\ feedIdx # s
     \/ Calling("reenable")
  /\ s \in Enablable
  /\ Begin("enable", "enable", s)
  /\ UNCHANGED <<claims, restore, manager, info, linkUp, wire, device, faults>>

(* A live rollback assist is stopped first. *)
EnableStopsRollback ==
  /\ g.pc = "enable" /\ rollIdx # None
  /\ StopRollback(rollIdx)
  /\ Goto("dwell")
  /\ UNCHANGED <<restore, manager, info, linkUp, device, calls, faults>>

AlreadyAssisting == feedIdx = g.slot

EnableSatisfied ==
  /\ g.pc = "enable" /\ rollIdx = None
  /\ AlreadyAssisting /\ ShownAssisting(g.slot)
  /\ Return
  /\ UNCHANGED <<claims, restore, manager, info, linkUp, wire, device, calls,
                 faults>>

(* Mutant: the START goes out as if it were acknowledged already. *)
SendEnableAcked ==
  /\ UNCHANGED ackPending
  /\ Send(Start2(g.slot, "enable"))
  /\ Return

(* The START goes out with the acknowledgement pending.  An ACE1 then      *)
(* waits for 'ready' again: the frame that let it send still says so.      *)
SendEnable ==
  /\ ackPending' = TRUE
  /\ Send(Start2(g.slot, "enable"))
  /\ Return

(* The claim is taken before the wait and before the send. *)
EnableClaims ==
  /\ g.pc = "enable" /\ rollIdx = None
  /\ ~(AlreadyAssisting /\ ShownAssisting(g.slot))
  /\ feedIdx' = g.slot
  /\ topo' = "same"
  /\ IF info.ready \/ (AlreadyAssisting /\ AssistIsBusy)
       THEN SendEnable
       ELSE Goto("enableWait") /\ UNCHANGED <<ackPending, wire>>
  /\ UNCHANGED <<rollIdx, persisted, restore, manager, info, linkUp, device,
                 calls, faults>>

EnableSends ==
  /\ g.pc = "enableWait" /\ info.ready
  /\ SendEnable
  /\ UNCHANGED <<feedIdx, rollIdx, topo, persisted, restore, manager, info,
                 linkUp, device, calls, faults>>

-----------------------------------------------------------------------------
(* _disable_feed_assist, called directly or by the motion guard *)

AfterOff == IF g.op = "disable" THEN Return ELSE Goto("ensureRoll")

(* The claim goes first.  An ACE2 is busy because of the assist and gets   *)
(* the STOP at once; an ACE1 waits for 'ready' before it.                  *)
StartDisable(s, op, arg) ==
  /\ ClearClaims(s)
  /\ IF AssistIsBusy \/ info.ready
       THEN /\ Send(Stop(s))
            /\ g' = [Idle EXCEPT !.pc = "offTail", !.op = op, !.slot = arg,
                                 !.off = s]
       ELSE /\ g' = [Idle EXCEPT !.pc = "offWait", !.op = op, !.slot = arg,
                                 !.off = s]
            /\ UNCHANGED wire

(* With another claim, or none, the call returns without a step. *)
CallDisable(s) ==
  /\ Calling("disable")
  /\ feedIdx = s
  /\ StartDisable(s, "disable", s)
  /\ UNCHANGED <<restore, manager, info, linkUp, device, faults>>

DisableSends ==
  /\ g.pc = "offWait" /\ info.ready
  /\ Send(Stop(g.off))
  /\ Goto("offTail")
  /\ UNCHANGED <<claims, restore, manager, info, linkUp, device, calls, faults>>

(* The dwell, and on an ACE1 the trailing wait *)
DisableEnds ==
  /\ g.pc = "offTail" /\ Settled
  /\ AssistIsBusy \/ info.ready
  /\ AfterOff
  /\ UNCHANGED <<claims, restore, manager, info, linkUp, wire, device, calls,
                 faults>>

-----------------------------------------------------------------------------
(* Motion: _ensure_assists_off_for_motion, then the command *)

(* _feed, _retract_async *)
CallMove(s) ==
  /\ Calling("move")
  /\ Begin("ensure", "move", s)
  /\ UNCHANGED <<claims, restore, manager, info, linkUp, wire, device, faults>>

(* _start_rollback_assist_verified *)
CallStartRollback(s) ==
  /\ Calling("startRoll")
  /\ Begin("ensure", "startRoll", s)
  /\ UNCHANGED <<claims, restore, manager, info, linkUp, wire, device, faults>>

(* Mutant: only the moving lane's own assist is disabled. *)
EnsureFeedOffOwnLane ==
  /\ g.pc = "ensure"
  /\ IF feedIdx = g.slot
       THEN StartDisable(feedIdx, g.op, g.slot)
       ELSE Goto("ensureRoll") /\ UNCHANGED <<claims, wire>>
  /\ UNCHANGED <<restore, manager, info, linkUp, device, calls, faults>>

EnsureFeedOff ==
  /\ g.pc = "ensure"
  /\ IF feedIdx # None
       THEN StartDisable(feedIdx, g.op, g.slot)
       ELSE Goto("ensureRoll") /\ UNCHANGED <<claims, wire>>
  /\ UNCHANGED <<restore, manager, info, linkUp, device, calls, faults>>

(* keep_rollback_slot: a starter spares the assist on its own slot. *)
EnsureRollbackOff ==
  /\ g.pc = "ensureRoll"
  /\ IF rollIdx # None /\ ~(g.op = "startRoll" /\ rollIdx = g.slot)
       THEN StopRollback(rollIdx) /\ Goto("dwell")
       ELSE Goto("go") /\ UNCHANGED <<claims, wire>>
  /\ UNCHANGED <<restore, manager, info, linkUp, device, calls, faults>>

(* _feed always sends; _retract_async skips an empty slot.  The recovery   *)
(* retract of a failed load ends the load.                                 *)
MoveGoes ==
  /\ g.pc = "go" /\ g.op \in {"move", "recover"}
  /\ \/ Send(Move(g.slot))
     \/ ShownEmpty(g.slot) /\ UNCHANGED wire
  /\ Return
  /\ loading' = IF g.op = "recover" THEN None ELSE loading
  /\ UNCHANGED <<claims, restore, owner, toolchange, info, linkUp, device,
                 calls, faults>>

Attempt(n) ==
  g' = [g EXCEPT !.pc = "await", !.tries = n, !.got = "none"]

(* Mutant: the claim is taken with the first attempt, as the enable does. *)
StarterGoesOptimistic ==
  /\ g.pc = "go" /\ g.op = "startRoll"
  /\ IF ShownEmpty(g.slot)
       THEN Return /\ UNCHANGED <<wire, rollIdx>>
       ELSE Attempt(1) /\ Send(Start3(g.slot)) /\ rollIdx' = g.slot
  /\ UNCHANGED <<feedIdx, ackPending, topo, persisted, restore, manager, info,
                 linkUp, device, calls, faults>>

StarterGoes ==
  /\ g.pc = "go" /\ g.op = "startRoll"
  /\ IF ShownEmpty(g.slot)
       THEN Return /\ UNCHANGED wire
       ELSE Attempt(1) /\ Send(Start3(g.slot))
  /\ UNCHANGED <<claims, restore, manager, info, linkUp, device, calls, faults>>

StarterAccepted ==
  /\ g.pc = "await" /\ g.got = "ok"
  /\ rollIdx' = g.slot
  /\ Return
  /\ UNCHANGED <<feedIdx, ackPending, topo, persisted, restore, manager, info,
                 linkUp, wire, device, calls, faults>>

(* Mutant: an abandoned attempt still reports to the present one. *)
AbandonedStillRead == wire

(* After 3 s without an answer the reply of that attempt has no reader.    *)
Abandoned ==
  [i \in DOMAIN wire |-> IF wire[i].cb = "await"
                           THEN [wire[i] EXCEPT !.cb = "none"] ELSE wire[i]]

(* A refusal, a silence or the 3 s deadline: pause, try again, or raise. *)
StarterRetries ==
  /\ g.pc = "await" /\ g.got # "ok"
  /\ g.got = "no" \/ ~(Prompt /\ linkUp)
  /\ IF g.tries < SettleAttempts
       THEN /\ Attempt(g.tries + 1)
            /\ wire' = Append(Abandoned, Start3(g.slot))
       ELSE /\ Return
            /\ wire' = Abandoned
  /\ UNCHANGED <<claims, restore, manager, info, linkUp, device, calls, faults>>

(* wait_ready gives up and the command raises.  Claims stay as they are.   *)
WaitTimesOut ==
  /\ \/ g.pc \in WaitPcs
     \/ g.pc = "offTail" /\ ~AssistIsBusy /\ Settled
  /\ StillBusy
  /\ Return
  /\ loading' = IF g.op = "recover" THEN None ELSE loading
  /\ UNCHANGED <<claims, restore, owner, toolchange, info, linkUp, wire, device,
                 calls, faults>>

-----------------------------------------------------------------------------
(* The remaining commands *)

(* _stop_rollback_assist: a claim on another slot refuses, no claim sends  *)
(* blind.                                                                  *)
CallStopRollback(s) ==
  /\ Calling("stopRoll")
  /\ rollIdx \in {None, s}
  /\ StopRollback(s)
  /\ Begin("dwell", "stopRoll", s)
  /\ UNCHANGED <<restore, manager, info, linkUp, device, faults>>

(* _stop_feed: the same opcode, ahead of the queue; no claim is touched. *)
CallStopFeed(s) ==
  /\ Calling("stopFeed")
  /\ SendFirst(Stop(s))
  /\ endedBehind' = endedBehind \cup (Modes \X {s})
  /\ UNCHANGED <<claims, restore, manager, info, g, linkUp, dev, devBusy, empty,
                 geared, faults>>

(* reset_feed_assist_state *)
CallReset ==
  /\ Calling("reset")
  /\ feedIdx # None
  /\ feedIdx' = None
  /\ persisted' = None
  /\ UNCHANGED <<rollIdx, ackPending, topo, restore, manager, info, g, linkUp,
                 wire, device, faults>>

(* A tool change, run by the manager, and the load inside it:              *)
(* _feed_filament_into_toolhead names the lane, its first act is a feed,   *)
(* and when it fails it stops the feed, waits, and retracts.               *)
ToolchangeBegins ==
  /\ Calling("toolchange")
  /\ ~toolchange
  /\ toolchange' = TRUE
  /\ UNCHANGED <<claims, restore, owner, loading, info, g, linkUp, wire, device,
                 faults>>

LoadBegins(s) ==
  /\ Calling("toolchange")
  /\ toolchange /\ loading = None /\ s # owner
  /\ loading' = s
  /\ Begin("ensure", "move", s)
  /\ UNCHANGED <<claims, restore, owner, toolchange, info, linkUp, wire, device,
                 faults>>

LoadEnds ==
  /\ g.pc = "idle" /\ loading # None
  /\ owner' = loading
  /\ loading' = None
  /\ UNCHANGED <<claims, restore, toolchange, info, g, linkUp, wire, device,
                 calls, faults>>

LoadFails ==
  /\ g.pc = "idle" /\ loading # None
  /\ SendFirst(Stop(loading))
  /\ endedBehind' = endedBehind \cup (Modes \X {loading})
  /\ IF info.ready THEN Begin("ensure", "recover", loading)
                   ELSE Begin("failWait", "recover", loading)
  /\ UNCHANGED <<claims, restore, manager, info, linkUp, dev, devBusy, empty,
                 geared, calls, faults>>

RecoverReady ==
  /\ g.pc = "failWait" /\ info.ready
  /\ Goto("ensure")
  /\ UNCHANGED <<claims, restore, manager, info, linkUp, wire, device, calls,
                 faults>>

ToolchangeEnds ==
  /\ toolchange /\ g.pc = "idle" /\ loading = None
  /\ toolchange' = FALSE
  /\ UNCHANGED <<claims, restore, owner, loading, info, g, linkUp, wire, device,
                 calls, faults>>

-----------------------------------------------------------------------------
(* The heartbeat: _status_update_callback, _reconcile_feed_assist_state,   *)
(* _maybe_restore_pending_feed_assist.                                     *)

(* A slot whose assist is armed but idle reads 'ready', so any part of the *)
(* assisting slots may show.                                               *)
NewFrame ==
  \E shown \in SUBSET {s \in Slots : dev[s] = "assist"} :
    info' = [ready |-> DeviceReady, assisting |-> shown, empty |-> empty]

Queue == [pending |-> pending, attempts |-> attempts, streak |-> streak]

(* A slot reached 'ready': on an ACE1 the device may have dropped the      *)
(* assist while gearing it.                                                *)
SlotReadyQueue(q) ==
  IF geared /\ feedIdx # None /\ ~AssistIsBusy /\ q.pending = None /\ ~toolchange
    THEN [q EXCEPT !.pending = feedIdx, !.attempts = 0]
    ELSE q

(* Mutant: 'ready' is taken for an assist that runs. *)
ReconciledInverted(q) ==
  IF feedIdx = None \/ feedIdx \in info'.empty \/ info'.ready
    THEN [q EXCEPT !.streak = 0] ELSE q

(* Two frames in a row contradict the claim: an ACE2 that assists is busy. *)
Reconciled(q) ==
  IF feedIdx = None THEN [q EXCEPT !.streak = 0]
  ELSE IF q.pending # None \/ ~AssistIsBusy THEN q
  ELSE IF feedIdx \in info'.empty \/ ~info'.ready THEN [q EXCEPT !.streak = 0]
  ELSE IF q.streak = 0 THEN [q EXCEPT !.streak = 1]
  ELSE [pending |-> feedIdx, attempts |-> 0, streak |-> 0]

BelongsToTool(s) == s = owner \/ s = loading

(* Nothing is restored in this frame. *)
NoRestore(q) ==
  /\ q.pending = None \/ toolchange
  /\ pending' = q.pending
  /\ attempts' = q.attempts
  /\ UNCHANGED <<claims, restoring, wire>>

SkipEmpty(q) ==
  /\ q.pending # None /\ ~toolchange
  /\ q.pending \in info'.empty
  /\ pending' = None
  /\ attempts' = q.attempts
  /\ UNCHANGED <<claims, restoring, wire>>

DropStale(q) ==
  /\ q.pending # None /\ ~toolchange
  /\ q.pending \notin info'.empty
  /\ ~BelongsToTool(q.pending)
  /\ pending' = None
  /\ attempts' = q.attempts
  /\ IF feedIdx = q.pending THEN ForgetFeed ELSE UNCHANGED <<feedIdx, topo>>
  /\ persisted' = None
  /\ UNCHANGED <<rollIdx, ackPending, restoring, wire>>

Restorable(q) ==
  /\ q.pending # None /\ ~toolchange
  /\ q.pending \notin info'.empty
  /\ BelongsToTool(q.pending)

GiveUp(q) ==
  /\ Restorable(q)
  /\ q.attempts >= RestoreAttempts
  /\ pending' = None
  /\ attempts' = RestoreAttempts + 1
  /\ UNCHANGED <<claims, restoring, wire>>

OtherPosition(q) ==
  /\ Restorable(q)
  /\ q.attempts < RestoreAttempts
  /\ topo = "other"
  /\ pending' = None
  /\ attempts' = q.attempts + 1
  /\ ForgetFeed
  /\ UNCHANGED <<rollIdx, ackPending, persisted, restoring, wire>>

(* Mutant: the attempt is not counted. *)
SendOrWaitUncounted(q) ==
  /\ Restorable(q)
  /\ q.attempts < RestoreAttempts
  /\ topo # "other"
  /\ pending' = None
  /\ attempts' = q.attempts
  /\ IF info'.ready
       THEN Send(Start2(q.pending, "restore")) /\ UNCHANGED restoring
       ELSE restoring' = restoring \cup {q.pending} /\ UNCHANGED wire
  /\ UNCHANGED claims

(* wait_ready(timeout_s=5.0) does not yield when the frame says 'ready'. *)
SendOrWait(q) ==
  /\ Restorable(q)
  /\ q.attempts < RestoreAttempts
  /\ topo # "other"
  /\ pending' = None
  /\ attempts' = q.attempts + 1
  /\ IF info'.ready
       THEN Send(Start2(q.pending, "restore")) /\ UNCHANGED restoring
       ELSE restoring' = restoring \cup {q.pending} /\ UNCHANGED wire
  /\ UNCHANGED claims

MaybeRestore(q) ==
  \/ NoRestore(q) \/ SkipEmpty(q) \/ DropStale(q) \/ GiveUp(q)
  \/ OtherPosition(q) \/ SendOrWait(q)

(* Frames come a second apart: a wait polling twice a second sees each of  *)
(* them, a starter polling ten times a second its answer, and a prompt     *)
(* queue empties between two: the second of two contradicting frames finds *)
(* it empty.                                                               *)
FrameDue ==
  /\ linkUp
  /\ Len(wire) < MaxWire
  /\ info.ready => g.pc \notin WaitPcs /\ restoring = {}
  /\ g.got = "none"
  /\ Settled \/ streak = 0

Heartbeat ==
  /\ FrameDue
  /\ NewFrame
  /\ geared' = FALSE
  /\ LET q == Reconciled(SlotReadyQueue(Queue))
     IN  streak' = q.streak /\ MaybeRestore(q)
  /\ UNCHANGED <<manager, g, linkUp, dev, devBusy, empty, endedBehind, calls,
                 faults>>

(* wait_ready polls the status itself after 25 s; that frame goes to       *)
(* _status_update_callback only.                                           *)
WaitPolls ==
  /\ g.pc \in WaitPcs /\ ~info.ready
  /\ linkUp
  /\ NewFrame
  /\ geared' = FALSE
  /\ LET q == SlotReadyQueue(Queue)
     IN  pending' = q.pending /\ attempts' = q.attempts
  /\ UNCHANGED <<claims, streak, restoring, manager, g, linkUp, wire, dev,
                 devBusy, empty, endedBehind, calls, faults>>

(* The waiting restore goes on as soon as the frame says 'ready'. *)
RestoreResumes(s) ==
  /\ s \in restoring /\ info.ready
  /\ Len(wire) < MaxWire
  /\ restoring' = restoring \ {s}
  /\ Send(Start2(s, "restore"))
  /\ UNCHANGED <<claims, pending, attempts, streak, manager, info, g, linkUp,
                 device, calls, faults>>

RestoreDefers(s) ==
  /\ s \in restoring /\ StillBusy
  /\ restoring' = restoring \ {s}
  /\ pending' = s
  /\ UNCHANGED <<claims, attempts, streak, manager, info, g, linkUp, wire,
                 device, calls, faults>>

-----------------------------------------------------------------------------
(* The serial queue executes the head and runs its callback. *)

(* The callback of _enable_feed_assist *)
EnableAnswered(s, ok) ==
  /\ ackPending' = FALSE
  /\ IF ok \/ ShownAssisting(s)
       THEN /\ feedIdx' = IF ok THEN feedIdx ELSE s
            /\ persisted' = s
            /\ UNCHANGED topo
       ELSE /\ ForgetFeed
            /\ persisted' = None
  /\ UNCHANGED <<rollIdx, attempts, g>>

(* _on_feed_assist_restore_response *)
RestoreAnswered(s, ok) ==
  /\ IF ok THEN feedIdx' = s /\ topo' = "same" /\ attempts' = 0
           ELSE UNCHANGED <<feedIdx, topo, attempts>>
  /\ UNCHANGED <<rollIdx, ackPending, persisted, g>>

(* The callback of the verified starter's present attempt *)
AttemptAnswered(ok) ==
  /\ g' = [g EXCEPT !.got = IF ok THEN "ok" ELSE "no"]
  /\ UNCHANGED <<claims, attempts>>

Answer(r, ok) ==
  CASE r.cb = "enable"  -> EnableAnswered(r.slot, ok)
    [] r.cb = "restore" -> RestoreAnswered(r.slot, ok)
    [] r.cb = "await"   -> AttemptAnswered(ok)
    [] r.cb = "none"    -> UNCHANGED <<claims, attempts, g>>

(* What the device admits: an assist only on a slot with a spool that is   *)
(* ready, and an ACE2 refuses a second START of a running assist.          *)
Admits(r) ==
  \/ r.kind \in {"stop", "move"}
  \/ /\ r.slot \notin empty
     /\ \/ dev[r.slot] = "idle"
        \/ r.kind = "start2" /\ dev[r.slot] = "assist" /\ ~AssistIsBusy

(* An ACE1 has one gear for its four slots. *)
Executed(r) ==
  CASE r.kind = "start2" ->
         IF AssistIsBusy
           THEN [dev EXCEPT ![r.slot] = "assist"]
           ELSE [s \in Slots |-> IF s = r.slot THEN "assist" ELSE "idle"]
    [] r.kind = "start3" -> [dev EXCEPT ![r.slot] = "rollback"]
    [] r.kind = "stop"   -> [dev EXCEPT ![r.slot] = "idle"]
    [] r.kind = "move"   -> dev

Execute(r) ==
  /\ dev' = Executed(r)
  /\ endedBehind' =
       IF r.kind \in {"start2", "start3"}
         THEN (endedBehind \cup {a \in Assists : /\ dev[a[2]] = a[1]
                                                 /\ Executed(r)[a[2]] # a[1]})
              \ {<<Executed(r)[r.slot], r.slot>>}
         ELSE endedBehind

(* executed and answered; refused; executed with the answer lost; lost *)
Serve(r) ==
  \/ Admits(r) /\ Execute(r) /\ Answer(r, TRUE) /\ UNCHANGED faults
  \/ ~Admits(r) /\ Answer(r, FALSE) /\ UNCHANGED <<dev, endedBehind, faults>>
  \/ /\ faults < MaxFaults /\ faults' = faults + 1
     /\ Answer(r, FALSE)
     /\ \/ Admits(r) /\ Execute(r)
        \/ UNCHANGED <<dev, endedBehind>>

Transact ==
  /\ linkUp /\ wire # <<>>
  /\ wire' = Tail(wire)
  /\ Serve(Head(wire))
  /\ UNCHANGED <<pending, streak, restoring, manager, info, linkUp, devBusy,
                 empty, geared, calls>>

-----------------------------------------------------------------------------
(* Connection lifecycle and environment *)

Fault ==
  /\ faults < MaxFaults
  /\ faults' = faults + 1

(* serial_manager.disconnect() clears the queues and leaves both claims. *)
LinkDrops ==
  /\ Fault
  /\ linkUp
  /\ linkUp' = FALSE
  /\ wire' = <<>>
  /\ UNCHANGED <<claims, restore, manager, info, g, device, calls>>

(* The unit loses power: its activities end and the link goes with it. *)
PowerCycles ==
  /\ Fault
  /\ linkUp' = FALSE
  /\ wire' = <<>>
  /\ dev' = [s \in Slots |-> "idle"]
  /\ devBusy' = FALSE
  /\ endedBehind' = Assists
  /\ UNCHANGED <<claims, restore, manager, info, g, empty, geared, calls>>

(* Klippy restarts: memory goes, the state store and the device stay. *)
KlippyRestarts ==
  /\ Fault
  /\ feedIdx' = None /\ rollIdx' = None /\ ackPending' = FALSE
  /\ topo' = "unset"
  /\ pending' = None /\ attempts' = 0 /\ streak' = 0 /\ restoring' = {}
  /\ loading' = None /\ toolchange' = FALSE
  /\ info' = [ready |-> TRUE, assisting |-> {}, empty |-> Slots]
  /\ g' = Idle
  /\ linkUp' = FALSE /\ wire' = <<>>
  /\ UNCHANGED <<persisted, owner, device, calls>>

(* _on_ace_connect: the slot to restore is the claim, or after a restart   *)
(* the persisted one; a slot that is not the current tool's is dropped.    *)
(* The unit may come back at another position of the chain.                *)
Connect ==
  LET s == IF feedIdx # None THEN feedIdx ELSE persisted
  IN
  /\ ~linkUp
  /\ linkUp' = TRUE
  /\ \/ /\ s = None
        /\ topo' \in {topo, IF topo = "same" THEN "other" ELSE topo}
        /\ UNCHANGED <<feedIdx, persisted, pending, attempts>>
     \/ /\ s # None /\ ~BelongsToTool(s)
        /\ ForgetFeed
        /\ persisted' = None
        /\ UNCHANGED <<pending, attempts>>
     \/ /\ s # None /\ BelongsToTool(s)
        /\ topo' \in {topo, IF topo = "same" THEN "other" ELSE topo}
        /\ pending' = s
        /\ attempts' = 0
        /\ UNCHANGED <<feedIdx, persisted>>
  /\ UNCHANGED <<rollIdx, ackPending, streak, restoring, manager, info, g, wire,
                 device, calls, faults>>

(* The device works for itself: an RFID read, drying. *)
DeviceStartsWork ==
  /\ Fault
  /\ ~devBusy
  /\ devBusy' = TRUE
  /\ UNCHANGED <<claims, restore, manager, info, g, linkUp, wire, dev, empty,
                 geared, endedBehind, calls>>

DeviceEndsWork ==
  /\ devBusy
  /\ devBusy' = FALSE
  /\ UNCHANGED <<claims, restore, manager, info, g, linkUp, wire, dev, empty,
                 geared, endedBehind, calls, faults>>

(* A spool goes into a slot: the device gears it and may drop the assist   *)
(* that runs on another one.                                               *)
Preload(s) ==
  /\ Fault
  /\ empty' = empty \ {s}
  /\ geared' = TRUE
  /\ \/ UNCHANGED <<dev, endedBehind>>
     \/ /\ dev' = [t \in Slots |-> IF dev[t] = "assist" THEN "idle" ELSE dev[t]]
        /\ endedBehind' = endedBehind \cup
             {a \in Assists : a[1] = "assist" /\ dev[a[2]] = "assist"}
  /\ UNCHANGED <<claims, restore, manager, info, g, linkUp, wire, devBusy, calls>>

(* A spool runs out; the device drops what it was doing on that slot. *)
SpoolRunsOut(s) ==
  /\ Fault
  /\ s \notin empty
  /\ empty' = empty \cup {s}
  /\ dev' = [dev EXCEPT ![s] = "idle"]
  /\ endedBehind' = endedBehind \cup (Modes \X {s})
  /\ UNCHANGED <<claims, restore, manager, info, g, linkUp, wire, devBusy,
                 geared, calls>>

-----------------------------------------------------------------------------
Command ==
  \/ \E s \in Slots : \/ CallEnable(s) \/ CallDisable(s) \/ CallMove(s)
                       \/ CallStartRollback(s) \/ CallStopRollback(s)
                       \/ CallStopFeed(s)
  \/ CallReset

(* A step of the command that runs *)
ThreadStep ==
  \/ EnableStopsRollback \/ EnableSatisfied \/ EnableClaims \/ EnableSends
  \/ DwellEnds \/ DisableSends \/ DisableEnds
  \/ EnsureFeedOff \/ EnsureRollbackOff \/ MoveGoes
  \/ StarterGoes \/ StarterAccepted \/ StarterRetries \/ RecoverReady

ManagerStep ==
  \/ ToolchangeBegins \/ ToolchangeEnds \/ LoadEnds \/ LoadFails
  \/ \E s \in Slots : LoadBegins(s)

Environment ==
  \/ LinkDrops \/ PowerCycles \/ KlippyRestarts
  \/ DeviceStartsWork
  \/ \E s \in Slots : Preload(s) \/ SpoolRunsOut(s)

Next ==
  \/ Command \/ ThreadStep \/ WaitTimesOut \/ ManagerStep
  \/ Heartbeat \/ WaitPolls
  \/ \E s \in Slots : RestoreResumes(s) \/ RestoreDefers(s)
  \/ Transact \/ Connect \/ DeviceEndsWork \/ Environment

Spec == Init /\ [][Next]_vars

(* The driver's own timers keep running, the queue drains, a dropped link  *)
(* is reconnected by the supervision, an RFID read ends, and a tool change *)
(* ends.  Nothing makes anyone call a command, or a fault happen.          *)
Fairness ==
  /\ WF_vars(ThreadStep \/ WaitTimesOut)
  /\ WF_vars(Heartbeat)
  /\ \A s \in Slots : WF_vars(RestoreResumes(s) \/ RestoreDefers(s))
  /\ WF_vars(Transact)
  /\ WF_vars(Connect)
  /\ WF_vars(DeviceEndsWork)
  /\ WF_vars(ToolchangeEnds \/ LoadEnds \/ LoadFails)

FairSpec == Spec /\ Fairness

-----------------------------------------------------------------------------
(* Properties *)

(* get_status()["feed_assist_slot"] *)
PublishedFeed == IF ackPending \/ ~linkUp THEN None ELSE feedIdx

Rolls(s) == dev[s] = "rollback" \/ <<"rollback", s>> \in endedBehind
Feeds(s) == dev[s] = "assist" \/ <<"assist", s>> \in endedBehind

(* The rollback claim is taken only when the device has accepted mode 3,   *)
(* so whoever reads it (the macro layer gates its retracts on it) finds    *)
(* the lane reeling back, unless the activity ended behind the driver's    *)
(* back.  Late answers, abandoned attempts, lost frames, retries, restores *)
(* and restarts must not forge it (_start_rollback_assist_verified,        *)
(* _stop_rollback_assist, _clear_assist_claims_for_slot).                  *)
RollbackClaimEarned == \A s \in Slots : rollIdx = s => Rolls(s)

(* The same, strengthened until every step preserves it.  While a rollback *)
(* claim stands, no STOP of its lane is queued behind what earned it, and  *)
(* an attempt a starter still listens to is the last one queued, with no   *)
(* STOP after it.                                                          *)
Queued(r) == \E i \in DOMAIN wire : wire[i] = r
IsStop(r, s) == r.kind = "stop" /\ r.slot = s

NoStopQueued(s) == \A i \in DOMAIN wire : ~IsStop(wire[i], s)

NoStopAfterStart(s) ==
  \A i, j \in DOMAIN wire :
    i < j /\ wire[i].kind = "start3" /\ wire[i].slot = s => ~IsStop(wire[j], s)

ClaimSafe(s) ==
  /\ NoStopAfterStart(s)
  /\ \/ <<"rollback", s>> \in endedBehind
     \/ dev[s] = "rollback" /\ NoStopQueued(s)

(* The thread has a slot, and the slot it is disabling has no claim. *)
ThreadSafe ==
  /\ g.pc # "idle" => g.slot \in Slots
  /\ g.pc = "offWait" => g.off \in Slots /\ g.off # rollIdx

LastWord(i) ==
  /\ wire[i].kind = "start3" /\ wire[i].slot = g.slot
  /\ \A j \in DOMAIN wire :
       j > i => wire[j].kind # "stop" /\ wire[j].cb # "await"

AttemptSafe ==
  /\ g.got # "none" => g.pc = "await"
  /\ g.got = "ok" =>
       Rolls(g.slot) /\ \A i \in DOMAIN wire : wire[i].kind # "stop"
  /\ \A i \in DOMAIN wire :
       wire[i].cb = "await" =>
         g.pc = "await" /\ g.got = "none" /\ LastWord(i)

RollbackInv ==
  /\ ThreadSafe
  /\ \A s \in Slots : rollIdx = s => ClaimSafe(s)
  /\ AttemptSafe

(* A feed claim that nothing is about to settle names a lane the device    *)
(* assists: a stale one makes the seek macros push against a clamped lane  *)
(* (_clear_assist_claims_for_slot, _enable_feed_assist).                   *)
FeedClaimBacked ==
  \A s \in Slots :
    feedIdx = s => \/ Feeds(s)
                   \/ g.op = "enable" /\ g.slot = s
                   \/ Queued(Start2(s, "enable"))

(* The macros never read a claim whose START is sent and not answered: what*)
(* get_status publishes is an assist the device runs, or the one an enable *)
(* is waiting to send.                                                     *)
PublishedClaimBacked ==
  \A s \in Slots :
    PublishedFeed = s => Feeds(s) \/ (g.op = "enable" /\ g.slot = s)

(* Whatever the order of the commands, the unit never runs two assists     *)
(* (the single-assist invariant of _on_ace_connect, within one unit).      *)
OneAssist ==
  \A s, t \in Slots : dev[s] # "idle" /\ dev[t] # "idle" => s = t

(* "no call path can send motion into a device blocked by assist"          *)
(* (_ensure_assists_off_for_motion): a motion request that reaches the     *)
(* device finds every assist stopped.                                      *)
MotionMeetsFreeDevice ==
  [][\A s \in Slots :
       linkUp /\ wire # <<>> /\ Head(wire) = Move(s) /\ wire' = Tail(wire)
         => \A t \in Slots : dev[t] = "idle"]_vars

(* "Drop EVERY assist claim on slot, because ONE frame stops them all"     *)
(* (_clear_assist_claims_for_slot): no claim on a lane survives the        *)
(* hand-over of a STOP for it.                                             *)
Stops(w, s) == {i \in DOMAIN w : w[i] = Stop(s)}

StopDropsClaims ==
  [][\A s \in Slots :
       Cardinality(Stops(wire', s)) > Cardinality(Stops(wire, s))
         => feedIdx' # s /\ rollIdx' # s]_vars

(* "a restore firing mid-toolchange re-arms an assist the toolchange       *)
(* deliberately disabled" (_maybe_restore_pending_feed_assist): none does. *)
RestoreYieldsToToolchange ==
  [][toolchange => \A s \in Slots : wire' # Append(wire, Start2(s, "restore"))]_vars

(* An assist the device dropped is detected and restored, or its claim is  *)
(* given up (_reconcile_feed_assist_state, the slot-ready queue).          *)
LostAssistRepaired ==
  \A s \in Slots :
    feedIdx = s /\ dev[s] = "idle" ~>
      feedIdx # s \/ dev[s] = "assist" \/ s \in empty

(* A queued restore comes to an end: sent, dropped or given up after its   *)
(* attempts, however long the unit stays busy.                             *)
RestoreSettles ==
  pending # None ~> pending = None /\ restoring = {}
=============================================================================
