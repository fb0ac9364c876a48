--------------------------- MODULE AceNominalProof ---------------------------
(***************************************************************************)
(* Proofs about AceAssist in normal operation: an ACE2 on a link that      *)
(* neither drops nor loses an answer, asked to enable, disable, reel back  *)
(* and move, any number of times, in any order, on any number of lanes.    *)
(* The claims are backed by the device, it never runs two assists, and no  *)
(* motion meets one.  And, whatever the faults: a stop drops the claims.   *)
(*                                                                         *)
(* The argument is about the order of the queue: motion comes first, one   *)
(* START behind it, and a STOP last, with the thread waiting behind it.    *)
(***************************************************************************)
EXTENDS AceAssistProof, FiniteSetTheorems

(* The operation the runs nominal_ace2 check on two lanes and six calls.   *)
Nominal ==
  /\ AssistIsBusy /\ Prompt /\ MaxFaults = 0
  /\ Calls \subseteq {"enable", "disable", "startRoll", "stopRoll", "move"}

AllIdle == \A s \in Slots : dev[s] = "idle"
StopQueued(s) == \E i \in DOMAIN wire : IsStop(wire[i], s)

(* Loads, restores and the device's own work play no part.  A frame that   *)
(* contradicted the claim was a ready one, and no other has come since.    *)
Steady ==
  /\ linkUp /\ ~toolchange /\ loading = None /\ faults = 0
  /\ pending = None /\ restoring = {}
  /\ ~devBusy /\ empty = {} /\ ~geared
  /\ streak = 1 => info.ready

(* What the thread has made sure of where it rests. *)
ThreadOK ==
  /\ g.pc \notin {"offWait", "failWait"}
  /\ g.pc \in {"enable", "enableWait"} => g.op = "enable"
  /\ g.op = "enable" => g.pc \in {"enable", "enableWait", "dwell"}
  /\ g.op = "enable" => g.slot = owner
  /\ g.pc \in {"ensure", "ensureRoll", "go"} => g.op \in {"move", "startRoll"}
  /\ g.pc = "dwell" => g.op \in {"enable", "stopRoll", "move", "startRoll"}
  /\ g.pc = "offTail" => g.op \in {"disable", "move", "startRoll"}
  /\ g.pc \in {"enable", "offTail", "ensureRoll", "go", "await"} => feedIdx = None
  /\ g.pc = "dwell" /\ g.op # "stopRoll" => feedIdx = None /\ rollIdx = None
  /\ g.pc = "go" => rollIdx = None \/ (g.op = "startRoll" /\ rollIdx = g.slot)
  /\ g.pc = "await" => g.op = "startRoll" /\ rollIdx \in {None, g.slot}

(* The device before a START it has not answered. *)
ClearOK ==
  /\ g.pc = "enableWait" =>
       /\ feedIdx = owner /\ AllIdle
       /\ \A i \in DOMAIN wire : wire[i].kind = "move"
  /\ g.pc = "await" =>
       \A s \in Slots : dev[s] = "idle" \/ (s = g.slot /\ dev[s] = "rollback")

(* An assist that runs is claimed, or its stop is queued. *)
DeviceOK ==
  /\ \A s \in Slots : dev[s] = "assist" =>
       s = owner /\ (feedIdx = s \/ StopQueued(s))
  /\ \A s \in Slots : dev[s] = "rollback" =>
       \/ rollIdx = s \/ StopQueued(s)
       \/ g.pc = "await" /\ g.got = "ok" /\ g.slot = s
  /\ OneAssist

Ordered ==
  \A i, j \in DOMAIN wire : i < j =>
    \/ wire[i].kind = "move"
    \/ wire[i].kind = "start2" /\ wire[j].kind = "stop"

(* What request r of the queue tells of the driver and the device. *)
Warranted(r) ==
  /\ r.kind = "move" => AllIdle /\ r.cb = "none"
  /\ r.kind = "start2" =>
       /\ r = Start2(owner, "enable") /\ AllIdle
       /\ (feedIdx = owner /\ ackPending) \/ StopQueued(owner)
  /\ r.kind = "start3" =>
       r = Start3(g.slot) /\ g.pc = "await" /\ g.got = "none"
  /\ r.kind = "stop" =>
       /\ g.pc \in {"offTail", "dwell"} /\ r.cb = "none"
       /\ feedIdx # r.slot /\ rollIdx # r.slot

WireOK == Ordered /\ \A i \in DOMAIN wire : Warranted(wire[i])

ClaimOK ==
  /\ feedIdx \in {None, owner}
  /\ feedIdx # None => rollIdx = None
  /\ feedIdx # None =>
       \/ dev[feedIdx] = "assist"
       \/ g.pc = "enableWait"
       \/ Queued(Start2(feedIdx, "enable"))

NominalInv == Steady /\ ThreadOK /\ ClearOK /\ DeviceOK /\ WireOK /\ ClaimOK

-----------------------------------------------------------------------------
LEMMA NominalInit == Nominal /\ Init => NominalInv
<1> SUFFICES ASSUME Nominal, Init PROVE NominalInv
  OBVIOUS
<1>1. DOMAIN wire = {}
  BY EmptySeq DEF Init
<1>2. faults = 0 /\ streak = 0
  BY DEF Init
<1>3. Steady
  BY <1>2 DEF Steady, Init
<1>4. ThreadOK /\ ClearOK
  BY DEF ThreadOK, ClearOK, Init, Idle
<1>5. DeviceOK /\ WireOK /\ ClaimOK
  BY <1>1 DEF DeviceOK, WireOK, Ordered, ClaimOK, OneAssist, Init
<1>6. QED
  BY <1>3, <1>4, <1>5 DEF NominalInv

(* What the queue can hold, by where the thread rests. *)
LEMMA QueueByPlace ==
  ASSUME Inv, NominalInv
  PROVE  /\ wire \in Seq(Request) /\ Len(wire) \in Nat
         /\ DOMAIN wire = 1 .. Len(wire)
         /\ \A i \in DOMAIN wire : wire[i] \in Request
         /\ g.pc \notin {"offTail", "dwell"} =>
              \A i \in DOMAIN wire : wire[i].kind # "stop"
         /\ g.pc # "await" => \A i \in DOMAIN wire : wire[i].kind # "start3"
         /\ g.pc \notin {"offTail", "dwell"} =>
              \A i \in DOMAIN wire : wire[i].kind = "start2" =>
                 feedIdx = owner /\ owner \in Slots
<1>1. /\ wire \in Seq(Request) /\ Len(wire) \in Nat
      /\ DOMAIN wire = 1 .. Len(wire)
      /\ \A i \in DOMAIN wire : wire[i] \in Request
  BY QueueIndices
<1>2. g.pc \notin {"offTail", "dwell"} =>
        \A i \in DOMAIN wire : wire[i].kind # "stop"
  BY DEF NominalInv, WireOK, Warranted
<1>3. g.pc # "await" => \A i \in DOMAIN wire : wire[i].kind # "start3"
  BY DEF NominalInv, WireOK, Warranted
<1>4. g.pc \notin {"offTail", "dwell"} => ~StopQueued(owner)
  BY <1>2 DEF StopQueued, IsStop
<1>5. g.pc \notin {"offTail", "dwell"} =>
        \A i \in DOMAIN wire : wire[i].kind = "start2" =>
           feedIdx = owner /\ owner \in Slots
  <2>1. \A i \in DOMAIN wire : wire[i].slot \in Slots
    BY <1>1 DEF Request
  <2>2. QED
    BY <1>4, <2>1 DEF NominalInv, WireOK, Warranted, Start2
<1>6. QED
  BY <1>1, <1>2, <1>3, <1>5

(* With no claim and no stop under way the device is idle and the queue    *)
(* holds motion only.                                                      *)
LEMMA UnclaimedIsIdle ==
  ASSUME Inv, NominalInv, feedIdx = None, rollIdx = None,
         g.pc \notin {"offTail", "dwell", "await"}
  PROVE  /\ AllIdle
         /\ \A i \in DOMAIN wire : wire[i].kind = "move"
<1>1. feedIdx = owner => owner \notin Slots
  BY NoneIsNoSlot
<1>2. \A i \in DOMAIN wire : wire[i].kind \in {"start2", "start3", "stop", "move"}
  BY QueueByPlace DEF Request
<1>3. \A i \in DOMAIN wire : wire[i].kind = "move"
  BY <1>1, <1>2, QueueByPlace
<1>4. \A s \in Slots : ~StopQueued(s)
  BY <1>3 DEF StopQueued, IsStop
<1>5. \A s \in Slots : dev[s] \in {"idle", "assist", "rollback"}
  BY DEF Inv, TypeOK
<1>6. AllIdle
  BY <1>4, <1>5, NoneIsNoSlot DEF NominalInv, DeviceOK, AllIdle
<1>7. QED
  BY <1>3, <1>6

(* The queue joined by a request: what it holds, and that it stays ordered *)
(* when the request may stand behind those before it.                      *)
LEMMA Joined ==
  ASSUME wire \in Seq(Request), NEW r \in Request, wire' = Append(wire, r),
         Ordered,
         \A i \in DOMAIN wire :
           \/ wire[i].kind = "move"
           \/ wire[i].kind = "start2" /\ r.kind = "stop"
  PROVE  /\ Ordered'
         /\ \A i \in DOMAIN wire' : wire'[i] = r \/ \E j \in DOMAIN wire : wire'[i] = wire[j]
         /\ \A j \in DOMAIN wire : j \in DOMAIN wire' /\ wire'[j] = wire[j]
         /\ \E i \in DOMAIN wire' : wire'[i] = r
<1>1. /\ DOMAIN wire' = 1 .. Len(wire) + 1 /\ DOMAIN wire = 1 .. Len(wire)
      /\ Len(wire) \in Nat
      /\ wire'[Len(wire) + 1] = r
      /\ \A i \in 1 .. Len(wire) : wire'[i] = wire[i]
  BY AppendRequest
<1>2. Ordered'
  <2>1. SUFFICES ASSUME NEW i \in DOMAIN wire', NEW j \in DOMAIN wire', i < j
                 PROVE  \/ wire'[i].kind = "move"
                        \/ wire'[i].kind = "start2" /\ wire'[j].kind = "stop"
    BY DEF Ordered
  <2>2. i \in DOMAIN wire /\ wire'[i] = wire[i]
    BY <1>1, <2>1
  <2>3. CASE j \in DOMAIN wire
    BY <1>1, <2>1, <2>2, <2>3 DEF Ordered
  <2>4. CASE j \notin DOMAIN wire
    <3>1. wire'[j] = r
      BY <1>1, <2>4
    <3>2. QED
      BY <2>2, <3>1
  <2>5. QED
    BY <2>3, <2>4
<1>3. \A i \in DOMAIN wire' : i = Len(wire) + 1 \/ i \in DOMAIN wire
  BY <1>1
<1>4. QED
  BY <1>1, <1>2, <1>3

(* What leaves the rest of the system steady. *)
LEMMA StaysSteady ==
  ASSUME NominalInv,
         UNCHANGED <<restore, manager, info, linkUp, devBusy, empty, geared, faults>>
  PROVE  Steady'
  BY DEF NominalInv, Steady, restore, manager

-----------------------------------------------------------------------------
(* The commands and the thread *)

Unmoved == UNCHANGED <<claims, restore, manager, info, linkUp, wire, device, faults>>

(* Steps that only move the thread, out of a place where nothing waits. *)
LEMMA Moves ==
  ASSUME Inv, NominalInv, Unmoved, ThreadOK',
         \/ g.pc \notin {"await", "offTail", "dwell"}
         \/ \A i \in DOMAIN wire : wire[i].kind \notin {"stop", "start3"},
         g.pc = "await" => g.got # "ok",
         g'.pc \notin {"await", "enableWait"},
         feedIdx # None => g.pc # "enableWait"
  PROVE  NominalInv'
<1>1. UNCHANGED <<feedIdx, rollIdx, ackPending, wire, dev, owner>>
  BY DEF Unmoved, claims, manager, device
<1>2. Steady'
  BY StaysSteady DEF Unmoved, device
<1>3. \A i \in DOMAIN wire : wire[i].kind # "stop" /\ wire[i].kind # "start3"
  BY QueueByPlace, EmptySeq
<1>4. ClearOK'
  BY DEF ClearOK
<1>5. DeviceOK'
  BY <1>1 DEF NominalInv, DeviceOK, OneAssist, StopQueued
<1>6. WireOK'
  BY <1>1, <1>3 DEF NominalInv, WireOK, Ordered, Warranted, StopQueued, AllIdle
<1>7. ClaimOK'
  BY <1>1 DEF NominalInv, ClaimOK, Queued
<1>8. QED
  BY <1>2, <1>4, <1>5, <1>6, <1>7 DEF NominalInv

(* Where Begin, Goto and Return leave the thread. *)
LEMMA Places ==
  ASSUME Inv
  PROVE  /\ \A pc : Goto(pc) => /\ g'.pc = pc /\ g'.op = g.op /\ g'.slot = g.slot
                               /\ g'.off = g.off /\ g'.got = g.got
         /\ \A pc, op, s : Begin(pc, op, s) =>
              g'.pc = pc /\ g'.op = op /\ g'.slot = s /\ g'.got = "none"
         /\ Return => g'.pc = "idle" /\ g'.op = "none" /\ g'.got = "none"
         /\ \A n : Attempt(n) => /\ g'.pc = "await" /\ g'.op = g.op
                                /\ g'.slot = g.slot /\ g'.got = "none"
         /\ g.pc # "idle" => g.slot \in Slots
         /\ g.got # "none" => g.pc = "await"
<1>1. g \in Thread
  BY DEF Inv, TypeOK
<1>2. ASSUME NEW pc, Goto(pc)
      PROVE  /\ g'.pc = pc /\ g'.op = g.op /\ g'.slot = g.slot
             /\ g'.off = g.off /\ g'.got = g.got
  BY <1>1, <1>2 DEF Goto, Thread
<1>3. ASSUME NEW pc, NEW op, NEW s, Begin(pc, op, s)
      PROVE  g'.pc = pc /\ g'.op = op /\ g'.slot = s /\ g'.got = "none"
  BY <1>3 DEF Begin, Idle
<1>4. Return => g'.pc = "idle" /\ g'.op = "none" /\ g'.got = "none"
  BY DEF Return, Idle
<1>5. ASSUME NEW n, Attempt(n)
      PROVE  /\ g'.pc = "await" /\ g'.op = g.op
             /\ g'.slot = g.slot /\ g'.got = "none"
  BY <1>1, <1>5 DEF Attempt, Thread
<1>6. /\ g.pc # "idle" => g.slot \in Slots
      /\ g.got # "none" => g.pc = "await"
  BY DEF Inv, RollbackInv, ThreadSafe, AttemptSafe
<1>7. QED
  BY <1>2, <1>3, <1>4, <1>5, <1>6

LEMMA ThreadMoves ==
  ASSUME Nominal, Inv, NominalInv,
         \/ \E s \in Slots : CallEnable(s) \/ CallMove(s) \/ CallStartRollback(s)
         \/ EnableSatisfied \/ DwellEnds \/ DisableEnds
         \/ EnsureFeedOff /\ feedIdx = None
         \/ EnsureRollbackOff /\ (rollIdx = None \/ (g.op = "startRoll" /\ rollIdx = g.slot))
         \/ MoveGoes /\ UNCHANGED wire
         \/ StarterGoes /\ UNCHANGED wire
  PROVE  NominalInv'
<1>i. /\ g.op \in Ops /\ g.slot \in SlotOrNone /\ g.pc \in Pcs
      /\ feedIdx \in SlotOrNone /\ rollIdx \in SlotOrNone /\ owner \in SlotOrNone
  BY DEF Inv, TypeOK, Thread, Ops
<1>n. linkUp /\ loading = None
  BY DEF NominalInv, Steady
<1>t. ThreadOK /\ feedIdx \in {None, owner}
  BY DEF NominalInv, ClaimOK
<1>1. ASSUME NEW s \in Slots, CallEnable(s) PROVE NominalInv'
  <2>1. s = owner /\ feedIdx = None
    BY <1>1, <1>n, <1>t DEF CallEnable, Enablable, Calling, Nominal
  <2>2. g.pc = "idle" /\ g'.pc = "enable" /\ g'.op = "enable" /\ g'.slot = s
    BY <1>1, Places DEF CallEnable, Calling
  <2>3. Unmoved
    BY <1>1 DEF CallEnable, Unmoved
  <2>4. ThreadOK'
    BY <2>1, <2>2, <2>3 DEF ThreadOK, Unmoved, claims, manager
  <2>5. QED
    BY <2>2, <2>3, <2>4, Moves
<1>2. ASSUME NEW s \in Slots, CallMove(s) \/ CallStartRollback(s) PROVE NominalInv'
  <2>1. /\ g.pc = "idle" /\ g'.pc = "ensure" /\ g'.op \in {"move", "startRoll"}
        /\ Unmoved
    BY <1>2, Places DEF CallMove, CallStartRollback, Calling, Unmoved
  <2>2. ThreadOK'
    BY <2>1 DEF ThreadOK
  <2>3. QED
    BY <2>1, <2>2, Moves
<1>3. ~EnableSatisfied
  BY <1>t, Places, NoneIsNoSlot DEF EnableSatisfied, AlreadyAssisting, ThreadOK
<1>4. CASE DwellEnds
  <2>1. /\ g.pc = "dwell" /\ wire = <<>> /\ Unmoved
        /\ g'.got = g.got \/ g'.got = "none"
    BY <1>4, <1>n, Places DEF DwellEnds, Settled, Nominal, Unmoved
  <2>2. \/ g.op = "enable" /\ g'.pc = "enable" /\ g'.op = g.op /\ g'.slot = g.slot
        \/ g.op = "stopRoll" /\ g'.pc = "idle" /\ g'.op = "none"
        \/ /\ g.op \notin {"enable", "stopRoll"}
           /\ g'.pc = "go" /\ g'.op = g.op /\ g'.slot = g.slot
    BY <1>4, Places DEF DwellEnds
  <2>3. ThreadOK'
    BY <1>t, <2>1, <2>2 DEF ThreadOK, Unmoved, claims, manager
  <2>4. QED
    BY <2>1, <2>2, <2>3, EmptySeq, Moves
<1>5. CASE DisableEnds
  <2>1. g.pc = "offTail" /\ wire = <<>> /\ Unmoved
    BY <1>5, <1>n DEF DisableEnds, Settled, Nominal, Unmoved
  <2>2. \/ g.op = "disable" /\ g'.pc = "idle" /\ g'.op = "none"
        \/ g.op # "disable" /\ g'.pc = "ensureRoll" /\ g'.op = g.op
    BY <1>5, Places DEF DisableEnds, AfterOff
  <2>3. ThreadOK'
    BY <1>t, <2>1, <2>2 DEF ThreadOK, Unmoved, claims, manager
  <2>4. QED
    BY <2>1, <2>2, <2>3, EmptySeq, Moves
<1>6. CASE EnsureFeedOff /\ feedIdx = None
  <2>1. /\ g.pc = "ensure" /\ Unmoved
        /\ g'.pc = "ensureRoll" /\ g'.op = g.op
    BY <1>6, Places DEF EnsureFeedOff, Unmoved
  <2>2. ThreadOK'
    BY <1>t, <1>6, <2>1 DEF ThreadOK, Unmoved, claims, manager
  <2>3. QED
    BY <2>1, <2>2, Moves
<1>7. CASE /\ EnsureRollbackOff
           /\ rollIdx = None \/ (g.op = "startRoll" /\ rollIdx = g.slot)
  <2>1. /\ g.pc = "ensureRoll" /\ Unmoved
        /\ g'.pc = "go" /\ g'.op = g.op /\ g'.slot = g.slot
    BY <1>7, Places DEF EnsureRollbackOff, Unmoved
  <2>2. ThreadOK'
    BY <1>t, <1>7, <2>1 DEF ThreadOK, Unmoved, claims, manager
  <2>3. QED
    BY <2>1, <2>2, Moves
<1>8. CASE (MoveGoes \/ StarterGoes) /\ UNCHANGED wire
  <2>1. g.pc = "go" /\ g'.pc = "idle" /\ g'.op = "none" /\ Unmoved
    <3>1. CASE MoveGoes
      <4>1. g.op = "move"
        BY <1>t, <3>1 DEF MoveGoes, ThreadOK
      <4>2. QED
        BY <1>8, <3>1, <4>1, Places DEF MoveGoes, Unmoved, manager
    <3>2. CASE StarterGoes
      <4>1. g.pc = "go" /\ g.slot \in Slots
        BY <3>2, Places DEF StarterGoes
      <4>2. ~(wire' = Append(wire, Start3(g.slot)))
        <5>1. Len(Append(wire, Start3(g.slot))) = Len(wire) + 1 /\ Len(wire) \in Nat
          BY <4>1, QueueByPlace, Requests
        <5>2. QED
          BY <1>8, <5>1
      <4>3. QED
        BY <1>8, <3>2, <4>1, <4>2, Places DEF StarterGoes, Send, Unmoved
    <3>3. QED
      BY <1>8, <3>1, <3>2
  <2>2. ThreadOK'
    BY <2>1 DEF ThreadOK
  <2>3. QED
    BY <2>1, <2>2, Moves
<1>9. QED
  BY <1>1, <1>2, <1>3, <1>4, <1>5, <1>6, <1>7, <1>8

(* A START goes out to an idle device, behind motion, with its claim. *)
LEMMA EnableStep ==
  ASSUME Nominal, Inv, NominalInv, EnableClaims \/ EnableSends
  PROVE  NominalInv'
<1>1. /\ g.slot = owner /\ g.slot \in Slots /\ owner # None
      /\ rollIdx = None /\ rollIdx' = None /\ AllIdle
      /\ feedIdx' = owner /\ \A i \in DOMAIN wire : wire[i].kind = "move"
  <2>1. CASE EnableClaims
    <3>1. g.pc = "enable" /\ feedIdx = None /\ rollIdx = None /\ g.slot = owner
      BY <2>1 DEF EnableClaims, NominalInv, ThreadOK
    <3>2. QED
      BY <2>1, <3>1, UnclaimedIsIdle, Places, NoneIsNoSlot DEF EnableClaims
  <2>2. CASE EnableSends
    <3>1. /\ g.pc = "enableWait" /\ g.slot = owner /\ feedIdx = owner /\ AllIdle
          /\ \A i \in DOMAIN wire : wire[i].kind = "move"
      BY <2>2 DEF EnableSends, NominalInv, ThreadOK, ClearOK
    <3>2. g.slot \in Slots
      BY <3>1, Places
    <3>3. QED
      BY <2>2, <3>1, <3>2, NoneIsNoSlot DEF EnableSends, NominalInv, ClaimOK
  <2>3. QED
    BY <2>1, <2>2
<1>2. /\ UNCHANGED <<restore, manager, info, linkUp, device, faults>>
      /\ dev' = dev /\ owner' = owner
  BY DEF EnableClaims, EnableSends, device, manager
<1>3. Steady'
  BY <1>2, StaysSteady DEF device
<1>4. AllIdle' /\ DeviceOK'
  BY <1>1, <1>2 DEF AllIdle, DeviceOK, OneAssist
<1>5. CASE SendEnable
  <2>1. /\ ackPending' = TRUE /\ wire' = Append(wire, Start2(owner, "enable"))
        /\ g'.pc = "idle" /\ g'.op = "none"
    BY <1>1, <1>5, Places DEF SendEnable, Send
  <2>2. Start2(owner, "enable") \in Request /\ wire \in Seq(Request)
    BY <1>1, Requests, QueueByPlace
  <2>3. /\ Ordered'
        /\ \A i \in DOMAIN wire' :
             \/ wire'[i] = Start2(owner, "enable")
             \/ \E j \in DOMAIN wire : wire'[i] = wire[j]
        /\ \E i \in DOMAIN wire' : wire'[i] = Start2(owner, "enable")
    BY <1>1, <2>1, <2>2, Joined DEF NominalInv, WireOK
  <2>4. \A i \in DOMAIN wire' : Warranted(wire[i])'
    <3>1. SUFFICES ASSUME NEW i \in DOMAIN wire' PROVE Warranted(wire[i])'
      OBVIOUS
    <3>2. CASE wire'[i] = Start2(owner, "enable")
      BY <1>1, <1>2, <1>4, <2>1, <3>2 DEF Warranted, Start2
    <3>3. CASE \E j \in DOMAIN wire : wire'[i] = wire[j]
      <4>1. PICK j \in DOMAIN wire : wire'[i] = wire[j]
        BY <3>3
      <4>2. wire[j].kind = "move" /\ wire[j].cb = "none"
        BY <1>1 DEF NominalInv, WireOK, Warranted
      <4>3. QED
        BY <1>4, <4>1, <4>2 DEF Warranted
    <3>4. QED
      BY <2>3, <3>2, <3>3
  <2>5. WireOK' /\ ClaimOK'
    BY <1>1, <1>2, <2>3, <2>4 DEF WireOK, ClaimOK, Queued
  <2>6. ThreadOK' /\ ClearOK'
    BY <2>1 DEF ThreadOK, ClearOK
  <2>7. QED
    BY <1>3, <1>4, <2>5, <2>6 DEF NominalInv
<1>6. CASE ~SendEnable
  <2>1. /\ g'.pc = "enableWait" /\ g'.op = g.op /\ g'.slot = g.slot
        /\ g.op = "enable" /\ UNCHANGED <<ackPending, wire>>
    BY <1>6, Places DEF EnableClaims, EnableSends, NominalInv, ThreadOK
  <2>2. ThreadOK' /\ ClearOK' /\ ClaimOK'
    BY <1>1, <1>2, <1>4, <2>1 DEF ThreadOK, ClearOK, ClaimOK
  <2>3. WireOK'
    <3>1. \A i \in DOMAIN wire : wire[i].kind = "move" /\ wire[i].cb = "none"
      BY <1>1 DEF NominalInv, WireOK, Warranted
    <3>2. QED
      BY <1>4, <2>1, <3>1 DEF WireOK, Ordered, Warranted
  <2>4. QED
    BY <1>3, <1>4, <2>2, <2>3 DEF NominalInv
<1>7. QED
  BY <1>5, <1>6

(* A STOP goes behind everything, the claims of its lane with it. *)
LEMMA StopSent ==
  ASSUME Inv, NominalInv, NEW s \in Slots,
         ClearClaims(s), wire' = Append(wire, Stop(s)),
         g.pc \notin {"offTail", "dwell", "await", "enableWait"},
         g'.pc \in {"offTail", "dwell"}, ThreadOK',
         UNCHANGED <<restore, manager, info, linkUp, device, faults>>
  PROVE  NominalInv'
<1>1. /\ dev' = dev /\ owner' = owner
      /\ feedIdx' = IF feedIdx = s THEN None ELSE feedIdx
      /\ rollIdx' = IF rollIdx = s THEN None ELSE rollIdx
      /\ feedIdx # s => ackPending' = ackPending
  BY DEF ClearClaims, device, manager
<1>2. Steady'
  BY StaysSteady DEF device
<1>3. /\ Stop(s) \in Request /\ wire \in Seq(Request)
      /\ \A i \in DOMAIN wire : wire[i].kind \in {"start2", "move"}
  <2>1. \A i \in DOMAIN wire : wire[i].kind \in {"start2", "start3", "stop", "move"}
    BY QueueByPlace DEF Request
  <2>2. QED
    BY <2>1, Requests, QueueByPlace
<1>4. /\ Ordered'
      /\ \A i \in DOMAIN wire' :
           wire'[i] = Stop(s) \/ \E j \in DOMAIN wire : wire'[i] = wire[j]
      /\ \A j \in DOMAIN wire : j \in DOMAIN wire' /\ wire'[j] = wire[j]
      /\ \E i \in DOMAIN wire' : wire'[i] = Stop(s)
  <2>1. Stop(s).kind = "stop"
    BY DEF Stop
  <2>2. QED
    BY <1>3, <2>1, Joined DEF NominalInv, WireOK
<1>5. StopQueued(s)' /\ \A t : StopQueued(t) => StopQueued(t)'
  BY <1>4 DEF StopQueued, IsStop, Stop
<1>6. \A i \in DOMAIN wire' : Warranted(wire[i])'
  <2>1. SUFFICES ASSUME NEW i \in DOMAIN wire' PROVE Warranted(wire[i])'
    OBVIOUS
  <2>2. CASE wire'[i] = Stop(s)
    BY <1>1, <2>2, NoneIsNoSlot DEF Warranted, Stop
  <2>3. CASE \E j \in DOMAIN wire : wire'[i] = wire[j]
    <3>1. PICK j \in DOMAIN wire : wire'[i] = wire[j]
      BY <2>3
    <3>2. Warranted(wire[j]) /\ wire[j].kind \in {"start2", "move"}
      BY <1>3 DEF NominalInv, WireOK
    <3>3. AllIdle => AllIdle'
      BY <1>1 DEF AllIdle
    <3>4. /\ wire[j].kind # "start3" /\ wire[j].kind # "stop"
          /\ wire[j].kind = "start2" =>
               /\ wire[j] = Start2(owner', "enable")
               /\ (feedIdx' = owner' /\ ackPending') \/ StopQueued(owner)'
      BY <1>1, <1>5, <3>2 DEF Warranted
    <3>5. QED
      BY <1>1, <3>1, <3>2, <3>3, <3>4 DEF Warranted
  <2>4. QED
    BY <1>4, <2>2, <2>3
<1>7. DeviceOK'
  BY <1>1, <1>5 DEF NominalInv, DeviceOK, OneAssist
<1>8. ClaimOK'
  <2>1. \A r : Queued(r) => Queued(r)'
    BY <1>4 DEF Queued
  <2>2. QED
    BY <1>1, <2>1, NoneIsNoSlot DEF NominalInv, ClaimOK
<1>9. ClearOK'
  BY DEF ClearOK
<1>10. QED
  BY <1>2, <1>4, <1>6, <1>7, <1>8, <1>9 DEF NominalInv, WireOK

(* Every command that sends a STOP clears its lane first, then waits. *)
LEMMA StopSteps ==
  ASSUME Nominal, Inv, NominalInv,
         \/ \E s \in Slots : CallDisable(s) \/ CallStopRollback(s)
         \/ EnableStopsRollback
         \/ EnsureFeedOff /\ feedIdx # None
         \/ /\ EnsureRollbackOff
            /\ rollIdx # None /\ ~(g.op = "startRoll" /\ rollIdx = g.slot)
  PROVE  NominalInv'
<1>i. feedIdx \in SlotOrNone /\ rollIdx \in SlotOrNone /\ g.slot \in SlotOrNone
  BY DEF Inv, TypeOK, Thread
<1>t. ThreadOK /\ feedIdx \in {None, owner} /\ (feedIdx # None => rollIdx = None)
  BY DEF NominalInv, ClaimOK
<1>1. ASSUME NEW s \in Slots, NEW op, NEW arg, StartDisable(s, op, arg)
      PROVE  /\ ClearClaims(s) /\ wire' = Append(wire, Stop(s))
             /\ g'.pc = "offTail" /\ g'.op = op
  BY <1>1 DEF StartDisable, Send, Nominal, Idle
<1>2. ASSUME NEW s \in Slots, CallDisable(s) PROVE NominalInv'
  <2>1. /\ StartDisable(s, "disable", s) /\ g.pc = "idle" /\ feedIdx = s
        /\ UNCHANGED <<restore, manager, info, linkUp, device, faults>>
    BY <1>2 DEF CallDisable, Calling
  <2>2. /\ ClearClaims(s) /\ wire' = Append(wire, Stop(s))
        /\ g'.pc = "offTail" /\ g'.op = "disable"
    BY <1>1, <2>1
  <2>3. feedIdx' = None
    BY <2>1, <2>2 DEF ClearClaims
  <2>4. ThreadOK'
    BY <2>2, <2>3 DEF ThreadOK
  <2>5. QED
    BY <2>1, <2>2, <2>4, StopSent
<1>3. ASSUME NEW s \in Slots, CallStopRollback(s) PROVE NominalInv'
  <2>1. /\ ClearClaims(s) /\ wire' = Append(wire, Stop(s)) /\ g.pc = "idle"
        /\ g'.pc = "dwell" /\ g'.op = "stopRoll"
        /\ UNCHANGED <<restore, manager, info, linkUp, device, faults>>
    BY <1>3, Places DEF CallStopRollback, StopRollback, Send, Calling
  <2>2. ThreadOK'
    BY <2>1 DEF ThreadOK
  <2>3. QED
    BY <2>1, <2>2, StopSent
<1>4. CASE EnableStopsRollback
  <2>1. /\ rollIdx \in Slots /\ g.pc = "enable" /\ g.op = "enable"
        /\ g.slot = owner /\ feedIdx = None
    BY <1>4, <1>i, <1>t DEF EnableStopsRollback, ThreadOK, SlotOrNone
  <2>2. /\ ClearClaims(rollIdx) /\ wire' = Append(wire, Stop(rollIdx))
        /\ g'.pc = "dwell" /\ g'.op = g.op /\ g'.slot = g.slot
        /\ UNCHANGED <<restore, manager, info, linkUp, device, faults>>
    BY <1>4, Places DEF EnableStopsRollback, StopRollback, Send
  <2>3. feedIdx' = None /\ rollIdx' = None /\ owner' = owner
    BY <2>1, <2>2, NoneIsNoSlot DEF ClearClaims, manager
  <2>4. ThreadOK'
    BY <2>1, <2>2, <2>3 DEF ThreadOK
  <2>5. QED
    BY <2>1, <2>2, <2>4, StopSent
<1>5. CASE EnsureFeedOff /\ feedIdx # None
  <2>1. /\ feedIdx \in Slots /\ g.pc = "ensure" /\ g.op \in {"move", "startRoll"}
        /\ StartDisable(feedIdx, g.op, g.slot)
        /\ UNCHANGED <<restore, manager, info, linkUp, device, faults>>
    BY <1>5, <1>i, <1>t DEF EnsureFeedOff, ThreadOK, SlotOrNone
  <2>2. /\ ClearClaims(feedIdx) /\ wire' = Append(wire, Stop(feedIdx))
        /\ g'.pc = "offTail" /\ g'.op = g.op
    BY <1>1, <2>1
  <2>3. feedIdx' = None
    BY <2>2 DEF ClearClaims
  <2>4. ThreadOK'
    BY <2>1, <2>2, <2>3 DEF ThreadOK
  <2>5. QED
    BY <2>1, <2>2, <2>4, StopSent
<1>6. CASE /\ EnsureRollbackOff
           /\ rollIdx # None /\ ~(g.op = "startRoll" /\ rollIdx = g.slot)
  <2>1. /\ rollIdx \in Slots /\ g.pc = "ensureRoll"
        /\ g.op \in {"move", "startRoll"} /\ feedIdx = None
    BY <1>6, <1>i, <1>t DEF EnsureRollbackOff, ThreadOK, SlotOrNone
  <2>2. /\ ClearClaims(rollIdx) /\ wire' = Append(wire, Stop(rollIdx))
        /\ g'.pc = "dwell" /\ g'.op = g.op /\ g'.slot = g.slot
        /\ UNCHANGED <<restore, manager, info, linkUp, device, faults>>
    BY <1>6, Places DEF EnsureRollbackOff, StopRollback, Send
  <2>3. feedIdx' = None /\ rollIdx' = None
    BY <2>1, <2>2, NoneIsNoSlot DEF ClearClaims
  <2>4. ThreadOK'
    BY <2>1, <2>2, <2>3 DEF ThreadOK
  <2>5. QED
    BY <2>1, <2>2, <2>4, StopSent
<1>7. QED
  BY <1>2, <1>3, <1>4, <1>5, <1>6

(* Motion goes to an idle device. *)
LEMMA MoveSent ==
  ASSUME Nominal, Inv, NominalInv, MoveGoes, ~UNCHANGED wire
  PROVE  NominalInv'
<1>1. g.pc = "go" /\ g.op = "move" /\ g.slot \in Slots /\ feedIdx = None /\ rollIdx = None
  BY Places DEF MoveGoes, NominalInv, ThreadOK
<1>2. /\ wire' = Append(wire, Move(g.slot)) /\ g'.pc = "idle" /\ g'.op = "none"
      /\ UNCHANGED <<claims, restore, manager, info, linkUp, device, faults>>
  BY <1>1, Places DEF MoveGoes, Send, manager
<1>3. AllIdle /\ \A i \in DOMAIN wire : wire[i].kind = "move"
  BY <1>1, UnclaimedIsIdle
<1>4. /\ Ordered'
      /\ \A i \in DOMAIN wire' :
           wire'[i] = Move(g.slot) \/ \E j \in DOMAIN wire : wire'[i] = wire[j]
  BY <1>1, <1>2, <1>3, Joined, Requests, QueueByPlace DEF NominalInv, WireOK
<1>5. AllIdle' /\ feedIdx' = feedIdx /\ rollIdx' = rollIdx
  BY <1>2, <1>3 DEF AllIdle, device, claims
<1>6. \A i \in DOMAIN wire' : Warranted(wire[i])'
  <2>1. \A j \in DOMAIN wire : wire[j].kind = "move" /\ wire[j].cb = "none"
    BY <1>3 DEF NominalInv, WireOK, Warranted
  <2>2. Move(g.slot).kind = "move" /\ Move(g.slot).cb = "none"
    BY DEF Move
  <2>3. \A i \in DOMAIN wire' : wire'[i].kind = "move" /\ wire'[i].cb = "none"
    BY <1>4, <2>1, <2>2
  <2>4. QED
    BY <1>5, <2>3 DEF Warranted
<1>7. Steady' /\ ThreadOK' /\ ClearOK'
  BY <1>2, StaysSteady DEF ThreadOK, ClearOK, device
<1>8. DeviceOK' /\ ClaimOK'
  BY <1>1, <1>5 DEF DeviceOK, OneAssist, ClaimOK, AllIdle, NominalInv, manager
<1>9. QED
  BY <1>4, <1>6, <1>7, <1>8 DEF NominalInv, WireOK

(* An attempt of the verified starter is the last word in the queue. *)
LEMMA AttemptMade ==
  ASSUME Inv, NominalInv, NEW n, Attempt(n),
         g.slot \in Slots, g.op = "startRoll", g.got # "ok",
         feedIdx = None, rollIdx \in {None, g.slot},
         \A i \in DOMAIN wire : wire[i].kind = "move",
         \A s \in Slots : dev[s] = "idle" \/ (s = g.slot /\ dev[s] = "rollback"),
         wire' = Append(wire, Start3(g.slot)),
         UNCHANGED <<claims, restore, manager, info, linkUp, device, faults>>
  PROVE  NominalInv'
<1>1. /\ g'.pc = "await" /\ g'.op = g.op /\ g'.slot = g.slot /\ g'.got = "none"
      /\ UNCHANGED <<feedIdx, rollIdx, ackPending, dev, owner>>
  BY Places DEF claims, device, manager
<1>2. Steady'
  BY StaysSteady DEF device
<1>3. ThreadOK' /\ ClearOK'
  BY <1>1 DEF ThreadOK, ClearOK
<1>4. /\ Ordered'
      /\ \A i \in DOMAIN wire' :
           wire'[i] = Start3(g.slot) \/ \E j \in DOMAIN wire : wire'[i] = wire[j]
  BY Joined, Requests, QueueByPlace DEF NominalInv, WireOK
<1>5. \A i \in DOMAIN wire' : Warranted(wire[i])'
  <2>1. SUFFICES ASSUME NEW i \in DOMAIN wire' PROVE Warranted(wire[i])'
    OBVIOUS
  <2>2. CASE wire'[i] = Start3(g.slot)
    BY <1>1, <2>2 DEF Warranted, Start3
  <2>3. CASE \E j \in DOMAIN wire : wire'[i] = wire[j]
    <3>1. PICK j \in DOMAIN wire : wire'[i] = wire[j]
      BY <2>3
    <3>2. wire[j].kind = "move" /\ wire[j].cb = "none" /\ AllIdle
      BY DEF NominalInv, WireOK, Warranted
    <3>3. AllIdle'
      BY <1>1, <3>2 DEF AllIdle
    <3>4. QED
      BY <3>1, <3>2, <3>3 DEF Warranted
  <2>4. QED
    BY <1>4, <2>2, <2>3
<1>6. DeviceOK'
  <2>1. \A s \in Slots : ~StopQueued(s)
    BY DEF StopQueued, IsStop
  <2>2. QED
    BY <1>1, <2>1 DEF NominalInv, DeviceOK, OneAssist
<1>7. ClaimOK'
  BY <1>1 DEF ClaimOK
<1>8. QED
  BY <1>2, <1>3, <1>4, <1>5, <1>6, <1>7 DEF NominalInv, WireOK

LEMMA StarterSteps ==
  ASSUME Nominal, Inv, NominalInv,
         \/ StarterGoes /\ ~UNCHANGED wire
         \/ StarterAccepted \/ StarterRetries
  PROVE  NominalInv'
<1>n. linkUp /\ Prompt
  BY DEF NominalInv, Steady, Nominal
<1>1. CASE StarterGoes /\ ~UNCHANGED wire
  <2>1. /\ Attempt(1) /\ wire' = Append(wire, Start3(g.slot)) /\ g.pc = "go"
        /\ g.op = "startRoll"
        /\ UNCHANGED <<claims, restore, manager, info, linkUp, device, faults>>
    BY <1>1 DEF StarterGoes, Send
  <2>2. /\ g.slot \in Slots /\ g.got = "none"
        /\ feedIdx = None /\ rollIdx \in {None, g.slot}
    <3>1. g.got \in {"none", "ok", "no"}
      BY DEF Inv, TypeOK, Thread
    <3>2. QED
      BY <2>1, <3>1, Places DEF NominalInv, ThreadOK
  <2>3. \A i \in DOMAIN wire : wire[i].kind = "move"
    <3>1. \A i \in DOMAIN wire : wire[i].kind \in {"start2", "start3", "stop", "move"}
      BY QueueByPlace DEF Request
    <3>2. QED
      BY <2>1, <2>2, <3>1, QueueByPlace, NoneIsNoSlot
  <2>4. \A s \in Slots : dev[s] = "idle" \/ (s = g.slot /\ dev[s] = "rollback")
    <3>1. \A s \in Slots : ~StopQueued(s) /\ dev[s] \in {"idle", "assist", "rollback"}
      BY <2>3 DEF StopQueued, IsStop, Inv, TypeOK
    <3>2. QED
      BY <2>1, <2>2, <3>1, NoneIsNoSlot DEF NominalInv, DeviceOK
  <2>5. QED
    BY <2>1, <2>2, <2>3, <2>4, AttemptMade
<1>2. ASSUME g.pc = "await", g.got # "none"
      PROVE  /\ \A i \in DOMAIN wire : wire[i].kind = "move" /\ wire[i].cb = "none"
             /\ g.slot \in Slots /\ feedIdx = None /\ rollIdx \in {None, g.slot}
             /\ \A s \in Slots : dev[s] = "idle" \/ (s = g.slot /\ dev[s] = "rollback")
             /\ \A s \in Slots : ~StopQueued(s)
  <2>1. /\ g.slot \in Slots /\ feedIdx = None /\ rollIdx \in {None, g.slot}
        /\ \A s \in Slots : dev[s] = "idle" \/ (s = g.slot /\ dev[s] = "rollback")
    BY <1>2, Places DEF NominalInv, ThreadOK, ClearOK
  <2>2. \A i \in DOMAIN wire : wire[i].kind = "move"
    <3>1. \A i \in DOMAIN wire : wire[i].kind \in {"start2", "start3", "stop", "move"}
      BY QueueByPlace DEF Request
    <3>2. \A i \in DOMAIN wire : wire[i].kind # "start3"
      BY <1>2 DEF NominalInv, WireOK, Warranted
    <3>3. QED
      BY <1>2, <2>1, <3>1, <3>2, QueueByPlace, NoneIsNoSlot
  <2>3. \A i \in DOMAIN wire : wire[i].cb = "none"
    BY <2>2 DEF NominalInv, WireOK, Warranted
  <2>4. \A s \in Slots : ~StopQueued(s)
    BY <2>2 DEF StopQueued, IsStop
  <2>5. QED
    BY <2>1, <2>2, <2>3, <2>4
<1>3. CASE StarterAccepted
  <2>1. /\ g.pc = "await" /\ g.got = "ok" /\ rollIdx' = g.slot
        /\ g'.pc = "idle" /\ g'.op = "none"
        /\ UNCHANGED <<feedIdx, ackPending, restore, manager, info, linkUp,
                       wire, device, faults>>
    BY <1>3, Places DEF StarterAccepted
  <2>2. dev' = dev /\ owner' = owner
    BY <2>1 DEF device, manager
  <2>3. Steady' /\ ThreadOK' /\ ClearOK'
    BY <2>1, StaysSteady DEF ThreadOK, ClearOK, device
  <2>4. DeviceOK'
    BY <1>2, <2>1, <2>2 DEF NominalInv, DeviceOK, OneAssist
  <2>5. WireOK'
    BY <1>2, <2>1, <2>2 DEF NominalInv, WireOK, Ordered, Warranted, AllIdle
  <2>6. ClaimOK'
    BY <1>2, <2>1 DEF ClaimOK
  <2>7. QED
    BY <2>3, <2>4, <2>5, <2>6 DEF NominalInv
<1>4. CASE StarterRetries
  <2>1. /\ g.pc = "await" /\ g.got = "no"
        /\ UNCHANGED <<claims, restore, manager, info, linkUp, device, faults>>
    BY <1>4, <1>n DEF StarterRetries
  <2>2. Abandoned = wire
    <3>1. wire \in Seq(Request)
      BY QueueByPlace
    <3>2. \A i \in DOMAIN wire : wire[i].cb # "await"
      BY <1>2, <2>1
    <3>3. Abandoned = [i \in DOMAIN wire |-> wire[i]]
      BY <3>2 DEF Abandoned
    <3>4. QED
      BY <3>1, <3>3
  <2>3. CASE g.tries < SettleAttempts
    <3>1. Attempt(g.tries + 1) /\ wire' = Append(wire, Start3(g.slot))
      BY <1>4, <2>2, <2>3 DEF StarterRetries
    <3>2. g.op = "startRoll"
      BY <2>1 DEF NominalInv, ThreadOK
    <3>3. QED
      BY <1>2, <2>1, <3>1, <3>2, AttemptMade
  <2>4. CASE ~(g.tries < SettleAttempts)
    <3>1. g'.pc = "idle" /\ g'.op = "none" /\ wire' = wire
      BY <1>4, <2>2, <2>4, Places DEF StarterRetries
    <3>2. Unmoved
      BY <2>1, <3>1 DEF Unmoved
    <3>3. ThreadOK'
      BY <3>1 DEF ThreadOK
    <3>4. QED
      BY <1>2, <2>1, <3>1, <3>2, <3>3, Moves
  <2>5. QED
    BY <2>3, <2>4
<1>5. QED
  BY <1>1, <1>3, <1>4

-----------------------------------------------------------------------------
(* The heartbeat *)

(* Two contradicting frames in a row never come, so nothing is restored. *)
LEMMA HeartbeatStep ==
  ASSUME Nominal, Inv, NominalInv, Heartbeat
  PROVE  NominalInv'
<1> DEFINE q == Reconciled(SlotReadyQueue(Queue))
<1>n. /\ linkUp /\ pending = None /\ ~geared /\ empty = {} /\ restoring = {}
      /\ AssistIsBusy /\ Prompt
      /\ streak = 1 => info.ready
  BY DEF NominalInv, Steady, Nominal
<1>f. /\ info.ready => g.pc \notin WaitPcs
      /\ Settled \/ streak = 0
      /\ info'.ready = DeviceReady /\ info'.empty = {}
      /\ geared' = FALSE /\ streak' = q.streak /\ MaybeRestore(q)
      /\ UNCHANGED <<manager, g, linkUp, dev, devBusy, empty, faults>>
  BY <1>n DEF Heartbeat, FrameDue, NewFrame
<1>1. q.pending = None /\ (q.streak = 1 => info'.ready)
  <2>1. /\ SlotReadyQueue(Queue) = Queue /\ Queue.pending = None
        /\ Queue.streak = streak
    BY <1>n DEF SlotReadyQueue, Queue
  <2>2. /\ [Queue EXCEPT !.streak = 0].streak = 0
        /\ [Queue EXCEPT !.streak = 0].pending = None
        /\ [Queue EXCEPT !.streak = 1].pending = None
    BY <1>n DEF Queue
  <2>3. CASE feedIdx = None
    BY <2>1, <2>2, <2>3 DEF Reconciled
  <2>4. CASE feedIdx # None /\ ~info'.ready
    BY <1>n, <2>1, <2>2, <2>4 DEF Reconciled
  <2>5. CASE feedIdx # None /\ info'.ready /\ streak = 0
    BY <1>n, <1>f, <2>1, <2>2, <2>5 DEF Reconciled
  <2>6. CASE feedIdx # None /\ info'.ready /\ streak # 0
    <3>1. wire = <<>> /\ g.pc # "enableWait" /\ feedIdx \in Slots
      <4>1. streak = 1 /\ feedIdx \in Slots
        BY <2>6 DEF Inv, TypeOK, SlotOrNone
      <4>2. QED
        BY <1>n, <1>f, <2>6, <4>1 DEF Settled, WaitPcs
    <3>2. dev[feedIdx] = "assist"
      BY <2>6, <3>1, EmptySeq DEF NominalInv, ClaimOK, Queued
    <3>3. ~DeviceReady
      BY <1>n, <3>1, <3>2 DEF DeviceReady
    <3>4. QED
      BY <1>f, <2>6, <3>3
  <2>7. QED
    BY <2>3, <2>4, <2>5, <2>6
<1> HIDE DEF q
<1>2. pending' = None /\ UNCHANGED <<claims, restoring, wire>>
  BY <1>f, <1>1
     DEF MaybeRestore, NoRestore, SkipEmpty, DropStale, GiveUp, OtherPosition,
         SendOrWait, Restorable
<1>3. Steady'
  BY <1>n, <1>f, <1>1, <1>2 DEF NominalInv, Steady, manager
<1>4. UNCHANGED <<feedIdx, rollIdx, ackPending, owner, g, dev, wire>>
  BY <1>f, <1>2 DEF claims, manager
<1>5. ThreadOK' /\ ClearOK' /\ DeviceOK' /\ ClaimOK'
  BY <1>4 DEF NominalInv, ThreadOK, ClearOK, DeviceOK, ClaimOK, OneAssist,
              AllIdle, StopQueued, Queued
<1>6. WireOK'
  BY <1>4 DEF NominalInv, WireOK, Ordered, Warranted, AllIdle, StopQueued
<1>7. QED
  BY <1>3, <1>5, <1>6 DEF NominalInv

LEMMA WaitPollStep ==
  ASSUME Nominal, Inv, NominalInv, WaitPolls
  PROVE  NominalInv'
<1>1. /\ ~info.ready /\ geared' = FALSE
      /\ pending' = SlotReadyQueue(Queue).pending
      /\ UNCHANGED <<claims, streak, restoring, manager, g, linkUp, wire, dev,
                     devBusy, empty, faults>>
  BY DEF WaitPolls
<1>2. pending' = None /\ streak' # 1
  BY <1>1 DEF SlotReadyQueue, Queue, NominalInv, Steady
<1>3. Steady'
  BY <1>1, <1>2 DEF NominalInv, Steady, manager
<1>4. UNCHANGED <<feedIdx, rollIdx, ackPending, owner, g, dev, wire>>
  BY <1>1 DEF claims, manager
<1>5. ThreadOK' /\ ClearOK' /\ DeviceOK' /\ ClaimOK'
  BY <1>4 DEF NominalInv, ThreadOK, ClearOK, DeviceOK, ClaimOK, OneAssist,
              AllIdle, StopQueued, Queued
<1>6. WireOK'
  BY <1>4 DEF NominalInv, WireOK, Ordered, Warranted, AllIdle, StopQueued
<1>7. QED
  BY <1>3, <1>5, <1>6 DEF NominalInv

-----------------------------------------------------------------------------
(* The device serves the head of the queue. *)

(* What is left of the queue behind a request served. *)
LEMMA Dequeued ==
  ASSUME Inv, NominalInv, wire # <<>>, wire' = Tail(wire)
  PROVE  /\ 1 \in DOMAIN wire /\ Head(wire) = wire[1] /\ wire[1] \in Request
         /\ Warranted(wire[1])
         /\ Ordered'
         /\ \A i \in DOMAIN wire' :
              \E j \in DOMAIN wire : wire'[i] = wire[j] /\ Warranted(wire[j])
         /\ \A j \in DOMAIN wire :
              wire[j] = wire[1] \/ \E i \in DOMAIN wire' : wire'[i] = wire[j]
         /\ wire[1].kind \in {"start3", "stop"} => DOMAIN wire' = {}
         /\ wire[1].kind = "start2" => \A i \in DOMAIN wire' : wire'[i].kind = "stop"
<1>1. /\ DOMAIN wire = 1 .. Len(wire) /\ Len(wire) \in Nat \ {0}
      /\ DOMAIN wire' = 1 .. Len(wire) - 1
      /\ Head(wire) = wire[1] /\ Head(wire) \in Request
      /\ \A i \in 1 .. Len(wire) - 1 :
           i + 1 \in 1 .. Len(wire) /\ wire'[i] = wire[i + 1]
  <2>1. wire \in Seq(Request)
    BY QueueByPlace
  <2>2. QED
    BY <2>1, TailRequest
<1>2. Ordered /\ \A i \in DOMAIN wire : Warranted(wire[i])
  BY DEF NominalInv, WireOK
<1>3. 1 \in DOMAIN wire
  BY <1>1
<1>4. Ordered'
  <2>1. SUFFICES ASSUME NEW i \in DOMAIN wire', NEW j \in DOMAIN wire', i < j
                 PROVE  \/ wire'[i].kind = "move"
                        \/ wire'[i].kind = "start2" /\ wire'[j].kind = "stop"
    BY DEF Ordered
  <2>2. /\ i + 1 \in DOMAIN wire /\ j + 1 \in DOMAIN wire /\ i + 1 < j + 1
        /\ wire'[i] = wire[i + 1] /\ wire'[j] = wire[j + 1]
    BY <1>1, <2>1
  <2>3. QED
    BY <1>2, <2>2 DEF Ordered
<1>5. \A i \in DOMAIN wire' :
        \E j \in DOMAIN wire : wire'[i] = wire[j] /\ Warranted(wire[j])
  BY <1>1, <1>2
<1>6. \A j \in DOMAIN wire :
        wire[j] = wire[1] \/ \E i \in DOMAIN wire' : wire'[i] = wire[j]
  <2>1. ASSUME NEW j \in DOMAIN wire, j # 1
        PROVE  \E i \in DOMAIN wire' : wire'[i] = wire[j]
    <3>1. j - 1 \in DOMAIN wire' /\ wire'[j - 1] = wire[j - 1 + 1] /\ j - 1 + 1 = j
      BY <1>1, <2>1
    <3>2. QED
      BY <3>1
  <2>2. QED
    BY <2>1
<1>7. \A i \in DOMAIN wire' :
        \/ wire[1].kind = "move"
        \/ wire[1].kind = "start2" /\ wire'[i].kind = "stop"
  <2>1. ASSUME NEW i \in DOMAIN wire'
        PROVE  1 < i + 1 /\ i + 1 \in DOMAIN wire /\ wire'[i] = wire[i + 1]
    BY <1>1, <2>1
  <2>2. QED
    BY <1>2, <1>3, <2>1 DEF Ordered
<1>8. wire[1].kind \in {"start3", "stop"} => DOMAIN wire' = {}
  BY <1>7
<1>9. wire[1].kind = "start2" => \A i \in DOMAIN wire' : wire'[i].kind = "stop"
  BY <1>7
<1>10. QED
  BY <1>1, <1>2, <1>3, <1>4, <1>5, <1>6, <1>8, <1>9

LEMMA Served ==
  ASSUME Nominal, Inv, NominalInv, Transact
  PROVE  NominalInv'
<1> DEFINE r == wire[1]
<1>1. /\ wire # <<>> /\ wire' = Tail(wire) /\ Head(wire) = r
      /\ UNCHANGED <<pending, streak, restoring, manager, info, linkUp, devBusy,
                     empty, geared>>
  BY Dequeued DEF Transact
<1>2. /\ faults = 0 /\ empty = {} /\ ~devBusy
      /\ \/ Admits(r) /\ Execute(r) /\ Answer(r, TRUE)
         \/ ~Admits(r) /\ Answer(r, FALSE) /\ dev' = dev
      /\ UNCHANGED faults
  <2>1. faults = 0 /\ empty = {} /\ ~devBusy /\ MaxFaults = 0
    BY DEF NominalInv, Steady, Nominal
  <2>2. Serve(r)
    BY <1>1 DEF Transact
  <2>3. ~(faults < MaxFaults)
    BY <2>1
  <2>4. QED
    BY <2>1, <2>2, <2>3 DEF Serve
<1>3. Steady'
  BY <1>1, <1>2 DEF NominalInv, Steady, manager
<1>4. /\ r \in Request /\ 1 \in DOMAIN wire /\ Warranted(r) /\ Ordered'
      /\ owner' = owner
  BY <1>1, Dequeued DEF manager
<1>5. r.kind \in {"start2", "start3", "stop", "move"} /\ r.slot \in Slots
  BY <1>4 DEF Request
<1>6. \A j \in DOMAIN wire : wire[j] = r \/ \E i \in DOMAIN wire' : wire'[i] = wire[j]
  BY <1>1, Dequeued
<1>7. \A i \in DOMAIN wire' :
        \E j \in DOMAIN wire : wire'[i] = wire[j] /\ Warranted(wire[j])
  BY <1>1, Dequeued
<1>8. \A s : r.kind # "stop" => (StopQueued(s) => StopQueued(s)')
  BY <1>6 DEF StopQueued, IsStop
<1>9. dev \in [Slots -> {"idle", "assist", "rollback"}]
  BY DEF Inv, TypeOK
<1> HIDE DEF r
<1>10. CASE r.kind = "move"
  <2>1. /\ Admits(r) /\ r.cb = "none" /\ AllIdle
    BY <1>4, <1>10 DEF Admits, Warranted
  <2>2. dev' = dev /\ UNCHANGED <<claims, g>>
    BY <1>2, <1>10, <2>1 DEF Execute, Executed, Answer
  <2>3. ThreadOK' /\ AllIdle' /\ DeviceOK'
    BY <1>4, <1>8, <1>10, <2>1, <2>2
       DEF NominalInv, ThreadOK, DeviceOK, OneAssist, AllIdle, claims
  <2>4. ClearOK'
    BY <1>4, <1>7, <2>1, <2>2, <2>3 DEF NominalInv, ClearOK, claims, AllIdle
  <2>5. WireOK'
    <3>1. ASSUME NEW i \in DOMAIN wire' PROVE Warranted(wire[i])'
      <4>1. PICK j \in DOMAIN wire : wire'[i] = wire[j] /\ Warranted(wire[j])
        BY <1>7
      <4>2. QED
        BY <1>4, <1>8, <1>10, <2>2, <2>3, <4>1 DEF Warranted, claims
    <3>2. QED
      BY <1>4, <3>1 DEF WireOK
  <2>6. ClaimOK'
    <3>1. ASSUME NEW s, Queued(Start2(s, "enable")) PROVE Queued(Start2(s, "enable"))'
      <4>1. PICK j \in DOMAIN wire : wire[j] = Start2(s, "enable")
        BY <3>1 DEF Queued
      <4>2. wire[j] # r
        BY <1>10, <4>1 DEF Start2
      <4>3. QED
        BY <1>6, <4>1, <4>2 DEF Queued
    <3>2. QED
      BY <1>4, <2>2, <3>1 DEF NominalInv, ClaimOK, claims
  <2>7. QED
    BY <1>3, <2>3, <2>4, <2>5, <2>6 DEF NominalInv
<1>11. CASE r.kind = "start2"
  <2>1. /\ r = Start2(owner, "enable") /\ AllIdle /\ owner \in Slots
        /\ feedIdx = owner \/ StopQueued(owner)
        /\ r.cb = "enable" /\ r.slot = owner
    BY <1>4, <1>5, <1>11 DEF Warranted, Start2
  <2>2. Admits(r)
    BY <1>2, <2>1 DEF Admits, AllIdle
  <2>3. dev' = [dev EXCEPT ![owner] = "assist"]
    BY <1>2, <1>11, <2>1, <2>2 DEF Execute, Executed, Nominal
  <2>4. feedIdx' = feedIdx /\ rollIdx' = rollIdx /\ g' = g
    BY <1>2, <2>1, <2>2 DEF Answer, EnableAnswered
  <2>5. dev'[owner] = "assist" /\ \A s \in Slots : s # owner => dev'[s] = "idle"
    BY <1>9, <2>1, <2>3 DEF AllIdle
  <2>6. \A i \in DOMAIN wire' : wire'[i].kind = "stop"
    BY <1>1, <1>11, Dequeued DEF r
  <2>7. g.pc \notin {"enableWait", "await"}
    <3>1. g.pc # "enableWait"
      BY <1>4, <1>11 DEF NominalInv, ClearOK, r
    <3>2. g.pc # "await"
      <4>1. g.pc = "await" => feedIdx = owner /\ feedIdx = None
        BY <1>4, <1>11, QueueByPlace DEF r, NominalInv, ThreadOK
      <4>2. QED
        BY <2>1, <4>1, NoneIsNoSlot
    <3>3. QED
      BY <3>1, <3>2
  <2>8. ThreadOK' /\ ClearOK'
    BY <1>4, <2>4, <2>7 DEF NominalInv, ThreadOK, ClearOK
  <2>9. DeviceOK'
    BY <1>4, <1>8, <1>11, <2>1, <2>4, <2>5 DEF DeviceOK, OneAssist
  <2>10. WireOK'
    <3>1. ASSUME NEW i \in DOMAIN wire' PROVE Warranted(wire[i])'
      <4>1. PICK j \in DOMAIN wire : wire'[i] = wire[j] /\ Warranted(wire[j])
        BY <1>7
      <4>2. wire[j].kind = "stop"
        BY <2>6, <4>1
      <4>3. QED
        BY <2>4, <4>1, <4>2 DEF Warranted
    <3>2. QED
      BY <1>4, <3>1 DEF WireOK
  <2>11. ClaimOK'
    BY <1>4, <2>4, <2>5 DEF NominalInv, ClaimOK
  <2>12. QED
    BY <1>3, <2>8, <2>9, <2>10, <2>11 DEF NominalInv
<1>12. CASE r.kind = "start3"
  <2>1. /\ r = Start3(g.slot) /\ g.pc = "await" /\ g.got = "none"
        /\ r.cb = "await" /\ r.slot = g.slot /\ g.slot \in Slots
        /\ feedIdx = None /\ DOMAIN wire' = {}
        /\ \A s \in Slots : dev[s] = "idle" \/ (s = g.slot /\ dev[s] = "rollback")
    BY <1>1, <1>4, <1>5, <1>12, Dequeued
       DEF r, Warranted, Start3, NominalInv, ThreadOK, ClearOK
  <2>2. UNCHANGED claims
    BY <1>2, <2>1 DEF Answer, AttemptAnswered
  <2>3. g \in Thread
    BY DEF Inv, TypeOK
  <2>4. WireOK'
    BY <1>4, <2>1 DEF WireOK
  <2>5. ClaimOK'
    BY <2>1, <2>2 DEF ClaimOK, claims
  <2>6. CASE dev[g.slot] = "idle"
    <3>1. Admits(r)
      BY <1>2, <2>1, <2>6 DEF Admits
    <3>2. dev' = [dev EXCEPT ![g.slot] = "rollback"]
      BY <1>2, <1>12, <2>1, <3>1 DEF Execute, Executed
    <3>3. g' = [g EXCEPT !.got = "ok"]
      BY <1>2, <2>1, <3>1 DEF Answer, AttemptAnswered
    <3>4. g'.pc = "await" /\ g'.op = g.op /\ g'.slot = g.slot /\ g'.got = "ok"
      BY <2>1, <2>3, <3>3 DEF Thread
    <3>5. dev'[g.slot] = "rollback" /\ \A s \in Slots : s # g.slot => dev'[s] = "idle"
      BY <1>9, <2>1, <3>2
    <3>6. ThreadOK' /\ ClearOK'
      BY <2>1, <2>2, <3>4, <3>5 DEF NominalInv, ThreadOK, ClearOK, claims
    <3>7. DeviceOK'
      BY <3>4, <3>5 DEF DeviceOK, OneAssist
    <3>8. QED
      BY <1>3, <2>4, <2>5, <3>6, <3>7 DEF NominalInv
  <2>7. CASE dev[g.slot] = "rollback"
    <3>1. ~Admits(r)
      BY <1>12, <2>1, <2>7 DEF Admits
    <3>2. dev' = dev /\ g' = [g EXCEPT !.got = "no"]
      BY <1>2, <2>1, <3>1 DEF Answer, AttemptAnswered
    <3>3. g'.pc = "await" /\ g'.op = g.op /\ g'.slot = g.slot /\ g'.got = "no"
      BY <2>1, <2>3, <3>2 DEF Thread
    <3>4. ThreadOK' /\ ClearOK'
      BY <2>1, <2>2, <3>2, <3>3 DEF NominalInv, ThreadOK, ClearOK, claims
    <3>5. rollIdx = g.slot
      <4>1. ~StopQueued(g.slot)
        BY <2>1, QueueByPlace DEF StopQueued, IsStop
      <4>2. QED
        BY <2>1, <2>7, <4>1 DEF NominalInv, DeviceOK
    <3>6. DeviceOK'
      BY <2>1, <2>2, <3>2, <3>5 DEF DeviceOK, OneAssist, claims
    <3>7. QED
      BY <1>3, <2>4, <2>5, <3>4, <3>6 DEF NominalInv
  <2>8. QED
    BY <2>1, <2>6, <2>7
<1>13. CASE r.kind = "stop"
  <2>1. /\ r.cb = "none" /\ g.pc \in {"offTail", "dwell"}
        /\ feedIdx # r.slot /\ rollIdx # r.slot /\ DOMAIN wire' = {}
    BY <1>1, <1>4, <1>13, Dequeued DEF r, Warranted
  <2>2. Admits(r)
    BY <1>13 DEF Admits
  <2>3. dev' = [dev EXCEPT ![r.slot] = "idle"] /\ UNCHANGED <<claims, g>>
    BY <1>2, <1>13, <2>1, <2>2 DEF Execute, Executed, Answer
  <2>4. /\ dev'[r.slot] = "idle"
        /\ \A s \in Slots : s # r.slot => dev'[s] = dev[s]
    BY <1>5, <1>9, <2>3
  <2>5. \A j \in DOMAIN wire : wire[j] = r
    BY <1>6, <2>1
  <2>6. \A s \in Slots : s # r.slot => ~StopQueued(s)
    BY <2>5 DEF StopQueued, IsStop
  <2>7. WireOK'
    BY <1>4, <2>1 DEF WireOK
  <2>8. ThreadOK' /\ ClearOK'
    BY <1>4, <2>1, <2>3 DEF NominalInv, ThreadOK, ClearOK, claims
  <2>9. DeviceOK'
    <3>1. UNCHANGED <<feedIdx, rollIdx, g, owner>>
      BY <1>4, <2>3 DEF claims
    <3>2. \A s \in Slots : dev'[s] # "idle" => s # r.slot /\ dev'[s] = dev[s]
      BY <2>4
    <3>3. QED
      BY <2>1, <2>6, <3>1, <3>2 DEF NominalInv, DeviceOK, OneAssist
  <2>10. ClaimOK'
    <3>1. feedIdx # None => feedIdx \in Slots
      BY DEF Inv, TypeOK, SlotOrNone
    <3>2. ~Queued(Start2(feedIdx, "enable"))
      BY <1>13, <2>5 DEF Queued, Start2
    <3>3. feedIdx # None => dev[feedIdx] = "assist"
      BY <2>1, <3>2 DEF NominalInv, ClaimOK
    <3>4. QED
      BY <1>4, <2>1, <2>3, <2>4, <3>1, <3>3 DEF NominalInv, ClaimOK, claims
  <2>11. QED
    BY <1>3, <2>7, <2>8, <2>9, <2>10 DEF NominalInv
<1>14. QED
  BY <1>5, <1>10, <1>11, <1>12, <1>13

-----------------------------------------------------------------------------
(* Nothing else happens in normal operation: the unit is ready whenever a  *)
(* START waits for it, and every other step is a fault's or a load's.      *)
LEMMA NothingElse ==
  ASSUME Nominal, Inv, NominalInv
  PROVE  /\ ~WaitTimesOut /\ ~DisableSends /\ ~RecoverReady
         /\ \A s \in Slots : ~CallStopFeed(s) /\ ~RestoreResumes(s) /\ ~RestoreDefers(s)
         /\ ~CallReset /\ ~ManagerStep /\ ~Connect /\ ~DeviceEndsWork /\ ~Environment
<1>n. /\ Calls \subseteq {"enable", "disable", "startRoll", "stopRoll", "move"}
      /\ AssistIsBusy /\ Prompt /\ MaxFaults = 0
      /\ linkUp /\ ~toolchange /\ loading = None /\ faults = 0
      /\ restoring = {} /\ ~devBusy
      /\ g.pc \notin {"offWait", "failWait"}
  BY DEF Nominal, NominalInv, Steady, ThreadOK
<1>1. ~WaitTimesOut
  <2>1. g.pc = "enableWait" => DeviceReady
    BY <1>n DEF NominalInv, ClearOK, AllIdle, DeviceReady
  <2>2. QED
    BY <1>n, <2>1 DEF WaitTimesOut, StillBusy, WaitPcs
<1>2. ~DisableSends /\ ~RecoverReady
  BY <1>n DEF DisableSends, RecoverReady
<1>3. ~CallReset /\ \A s \in Slots : ~CallStopFeed(s)
  BY <1>n DEF CallStopFeed, CallReset, Calling
<1>4. \A s \in Slots : ~RestoreResumes(s) /\ ~RestoreDefers(s)
  BY <1>n DEF RestoreResumes, RestoreDefers
<1>5. ~ManagerStep
  BY <1>n DEF ManagerStep, ToolchangeBegins, ToolchangeEnds, LoadBegins, LoadEnds,
              LoadFails, Calling
<1>6. ~Connect /\ ~DeviceEndsWork
  BY <1>n DEF Connect, DeviceEndsWork
<1>7. ~Environment
  <2>1. ~Fault
    BY <1>n DEF Fault
  <2>2. QED
    BY <2>1 DEF Environment, LinkDrops, PowerCycles, KlippyRestarts,
                DeviceStartsWork, Preload, SpoolRunsOut
<1>8. QED
  BY <1>1, <1>2, <1>3, <1>4, <1>5, <1>6, <1>7

LEMMA NominalStays ==
  ASSUME Nominal, Inv, NominalInv, UNCHANGED vars
  PROVE  NominalInv'
<1>1. /\ UNCHANGED <<claims, restore, manager, info, g, linkUp, wire, device, faults>>
      /\ UNCHANGED <<feedIdx, rollIdx, ackPending, owner, dev>>
  BY DEF vars, claims, manager, device
<1>2. Steady'
  BY <1>1, StaysSteady DEF device
<1>3. ThreadOK' /\ ClearOK' /\ DeviceOK' /\ ClaimOK'
  BY <1>1 DEF NominalInv, ThreadOK, ClearOK, DeviceOK, ClaimOK, OneAssist,
              AllIdle, StopQueued, Queued
<1>4. WireOK'
  BY <1>1 DEF NominalInv, WireOK, Ordered, Warranted, AllIdle, StopQueued
<1>5. QED
  BY <1>2, <1>3, <1>4 DEF NominalInv

LEMMA NominalStep ==
  ASSUME Nominal, Inv, NominalInv, [Next]_vars
  PROVE  NominalInv'
<1>1. CASE Command
  <2>1. ASSUME NEW s \in Slots, CallEnable(s) \/ CallMove(s) \/ CallStartRollback(s)
        PROVE  NominalInv'
    BY <2>1, ThreadMoves
  <2>2. ASSUME NEW s \in Slots, CallDisable(s) \/ CallStopRollback(s)
        PROVE  NominalInv'
    BY <2>2, StopSteps
  <2>3. QED
    BY <1>1, <2>1, <2>2, NothingElse DEF Command
<1>2. CASE ThreadStep
  <2>1. CASE EnableSatisfied \/ DwellEnds \/ DisableEnds
    BY <2>1, ThreadMoves
  <2>2. CASE EnableClaims \/ EnableSends
    BY <2>2, EnableStep
  <2>3. CASE EnableStopsRollback
    BY <2>3, StopSteps
  <2>4. CASE EnsureFeedOff
    BY <2>4, ThreadMoves, StopSteps
  <2>5. CASE EnsureRollbackOff
    BY <2>5, ThreadMoves, StopSteps
  <2>6. CASE MoveGoes
    BY <2>6, ThreadMoves, MoveSent
  <2>7. CASE StarterGoes
    BY <2>7, ThreadMoves, StarterSteps
  <2>8. CASE StarterAccepted \/ StarterRetries
    BY <2>8, StarterSteps
  <2>9. QED
    BY <1>2, <2>1, <2>2, <2>3, <2>4, <2>5, <2>6, <2>7, <2>8, NothingElse
       DEF ThreadStep
<1>3. CASE Heartbeat \/ WaitPolls \/ Transact
  BY <1>3, HeartbeatStep, WaitPollStep, Served
<1>4. CASE UNCHANGED vars
  BY <1>4, NominalStays
<1>5. QED
  BY <1>1, <1>2, <1>3, <1>4, NothingElse DEF Next

-----------------------------------------------------------------------------
(* The theorems *)

(* In normal operation the queue keeps its order and every assist the      *)
(* device runs is claimed or about to be stopped, on every reachable state.*)
THEOREM NominalInvariant == Nominal => (Spec => []NominalInv)
<1> SUFFICES ASSUME Nominal PROVE Spec => []NominalInv
  OBVIOUS
<1>1. Init => NominalInv
  BY NominalInit
<1>2. Inv /\ NominalInv /\ [Next]_vars => NominalInv'
  BY NominalStep
<1>3. QED
  BY <1>1, <1>2, Invariant, PTL DEF Spec

(* A feed claim that nothing is about to settle names a lane the device    *)
(* assists: however commands are ordered, _feed_assist_index is not left   *)
(* behind by a STOP or a refused START (_enable_feed_assist,               *)
(* _clear_assist_claims_for_slot).                                         *)
THEOREM FeedBacked == Nominal => (Spec => []FeedClaimBacked)
<1> SUFFICES ASSUME Nominal PROVE Spec => []FeedClaimBacked
  OBVIOUS
<1>1. NominalInv => FeedClaimBacked
  <2>1. SUFFICES ASSUME NominalInv, NEW s \in Slots, feedIdx = s
                 PROVE  \/ Feeds(s)
                        \/ g.op = "enable" /\ g.slot = s
                        \/ Queued(Start2(s, "enable"))
    BY DEF FeedClaimBacked
  <2>2. feedIdx # None /\ feedIdx = owner
    BY <2>1, NoneIsNoSlot DEF NominalInv, ClaimOK
  <2>3. QED
    BY <2>1, <2>2 DEF NominalInv, ClaimOK, ThreadOK, Feeds
<1>2. QED
  BY <1>1, NominalInvariant, PTL

(* What get_status publishes is an assist the device runs, or the one an   *)
(* enable is waiting to send: never one whose START is still unanswered.   *)
THEOREM PublishedBacked == Nominal => (Spec => []PublishedClaimBacked)
<1> SUFFICES ASSUME Nominal PROVE Spec => []PublishedClaimBacked
  OBVIOUS
<1>1. NominalInv => PublishedClaimBacked
  <2>1. SUFFICES ASSUME NominalInv, NEW s \in Slots, PublishedFeed = s
                 PROVE  Feeds(s) \/ (g.op = "enable" /\ g.slot = s)
    BY DEF PublishedClaimBacked
  <2>2. feedIdx = s /\ ~ackPending /\ feedIdx # None /\ feedIdx = owner
    BY <2>1, NoneIsNoSlot DEF PublishedFeed, NominalInv, ClaimOK
  <2>3. ~Queued(Start2(s, "enable"))
    <3>1. SUFFICES ASSUME NEW i \in DOMAIN wire, wire[i] = Start2(s, "enable")
                   PROVE  FALSE
      BY DEF Queued
    <3>2. StopQueued(owner)
      BY <2>1, <2>2, <3>1 DEF NominalInv, WireOK, Warranted, Start2
    <3>3. feedIdx # owner
      BY <2>1, <3>2 DEF StopQueued, IsStop, NominalInv, WireOK, Warranted
    <3>4. QED
      BY <2>2, <3>3
  <2>4. QED
    BY <2>1, <2>2, <2>3 DEF NominalInv, ClaimOK, ThreadOK, Feeds
<1>2. QED
  BY <1>1, NominalInvariant, PTL

(* Whatever the order of the commands, the unit never runs two assists:    *)
(* a START leaves only for a device on which none runs and none will.      *)
THEOREM NeverTwoAssists == Nominal => (Spec => []OneAssist)
<1> SUFFICES ASSUME Nominal PROVE Spec => []OneAssist
  OBVIOUS
<1>1. NominalInv => OneAssist
  BY DEF NominalInv, DeviceOK
<1>2. QED
  BY <1>1, NominalInvariant, PTL

(* No motion reaches a device that assists, through whichever of the       *)
(* guarded paths it was sent (_ensure_assists_off_for_motion).             *)
THEOREM MotionIsFree == Nominal => (Spec => MotionMeetsFreeDevice)
<1> SUFFICES ASSUME Nominal PROVE Spec => MotionMeetsFreeDevice
  OBVIOUS
<1> DEFINE Free == \A s \in Slots :
                     linkUp /\ wire # <<>> /\ Head(wire) = Move(s) /\ wire' = Tail(wire)
                       => \A t \in Slots : dev[t] = "idle"
<1>1. Inv /\ NominalInv => Free
  <2>1. SUFFICES ASSUME Inv, NominalInv, NEW s \in Slots, wire # <<>>,
                        Head(wire) = Move(s)
                 PROVE  AllIdle
    BY DEF AllIdle
  <2>2. wire \in Seq(Request)
    BY <2>1, QueueByPlace
  <2>3. 1 \in DOMAIN wire /\ wire[1] = Move(s)
    BY <2>1, <2>2, TailRequest
  <2>4. QED
    BY <2>1, <2>3 DEF NominalInv, WireOK, Warranted, Move
<1>2. QED
  BY <1>1, NominalInvariant, Invariant, PTL DEF MotionMeetsFreeDevice

-----------------------------------------------------------------------------
(* Every STOP through the assist paths drops the claims of its lane,       *)
(* whatever is lost, retried, restored or restarted.                       *)

(* An ACE2 asked for no plain _stop_feed, alone or by a failed load: those *)
(* stop a lane and leave its claims.                                       *)
ClearingStops == AssistIsBusy /\ Calls \cap {"stopFeed", "toolchange"} = {}

(* A STOP that waits for 'ready' behind its claims is an ACE1's. *)
NoLateStop == g.pc \notin {"offWait", "failWait"} /\ loading = None /\ ~toolchange

LEMMA NoLateStopStep ==
  ASSUME ClearingStops, Inv, NoLateStop, [Next]_vars
  PROVE  NoLateStop'
<1> USE DEF NoLateStop
<1>n. AssistIsBusy /\ "stopFeed" \notin Calls /\ "toolchange" \notin Calls
  BY DEF ClearingStops
<1>g. g \in Thread
  BY DEF Inv, TypeOK
<1>a. ASSUME NEW a \in {"ok", "no"}, g' = [g EXCEPT !.got = a] PROVE g'.pc = g.pc
  BY <1>g, <1>a DEF Thread
<1>d. ASSUME NEW s, NEW op, NEW arg, StartDisable(s, op, arg) PROVE g'.pc = "offTail"
  BY <1>n, <1>d DEF StartDisable, Idle
<1>1. CASE Command
  <2>1. ASSUME NEW s \in Slots, CallDisable(s) PROVE NoLateStop'
    BY <1>d, <2>1 DEF CallDisable, manager
  <2>2. ASSUME NEW s \in Slots,
               \/ CallEnable(s) \/ CallMove(s)
               \/ CallStartRollback(s) \/ CallStopRollback(s)
        PROVE  NoLateStop'
    BY <2>2, Places
       DEF CallEnable, CallMove, CallStartRollback, CallStopRollback, manager
  <2>3. CASE CallReset
    BY <2>3 DEF CallReset, manager
  <2>4. \A s \in Slots : ~CallStopFeed(s)
    BY <1>n DEF CallStopFeed, Calling
  <2>5. QED
    BY <1>1, <2>1, <2>2, <2>3, <2>4 DEF Command
<1>2. CASE ThreadStep
  <2>1. CASE EnsureFeedOff
    BY <1>d, <2>1, Places DEF EnsureFeedOff, manager
  <2>2. CASE StarterRetries
    BY <2>2, Places DEF StarterRetries, manager
  <2>3. CASE MoveGoes \/ StarterGoes
    BY <2>3, Places DEF MoveGoes, StarterGoes, manager
  <2>4. CASE ~(EnsureFeedOff \/ StarterRetries \/ MoveGoes \/ StarterGoes)
    BY <1>2, <2>4, Places
       DEF ThreadStep, EnableStopsRollback, EnableSatisfied, EnableClaims, EnableSends,
           SendEnable, DwellEnds, DisableSends, DisableEnds, AfterOff,
           EnsureRollbackOff, StarterAccepted, RecoverReady, manager
  <2>5. QED
    BY <2>1, <2>2, <2>3, <2>4
<1>3. CASE WaitTimesOut
  BY <1>3, Places DEF WaitTimesOut
<1>4. ~ManagerStep
  BY <1>n DEF ManagerStep, ToolchangeBegins, ToolchangeEnds, LoadBegins, LoadEnds,
              LoadFails, Calling
<1>5. CASE Heartbeat \/ WaitPolls
  BY <1>5 DEF Heartbeat, WaitPolls, manager
<1>6. ASSUME NEW s \in Slots, RestoreResumes(s) \/ RestoreDefers(s) PROVE NoLateStop'
  BY <1>6 DEF RestoreResumes, RestoreDefers, manager
<1>7. CASE Transact
  <2>1. UNCHANGED manager /\ (g' = g \/ \E a \in {"ok", "no"} : g' = [g EXCEPT !.got = a])
    <3>1. Head(wire) \in Request
      BY <1>7, TailRequest DEF Transact, Inv, TypeOK
    <3>2. Head(wire).cb \in {"enable", "restore", "await", "none"}
      BY <3>1 DEF Request
    <3>3. \A ok \in BOOLEAN : Answer(Head(wire), ok) =>
            g' = g \/ \E a \in {"ok", "no"} : g' = [g EXCEPT !.got = a]
      BY <3>2 DEF Answer, EnableAnswered, RestoreAnswered, AttemptAnswered
    <3>4. QED
      BY <1>7, <3>3 DEF Transact, Serve
  <2>2. QED
    BY <1>a, <2>1 DEF manager
<1>8. CASE Connect \/ DeviceEndsWork
  BY <1>8 DEF Connect, DeviceEndsWork, manager
<1>9. CASE Environment
  BY <1>9 DEF Environment, LinkDrops, PowerCycles, KlippyRestarts, DeviceStartsWork,
              Preload, SpoolRunsOut, Idle, manager
<1>10. CASE UNCHANGED vars
  BY <1>10 DEF vars, manager
<1>11. QED
  BY <1>1, <1>2, <1>3, <1>4, <1>5, <1>6, <1>7, <1>8, <1>9, <1>10 DEF Next

(* What one step can do to the queue. *)
Kept      == wire' \in {wire, Abandoned, <<>>}
Joins     == \E r \in Request : r.kind # "stop" /\ wire' \in {Append(wire, r), Append(Abandoned, r)}
Leaves    == wire # <<>> /\ wire' = Tail(wire)
StopJoins == \E s \in Slots : ClearClaims(s) /\ wire' = Append(wire, Stop(s))

LEMMA QueueSteps ==
  ASSUME ClearingStops, Inv, NoLateStop, [Next]_vars
  PROVE  Kept \/ Joins \/ Leaves \/ StopJoins
<1>n. /\ AssistIsBusy /\ "stopFeed" \notin Calls /\ "toolchange" \notin Calls
      /\ g.pc \notin {"offWait", "failWait"} /\ loading = None
  BY DEF ClearingStops, NoLateStop
<1>s. /\ g.pc # "idle" => g.slot \in Slots
      /\ feedIdx # None => feedIdx \in Slots
      /\ rollIdx # None => rollIdx \in Slots
  BY Places DEF Inv, TypeOK, SlotOrNone
<1>r. /\ \A s \in Slots, cb \in {"enable", "restore", "await", "none"} :
           Start2(s, cb) \in Request /\ Start2(s, cb).kind # "stop"
      /\ \A s \in Slots : Start3(s) \in Request /\ Start3(s).kind # "stop"
      /\ \A s \in Slots : Move(s) \in Request /\ Move(s).kind # "stop"
  BY Requests DEF Start2, Start3, Move
<1>1. CASE Command
  <2>1. CASE wire' = wire
    BY <2>1 DEF Kept
  <2>2. CASE wire' # wire
    <3>1. \E s \in Slots : CallDisable(s) \/ CallStopRollback(s)
      BY <1>1, <1>n, <2>2
         DEF Command, CallEnable, CallMove, CallStartRollback, CallStopFeed, CallReset,
             Calling
    <3>2. StopJoins
      BY <1>n, <3>1
         DEF StopJoins, CallDisable, StartDisable, CallStopRollback, StopRollback, Send
    <3>3. QED
      BY <3>2
  <2>3. QED
    BY <2>1, <2>2
<1>2. CASE ThreadStep
  <2>1. CASE EnableClaims \/ EnableSends
    <3>1. g.slot \in Slots
      BY <1>s, <2>1 DEF EnableClaims, EnableSends
    <3>2. wire' = wire \/ wire' = Append(wire, Start2(g.slot, "enable"))
      BY <2>1 DEF EnableClaims, EnableSends, SendEnable, Send
    <3>3. QED
      BY <1>r, <3>1, <3>2 DEF Kept, Joins
  <2>2. CASE EnableStopsRollback \/ EnsureRollbackOff
    BY <1>s, <2>2
       DEF EnableStopsRollback, EnsureRollbackOff, StopRollback, Send, Kept, StopJoins
  <2>3. CASE EnsureFeedOff
    BY <1>n, <1>s, <2>3 DEF EnsureFeedOff, StartDisable, Send, Kept, StopJoins
  <2>4. CASE MoveGoes \/ StarterGoes
    <3>1. g.slot \in Slots
      BY <1>s, <2>4 DEF MoveGoes, StarterGoes
    <3>2. \/ wire' = wire
          \/ wire' = Append(wire, Move(g.slot))
          \/ wire' = Append(wire, Start3(g.slot))
      BY <2>4 DEF MoveGoes, StarterGoes, Send
    <3>3. QED
      BY <1>r, <3>1, <3>2 DEF Kept, Joins
  <2>5. CASE StarterRetries
    <3>1. g.slot \in Slots
      BY <1>s, <2>5 DEF StarterRetries
    <3>2. wire' = Abandoned \/ wire' = Append(Abandoned, Start3(g.slot))
      BY <2>5 DEF StarterRetries
    <3>3. QED
      BY <1>r, <3>1, <3>2 DEF Kept, Joins
  <2>6. CASE ~DisableSends /\ UNCHANGED wire
    BY <2>6 DEF Kept
  <2>7. ~DisableSends
    BY <1>n DEF DisableSends
  <2>8. QED
    BY <1>2, <2>1, <2>2, <2>3, <2>4, <2>5, <2>6, <2>7
       DEF ThreadStep, EnableSatisfied, DwellEnds, DisableEnds, StarterAccepted,
           RecoverReady
<1>3. CASE Heartbeat
  <2> DEFINE q == Reconciled(SlotReadyQueue(Queue))
  <2>1. MaybeRestore(q) /\ q.pending \in SlotOrNone
    BY <1>3, QueueTyped DEF Heartbeat, Inv, RestoreQueue
  <2> HIDE DEF q
  <2>2. \/ wire' = wire
        \/ q.pending \in Slots /\ wire' = Append(wire, Start2(q.pending, "restore"))
    BY <2>1 DEF MaybeRestore, NoRestore, SkipEmpty, DropStale, GiveUp, OtherPosition,
                SendOrWait, Restorable, Send, SlotOrNone
  <2>3. QED
    BY <1>r, <2>2 DEF Kept, Joins
<1>4. ASSUME NEW s \in Slots, RestoreResumes(s) \/ RestoreDefers(s)
      PROVE  Kept \/ Joins
  BY <1>4, <1>r DEF RestoreResumes, RestoreDefers, Send, Kept, Joins
<1>5. CASE Transact
  BY <1>5 DEF Transact, Leaves
<1>6. CASE Environment
  BY <1>6 DEF Environment, LinkDrops, PowerCycles, KlippyRestarts, DeviceStartsWork,
              Preload, SpoolRunsOut, Kept
<1>7. CASE WaitTimesOut \/ WaitPolls \/ Connect \/ DeviceEndsWork \/ UNCHANGED vars
  BY <1>7 DEF WaitTimesOut, WaitPolls, Connect, DeviceEndsWork, vars, Kept
<1>8. ~ManagerStep
  BY <1>n DEF ManagerStep, ToolchangeBegins, ToolchangeEnds, LoadBegins, LoadEnds,
              LoadFails, Calling, NoLateStop
<1>9. QED
  BY <1>1, <1>2, <1>3, <1>4, <1>5, <1>6, <1>7, <1>8 DEF Next

(* The stops of a lane among the requests, as an append, an abandoned      *)
(* attempt and a request served leave them.                                *)
LEMMA StopsOf ==
  ASSUME NEW w \in Seq(Request), NEW s
  PROVE  /\ IsFiniteSet(Stops(w, s)) /\ Cardinality(Stops(w, s)) \in Nat
         /\ \A r \in Request : r # Stop(s) => Stops(Append(w, r), s) = Stops(w, s)
         /\ w # <<>> => Cardinality(Stops(Tail(w), s)) <= Cardinality(Stops(w, s))
<1>1. DOMAIN w = 1 .. Len(w) /\ Len(w) \in Nat
  OBVIOUS
<1>2. IsFiniteSet(1 .. Len(w))
  BY <1>1, FS_Interval
<1>3. Stops(w, s) \in SUBSET (1 .. Len(w))
  BY <1>1 DEF Stops
<1>4. IsFiniteSet(Stops(w, s))
  BY <1>2, <1>3, FS_Subset
<1>5. Cardinality(Stops(w, s)) \in Nat
  BY <1>4, FS_CardinalityType
<1>6. ASSUME NEW r \in Request, r # Stop(s)
      PROVE  Stops(Append(w, r), s) = Stops(w, s)
  <2>1. /\ DOMAIN Append(w, r) = 1 .. Len(w) + 1
        /\ Append(w, r)[Len(w) + 1] = r
        /\ \A i \in 1 .. Len(w) : Append(w, r)[i] = w[i]
    BY AppendRequest
  <2>2. \A i \in 1 .. Len(w) + 1 : i = Len(w) + 1 \/ i \in 1 .. Len(w)
    BY <1>1
  <2>3. \A i \in 1 .. Len(w) : i \in 1 .. Len(w) + 1
    BY <1>1
  <2>4. QED
    BY <1>1, <1>6, <2>1, <2>2, <2>3 DEF Stops
<1>7. ASSUME w # <<>>
      PROVE  Cardinality(Stops(Tail(w), s)) <= Cardinality(Stops(w, s))
  <2> DEFINE f == [i \in Stops(Tail(w), s) |-> i + 1]
  <2>1. /\ DOMAIN Tail(w) = 1 .. Len(w) - 1
        /\ \A i \in 1 .. Len(w) - 1 :
             i + 1 \in 1 .. Len(w) /\ Tail(w)[i] = w[i + 1]
    BY <1>7, TailRequest
  <2>2. \A i \in Stops(Tail(w), s) : i \in Nat /\ i + 1 \in Stops(w, s)
    BY <1>1, <2>1 DEF Stops
  <2>3. f \in Injection(Stops(Tail(w), s), Stops(w, s))
    <3>1. f \in [Stops(Tail(w), s) -> Stops(w, s)]
      BY <2>2
    <3>2. \A i, j \in Stops(Tail(w), s) : f[i] = f[j] => i = j
      BY <2>2
    <3>3. QED
      BY <3>1, <3>2 DEF Injection, IsInjective
  <2> HIDE DEF f
  <2>4. QED
    BY <1>4, <2>3, FS_Injection
<1>8. QED
  BY <1>4, <1>5, <1>6, <1>7

(* No claim on a lane survives the hand-over of a STOP for it, on a driver *)
(* that stops through the assist paths: "Drop EVERY assist claim on slot,  *)
(* because ONE frame stops them all" (_clear_assist_claims_for_slot),      *)
(* whatever faults, restores and restarts come between.                    *)
THEOREM StopsDropClaims == ClearingStops => (Spec => StopDropsClaims)
<1> SUFFICES ASSUME ClearingStops PROVE Spec => StopDropsClaims
  OBVIOUS
<1> DEFINE Drops == \A s \in Slots :
       Cardinality(Stops(wire', s)) > Cardinality(Stops(wire, s))
         => feedIdx' # s /\ rollIdx' # s
<1>1. Init => NoLateStop
  BY DEF Init, NoLateStop, Idle
<1>2. Inv /\ NoLateStop /\ [Next]_vars => NoLateStop'
  BY NoLateStopStep
<1>3. Inv /\ NoLateStop /\ [Next]_vars => Drops
  <2>1. SUFFICES ASSUME Inv, NoLateStop, [Next]_vars, NEW s \in Slots,
                        Cardinality(Stops(wire', s)) > Cardinality(Stops(wire, s))
                 PROVE  feedIdx' # s /\ rollIdx' # s
    OBVIOUS
  <2>2. wire \in Seq(Request)
    BY <2>1 DEF Inv, TypeOK
  <2>3. Cardinality(Stops(wire, s)) \in Nat
    BY <2>2, StopsOf
  <2>4. Abandoned \in Seq(Request) /\ Stops(Abandoned, s) = Stops(wire, s)
    <3>1. /\ Abandoned \in Seq(Request) /\ DOMAIN Abandoned = DOMAIN wire
          /\ \A i \in DOMAIN wire : /\ Abandoned[i].kind = wire[i].kind
                                    /\ Abandoned[i].slot = wire[i].slot
                                    /\ Abandoned[i].cb # "await"
      BY <2>2, AbandonedRequests
    <3>2. \A i \in DOMAIN wire : wire[i].cb = "await" => wire[i].kind = "start3"
      BY <2>1 DEF Inv, RollbackInv, AttemptSafe, LastWord
    <3>3. \A i \in DOMAIN wire : Abandoned[i] = Stop(s) <=> wire[i] = Stop(s)
      <4>1. SUFFICES ASSUME NEW i \in DOMAIN wire
                     PROVE  Abandoned[i] = Stop(s) <=> wire[i] = Stop(s)
        OBVIOUS
      <4>2. CASE wire[i].cb = "await"
        BY <3>1, <3>2, <4>2 DEF Stop
      <4>3. CASE wire[i].cb # "await"
        BY <4>3 DEF Abandoned
      <4>4. QED
        BY <4>2, <4>3
    <3>4. QED
      BY <3>1, <3>3 DEF Stops
  <2>5. ~Kept
    <3>1. Stops(<<>>, s) = {}
      BY EmptySeq DEF Stops
    <3>2. Cardinality(Stops(<<>>, s)) = 0
      BY <3>1, FS_EmptySet
    <3>3. QED
      BY <2>1, <2>3, <2>4, <3>2 DEF Kept
  <2>6. ~Joins
    <3>1. SUFFICES ASSUME NEW r \in Request, r.kind # "stop",
                          wire' \in {Append(wire, r), Append(Abandoned, r)}
                   PROVE  FALSE
      BY DEF Joins
    <3>2. r # Stop(s)
      BY <3>1 DEF Stop
    <3>3. Stops(wire', s) = Stops(wire, s)
      BY <2>2, <2>4, <3>1, <3>2, StopsOf
    <3>4. QED
      BY <2>1, <2>3, <3>3
  <2>7. ~Leaves
    <3>1. Leaves => /\ Cardinality(Stops(wire', s)) <= Cardinality(Stops(wire, s))
                    /\ Cardinality(Stops(wire', s)) \in Nat
      BY <2>2, StopsOf, TailRequest DEF Leaves
    <3>2. QED
      BY <2>1, <2>3, <3>1
  <2>8. PICK t \in Slots : ClearClaims(t) /\ wire' = Append(wire, Stop(t))
    BY <2>1, <2>5, <2>6, <2>7, QueueSteps DEF StopJoins
  <2>9. t = s
    <3>1. ASSUME t # s PROVE FALSE
      <4>1. Stop(t) \in Request /\ Stop(t) # Stop(s)
        BY <3>1, Requests DEF Stop
      <4>2. Stops(wire', s) = Stops(wire, s)
        BY <2>2, <2>8, <4>1, StopsOf
      <4>3. QED
        BY <2>1, <2>3, <4>2
    <3>2. QED
      BY <3>1
  <2>10. QED
    BY <2>8, <2>9, NoneIsNoSlot DEF ClearClaims
<1>4. QED
  BY <1>1, <1>2, <1>3, Invariant, PTL DEF Spec, StopDropsClaims
=============================================================================
