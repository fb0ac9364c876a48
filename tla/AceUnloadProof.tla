--------------------------- MODULE AceUnloadProof ---------------------------
(***************************************************************************)
(* Proofs about AceUnload: type correctness, that an unload which returns  *)
(* True has freed its path, that no unload leaves the unit winding, and    *)
(* that the assist is given back outside a toolchange and left alone in    *)
(* one: for any number of attempts, unloads and faults.                    *)
(*                                                                         *)
(* The commands end on what a frame said, so that the queue carries the    *)
(* invariant: while no command retracts, a stop waits behind every wind    *)
(* that is queued or under way, unless the link has lost it.               *)
(***************************************************************************)
EXTENDS AceUnload, AceUnitProof

Between == {"idle", "ready", "validate", "restore", "rearm"}
Winding == {"dwell", "overshoot", "settle", "overshooting"}

(* Who holds the lane, and what an ended command owes. *)
ControlOK ==
  /\ pc # "idle" => ~arming /\ outcome = "none"
  /\ pc # "idle" => claim = "none" \/ pc = "rearm"
  /\ pc = "validate" => phase \in {"smart", "extra"}
  /\ pc \in {"restore", "rearm"} => Monitored
  /\ pc # "idle" /\ Monitored => rdm
  /\ phase = "nested" => captured = "none"
  /\ pc = "rearm" => claim = captured /\ captured # "none" /\ ~toolchange
  /\ arming => claim # "none"
  /\ toolchange /\ pc = "idle" /\ (rdm \/ phase # "rmd") => claim = "none"
  /\ AssistGivenBack

(* What the command concluded from its sensors still holds. *)
TruthOK ==
  /\ cleared => ~RdmMade
  /\ early \/ ShownEmpty => slot = "empty"
  /\ pc \in {"restore", "rearm"} /\ result => ~RdmMade \/ slot = "empty"
  /\ TrueMeansUnloaded

(* The request somebody waits for is the last one. *)
QueueOK ==
  /\ \A i \in DOMAIN queue : queue[i].live =>
       /\ i = Len(queue) /\ answer = "none"
       /\ pc = "await" \/ queue[i].op = "assist"
  /\ \A i \in DOMAIN queue : queue[i].op = "assist" => arming /\ queue[i].live
  /\ pc = "await" /\ answer # "none" => queue = <<>>

WindOK ==
  /\ pc \in Between /\ ~stopLost => Bounded("wind", queue, motor)
  /\ pc \in Winding \cup {"stopped"} => Lacks(queue, "wind")
  /\ pc \in Winding /\ beat /\ frame.ready => motor # "wind"
  /\ pc \in {"settle", "overshooting"} => beat
  /\ pc = "stopped" /\ ~stopLost /\ motor = "wind" => StopAfter(queue, 0)

AssistOK ==
  motor = "assist" /\ ~stopLost /\ ~adrift =>
    \/ StopAfter(queue, 0)
    \/ /\ pc = "idle" /\ claim # "none"
       /\ arming => answer # "forbidden" /\ Lacks(queue, "assist")

Inv == TypeOK /\ ControlOK /\ TruthOK /\ QueueOK /\ WindOK /\ AssistOK

-----------------------------------------------------------------------------
(* The unit *)

(* What a step of the unit may do to the assist it runs. *)
LEMMA AssistTaken ==
  ASSUME Inv, Takes, Still, queue \in Seq(Request)
  PROVE  AssistOK'
<1>1. /\ queue # <<>> /\ queue' = Tail(queue)
      /\ UNCHANGED <<pc, claim, arming, adrift>>
      /\ stopLost => stopLost'
      /\ Head(queue).op = "stop" => motor' = "idle" \/ stopLost'
  BY DEF Takes, Still, command, told
<1>2. SUFFICES ASSUME motor' = "assist", ~stopLost', ~adrift
               PROVE  \/ StopAfter(queue', 0)
                      \/ /\ pc = "idle" /\ claim # "none"
                         /\ arming => /\ answer' # "forbidden"
                                      /\ Lacks(queue', "assist")
  BY <1>1 DEF AssistOK
<1>3. Head(queue).op # "stop" /\ ~stopLost
  BY <1>1, <1>2
<1>4. Head(queue).live \/ Head(queue).op = "assist" => queue' = <<>>
  <2>1. SUFFICES ASSUME Head(queue).live \/ Head(queue).op = "assist"
                 PROVE  Len(queue) = 1
    BY <1>1
  <2>2. QED
    BY <1>1, <2>1, TailStops DEF Inv, QueueOK
<1>5. answer' # answer => Head(queue).live
  BY DEF Takes
<1>6. CASE motor = "assist"
  <2>1. CASE StopAfter(queue, 0)
    BY <1>1, <1>3, <2>1, TailStops
  <2>2. CASE /\ pc = "idle" /\ claim # "none"
             /\ arming => answer # "forbidden" /\ Lacks(queue, "assist")
    <3>1. arming => Lacks(queue', "assist") /\ Head(queue).op # "assist"
      BY <1>1, <2>2, TailStops
    <3>2. arming => ~Head(queue).live
      BY <1>1, <2>2, <3>1, TailStops DEF Inv, QueueOK
    <3>3. QED
      BY <1>5, <2>2, <3>1, <3>2
  <2>3. QED
    BY <1>2, <1>3, <1>6, <2>1, <2>2 DEF Inv, AssistOK
<1>7. CASE motor # "assist"
  <2>1. Head(queue).op = "assist" /\ answer' \in {answer, "ok"}
    BY <1>2, <1>7 DEF Takes
  <2>2. arming /\ answer = "none" /\ queue' = <<>>
    BY <1>1, <1>4, <2>1, TailStops DEF Inv, QueueOK
  <2>3. pc = "idle" /\ claim # "none"
    BY <2>2 DEF Inv, ControlOK
  <2>4. Lacks(queue', "assist")
    BY <2>2 DEF Lacks
  <2>5. QED
    BY <2>1, <2>2, <2>3, <2>4
<1>8. QED
  BY <1>6, <1>7

LEMMA QueueTaken ==
  ASSUME Inv, Takes, Still, queue \in Seq(Request)
  PROVE  QueueOK'
<1>1. /\ queue # <<>> /\ queue' = Tail(queue) /\ UNCHANGED <<pc, arming>>
      /\ answer' # answer => Head(queue).live
  BY DEF Takes, Still, command
<1>2. ASSUME NEW i \in DOMAIN queue'
      PROVE  /\ queue'[i].live => /\ i = Len(queue') /\ answer' = "none"
                                  /\ pc = "await" \/ queue'[i].op = "assist"
             /\ queue'[i].op = "assist" => arming /\ queue'[i].live
  <2>1. i + 1 \in DOMAIN queue /\ queue'[i] = queue[i + 1]
    BY <1>1, <1>2, TailStops
  <2>2. Len(queue') = Len(queue) - 1 /\ Len(queue) \in Nat /\ i \in Nat /\ i >= 1
    BY <1>1, <1>2, TailStops
  <2>3. Len(queue) # 1
    BY <1>1, <1>2, TailStops
  <2>4. ~Head(queue).live
    BY <1>1, <2>3, TailStops DEF Inv, QueueOK
  <2>5. queue'[i].live => /\ i + 1 = Len(queue) /\ answer = "none"
                          /\ pc = "await" \/ queue'[i].op = "assist"
    BY <2>1 DEF Inv, QueueOK
  <2>6. queue'[i].live => i = Len(queue')
    BY <2>2, <2>5
  <2>7. QED
    BY <1>1, <2>1, <2>4, <2>5, <2>6 DEF Inv, QueueOK
<1>3. ASSUME pc = "await", answer' # "none" PROVE queue' = <<>>
  <2>1. Head(queue).live
    BY <1>1, <1>3 DEF Inv, QueueOK
  <2>2. Len(queue) = 1
    BY <1>1, <2>1, TailStops DEF Inv, QueueOK
  <2>3. QED
    BY <1>1, <2>2
<1>4. QED
  BY <1>1, <1>2, <1>3 DEF QueueOK

LEMMA WindTaken ==
  ASSUME Inv, Takes, Still, queue \in Seq(Request)
  PROVE  WindOK'
<1>1. /\ queue # <<>> /\ queue' = Tail(queue) /\ UNCHANGED <<pc, frame, beat>>
      /\ stopLost => stopLost'
      /\ motor' \in {motor, "idle", Head(queue).op}
      /\ Head(queue).op = "stop" => motor' = "idle" \/ stopLost'
  BY DEF Takes, Still, command
<1>2. pc \in Between /\ ~stopLost' => Bounded("wind", queue', motor')
  <2>1. SUFFICES ASSUME pc \in Between, ~stopLost'
                 PROVE  Bounded("wind", Tail(queue), motor')
    BY <1>1
  <2>2. Bounded("wind", queue, motor)
    BY <1>1, <2>1 DEF Inv, WindOK
  <2>3. QED
    BY <1>1, <2>1, <2>2, TailBounded
<1>3. pc \in Winding \cup {"stopped"} =>
        /\ Lacks(queue', "wind") /\ Head(queue).op # "wind"
        /\ motor' = "wind" => motor = "wind"
  BY <1>1, TailStops DEF Inv, WindOK
<1>4. pc = "stopped" /\ ~stopLost' /\ motor' = "wind" => StopAfter(queue', 0)
  BY <1>1, <1>3, TailStops DEF Inv, WindOK
<1>5. QED
  BY <1>1, <1>2, <1>3, <1>4 DEF Inv, WindOK

(* What the unit does alone only ends motion, and frames tell the truth.   *)
LEMMA IdlesKeeps ==
  ASSUME Inv, Idles, Still
  PROVE  QueueOK' /\ WindOK' /\ AssistOK'
<1>1. /\ UNCHANGED <<queue, answer, stopLost, pc, claim, arming, adrift>>
      /\ motor' \in {motor, "idle"}
      /\ \/ frame' = frame /\ beat' = beat
         \/ frame'.ready = (motor = "idle") /\ beat' /\ motor' = motor
  BY DEF Idles, Still, command, told, Shown
<1>2. QueueOK'
  BY <1>1 DEF Inv, QueueOK
<1>3. WindOK'
  <2>1. motor' = "wind" => motor = "wind"
    BY <1>1
  <2>2. Bounded("wind", queue, motor) => Bounded("wind", queue', motor')
    BY <1>1, <2>1 DEF Bounded
  <2>3. pc \in Winding /\ beat' /\ frame'.ready => motor' # "wind"
    BY <1>1, <2>1 DEF Inv, WindOK
  <2>4. QED
    BY <1>1, <2>1, <2>2, <2>3 DEF Inv, WindOK
<1>4. AssistOK'
  BY <1>1 DEF Inv, AssistOK
<1>5. QED
  BY <1>2, <1>3, <1>4

LEMMA UnitStep ==
  ASSUME Inv, UnitNext \/ UnitFails, Still
  PROVE  Inv'
<1>1. TypeOK /\ UnitTypeOK /\ queue \in Seq(Request)
  BY DEF Inv, TypeOK, UnitTypeOK
<1>2. UnitTypeOK' /\ (Takes \/ Idles)
  BY <1>1, TransactStep, LossStep, OwnStep DEF UnitNext, UnitFails
<1>3. TypeOK'
  BY <1>1, <1>2 DEF TypeOK, Still, path, command, told
<1>4. ControlOK'
  BY DEF Inv, ControlOK, AssistGivenBack, Still, path, command, told, Monitored
<1>5. TruthOK'
  <2>1. Shown.slot = slot
    BY DEF Shown
  <2>2. /\ slot = "empty" => slot' = "empty"
        /\ frame' = frame \/ (frame'.slot = slot /\ slot' = slot)
    BY <1>2, <2>1 DEF Takes, Idles
  <2>3. QED
    BY <2>2
       DEF Inv, TruthOK, TrueMeansUnloaded, Still, path, command, RdmMade,
           ToolheadMade, ShownEmpty
<1>6. QueueOK' /\ WindOK' /\ AssistOK'
  BY <1>1, <1>2, AssistTaken, QueueTaken, WindTaken, IdlesKeeps
<1>7. QED
  BY <1>3, <1>4, <1>5, <1>6 DEF Inv

-----------------------------------------------------------------------------
(* The driver *)

(* A queue nobody waits on. *)
Quiet(q) == (\A i \in DOMAIN q : ~q[i].live) /\ Lacks(q, "assist")

LEMMA QuietHere ==
  ASSUME Inv, ~arming, pc # "await"
  PROVE  Quiet(queue)
  BY DEF Inv, QueueOK, Quiet, Lacks

LEMMA QuietKept ==
  ASSUME Quiet(queue'), pc' # "await"
  PROVE  QueueOK'
  BY DEF QueueOK, Quiet, Lacks

LEMMA QuietStop ==
  ASSUME NEW q \in Seq(Request), Quiet(q)
  PROVE  /\ Append(q, Tells("stop")) \in Seq(Request)
         /\ Quiet(Append(q, Tells("stop")))
<1>1. /\ Tells("stop") \in Request /\ ~Tells("stop").live
      /\ Tells("stop").op = "stop"
  BY RequestTypes
<1>2. Append(q, Tells("stop")) \in Seq(Request)
        /\ Lacks(Append(q, Tells("stop")), "assist")
  BY <1>1, AppendedStops DEF Quiet
<1>3. \A i \in DOMAIN Append(q, Tells("stop")) : ~Append(q, Tells("stop"))[i].live
  BY <1>1, AppendedType DEF Quiet
<1>4. QED
  BY <1>2, <1>3 DEF Quiet

LEMMA StopStops ==
  ASSUME NEW q \in Seq(Request), NEW m
  PROVE  /\ Bounded("wind", Append(q, Tells("stop")), m)
         /\ StopAfter(Append(q, Tells("stop")), 0)
         /\ Lacks(q, "wind") => Lacks(Append(q, Tells("stop")), "wind")
  BY AppendedStops, RequestTypes

LEMMA ChannelType ==
  ASSUME UnitTypeOK, UNCHANGED channel
  PROVE  UnitTypeOK'
  BY DEF UnitTypeOK, channel, unit, link, seen

LEMMA CallStep ==
  ASSUME Inv, NEW tc \in BOOLEAN, CallRmd(tc) \/ CallSmart(tc)
  PROVE  Inv'
<1>1. /\ TypeOK /\ UnitTypeOK /\ queue \in Seq(Request) /\ Quiet(queue)
      /\ pc = "idle" /\ ~arming
  BY QuietHere DEF Inv, TypeOK, UnitTypeOK, CallRmd, CallSmart, Call
<1>2. /\ UNCHANGED <<unit, answer, seen, stopLost, faults, path, arming, adrift>>
      /\ calls' \in 0 .. MaxCalls /\ toolchange' = tc /\ try' = 0
      /\ early' = FALSE /\ cleared' = FALSE /\ first' = FALSE
      /\ result' = FALSE /\ refused' = FALSE
      /\ captured' \in {"none", claim}
  BY <1>1, BoundsAreNat DEF CallRmd, CallSmart, Call, TypeOK
<1>3. CASE /\ pc' = "idle" /\ ~rdm /\ phase' = "rmd" /\ outcome' = "false"
           /\ UNCHANGED <<claim, queue>>
  <2>1. TypeOK'
    <3>1. /\ captured' \in Lanes /\ claim' \in Lanes /\ try' \in 0 .. MaxRetries
          /\ adrift' \in BOOLEAN /\ arming' \in BOOLEAN
      BY <1>1, <1>2, <1>3, BoundsAreNat DEF TypeOK, Lanes
    <3>2. UnitTypeOK'
      BY <1>1, <1>2, <1>3 DEF UnitTypeOK, unit, seen
    <3>3. QED
      BY <1>1, <1>2, <1>3, <3>1, <3>2 DEF TypeOK, path
  <2>2. ControlOK' /\ TruthOK'
    BY <1>1, <1>2, <1>3
       DEF Inv, ControlOK, TruthOK, AssistGivenBack, TrueMeansUnloaded, path,
           unit, seen, RdmMade, ToolheadMade, ShownEmpty, Monitored
  <2>3. QueueOK'
    BY <1>1, <1>3, QuietKept
  <2>4. WindOK' /\ AssistOK'
    BY <1>1, <1>2, <1>3
       DEF Inv, WindOK, AssistOK, unit, seen, Between, Winding
  <2>5. QED
    BY <2>1, <2>2, <2>3, <2>4 DEF Inv
<1>4. CASE /\ pc' = "ready" /\ outcome' = "none" /\ TakesAssist
           /\ phase' = "smart" \/ (phase' = "rmd" /\ rdm)
  <2>1. /\ claim' = "none"
        /\ claim = "none" => queue' = queue
        /\ claim # "none" => queue' = Append(queue, Tells("stop"))
    BY <1>4 DEF TakesAssist
  <2>2. queue' \in Seq(Request) /\ Quiet(queue')
    BY <1>1, <2>1, QuietStop
  <2>3. TypeOK'
    <3>1. /\ captured' \in Lanes /\ claim' \in Lanes /\ try' \in 0 .. MaxRetries
          /\ adrift' \in BOOLEAN /\ arming' \in BOOLEAN
      BY <1>1, <1>2, <2>1, BoundsAreNat DEF TypeOK, Lanes
    <3>2. UnitTypeOK'
      BY <1>1, <1>2, <2>2 DEF UnitTypeOK, unit, seen
    <3>3. QED
      BY <1>1, <1>2, <1>4, <3>1, <3>2 DEF TypeOK, path
  <2>4. ControlOK' /\ TruthOK'
    BY <1>1, <1>2, <1>4, <2>1
       DEF Inv, ControlOK, TruthOK, AssistGivenBack, TrueMeansUnloaded, path,
           unit, seen, RdmMade, ToolheadMade, ShownEmpty, Monitored
  <2>5. QueueOK'
    BY <1>4, <2>2, QuietKept
  <2>6. WindOK'
    BY <1>1, <1>2, <1>4, <2>1, StopStops
       DEF Inv, WindOK, unit, Between, Winding
  <2>7. AssistOK'
    BY <1>1, <1>2, <2>1, StopStops DEF Inv, AssistOK, unit
  <2>8. QED
    BY <2>3, <2>4, <2>5, <2>6, <2>7 DEF Inv
<1>5. QED
  BY <1>3, <1>4 DEF CallRmd, CallSmart, Ends

(* A retract that raises sends its stop behind what it had queued. *)
LEMMA RaisesStep ==
  ASSUME Inv, Raises, pc \notin {"idle", "validate", "restore", "rearm"},
         faults' \in 0 .. MaxFaults, try' \in 0 .. MaxRetries,
         UNCHANGED <<unit, seen, stopLost, path, early, cleared, first,
                     toolchange, claim, captured, arming, told>>
  PROVE  Inv'
<1>1. /\ TypeOK /\ UnitTypeOK /\ queue \in Seq(Request)
      /\ ~arming /\ claim = "none" /\ (Monitored => rdm)
  BY DEF Inv, TypeOK, UnitTypeOK, ControlOK
<1>2. /\ queue' = Append(Orphaned(queue), Tells("stop")) /\ answer' = "none"
      /\ phase' = phase
      /\ Monitored => /\ pc' = "restore" /\ result' = cleared
                      /\ outcome' = outcome
      /\ ~Monitored => pc' = "idle" /\ outcome' = "raised" /\ result' = result
  BY DEF Raises, Ends
<1>3. Lacks(queue, "assist")
  BY <1>1 DEF Inv, QueueOK, Lacks
<1>4. Orphaned(queue) \in Seq(Request) /\ Quiet(Orphaned(queue))
  BY <1>1, <1>3, OrphanedType, OrphanedStops DEF Quiet
<1>5. /\ queue' \in Seq(Request) /\ Quiet(queue')
      /\ Bounded("wind", queue', motor) /\ StopAfter(queue', 0)
  BY <1>2, <1>4, QuietStop, StopStops
<1>6. TypeOK'
  BY <1>1, <1>2, <1>5 DEF TypeOK, UnitTypeOK, unit, seen, path, told
<1>7. ControlOK' /\ TruthOK'
  BY <1>1, <1>2
     DEF Inv, ControlOK, TruthOK, AssistGivenBack, TrueMeansUnloaded, path,
         unit, seen, told, RdmMade, ToolheadMade, ShownEmpty, Monitored
<1>8. QueueOK'
  BY <1>2, <1>5, QuietKept
<1>9. WindOK' /\ AssistOK'
  BY <1>2, <1>5 DEF WindOK, AssistOK, unit, Between, Winding
<1>10. QED
  BY <1>6, <1>7, <1>8, <1>9 DEF Inv

LEMMA TimeoutStep ==
  ASSUME Inv, WaitTimesOut
  PROVE  Inv'
<1>1. faults' \in 0 .. MaxFaults /\ try' \in 0 .. MaxRetries
  BY DEF Inv, TypeOK, UnitTypeOK, WaitTimesOut
<1>2. QED
  BY <1>1, RaisesStep DEF WaitTimesOut

(* An attempt goes behind the earlier ones, which nobody reads any more.   *)
LEMMA AttemptStep ==
  ASSUME Inv, Attempt("wind"), pc \in {"ready", "await"}, pc' = "await",
         faults' \in 0 .. MaxFaults, try' \in 0 .. MaxRetries,
         early' \in {early, FALSE},
         UNCHANGED <<unit, seen, stopLost, path, phase, cleared, first,
                     toolchange, claim, captured, arming, result, outcome, told>>
  PROVE  Inv'
<1>1. /\ TypeOK /\ UnitTypeOK /\ queue \in Seq(Request)
      /\ ~arming /\ claim = "none" /\ outcome = "none"
  BY DEF Inv, TypeOK, UnitTypeOK, ControlOK
<1>2. queue' = Append(Orphaned(queue), Asks("wind")) /\ answer' = "none"
  BY DEF Attempt
<1>3. /\ Orphaned(queue) \in Seq(Request) /\ Lacks(Orphaned(queue), "assist")
      /\ \A i \in DOMAIN Orphaned(queue) : ~Orphaned(queue)[i].live
  BY <1>1, OrphanedType, OrphanedStops DEF Inv, QueueOK, Lacks
<1>4. Asks("wind") \in Request /\ Asks("wind").op = "wind"
  BY RequestTypes DEF Asks
<1>5. /\ queue' \in Seq(Request) /\ Lacks(queue', "assist")
      /\ \A i \in DOMAIN queue' : queue'[i].live => i = Len(queue')
      /\ StopAfter(queue, 0) => StopAfter(queue', 0)
  BY <1>1, <1>2, <1>3, <1>4, AppendedType, AppendedStops, OrphanedStops
<1>6. TypeOK'
  <2>1. early' \in BOOLEAN
    BY <1>1 DEF TypeOK
  <2>2. QED
    BY <1>1, <1>2, <1>5, <2>1 DEF TypeOK, UnitTypeOK, unit, seen, path, told
<1>7. ControlOK' /\ TruthOK'
  <2>1. ControlOK'
    BY <1>1 DEF Inv, ControlOK, AssistGivenBack, path, told, Monitored
  <2>2. early' => early
    OBVIOUS
  <2>3. TruthOK'
    BY <1>1, <2>2
       DEF Inv, TruthOK, TrueMeansUnloaded, path, unit, seen, RdmMade, ShownEmpty
  <2>4. QED
    BY <2>1, <2>3
<1>8. QueueOK'
  BY <1>2, <1>5 DEF QueueOK, Lacks
<1>9. WindOK' /\ AssistOK'
  BY <1>1, <1>5 DEF Inv, WindOK, AssistOK, unit, told, Between, Winding
<1>10. QED
  BY <1>6, <1>7, <1>8, <1>9 DEF Inv

LEMMA SendsStep ==
  ASSUME Inv, Sends
  PROVE  Inv'
<1>1. faults' \in 0 .. MaxFaults /\ try' \in 0 .. MaxRetries
  BY BoundsAreNat DEF Inv, TypeOK, UnitTypeOK, Sends
<1>2. QED
  BY <1>1, AttemptStep DEF Sends

LEMMA RetriesStep ==
  ASSUME Inv, RetriesRetract
  PROVE  Inv'
<1>1. TypeOK /\ UnitTypeOK /\ pc = "await" /\ TriesAgain
  BY DEF Inv, TypeOK, RetriesRetract
<1>2. faults' \in 0 .. MaxFaults
  BY <1>1, FaultsAreNat DEF RetriesRetract, Unanswered, Fault, UnitTypeOK
<1>3. UNCHANGED <<unit, seen, stopLost, path, early, cleared, first, toolchange,
                  claim, captured, arming, told>>
  BY DEF RetriesRetract
<1>4. CASE try < MaxRetries
  <2>1. Attempt("wind") /\ try' = try + 1 /\ UNCHANGED <<pc, phase, result, outcome>>
    BY <1>1, <1>4 DEF TriesAgain
  <2>2. try' \in 0 .. MaxRetries
    BY <1>1, <1>4, <2>1, BoundsAreNat DEF TypeOK
  <2>3. QED
    BY <1>1, <1>2, <1>3, <2>1, <2>2, AttemptStep
<1>5. CASE ~(try < MaxRetries)
  <2>1. Raises /\ try' = try
    BY <1>1, <1>5 DEF TriesAgain
  <2>2. try' \in 0 .. MaxRetries
    BY <1>1, <2>1 DEF TypeOK
  <2>3. QED
    BY <1>1, <1>2, <1>3, <2>1, <2>2, RaisesStep
<1>6. QED
  BY <1>4, <1>5

LEMMA AcceptedStep ==
  ASSUME Inv, Accepted
  PROVE  Inv'
<1>1. /\ TypeOK /\ pc = "await" /\ pc' = "dwell" /\ queue = <<>>
      /\ beat' = FALSE
      /\ UNCHANGED <<unit, link, frame, stopLost, faults, path, phase, try,
                     early, cleared, toolchange, claim, captured, arming,
                     result, outcome, told>>
  BY DEF Inv, QueueOK, Accepted
<1>2. TypeOK'
  <2>1. first' \in BOOLEAN
    BY DEF Accepted, ToolheadMade
  <2>2. UnitTypeOK'
    BY <1>1 DEF TypeOK, UnitTypeOK, unit, link
  <2>3. QED
    BY <1>1, <2>1, <2>2 DEF TypeOK, path, told
<1>3. ControlOK'
  BY <1>1 DEF Inv, ControlOK, AssistGivenBack, path, told, Monitored
<1>4. TruthOK'
  BY <1>1
     DEF Inv, TruthOK, TrueMeansUnloaded, path, unit, RdmMade, ToolheadMade,
         ShownEmpty
<1>5. QueueOK' /\ WindOK' /\ AssistOK'
  BY <1>1
     DEF Inv, QueueOK, WindOK, AssistOK, Lacks, Between, Winding, unit, link, told
<1>6. QED
  BY <1>2, <1>3, <1>4, <1>5 DEF Inv

(* A look of the dwell or of the wait after it, that stops the retract or  *)
(* lets it run on past the RDM.                                            *)
LEMMA StopStep ==
  ASSUME Inv, pc \in Winding, StopRetract,
         pc' \in {pc, "stopped"} \/ (pc = "overshooting" /\ pc' = "settle"),
         pc' \in {"settle", "overshooting"} => pc \in {"settle", "overshooting"},
         early' = early \/ (early' = TRUE /\ ShownEmpty),
         UNCHANGED <<unit, answer, seen, stopLost, faults, path, phase, try,
                     cleared, first, toolchange, claim, captured, arming, result,
                     outcome, told>>
  PROVE  Inv'
<1>1. /\ TypeOK /\ UnitTypeOK /\ queue \in Seq(Request)
      /\ ~arming /\ claim = "none" /\ outcome = "none" /\ pc # "await"
      /\ pc' \in Winding \cup {"stopped"}
      /\ slot = "empty" \/ ~ShownEmpty
  BY DEF Inv, TypeOK, UnitTypeOK, ControlOK, TruthOK, Winding
<1>2. queue' = Append(queue, Tells("stop"))
  BY DEF StopRetract, Later
<1>3. /\ queue' \in Seq(Request) /\ Quiet(queue')
      /\ StopAfter(queue', 0) /\ Lacks(queue', "wind")
  BY <1>1, <1>2, QuietHere, QuietStop, StopStops DEF Inv, WindOK
<1>4. TypeOK'
  <2>1. UnitTypeOK'
    BY <1>1, <1>3 DEF UnitTypeOK, unit, seen
  <2>2. early' \in BOOLEAN
    BY <1>1 DEF TypeOK
  <2>3. QED
    BY <1>1, <2>1, <2>2 DEF TypeOK, path, told, Winding
<1>5. ControlOK'
  BY <1>1 DEF Inv, ControlOK, AssistGivenBack, path, told, Monitored, Winding
<1>6. TruthOK'
  BY <1>1
     DEF Inv, TruthOK, TrueMeansUnloaded, path, unit, seen, RdmMade,
         ToolheadMade, ShownEmpty, Winding
<1>7. QueueOK'
  BY <1>1, <1>3, QuietKept DEF Winding
<1>8. WindOK' /\ AssistOK'
  BY <1>1, <1>3
     DEF Inv, WindOK, AssistOK, unit, seen, told, Between, Winding
<1>9. QED
  BY <1>4, <1>5, <1>6, <1>7, <1>8 DEF Inv

LEMMA SeesEmptyStep ==
  ASSUME Inv, SeesEmpty
  PROVE  Inv'
  BY StopStep DEF SeesEmpty, Winding

LEMMA StopsPastStep ==
  ASSUME Inv, StopsPastClear
  PROVE  Inv'
<1>1. early' = early /\ pc \in {"overshoot", "overshooting"}
  BY DEF StopsPastClear
<1>2. /\ pc = "overshoot" => pc' = "stopped"
      /\ pc = "overshooting" => pc' = "settle"
  BY DEF StopsPastClear
<1>3. QED
  BY <1>1, <1>2, StopStep DEF StopsPastClear, Winding

LEMMA LooksStep ==
  ASSUME Inv, SeesClear \/ DwellEnds
  PROVE  Inv'
<1>1. /\ TypeOK /\ ~arming /\ claim = "none" /\ outcome = "none"
      /\ pc \in {"dwell", "settle"} /\ pc' \in Winding
      /\ pc' \in {"settle", "overshooting"} => beat
      /\ cleared' \in {cleared, TRUE} /\ (cleared' => cleared \/ ~RdmMade)
      /\ UNCHANGED <<channel, path, phase, try, early, first, toolchange, claim,
                     captured, arming, result, outcome, told>>
  <2>1. TypeOK /\ (pc # "idle" => ~arming /\ outcome = "none")
          /\ (pc # "idle" => claim = "none" \/ pc = "rearm")
          /\ (pc = "settle" => beat)
    BY DEF Inv, ControlOK, WindOK
  <2>2. CASE SeesClear
    BY <2>1, <2>2 DEF SeesClear, Winding
  <2>3. CASE DwellEnds
    BY <2>1, <2>3 DEF DwellEnds, Winding
  <2>4. QED
    BY <2>2, <2>3
<1>2. TypeOK'
  <2>1. UnitTypeOK' /\ cleared' \in BOOLEAN
    BY <1>1, ChannelType DEF TypeOK
  <2>2. QED
    BY <1>1, <2>1 DEF TypeOK, path, told, Winding
<1>3. ControlOK'
  BY <1>1
     DEF Inv, ControlOK, AssistGivenBack, path, told, Monitored, Winding
<1>4. TruthOK'
  BY <1>1
     DEF Inv, TruthOK, TrueMeansUnloaded, channel, path, unit, seen, RdmMade,
         ToolheadMade, ShownEmpty, Winding
<1>5. QueueOK' /\ WindOK' /\ AssistOK'
  BY <1>1
     DEF Inv, QueueOK, WindOK, AssistOK, channel, unit, link, seen, told,
         Between, Winding
<1>6. QED
  BY <1>2, <1>3, <1>4, <1>5 DEF Inv

(* A retract hands back only while nothing winds without its stop.         *)
LEMMA ReturnsStep ==
  ASSUME Inv, NEW empty \in BOOLEAN, Returns(empty),
         pc \in {"ready", "settle", "stopped"}, frame.ready,
         early' \in {early, TRUE}, early' \/ empty => slot = "empty",
         UNCHANGED <<channel, path, try, cleared, first, toolchange, claim,
                     captured, arming, told>>
  PROVE  Inv'
<1>1. /\ TypeOK /\ ~arming /\ claim = "none" /\ outcome = "none"
      /\ (Monitored => rdm) /\ outcome' = outcome
      /\ pc' \in {"restore", "validate", "ready"}
      /\ pc' = "restore" => Monitored /\ phase' = phase
      /\ pc' = "validate" => ~Monitored /\ phase' = phase
      /\ pc' = "ready" => phase' = "extra"
      /\ result' = (empty \/ cleared)
  BY DEF Inv, ControlOK, Returns
<1>2. TypeOK'
  <2>1. early' \in BOOLEAN /\ result' \in BOOLEAN /\ phase' \in {phase, "extra"}
    BY <1>1 DEF TypeOK
  <2>2. UnitTypeOK'
    BY <1>1, ChannelType DEF TypeOK
  <2>3. QED
    BY <1>1, <2>1, <2>2 DEF TypeOK, path, told
<1>3. ControlOK'
  BY <1>1 DEF Inv, ControlOK, AssistGivenBack, path, told, Monitored, TypeOK
<1>4. TruthOK'
  BY <1>1
     DEF Inv, TruthOK, TrueMeansUnloaded, channel, path, unit, seen, RdmMade,
         ToolheadMade, ShownEmpty
<1>5. QueueOK'
  BY <1>1 DEF Inv, QueueOK, channel, link
<1>6. ~stopLost => Bounded("wind", queue, motor)
  BY DEF Inv, WindOK, Bounded, Lacks, Between, Winding
<1>7. WindOK' /\ AssistOK'
  BY <1>1, <1>6
     DEF Inv, WindOK, AssistOK, channel, unit, link, seen, told, Between, Winding
<1>8. QED
  BY <1>2, <1>3, <1>4, <1>5, <1>7 DEF Inv

LEMMA SkipsStep ==
  ASSUME Inv, SkipsEmpty
  PROVE  Inv'
<1>1. slot = "empty"
  BY DEF Inv, TruthOK, SkipsEmpty
<1>2. QED
  BY <1>1, ReturnsStep DEF SkipsEmpty

LEMMA RetractReturnsStep ==
  ASSUME Inv, RetractReturns
  PROVE  Inv'
<1>1. early \in BOOLEAN /\ (early => slot = "empty")
  BY DEF Inv, TypeOK, TruthOK
<1>2. QED
  BY <1>1, ReturnsStep DEF RetractReturns

LEMMA ValidatesStep ==
  ASSUME Inv, Validates
  PROVE  Inv'
<1>1. /\ TypeOK /\ ~arming /\ claim = "none" /\ pc = "validate"
      /\ phase \in {"smart", "extra"} /\ captured' = claim
      /\ UNCHANGED <<channel, path, try, early, first, toolchange, claim,
                     arming, result, told>>
      /\ \/ /\ rdm /\ PathClear /\ pc' = "idle" /\ outcome' = "true"
            /\ UNCHANGED <<phase, cleared>>
         \/ /\ rdm /\ pc' = "ready" /\ phase' = "nested" /\ cleared' = FALSE
            /\ outcome' = outcome
         \/ /\ ~rdm /\ pc' = "idle" /\ UNCHANGED <<phase, cleared>>
            /\ outcome' \in {"true", "false"}
            /\ outcome' = "true" => ~ToolheadMade
  BY DEF Inv, ControlOK, Validates, Ends, Said
<1>2. TypeOK'
  <2>1. UnitTypeOK' /\ cleared' \in BOOLEAN /\ captured' \in Lanes
    BY <1>1, ChannelType DEF TypeOK, Lanes
  <2>2. QED
    BY <1>1, <2>1 DEF TypeOK, path, told
<1>3. ControlOK'
  BY <1>1 DEF Inv, ControlOK, AssistGivenBack, path, told, Monitored
<1>4. TruthOK'
  BY <1>1
     DEF Inv, TruthOK, TrueMeansUnloaded, channel, path, unit, seen, PathClear,
         RdmMade, ToolheadMade, ShownEmpty
<1>5. QueueOK' /\ WindOK' /\ AssistOK'
  BY <1>1
     DEF Inv, QueueOK, WindOK, AssistOK, channel, unit, link, seen, told,
         Between, Winding
<1>6. QED
  BY <1>2, <1>3, <1>4, <1>5 DEF Inv

(* The monitored unload is over without an assist to give back. *)
LEMMA RestoresStep ==
  ASSUME Inv, Restores
  PROVE  Inv'
<1>1. /\ TypeOK /\ UnitTypeOK /\ queue \in Seq(Request)
      /\ pc = "restore" /\ ~arming /\ claim = "none" /\ outcome = "none"
      /\ Monitored /\ rdm /\ Quiet(queue)
      /\ UNCHANGED <<unit, answer, seen, stopLost, faults, path, phase, try,
                     early, cleared, first, toolchange, captured, arming, result,
                     told>>
  BY QuietHere DEF Inv, TypeOK, UnitTypeOK, ControlOK, Restores
<1>2. ~stopLost => Bounded("wind", queue, motor)
  BY <1>1 DEF Inv, WindOK, Between
<1>3. AssistOK
  BY DEF Inv
<1>4. CASE GivesBack
  <2>1. /\ ~toolchange /\ captured # "none" /\ claim' = captured
        /\ pc' = "rearm" /\ UNCHANGED <<queue, outcome>>
    BY <1>4 DEF Restores, GivesBack
  <2>2. TypeOK'
    <3>1. UnitTypeOK'
      BY <1>1, <2>1 DEF UnitTypeOK, unit, seen
    <3>2. QED
      BY <1>1, <2>1, <3>1 DEF TypeOK, path, told
  <2>3. ControlOK'
    BY <1>1, <2>1 DEF Inv, ControlOK, AssistGivenBack, path, told, Monitored
  <2>4. TruthOK'
    BY <1>1, <2>1
       DEF Inv, TruthOK, TrueMeansUnloaded, path, unit, seen, RdmMade, ShownEmpty
  <2>5. QueueOK'
    BY <1>1, <2>1, QuietKept
  <2>6. WindOK' /\ AssistOK'
    BY <1>1, <1>2, <1>3, <2>1
       DEF WindOK, AssistOK, unit, told, Between, Winding
  <2>7. QED
    BY <2>2, <2>3, <2>4, <2>5, <2>6 DEF Inv
<1>5. CASE ~GivesBack
  <2>1. /\ toolchange \/ captured = "none"
        /\ claim' = claim /\ pc' = "idle"
        /\ outcome' \in {"true", "false", "raised"}
        /\ outcome' = "true" => result
        /\ queue' \in {queue, Append(queue, Tells("stop"))}
    BY <1>1, <1>5 DEF Restores, GivesBack, Finishes, Ends, Said
  <2>2. queue' \in Seq(Request) /\ Quiet(queue')
    BY <1>1, <2>1, QuietStop
  <2>3. TypeOK'
    <3>1. UnitTypeOK'
      BY <1>1, <2>2 DEF UnitTypeOK, unit, seen
    <3>2. QED
      BY <1>1, <2>1, <3>1 DEF TypeOK, path, told
  <2>4. ControlOK'
    BY <1>1, <2>1 DEF Inv, ControlOK, AssistGivenBack, path, told, Monitored
  <2>5. TruthOK'
    BY <1>1, <2>1
       DEF Inv, TruthOK, TrueMeansUnloaded, path, unit, seen, RdmMade, ShownEmpty
  <2>6. QueueOK'
    BY <2>1, <2>2, QuietKept
  <2>7. WindOK' /\ AssistOK'
    BY <1>1, <1>2, <1>3, <2>1, StopStops
       DEF WindOK, AssistOK, unit, told, Between, Winding
  <2>8. QED
    BY <2>3, <2>4, <2>5, <2>6, <2>7 DEF Inv
<1>6. QED
  BY <1>4, <1>5

(* The assist asked for is the last request, and its answer is awaited.    *)
LEMMA RearmsStep ==
  ASSUME Inv, Rearms
  PROVE  Inv'
<1>1. /\ TypeOK /\ UnitTypeOK /\ queue \in Seq(Request)
      /\ pc = "rearm" /\ Monitored /\ rdm /\ phase # "nested"
      /\ claim = captured /\ captured # "none" /\ ~toolchange
      /\ UNCHANGED <<unit, seen, stopLost, faults, path, phase, try, early,
                     cleared, first, toolchange, claim, captured, result, told>>
      /\ arming' = TRUE /\ answer' = "none"
  BY DEF Inv, TypeOK, UnitTypeOK, ControlOK, Rearms
<1>2. /\ pc' = "idle" /\ outcome' \in {"true", "false"}
      /\ outcome' = "true" => result
      /\ queue' = Append(Orphaned(queue), Asks("assist"))
  BY <1>1 DEF Rearms, Finishes, Ends, Said
<1>3. Asks("assist") \in Request /\ Asks("assist").op = "assist"
        /\ Asks("assist").live
  BY DEF Asks, Request, Ops
<1>4. /\ Orphaned(queue) \in Seq(Request) /\ Lacks(Orphaned(queue), "assist")
      /\ \A i \in DOMAIN Orphaned(queue) : ~Orphaned(queue)[i].live
  <2>1. Lacks(queue, "assist")
    BY <1>1 DEF Inv, QueueOK, ControlOK, Lacks
  <2>2. QED
    BY <1>1, <2>1, OrphanedType, OrphanedStops
<1>5. /\ queue' \in Seq(Request)
      /\ \A i \in DOMAIN queue' : queue'[i].live => i = Len(queue')
      /\ StopAfter(queue, 0) => StopAfter(queue', 0)
      /\ Bounded("wind", queue, motor) => Bounded("wind", queue', motor)
  BY <1>1, <1>2, <1>3, <1>4, AppendedType, AppendedStops, OrphanedStops
<1>6. \A i \in DOMAIN queue' :
        queue'[i].live <=> queue'[i].op = "assist"
  BY <1>2, <1>3, <1>4, Appended DEF Lacks
<1>7. TypeOK'
  <2>1. UnitTypeOK'
    BY <1>1, <1>5 DEF UnitTypeOK, unit, seen
  <2>2. QED
    BY <1>1, <1>2, <2>1 DEF TypeOK, path, told
<1>8. ControlOK'
  BY <1>1, <1>2 DEF Inv, ControlOK, AssistGivenBack, path, told, Monitored
<1>9. TruthOK'
  BY <1>1, <1>2
     DEF Inv, TruthOK, TrueMeansUnloaded, path, unit, seen, RdmMade, ShownEmpty
<1>10. QueueOK'
  BY <1>1, <1>2, <1>5, <1>6 DEF QueueOK
<1>11. WindOK' /\ AssistOK'
  BY <1>1, <1>2, <1>5
     DEF Inv, WindOK, AssistOK, unit, told, Between, Winding
<1>12. QED
  BY <1>7, <1>8, <1>9, <1>10, <1>11 DEF Inv

LEMMA RearmTimeoutStep ==
  ASSUME Inv, RearmTimesOut
  PROVE  Inv'
<1>1. /\ TypeOK /\ pc = "rearm" /\ ~toolchange /\ ~arming /\ pc' = "idle"
      /\ outcome' = "raised"
      /\ UNCHANGED <<channel, path, phase, try, early, cleared, first,
                     toolchange, claim, captured, arming, result, told>>
  BY DEF Inv, ControlOK, RearmTimesOut, Ends
<1>2. TypeOK'
  <2>1. UnitTypeOK'
    BY <1>1, ChannelType DEF TypeOK
  <2>2. QED
    BY <1>1, <2>1 DEF TypeOK, path, told
<1>3. ControlOK'
  BY <1>1 DEF Inv, ControlOK, AssistGivenBack, path, told, Monitored
<1>4. TruthOK'
  BY <1>1
     DEF Inv, TruthOK, TrueMeansUnloaded, channel, path, unit, seen, RdmMade,
         ShownEmpty
<1>5. QueueOK' /\ WindOK' /\ AssistOK'
  BY <1>1
     DEF Inv, QueueOK, WindOK, AssistOK, channel, unit, link, seen, told,
         Between, Winding
<1>6. QED
  BY <1>2, <1>3, <1>4, <1>5 DEF Inv

(* A claim is dropped on a refusal, which left the unit as it was, or on a *)
(* silence, which is remembered.                                           *)
LEMMA AnsweredStep ==
  ASSUME Inv, AssistAnswered
  PROVE  Inv'
<1>1. /\ TypeOK /\ UnitTypeOK /\ pc = "idle" /\ arming /\ arming' = FALSE
      /\ answer' = "none" /\ claim # "none"
      /\ UNCHANGED <<unit, queue, seen, stopLost, faults, path, pc, phase, try,
                     early, cleared, first, toolchange, captured, result,
                     outcome, calls>>
      /\ \/ UNCHANGED <<claim, refused, adrift>>
         \/ /\ claim' = "none" /\ refused' = TRUE
            /\ adrift' = (adrift \/ answer = "none")
      /\ answer # "none" \/ Silent
  BY DEF Inv, TypeOK, ControlOK, AssistAnswered
<1>2. \A i \in DOMAIN queue : ~queue[i].live
  BY <1>1 DEF Silent, Inv, QueueOK
<1>3. Quiet(queue)
  BY <1>2 DEF Quiet, Lacks, Inv, QueueOK
<1>4. TypeOK'
  <2>1. UnitTypeOK'
    BY <1>1 DEF UnitTypeOK, unit, seen
  <2>2. refused' \in BOOLEAN /\ adrift' \in BOOLEAN /\ claim' \in Lanes
    BY <1>1 DEF TypeOK, Lanes
  <2>3. QED
    BY <1>1, <2>1, <2>2 DEF TypeOK, path
<1>5. ControlOK'
  BY <1>1 DEF Inv, ControlOK, AssistGivenBack, path, Monitored
<1>6. TruthOK'
  BY <1>1
     DEF Inv, TruthOK, TrueMeansUnloaded, path, unit, seen, RdmMade,
         ToolheadMade, ShownEmpty
<1>7. QueueOK'
  BY <1>1, <1>3, QuietKept
<1>8. WindOK'
  BY <1>1 DEF Inv, WindOK, unit, seen, Between, Winding
<1>9. AssistOK'
  <2>1. SUFFICES ASSUME motor = "assist", ~stopLost, ~adrift',
                        ~StopAfter(queue, 0)
                 PROVE  claim' # "none"
    BY <1>1 DEF AssistOK, unit
  <2>2. adrift' = adrift \/ answer # "none"
    BY <1>1, <2>1
  <2>3. ~adrift
    BY <1>1, <2>1
  <2>4. answer # "forbidden"
    BY <1>1, <2>1, <2>3 DEF Inv, AssistOK
  <2>5. CASE answer = "ok"
    BY <1>1, <2>5 DEF AssistAnswered
  <2>6. CASE answer = "none"
    BY <1>1, <2>1, <2>6
  <2>7. QED
    BY <1>1, <2>4, <2>5, <2>6 DEF UnitTypeOK
<1>10. QED
  BY <1>4, <1>5, <1>6, <1>7, <1>8, <1>9 DEF Inv

LEMMA StrandStep ==
  ASSUME Inv, StrandMoves
  PROVE  Inv'
<1>1. /\ TypeOK /\ tip > 0 /\ tip' = tip - 1
      /\ UNCHANGED <<channel, rdm, stub, command, told>>
  BY DEF Inv, StrandMoves
<1>2. tip' \in 0 .. 2 /\ (RdmMade' => RdmMade) /\ (ToolheadMade' => ToolheadMade)
  BY <1>1 DEF TypeOK, RdmMade, ToolheadMade
<1>3. TypeOK'
  <2>1. UnitTypeOK'
    BY <1>1, ChannelType DEF TypeOK
  <2>2. QED
    BY <1>1, <1>2, <2>1 DEF TypeOK, command, told
<1>4. ControlOK'
  BY <1>1 DEF Inv, ControlOK, AssistGivenBack, command, told, Monitored
<1>5. TruthOK'
  BY <1>1, <1>2
     DEF Inv, TruthOK, TrueMeansUnloaded, channel, unit, seen, command, ShownEmpty
<1>6. QueueOK' /\ WindOK' /\ AssistOK'
  BY <1>1
     DEF Inv, QueueOK, WindOK, AssistOK, channel, unit, link, seen, command,
         told, Between, Winding
<1>7. QED
  BY <1>3, <1>4, <1>5, <1>6 DEF Inv

-----------------------------------------------------------------------------
(* The theorems *)
LEMMA InitInv ==
  ASSUME Init
  PROVE  Inv
<1>1. UnitTypeOK
  <2>1. /\ motor \in {"idle", "assist"} /\ slot \in {"ready", "empty"}
        /\ queue = <<>> /\ faults = 0 /\ frame = Shown /\ answer = "none"
        /\ window = FALSE /\ beat = TRUE /\ stopLost = FALSE
    BY DEF Init
  <2>2. frame \in Frame
    BY <2>1 DEF Shown, Frame
  <2>3. queue \in Seq(Request) /\ faults \in 0 .. MaxFaults
    BY <2>1, FaultsAreNat
  <2>4. QED
    BY <2>1, <2>2, <2>3 DEF UnitTypeOK
<1>2. TypeOK
  <2>1. /\ rdm \in BOOLEAN /\ stub \in BOOLEAN /\ tip \in 0 .. 2
        /\ claim \in Lanes /\ captured = "none" /\ pc = "idle" /\ phase = "rmd"
        /\ outcome = "none"
        /\ early = FALSE /\ cleared = FALSE /\ first = FALSE
        /\ toolchange = FALSE /\ arming = FALSE /\ result = FALSE
        /\ refused = FALSE /\ adrift = FALSE
    BY DEF Init
  <2>2. try \in 0 .. MaxRetries /\ calls \in 0 .. MaxCalls
    BY BoundsAreNat DEF Init
  <2>3. QED
    BY <1>1, <2>1, <2>2 DEF TypeOK, Lanes
<1>3. ControlOK /\ TruthOK
  BY DEF Init, ControlOK, TruthOK, AssistGivenBack, TrueMeansUnloaded, Monitored,
         Shown, ShownEmpty
<1>4. QueueOK /\ WindOK /\ AssistOK
  BY DEF Init, QueueOK, WindOK, AssistOK, Bounded, Lacks, Between, Winding
<1>5. QED
  BY <1>2, <1>3, <1>4 DEF Inv

LEMMA NextInv ==
  ASSUME Inv, [Next]_vars
  PROVE  Inv'
<1>1. CASE UNCHANGED vars
  <2>1. UNCHANGED <<channel, path, command, told>> /\ TypeOK
    BY <1>1 DEF vars, Inv
  <2>2. UnitTypeOK'
    BY <2>1, ChannelType DEF TypeOK
  <2>3. TypeOK' /\ ControlOK'
    BY <2>1, <2>2
       DEF Inv, TypeOK, ControlOK, AssistGivenBack, path, command, told, Monitored
  <2>4. TruthOK'
    BY <2>1
       DEF Inv, TruthOK, TrueMeansUnloaded, channel, path, unit, seen, command,
           RdmMade, ToolheadMade, ShownEmpty
  <2>5. QueueOK' /\ WindOK' /\ AssistOK'
    BY <2>1
       DEF Inv, QueueOK, WindOK, AssistOK, channel, unit, link, seen, command, told
  <2>6. QED
    BY <2>3, <2>4, <2>5 DEF Inv
<1>2. ASSUME NEW tc \in BOOLEAN, CallRmd(tc) \/ CallSmart(tc)
      PROVE  Inv'
  BY <1>2, CallStep
<1>3. CASE Driver
  BY <1>3, TimeoutStep, SkipsStep, SendsStep, RetriesStep, AcceptedStep,
     SeesEmptyStep, LooksStep, StopsPastStep, RetractReturnsStep, ValidatesStep,
     RestoresStep, RearmsStep, RearmTimeoutStep, AnsweredStep
     DEF Driver
<1>4. CASE StrandMoves
  BY <1>4, StrandStep
<1>5. CASE (UnitNext \/ UnitFails) /\ Still
  BY <1>5, UnitStep
<1>6. QED
  BY <1>1, <1>2, <1>3, <1>4, <1>5 DEF Next

THEOREM Invariance == Spec => []Inv
<1>1. Init => Inv
  BY InitInv
<1>2. Inv /\ [Next]_vars => Inv'
  BY NextInv
<1>3. QED
  BY <1>1, <1>2, PTL DEF Spec

(* The variables keep their types, the attempts and calls their bounds. *)
THEOREM TypeCorrect == Spec => []TypeOK
<1>1. Inv => TypeOK
  BY DEF Inv
<1>2. QED
  BY <1>1, Invariance, PTL

(* An unload returns True only on a path that is free where it can see it: *)
(* True comes from the switches, from an RDM seen clear by the retract, or *)
(* from a slot shown empty, and none of the three goes back.               *)
THEOREM TrueIsUnloaded == Spec => []TrueMeansUnloaded
<1>1. Inv => TrueMeansUnloaded
  BY DEF Inv, TruthOK
<1>2. QED
  BY <1>1, Invariance, PTL

(* However _retract ends, its last wind has a stop behind it or is over:   *)
(* it raises behind a stop, and returns on a frame that is newer than the  *)
(* accepted retract.                                                       *)
THEOREM LeavesNothingWinding == Spec => []NothingLeftWinding
<1>1. Inv => NothingLeftWinding
  BY DEF Inv, WindOK, Between, NothingLeftWinding, Bounded, StopAfter
<1>2. QED
  BY <1>1, Invariance, PTL

(* In a toolchange the unload arms no assist, and the one it took is       *)
(* stopped.                                                                *)
THEOREM ToolchangeKeepsAssist == Spec => []ToolchangeOwnsAssist
<1>1. Inv => ToolchangeOwnsAssist
  BY DEF Inv, ControlOK, AssistOK, ToolchangeOwnsAssist, StopAfter
<1>2. QED
  BY <1>1, Invariance, PTL

(* Outside one, a monitored unload that returns claims the captured lane   *)
(* again, and only the unit can have it dropped.                           *)
THEOREM GivesAssistBack == Spec => []AssistGivenBack
<1>1. Inv => AssistGivenBack
  BY DEF Inv, ControlOK
<1>2. QED
  BY <1>1, Invariance, PTL
=============================================================================
