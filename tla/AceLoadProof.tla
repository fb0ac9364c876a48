---------------------------- MODULE AceLoadProof ----------------------------
(***************************************************************************)
(* Proofs about AceLoad: type correctness, that nothing enters the melt    *)
(* zone cold, that a hug follows a bite of its own load, that the crossing *)
(* stops at the post-gear switch, that an overrun leaves the assist off,   *)
(* what the ledger of the push promises, that no load leaves the unit      *)
(* feeding, and, where every feed outlasts a heartbeat, that the extruder  *)
(* pushes only under a real assist: for any number of loads, retries and   *)
(* faults.                                                                 *)
(*                                                                         *)
(* The invariant follows a load along its program counter: what the goal   *)
(* of a step is, which claims and flags it may hold, and what is still in  *)
(* the queue while it looks at its sensors.                                *)
(***************************************************************************)
EXTENDS AceLoad, AcePushProof, AceUnitProof

Rewinds == {"rewind", "rewinding", "settle"}
Forward == {"feed", "feeding", "approach", "late", "nursed", "arrived", "bite",
            "cross", "backoff", "step", "ready"}

(* The bowden feed, up to the stop that ends it. *)
Bowdening ==
  \/ pc \in {"align", "approach", "late", "nursed", "arrived"}
  \/ pc \in {"feed", "feeding"} /\ goal = "bowden"
  \/ pc \in {"arm", "armwait"} /\ goal = "late"
  \/ pc = "ready" /\ goal = "met"

(* The head is through the gears and the assist is being made sure of. *)
Done == goal = "load" /\ pc \in {"arm", "armwait", "confirm", "seated"}

(* A feed was accepted: the command looks at its sensors. *)
Paying ==
  \/ pc \in {"approach", "late", "nursed", "arrived", "bite", "cross", "ready"}
  \/ pc \in {"arm", "armwait"} /\ goal = "late"

(* Nothing of the load moves the lane any more. *)
Restful ==
  \/ pc \in {"arm", "armwait", "confirm"} /\ goal # "late"
  \/ pc = "seated"
  \/ pc = "idle" /\ outcome \in {"none", "parked"}

(* What each place of the program is for, and what it may hold. *)
ControlOK ==
  /\ pc \in {"start", "align", "nudge", "seated", "hug"} => goal = "load"
  /\ pc \in {"feed", "feeding"} => goal \in Feeds
  /\ pc \in {"approach", "late", "arrived"} => goal \in {"bowden", "late"}
  /\ pc = "ready" => goal \in {"met", "bitten", "crossed", "step", "nip"}
  /\ pc = "ready" /\ goal = "met" => seat
  /\ pc \in {"bite", "cross"} => goal = pc
  /\ pc \in Rewinds => goal \in {"backoff", "cleanup"}
  /\ pc = "nursed" => goal = "late"
  /\ pc \in {"arm", "armwait"} => goal \in {"load", "late", "unpark"}
  /\ pc = "confirm" => goal \in {"load", "unpark"}
  /\ queued > 0 => pc \in {"bite", "cross"} /\ ~doubt
  /\ doubt => pc \in Watched
  /\ pc \in Forward \ {"nursed"} => ~claim
  /\ pc \in Rewinds /\ goal = "backoff" => ~claim
  /\ pc = "arm" /\ goal \in {"late", "unpark"} => ~claim
  /\ pc = "feeding" => ~arming

(* The nozzle, the stub and the head of the lane. *)
HeatOK ==
  /\ goal \in {"bite", "bitten"} => heat = "hot"
  /\ stubDone /\ Done => heat = "hot"
  /\ pc \in {"hug", "push"} => heat = "hot"

StubOK ==
  /\ pc \in Forward \cup {"align", "nudge"} => ~stubDone
  /\ pc \in {"arm", "armwait"} /\ goal = "late" => ~stubDone
  /\ pc \in Rewinds /\ goal = "backoff" => ~stubDone
  /\ goal \in {"bite", "bitten"} => stub
  /\ stubDone /\ Done => stub
  /\ pc = "hug" => stub

TipOK ==
  /\ seat /\ Bowdening => tip < gears
  /\ goal \in {"cross", "crossed"} => tip + queued <= gears

(* The request that is waited for is the last one. *)
QueueOK ==
  pc = "feeding" =>
    /\ \A i \in DOMAIN queue : queue[i].live =>
         i = Len(queue) /\ queue[i].op = "feed" /\ answer = "none"
    /\ answer # "none" => queue = <<>>

Still(q) == Lacks(q, "feed") /\ Lacks(q, "wind")

(* Once a feed was accepted nothing else can move the lane, and a frame    *)
(* that came since and shows the unit idle is believed.                    *)
MotionOK ==
  /\ Paying => Still(queue)
  /\ Paying /\ beat /\ frame.ready => motor \notin Moves
  /\ FeedsOutlast /\ pc = "ready" /\ goal \in {"met", "bitten", "crossed"}
       => beat

(* The steps to the nip are short, and end by themselves. *)
Nipping ==
  \/ pc = "step"
  \/ pc \in {"feed", "feeding"} /\ goal \in {"step", "nip"}

(* A load makes sure of its assist. *)
Arming == goal = "load" /\ pc \in {"arm", "armwait", "confirm"}

(* The unit has shown an assist, or accepted this one. *)
Assured ==
  \/ frame.assisting
  \/ arming /\ answer = "ok"
  \/ ~arming /\ claim /\ pc # "armwait"

(* What a load knows when it comes to its assist: nothing that could move  *)
(* the lane is queued, and no earlier enable is taken for this one.        *)
ArmOK ==
  /\ frame.ready => ~frame.assisting
  /\ pc \in {"bite", "cross"} \/ (pc = "ready" /\ goal # "met") => ~arming
  /\ pc \in {"backoff", "step"} => goal \notin {"cleanup", "unpark"}
  /\ Arming => Still(queue)

(* A stop waits behind every feed the load is done with, but for a last    *)
(* step to the nip; that one is over when the assist is accepted.          *)
FeedOK ==
  ~stopLost /\ ~overtaken =>
    /\ ~Paying /\ ~Nipping /\ ~Arming /\ pc # "feeding"
         => Bounded("feed", queue, motor)
    /\ Arming /\ Assured => Bounded("feed", queue, motor)
    /\ pc = "ready" /\ goal \in {"met", "bitten", "crossed"}
         => Bounded("feed", queue, motor)
    /\ /\ pc = "feeding" /\ ~Nipping
       /\ (\E i \in DOMAIN queue : queue[i].live) \/ answer = "forbidden"
       => /\ motor = "feed" => StopAfter(queue, 0)
          /\ \A i \in DOMAIN queue :
               queue[i].op = "feed" /\ ~queue[i].live => StopAfter(queue, i)

(* Where feeds outlast a heartbeat nothing moves while nothing of the load *)
(* does; an assist that frames show was running since the enable was sent. *)
RestOK ==
  /\ frame.assisting => confirmed
  /\ Restful => /\ Still(queue) /\ motor \notin Moves
                /\ frame.ready \/ frame.assisting
  /\ pc \in {"seated", "hug", "door", "push"} => confirmed

OverrunOK ==
  push = "overrun" =>
    /\ pc = "idle" /\ ~claim
    /\ ~stopLost => Bounded("assist", queue, motor)

(* The lane, the flags and the program counter have their types. *)
PlaceOK ==
  /\ gears \in GearPlaces /\ tip \in Nat /\ queued \in 0 .. 1
  /\ heat \in {"hot", "heating", "cold"}
  /\ pc \in {"idle", "start", "align", "nudge", "feed", "feeding", "approach",
             "late", "nursed", "arrived", "bite", "cross", "backoff", "step",
             "rewind", "rewinding", "settle", "ready", "arm", "armwait",
             "confirm", "seated", "hug", "door", "push", "cleanup"}
  /\ goal \in Feeds \cup {"met", "bitten", "crossed", "load", "late",
                          "unpark", "backoff", "cleanup"}
  /\ try \in 0 .. MaxRetries + EnableAttempts
  /\ done \in 0 .. CrossCap + BiteLength + BackoffCap + StepCap
  /\ outcome \in Outcomes
  /\ calls \in 0 .. MaxCalls

FlagsOK ==
  /\ seat \in BOOLEAN /\ stub \in BOOLEAN /\ covered \in BOOLEAN
  /\ doubt \in BOOLEAN /\ printing \in BOOLEAN /\ stubDone \in BOOLEAN
  /\ loading \in BOOLEAN /\ claim \in BOOLEAN /\ arming \in BOOLEAN
  /\ overtaken \in BOOLEAN /\ confirmed \in BOOLEAN

LaneOK == PlaceOK /\ FlagsOK

(* What holds of a load however long its feeds are. *)
Inv ==
  /\ UnitTypeOK /\ LaneOK /\ ControlOK
  /\ HeatOK /\ StubOK /\ TipOK
  /\ QueueOK /\ MotionOK /\ OverrunOK
  /\ LedgerOK

-----------------------------------------------------------------------------
(* Exceptions *)

(* What is left of a load, or of an unpark, by an exception: a call that   *)
(* ended, or a recovery whose stop is ahead of everything.                 *)
Failed ==
  /\ pc # "idle" /\ queued = 0 /\ queued' = 0
  /\ doubt' = FALSE
  /\ \/ /\ pc' = "idle" /\ outcome' = "raised" /\ overtaken' = overtaken
        /\ pc # "feeding" /\ ~Paying
        /\ goal \in {"cleanup", "unpark"}
     \/ /\ pc' = "cleanup" /\ outcome' = outcome
        /\ overtaken => overtaken'
        /\ ~overtaken' => Bounded("feed", queue', motor)
  /\ Calms(queue, queue')
  /\ answer' \in {answer, "none"}
  /\ overtaken' \in BOOLEAN /\ loading' \in BOOLEAN
  /\ claim' \in BOOLEAN
  /\ UNCHANGED <<unit, seen, stopLost, book, seat, gears, tip, stub, covered,
                 heat, stubDone, arming, goal, done, printing, confirmed, calls>>
  /\ try' = try
  /\ faults' \in 0 .. MaxFaults

LEMMA UnreadCalms ==
  ASSUME NEW q \in Seq(Request), arming \in BOOLEAN
  PROVE  /\ Unread(q) \in Seq(Request) /\ Calms(q, Unread(q))
  BY OrphanedType, CalmRules DEF Unread

LEMMA FailsLink ==
  ASSUME UnitTypeOK, LaneOK, NEW q, Calms(queue, q), Fails(q)
  PROVE  /\ Calms(queue, queue')
         /\ answer' \in {answer, "none"} /\ doubt' = FALSE
         /\ \/ /\ pc' = "idle" /\ outcome' = "raised" /\ overtaken' = overtaken
               /\ loading' = FALSE /\ goal \in {"cleanup", "unpark"}
            \/ /\ pc' = "cleanup" /\ outcome' = outcome
               /\ overtaken => overtaken'
               /\ ~overtaken' => Bounded("feed", queue', motor)
               /\ overtaken' \in BOOLEAN /\ loading' = loading
<1>1. /\ queue \in Seq(Request) /\ q \in Seq(Request)
      /\ arming \in BOOLEAN /\ overtaken \in BOOLEAN
  BY DEF UnitTypeOK, LaneOK, PlaceOK, FlagsOK, Calms
<1>2. Unread(q) \in Seq(Request) /\ Calms(q, Unread(q))
  BY <1>1, UnreadCalms
<1>3. Calms(queue, Unread(q))
  BY <1>1, <1>2, CalmRules
<1>4. Calms(queue, <<Tells("stop")>> \o Unread(q))
  BY <1>1, <1>2, <1>3, CalmRules
<1>5. ASSUME ~Feeding(q)
      PROVE  Bounded("feed", <<Tells("stop")>> \o Unread(q), motor)
  <2>1. Lacks(q, "feed")
    BY <1>5 DEF Feeding, Lacks
  <2>2. Lacks(Unread(q), "feed")
    BY <1>2, <2>1 DEF Calms, Ops
  <2>3. QED
    BY <1>2, <2>2, RequestTypes, PrependedStops
<1>6. answer' \in {answer, "none"} /\ doubt' = FALSE
  BY DEF Fails
<1>7. CASE goal \in {"cleanup", "unpark"}
  BY <1>1, <1>3, <1>6, <1>7 DEF Fails, Ends
<1>8. CASE goal \notin {"cleanup", "unpark"}
  <2>1. /\ pc' = "cleanup" /\ outcome' = outcome
        /\ queue' = <<Tells("stop")>> \o Unread(q)
        /\ overtaken' = (overtaken \/ Feeding(q)) /\ loading' = loading
    BY <1>8 DEF Fails, Goto, Stop
  <2>2. overtaken' \in BOOLEAN
    BY <1>1, <2>1 DEF Feeding
  <2>3. QED
    BY <1>1, <1>4, <1>5, <1>6, <2>1, <2>2
<1>9. QED
  BY <1>7, <1>8

(* Every exception of a load fails in this way. *)
LEMMA Exceptions ==
  ASSUME Inv,
         \/ FeedForbidden /\ pc' # "feed"
         \/ FeedUnanswered \/ WaitTimesOut \/ Condemns
         \/ Nursed /\ pc' # "arrived"
         \/ MeetsCold \/ NeverCrosses \/ Stuck
         \/ RewindRetries /\ pc' # "rewinding"
         \/ Unconfirmed /\ pc' # "arm"
         \/ SeatsBlind
  PROVE  Failed
<1>1. /\ UnitTypeOK /\ LaneOK /\ ControlOK
      /\ queue \in Seq(Request) /\ queued \in 0 .. 1 /\ claim \in BOOLEAN
      /\ loading \in BOOLEAN /\ overtaken \in BOOLEAN
      /\ faults \in 0 .. MaxFaults
  BY DEF Inv, UnitTypeOK, LaneOK, PlaceOK, FlagsOK
<1> DEFINE Rest == /\ pc # "idle" /\ queued = 0 /\ queued' = 0 /\ claim' \in BOOLEAN
                   /\ UNCHANGED <<unit, seen, stopLost, book, seat, gears, tip,
                                  stub, covered, heat, stubDone, arming, goal,
                                  done, printing, confirmed, calls>>
                   /\ try' = try
                   /\ faults' \in 0 .. MaxFaults
<1>2. SUFFICES ASSUME TRUE
               PROVE  /\ Rest
                      /\ \E q : Calms(queue, q) /\ Fails(q)
  <2>1. goal \in {"cleanup", "unpark"} => pc # "feeding" /\ ~Paying
    BY <1>1 DEF ControlOK, Paying, Feeds
  <2>2. PICK q : Calms(queue, q) /\ Fails(q)
    BY <1>2
  <2>3. QED
    BY <1>1, <1>2, <2>1, <2>2, FailsLink DEF Failed
<1>3. /\ Calms(queue, queue) /\ Calms(queue, Stop \o queue)
      /\ Calms(queue, queue \o Stop)
  BY <1>1, CalmRules DEF Stop
<1>4. pc \notin {"bite", "cross"} => queued = 0
  BY <1>1 DEF ControlOK
<1>5. Fault => faults' \in 0 .. MaxFaults
  BY <1>1, FaultsAreNat DEF Fault
<1>6. CASE FeedForbidden /\ pc' # "feed"
  BY <1>1, <1>3, <1>4, <1>6
     DEF FeedForbidden, Raises, Quiet, lane, nozzle, Goto
<1>7. CASE FeedUnanswered
  BY <1>1, <1>3, <1>4, <1>5, <1>7 DEF FeedUnanswered, Raises, lane, nozzle
<1>8. CASE WaitTimesOut
  BY <1>1, <1>3, <1>4, <1>8 DEF WaitTimesOut, Raises, Quiet, lane, nozzle
<1>9. CASE Condemns
  <2>1. doubt => queued = 0 /\ pc # "idle"
    BY <1>1 DEF ControlOK, Watched
  <2>2. QED
    BY <1>1, <1>3, <1>9, <2>1 DEF Condemns, Quiet, lane, nozzle
<1>10. CASE Nursed /\ pc' # "arrived"
  BY <1>1, <1>3, <1>4, <1>10 DEF Nursed, Quiet, lane, nozzle, Goto
<1>11. CASE MeetsCold
  BY <1>1, <1>3, <1>4, <1>11 DEF MeetsCold, Raises, Quiet, lane, nozzle
<1>12. CASE NeverCrosses
  BY <1>1, <1>3, <1>12 DEF NeverCrosses, Quiet, lane, nozzle
<1>13. CASE Stuck
  BY <1>1, <1>3, <1>4, <1>13 DEF Stuck, Raises, Quiet, lane, nozzle
<1>14. CASE RewindRetries /\ pc' # "rewinding"
  BY <1>1, <1>3, <1>4, <1>5, <1>14
     DEF RewindRetries, Raises, lane, nozzle
<1>15. CASE Unconfirmed /\ pc' # "arm"
  BY <1>1, <1>3, <1>4, <1>15
     DEF Unconfirmed, Raises, Quiet, lane, nozzle, Goto
<1>16. CASE SeatsBlind
  BY <1>1, <1>3, <1>4, <1>16 DEF SeatsBlind, Raises, Quiet, lane, nozzle
<1>17. QED
  BY <1>6, <1>7, <1>8, <1>9, <1>10, <1>11, <1>12, <1>13, <1>14, <1>15, <1>16

(* The steps of the driver that are no exception. *)
Ordinary ==
  \/ Start \/ RefusesLoad \/ Aligns \/ Nudges \/ PreparationRaises
  \/ FeedSends \/ FeedAccepted
  \/ FeedForbidden /\ pc' = "feed"
  \/ Doubts \/ Relents \/ Arrives \/ IsLate \/ Nurses
  \/ Nursed /\ pc' = "arrived"
  \/ StopsBulk \/ Meets \/ Bites \/ Bitten \/ Crosses \/ Crossed \/ BacksOff
  \/ Released \/ Steps \/ Stepped \/ RewindSends \/ RewindAccepted
  \/ RewindRetries /\ pc' = "rewinding"
  \/ Rewound \/ Recovers \/ ThroughGears \/ Arms \/ Enables \/ AssistAnswered
  \/ Confirms
  \/ Unconfirmed /\ pc' = "arm"
  \/ Seats \/ Hugs \/ Enters \/ Pushes \/ Pushed

LEMMA DriverKinds ==
  ASSUME Inv, Driver
  PROVE  Ordinary \/ Failed
<1> DEFINE Raising ==
             \/ FeedForbidden /\ pc' # "feed"
             \/ FeedUnanswered \/ WaitTimesOut \/ Condemns
             \/ Nursed /\ pc' # "arrived"
             \/ MeetsCold \/ NeverCrosses \/ Stuck
             \/ RewindRetries /\ pc' # "rewinding"
             \/ Unconfirmed /\ pc' # "arm"
             \/ SeatsBlind
<1>1. Raising => Failed
  BY Exceptions
<1>2. Ordinary \/ Raising
  BY DEF Driver, Ordinary
<1>3. QED
  BY <1>1, <1>2

(* The lane and the flags keep their types. *)
LEMMA OrdinaryLane ==
  ASSUME Inv, Ordinary
  PROVE  LaneOK'
<1>1. /\ PlaceOK /\ FlagsOK /\ ControlOK
      /\ 0 \in 0 .. MaxRetries + EnableAttempts
      /\ 1 \in 0 .. MaxRetries + EnableAttempts
      /\ try < MaxRetries \/ try < EnableAttempts \/ try + 1 < MaxRetries
           => try + 1 \in 0 .. MaxRetries + EnableAttempts
      /\ 0 \in 0 .. CrossCap + BiteLength + BackoffCap + StepCap
      /\ \/ done < CrossCap \/ done < BiteLength
         \/ done < BackoffCap \/ done < StepCap
         => done + 1 \in 0 .. CrossCap + BiteLength + BackoffCap + StepCap
      /\ gears \in Nat /\ tip \in Nat
      /\ queued = 0 => queued + 1 \in 0 .. 1
  <2>1. PlaceOK /\ FlagsOK /\ ControlOK
    BY DEF Inv, LaneOK
  <2>2. try \in Nat /\ done \in Nat
    BY <2>1, LoadBoundsAreNat DEF PlaceOK
  <2>3. QED
    BY <2>1, <2>2, LoadBoundsAreNat DEF PlaceOK
<1>2. CASE Start
  <2>1. PlaceOK'
    BY <1>1, <1>2
       DEF Start, Bowden, Prepares, ForgetsStub, Goto, unit, seen, lane,
           nozzle, told, PlaceOK, Outcomes, Feeds
  <2>2. FlagsOK'
    BY <1>1, <1>2
       DEF Start, Bowden, Prepares, ForgetsStub, Goto, unit, seen, lane,
           nozzle, told, FlagsOK
  <2>3. QED
    BY <2>1, <2>2 DEF LaneOK
<1>3. CASE RefusesLoad
  <2>1. PlaceOK'
    BY <1>1, <1>3
       DEF RefusesLoad, Ends, channel, unit, link, seen, lane, nozzle, flags,
           steps, told, PlaceOK, Outcomes, Feeds
  <2>2. FlagsOK'
    BY <1>1, <1>3
       DEF RefusesLoad, Ends, channel, unit, link, seen, lane, nozzle, flags,
           steps, told, FlagsOK
  <2>3. QED
    BY <2>1, <2>2 DEF LaneOK
<1>4. CASE Aligns
  <2>1. PlaceOK'
    BY <1>1, <1>4
       DEF Aligns, Heats, Bowden, Prepares, Goto, unit, seen, told, PlaceOK,
           Outcomes, Feeds
  <2>2. FlagsOK'
    BY <1>1, <1>4
       DEF Aligns, Heats, Bowden, Prepares, Goto, unit, seen, told, FlagsOK
  <2>3. QED
    BY <2>1, <2>2 DEF LaneOK
<1>5. CASE Nudges
  <2>1. PlaceOK'
    BY <1>1, <1>5
       DEF Nudges, Heats, Bowden, Goto, unit, seen, told, PlaceOK, Outcomes,
           Feeds
  <2>2. FlagsOK'
    BY <1>1, <1>5 DEF Nudges, Heats, Bowden, Goto, unit, seen, told, FlagsOK
  <2>3. QED
    BY <2>1, <2>2 DEF LaneOK
<1>6. CASE PreparationRaises
  <2>1. PlaceOK'
    BY <1>1, <1>6
       DEF PreparationRaises, Ends, channel, unit, link, seen, lane, nozzle,
           flags, steps, told, PlaceOK, Outcomes, Feeds
  <2>2. FlagsOK'
    BY <1>1, <1>6
       DEF PreparationRaises, Ends, channel, unit, link, seen, lane, nozzle,
           flags, steps, told, FlagsOK
  <2>3. QED
    BY <2>1, <2>2 DEF LaneOK
<1>7. CASE FeedSends
  <2>1. PlaceOK'
    BY <1>1, <1>7
       DEF FeedSends, Goto, Quiet, lane, nozzle, flags, steps, told, unit,
           seen, PlaceOK, Outcomes, Feeds
  <2>2. FlagsOK'
    BY <1>1, <1>7
       DEF FeedSends, Goto, Quiet, lane, nozzle, flags, steps, told, unit,
           seen, FlagsOK
  <2>3. QED
    BY <2>1, <2>2 DEF LaneOK
<1>8. CASE FeedAccepted
  <2>1. PlaceOK'
    BY <1>1, <1>8
       DEF FeedAccepted, Goto, unit, link, lane, nozzle, flags, told, PlaceOK,
           Outcomes, Feeds, ControlOK
  <2>2. FlagsOK'
    BY <1>1, <1>8
       DEF FeedAccepted, Goto, unit, link, lane, nozzle, flags, told, FlagsOK
  <2>3. QED
    BY <2>1, <2>2 DEF LaneOK
<1>9. CASE FeedForbidden /\ pc' = "feed"
  <2>1. PlaceOK'
    BY <1>1, <1>9
       DEF FeedForbidden, Goto, Quiet, Raises, Fails, Ends, link, flags, told,
           lane, nozzle, unit, seen, PlaceOK, Outcomes, Feeds
  <2>2. FlagsOK'
    BY <1>1, <1>9
       DEF FeedForbidden, Goto, Quiet, Raises, Fails, Ends, link, flags, told,
           lane, nozzle, unit, seen, FlagsOK
  <2>3. QED
    BY <2>1, <2>2 DEF LaneOK
<1>10. CASE Doubts
  <2>1. PlaceOK'
    BY <1>1, <1>10
       DEF Doubts, unit, link, lane, nozzle, flags, told, PlaceOK, Outcomes,
           Feeds
  <2>2. FlagsOK'
    BY <1>1, <1>10 DEF Doubts, unit, link, lane, nozzle, flags, told, FlagsOK
  <2>3. QED
    BY <2>1, <2>2 DEF LaneOK
<1>11. CASE Relents
  <2>1. PlaceOK'
    BY <1>1, <1>11
       DEF Relents, channel, unit, link, seen, lane, nozzle, flags, told,
           PlaceOK, Outcomes, Feeds
  <2>2. FlagsOK'
    BY <1>1, <1>11
       DEF Relents, channel, unit, link, seen, lane, nozzle, flags, told,
           FlagsOK
  <2>3. QED
    BY <2>1, <2>2 DEF LaneOK
<1>12. CASE Arrives
  <2>1. PlaceOK'
    BY <1>1, <1>12
       DEF Arrives, Goto, channel, unit, link, seen, lane, nozzle, flags, told,
           PlaceOK, Outcomes, Feeds
  <2>2. FlagsOK'
    BY <1>1, <1>12
       DEF Arrives, Goto, channel, unit, link, seen, lane, nozzle, flags, told,
           FlagsOK
  <2>3. QED
    BY <2>1, <2>2 DEF LaneOK
<1>13. CASE IsLate
  <2>1. PlaceOK'
    BY <1>1, <1>13
       DEF IsLate, Goto, channel, unit, link, seen, lane, nozzle, flags, told,
           PlaceOK, Outcomes, Feeds
  <2>2. FlagsOK'
    BY <1>1, <1>13
       DEF IsLate, Goto, channel, unit, link, seen, lane, nozzle, flags, told,
           FlagsOK
  <2>3. QED
    BY <2>1, <2>2 DEF LaneOK
<1>14. CASE Nurses
  <2>1. PlaceOK'
    BY <1>1, <1>14
       DEF Nurses, Sound, Goto, channel, unit, link, seen, lane, nozzle, flags,
           told, PlaceOK, Outcomes, Feeds
  <2>2. FlagsOK'
    BY <1>1, <1>14
       DEF Nurses, Sound, Goto, channel, unit, link, seen, lane, nozzle, flags,
           told, FlagsOK
  <2>3. QED
    BY <2>1, <2>2 DEF LaneOK
<1>15. CASE Nursed /\ pc' = "arrived"
  <2>1. PlaceOK'
    BY <1>1, <1>15
       DEF Nursed, Goto, Quiet, Fails, Ends, lane, nozzle, unit, seen, PlaceOK,
           Outcomes, Feeds
  <2>2. FlagsOK'
    BY <1>1, <1>15
       DEF Nursed, Goto, Quiet, Fails, Ends, lane, nozzle, unit, seen, FlagsOK
  <2>3. QED
    BY <2>1, <2>2 DEF LaneOK
<1>16. CASE StopsBulk
  <2>1. PlaceOK'
    BY <1>1, <1>16
       DEF StopsBulk, StopsFeed, Goto, Quiet, Settled, lane, nozzle, unit,
           seen, flags, PlaceOK, Outcomes, Feeds
  <2>2. FlagsOK'
    BY <1>1, <1>16
       DEF StopsBulk, StopsFeed, Goto, Quiet, Settled, lane, nozzle, unit,
           seen, flags, FlagsOK, Active, Feeding
  <2>3. QED
    BY <2>1, <2>2 DEF LaneOK
<1>17. CASE Meets
  <2>1. PlaceOK'
    BY <1>1, <1>17
       DEF Meets, Heats, Goto, channel, unit, link, seen, lane, flags, told,
           PlaceOK, Outcomes, Feeds
  <2>2. FlagsOK'
    BY <1>1, <1>17
       DEF Meets, Heats, Goto, channel, unit, link, seen, lane, flags, told,
           FlagsOK
  <2>3. QED
    BY <2>1, <2>2 DEF LaneOK
<1>18. CASE Bites
  <2>1. PlaceOK'
    BY <1>1, <1>18
       DEF Bites, Sound, Segment, channel, unit, link, seen, lane, flags, told,
           PlaceOK, Outcomes, Feeds
  <2>2. FlagsOK'
    BY <1>1, <1>18
       DEF Bites, Sound, Segment, channel, unit, link, seen, lane, flags, told,
           FlagsOK
  <2>3. QED
    BY <2>1, <2>2 DEF LaneOK
<1>19. CASE Bitten
  <2>1. PlaceOK'
    BY <1>1, <1>19
       DEF Bitten, StopsFeed, Goto, Quiet, Settled, lane, nozzle, unit, seen,
           flags, PlaceOK, Outcomes, Feeds
  <2>2. FlagsOK'
    BY <1>1, <1>19
       DEF Bitten, StopsFeed, Goto, Quiet, Settled, lane, nozzle, unit, seen,
           flags, FlagsOK, Active, Feeding
  <2>3. QED
    BY <2>1, <2>2 DEF LaneOK
<1>20. CASE Crosses
  <2>1. PlaceOK'
    BY <1>1, <1>20
       DEF Crosses, Sound, Segment, channel, unit, link, seen, lane, flags,
           told, PlaceOK, Outcomes, Feeds
  <2>2. FlagsOK'
    BY <1>1, <1>20
       DEF Crosses, Sound, Segment, channel, unit, link, seen, lane, flags,
           told, FlagsOK
  <2>3. QED
    BY <2>1, <2>2 DEF LaneOK
<1>21. CASE Crossed
  <2>1. PlaceOK'
    BY <1>1, <1>21
       DEF Crossed, StopsFeed, Goto, Quiet, Settled, lane, nozzle, unit, seen,
           flags, PlaceOK, Outcomes, Feeds
  <2>2. FlagsOK'
    BY <1>1, <1>21
       DEF Crossed, StopsFeed, Goto, Quiet, Settled, lane, nozzle, unit, seen,
           flags, FlagsOK, Active, Feeding
  <2>3. QED
    BY <2>1, <2>2 DEF LaneOK
<1>22. CASE BacksOff
  <2>1. PlaceOK'
    BY <1>1, <1>22
       DEF BacksOff, Sound, Goto, channel, unit, link, seen, lane, nozzle,
           flags, told, PlaceOK, Outcomes, Feeds
  <2>2. FlagsOK'
    BY <1>1, <1>22
       DEF BacksOff, Sound, Goto, channel, unit, link, seen, lane, nozzle,
           flags, told, FlagsOK
  <2>3. QED
    BY <2>1, <2>2 DEF LaneOK
<1>23. CASE Released
  <2>1. PlaceOK'
    BY <1>1, <1>23
       DEF Released, Goto, channel, unit, link, seen, lane, nozzle, flags,
           told, PlaceOK, Outcomes, Feeds
  <2>2. FlagsOK'
    BY <1>1, <1>23
       DEF Released, Goto, channel, unit, link, seen, lane, nozzle, flags,
           told, FlagsOK
  <2>3. QED
    BY <2>1, <2>2 DEF LaneOK
<1>24. CASE Steps
  <2>1. PlaceOK'
    BY <1>1, <1>24
       DEF Steps, Goto, channel, unit, link, seen, lane, nozzle, flags, told,
           PlaceOK, Outcomes, Feeds
  <2>2. FlagsOK'
    BY <1>1, <1>24
       DEF Steps, Goto, channel, unit, link, seen, lane, nozzle, flags, told,
           FlagsOK
  <2>3. QED
    BY <2>1, <2>2 DEF LaneOK
<1>25. CASE Stepped
  <2>1. PlaceOK'
    BY <1>1, <1>25
       DEF Stepped, Goto, channel, unit, link, seen, lane, nozzle, flags, told,
           PlaceOK, Outcomes, Feeds
  <2>2. FlagsOK'
    BY <1>1, <1>25
       DEF Stepped, Goto, channel, unit, link, seen, lane, nozzle, flags, told,
           FlagsOK
  <2>3. QED
    BY <2>1, <2>2 DEF LaneOK
<1>26. CASE RewindSends
  <2>1. PlaceOK'
    BY <1>1, <1>26
       DEF RewindSends, RewindReturns, Ends, Goto, Quiet, flags, steps, told,
           lane, nozzle, unit, seen, PlaceOK, Outcomes, Feeds
  <2>2. FlagsOK'
    BY <1>1, <1>26
       DEF RewindSends, RewindReturns, Ends, Goto, Quiet, flags, steps, told,
           lane, nozzle, unit, seen, FlagsOK
  <2>3. QED
    BY <2>1, <2>2 DEF LaneOK
<1>27. CASE RewindAccepted
  <2>1. PlaceOK'
    BY <1>1, <1>27
       DEF RewindAccepted, Goto, channel, unit, link, seen, lane, nozzle,
           flags, steps, told, PlaceOK, Outcomes, Feeds
  <2>2. FlagsOK'
    BY <1>1, <1>27
       DEF RewindAccepted, Goto, channel, unit, link, seen, lane, nozzle,
           flags, steps, told, FlagsOK
  <2>3. QED
    BY <2>1, <2>2 DEF LaneOK
<1>28. CASE RewindRetries /\ pc' = "rewinding"
  <2>1. PlaceOK'
    BY <1>1, <1>28
       DEF RewindRetries, Raises, Fails, Ends, Goto, flags, told, unit, seen,
           lane, nozzle, PlaceOK, Outcomes, Feeds
  <2>2. FlagsOK'
    BY <1>1, <1>28
       DEF RewindRetries, Raises, Fails, Ends, Goto, flags, told, unit, seen,
           lane, nozzle, FlagsOK
  <2>3. QED
    BY <2>1, <2>2 DEF LaneOK
<1>29. CASE Rewound
  <2>1. PlaceOK'
    BY <1>1, <1>29
       DEF Rewound, RewindReturns, Ends, Goto, Quiet, lane, nozzle, steps,
           told, unit, seen, PlaceOK, Outcomes, Feeds
  <2>2. FlagsOK'
    BY <1>1, <1>29
       DEF Rewound, RewindReturns, Ends, Goto, Quiet, lane, nozzle, steps,
           told, unit, seen, FlagsOK
  <2>3. QED
    BY <2>1, <2>2 DEF LaneOK
<1>30. CASE Recovers
  <2>1. PlaceOK'
    BY <1>1, <1>30
       DEF Recovers, Ends, Goto, unit, seen, lane, nozzle, told, PlaceOK,
           Outcomes, Feeds
  <2>2. FlagsOK'
    BY <1>1, <1>30
       DEF Recovers, Ends, Goto, unit, seen, lane, nozzle, told, FlagsOK
  <2>3. QED
    BY <2>1, <2>2 DEF LaneOK
<1>31. CASE ThroughGears
  <2>1. PlaceOK'
    BY <1>1, <1>31
       DEF ThroughGears, Goto, channel, unit, link, seen, lane, nozzle, told,
           PlaceOK, Outcomes, Feeds
  <2>2. FlagsOK'
    BY <1>1, <1>31
       DEF ThroughGears, Goto, channel, unit, link, seen, lane, nozzle, told,
           FlagsOK
  <2>3. QED
    BY <2>1, <2>2 DEF LaneOK
<1>32. CASE Arms
  <2>1. PlaceOK'
    BY <1>1, <1>32
       DEF Arms, SendsStart, Goto, Quiet, flags, lane, nozzle, steps, unit,
           seen, PlaceOK, Outcomes, Feeds
  <2>2. FlagsOK'
    BY <1>1, <1>32
       DEF Arms, SendsStart, Goto, Quiet, flags, lane, nozzle, steps, unit,
           seen, FlagsOK, Active, Feeding
  <2>3. QED
    BY <2>1, <2>2 DEF LaneOK
<1>33. CASE Enables
  <2>1. PlaceOK'
    BY <1>1, <1>33
       DEF Enables, SendsStart, Goto, Quiet, lane, nozzle, steps, unit, seen,
           PlaceOK, Outcomes, Feeds
  <2>2. FlagsOK'
    BY <1>1, <1>33
       DEF Enables, SendsStart, Goto, Quiet, lane, nozzle, steps, unit, seen,
           FlagsOK
  <2>3. QED
    BY <2>1, <2>2 DEF LaneOK
<1>34. CASE AssistAnswered
  <2>1. PlaceOK'
    BY <1>1, <1>34
       DEF AssistAnswered, unit, seen, lane, nozzle, steps, told, PlaceOK,
           Outcomes, Feeds
  <2>2. FlagsOK'
    BY <1>1, <1>34
       DEF AssistAnswered, unit, seen, lane, nozzle, steps, told, FlagsOK
  <2>3. QED
    BY <2>1, <2>2 DEF LaneOK
<1>35. CASE Confirms
  <2>1. PlaceOK'
    BY <1>1, <1>35
       DEF Confirms, Goto, channel, unit, link, seen, lane, nozzle, flags,
           steps, told, PlaceOK, Outcomes, Feeds
  <2>2. FlagsOK'
    BY <1>1, <1>35
       DEF Confirms, Goto, channel, unit, link, seen, lane, nozzle, flags,
           steps, told, FlagsOK, Active, Feeding
  <2>3. QED
    BY <2>1, <2>2 DEF LaneOK
<1>36. CASE Unconfirmed /\ pc' = "arm"
  <2>1. PlaceOK'
    BY <1>1, <1>36
       DEF Unconfirmed, Raises, Fails, Ends, Goto, Quiet, link, flags, told,
           lane, nozzle, unit, seen, PlaceOK, Outcomes, Feeds
  <2>2. FlagsOK'
    BY <1>1, <1>36
       DEF Unconfirmed, Raises, Fails, Ends, Goto, Quiet, link, flags, told,
           lane, nozzle, unit, seen, FlagsOK, Active, Feeding
  <2>3. QED
    BY <2>1, <2>2 DEF LaneOK
<1>37. CASE Seats
  <2>1. PlaceOK'
    BY <1>1, <1>37
       DEF Seats, Over, Ends, Goto, channel, unit, link, seen, steps, told,
           PlaceOK, Outcomes, Feeds
  <2>2. FlagsOK'
    BY <1>1, <1>37
       DEF Seats, Over, Ends, Goto, channel, unit, link, seen, steps, told,
           FlagsOK
  <2>3. QED
    BY <2>1, <2>2 DEF LaneOK
<1>38. CASE Hugs
  <2>1. PlaceOK'
    BY <1>1, <1>38
       DEF Hugs, Over, Ends, nozzle, flags, channel, unit, link, seen, told,
           PlaceOK, Outcomes, Feeds
  <2>2. FlagsOK'
    BY <1>1, <1>38
       DEF Hugs, Over, Ends, nozzle, flags, channel, unit, link, seen, told,
           FlagsOK
  <2>3. QED
    BY <2>1, <2>2 DEF LaneOK
<1>39. CASE Enters
  <2>1. PlaceOK'
    BY <1>1, <1>39
       DEF Enters, Ends, Goto, channel, unit, link, seen, lane, flags, steps,
           told, PlaceOK, Outcomes, Feeds
  <2>2. FlagsOK'
    BY <1>1, <1>39
       DEF Enters, Ends, Goto, channel, unit, link, seen, lane, flags, steps,
           told, FlagsOK
  <2>3. QED
    BY <2>1, <2>2 DEF LaneOK
<1>40. CASE Pushes
  <2>1. PlaceOK'
    BY <1>1, <1>40
       DEF Pushes, Ends, unit, seen, lane, nozzle, steps, told, PlaceOK,
           Outcomes, Feeds
  <2>2. FlagsOK'
    BY <1>1, <1>40
       DEF Pushes, Ends, unit, seen, lane, nozzle, steps, told, FlagsOK
  <2>3. QED
    BY <2>1, <2>2 DEF LaneOK
<1>41. CASE Pushed
  <2>1. PlaceOK'
    BY <1>1, <1>41
       DEF Pushed, Over, Ends, lane, nozzle, flags, channel, unit, link, seen,
           told, PlaceOK, Outcomes, Feeds
  <2>2. FlagsOK'
    BY <1>1, <1>41
       DEF Pushed, Over, Ends, lane, nozzle, flags, channel, unit, link, seen,
           told, FlagsOK
  <2>3. QED
    BY <2>1, <2>2 DEF LaneOK
<1>42. QED
  BY <1>2, <1>3, <1>4, <1>5, <1>6, <1>7, <1>8, <1>9, <1>10, <1>11, <1>12,
     <1>13, <1>14, <1>15, <1>16, <1>17, <1>18, <1>19, <1>20, <1>21, <1>22,
     <1>23, <1>24, <1>25, <1>26, <1>27, <1>28, <1>29, <1>30, <1>31, <1>32,
     <1>33, <1>34, <1>35, <1>36, <1>37, <1>38, <1>39, <1>40, <1>41
     DEF Ordinary

(* Each place of the program is still for what it was reached for.         *)
LEMMA OrdinaryControl ==
  ASSUME Inv, Ordinary
  PROVE  ControlOK'
<1>1. LaneOK /\ ControlOK /\ queued \in 0 .. 1 /\ claim \in BOOLEAN
  BY DEF Inv, LaneOK, PlaceOK, FlagsOK
<1>2. CASE Start
  BY <1>1, <1>2
     DEF Start, Bowden, Prepares, ForgetsStub, Goto, unit, seen, lane, nozzle,
         told, ControlOK, Forward, Rewinds, Watched, Feeds
<1>3. CASE RefusesLoad
  BY <1>1, <1>3
     DEF RefusesLoad, Ends, channel, unit, link, seen, lane, nozzle, flags,
         steps, told, ControlOK, Forward, Rewinds, Watched
<1>4. CASE Aligns
  BY <1>1, <1>4
     DEF Aligns, Heats, Bowden, Prepares, Goto, unit, seen, told, ControlOK,
         Forward, Rewinds, Watched, Feeds
<1>5. CASE Nudges
  BY <1>1, <1>5
     DEF Nudges, Heats, Bowden, Goto, unit, seen, told, ControlOK, Forward,
         Rewinds, Watched, Feeds
<1>6. CASE PreparationRaises
  BY <1>1, <1>6
     DEF PreparationRaises, Ends, channel, unit, link, seen, lane, nozzle,
         flags, steps, told, ControlOK, Forward, Rewinds, Watched
<1>7. CASE FeedSends
  BY <1>1, <1>7
     DEF FeedSends, Goto, Quiet, lane, nozzle, flags, steps, told, unit, seen,
         ControlOK, Forward, Rewinds, Watched, Feeds
<1>8. CASE FeedAccepted
  BY <1>1, <1>8
     DEF FeedAccepted, Goto, unit, link, lane, nozzle, flags, told, ControlOK,
         Forward, Rewinds, Watched, Feeds
<1>9. CASE FeedForbidden /\ pc' = "feed"
  BY <1>1, <1>9
     DEF FeedForbidden, Goto, Quiet, Raises, Fails, Ends, link, flags, told,
         lane, nozzle, unit, seen, ControlOK, Forward, Rewinds, Watched, Feeds
<1>10. CASE Doubts
  BY <1>1, <1>10
     DEF Doubts, unit, link, lane, nozzle, flags, told, ControlOK, Forward,
         Rewinds, Watched
<1>11. CASE Relents
  BY <1>1, <1>11
     DEF Relents, channel, unit, link, seen, lane, nozzle, flags, told,
         ControlOK, Forward, Rewinds, Watched
<1>12. CASE Arrives
  BY <1>1, <1>12
     DEF Arrives, Goto, channel, unit, link, seen, lane, nozzle, flags, told,
         ControlOK, Forward, Rewinds, Watched
<1>13. CASE IsLate
  BY <1>1, <1>13
     DEF IsLate, Goto, channel, unit, link, seen, lane, nozzle, flags, told,
         ControlOK, Forward, Rewinds, Watched
<1>14. CASE Nurses
  BY <1>1, <1>14
     DEF Nurses, Sound, Goto, channel, unit, link, seen, lane, nozzle, flags,
         told, ControlOK, Forward, Rewinds, Watched
<1>15. CASE Nursed /\ pc' = "arrived"
  BY <1>1, <1>15
     DEF Nursed, Goto, Quiet, Fails, Ends, lane, nozzle, unit, seen, ControlOK,
         Forward, Rewinds, Watched
<1>16. CASE StopsBulk
  BY <1>1, <1>16
     DEF StopsBulk, StopsFeed, Goto, Quiet, Settled, lane, nozzle, unit, seen,
         flags, ControlOK, Forward, Rewinds, Watched
<1>17. CASE Meets
  BY <1>1, <1>17
     DEF Meets, Heats, Goto, channel, unit, link, seen, lane, flags, told,
         ControlOK, Forward, Rewinds, Watched, Feeds
<1>18. CASE Bites
  BY <1>1, <1>18
     DEF Bites, Sound, Segment, channel, unit, link, seen, lane, flags, told,
         ControlOK, Forward, Rewinds, Watched
<1>19. CASE Bitten
  BY <1>1, <1>19
     DEF Bitten, StopsFeed, Goto, Quiet, Settled, lane, nozzle, unit, seen,
         flags, ControlOK, Forward, Rewinds, Watched
<1>20. CASE Crosses
  BY <1>1, <1>20
     DEF Crosses, Sound, Segment, channel, unit, link, seen, lane, flags, told,
         ControlOK, Forward, Rewinds, Watched
<1>21. CASE Crossed
  BY <1>1, <1>21
     DEF Crossed, StopsFeed, Goto, Quiet, Settled, lane, nozzle, unit, seen,
         flags, ControlOK, Forward, Rewinds, Watched
<1>22. CASE BacksOff
  BY <1>1, <1>22
     DEF BacksOff, Sound, Goto, channel, unit, link, seen, lane, nozzle, flags,
         told, ControlOK, Forward, Rewinds, Watched
<1>23. CASE Released
  BY <1>1, <1>23
     DEF Released, Goto, channel, unit, link, seen, lane, nozzle, flags, told,
         ControlOK, Forward, Rewinds, Watched
<1>24. CASE Steps
  BY <1>1, <1>24
     DEF Steps, Goto, channel, unit, link, seen, lane, nozzle, flags, told,
         ControlOK, Forward, Rewinds, Watched, Feeds
<1>25. CASE Stepped
  BY <1>1, <1>25
     DEF Stepped, Goto, channel, unit, link, seen, lane, nozzle, flags, told,
         ControlOK, Forward, Rewinds, Watched
<1>26. CASE RewindSends
  BY <1>1, <1>26
     DEF RewindSends, RewindReturns, Ends, Goto, Quiet, flags, steps, told,
         lane, nozzle, unit, seen, ControlOK, Forward, Rewinds, Watched
<1>27. CASE RewindAccepted
  BY <1>1, <1>27
     DEF RewindAccepted, Goto, channel, unit, link, seen, lane, nozzle, flags,
         steps, told, ControlOK, Forward, Rewinds, Watched
<1>28. CASE RewindRetries /\ pc' = "rewinding"
  BY <1>1, <1>28
     DEF RewindRetries, Raises, Fails, Ends, Goto, flags, told, unit, seen,
         lane, nozzle, ControlOK, Forward, Rewinds, Watched
<1>29. CASE Rewound
  BY <1>1, <1>29
     DEF Rewound, RewindReturns, Ends, Goto, Quiet, lane, nozzle, steps, told,
         unit, seen, ControlOK, Forward, Rewinds, Watched
<1>30. CASE Recovers
  BY <1>1, <1>30
     DEF Recovers, Ends, Goto, unit, seen, lane, nozzle, told, ControlOK,
         Forward, Rewinds, Watched
<1>31. CASE ThroughGears
  BY <1>1, <1>31
     DEF ThroughGears, Goto, channel, unit, link, seen, lane, nozzle, told,
         ControlOK, Forward, Rewinds, Watched
<1>32. CASE Arms
  BY <1>1, <1>32
     DEF Arms, SendsStart, Goto, Quiet, flags, lane, nozzle, steps, unit, seen,
         ControlOK, Forward, Rewinds, Watched
<1>33. CASE Enables
  BY <1>1, <1>33
     DEF Enables, SendsStart, Goto, Quiet, lane, nozzle, steps, unit, seen,
         ControlOK, Forward, Rewinds, Watched
<1>34. CASE AssistAnswered
  BY <1>1, <1>34
     DEF AssistAnswered, unit, seen, lane, nozzle, steps, told, ControlOK,
         Forward, Rewinds, Watched
<1>35. CASE Confirms
  BY <1>1, <1>35
     DEF Confirms, Goto, channel, unit, link, seen, lane, nozzle, flags, steps,
         told, ControlOK, Forward, Rewinds, Watched
<1>36. CASE Unconfirmed /\ pc' = "arm"
  BY <1>1, <1>36
     DEF Unconfirmed, Raises, Fails, Ends, Goto, Quiet, link, flags, told,
         lane, nozzle, unit, seen, ControlOK, Forward, Rewinds, Watched
<1>37. CASE Seats
  BY <1>1, <1>37
     DEF Seats, Over, Ends, Goto, channel, unit, link, seen, steps, told,
         ControlOK, Forward, Rewinds, Watched
<1>38. CASE Hugs
  BY <1>1, <1>38
     DEF Hugs, Over, Ends, nozzle, flags, channel, unit, link, seen, told,
         ControlOK, Forward, Rewinds, Watched
<1>39. CASE Enters
  BY <1>1, <1>39
     DEF Enters, Ends, Goto, channel, unit, link, seen, lane, flags, steps,
         told, ControlOK, Forward, Rewinds, Watched
<1>40. CASE Pushes
  BY <1>1, <1>40
     DEF Pushes, Ends, unit, seen, lane, nozzle, steps, told, ControlOK,
         Forward, Rewinds, Watched
<1>41. CASE Pushed
  BY <1>1, <1>41
     DEF Pushed, Over, Ends, lane, nozzle, flags, channel, unit, link, seen,
         told, ControlOK, Forward, Rewinds, Watched
<1>42. QED
  BY <1>2, <1>3, <1>4, <1>5, <1>6, <1>7, <1>8, <1>9, <1>10, <1>11, <1>12,
     <1>13, <1>14, <1>15, <1>16, <1>17, <1>18, <1>19, <1>20, <1>21, <1>22,
     <1>23, <1>24, <1>25, <1>26, <1>27, <1>28, <1>29, <1>30, <1>31, <1>32,
     <1>33, <1>34, <1>35, <1>36, <1>37, <1>38, <1>39, <1>40, <1>41
     DEF Ordinary

(* The nozzle is hot where a path leads into it, the stub is that of this  *)
(* load, and the head of the lane is where the crossing takes it to be.    *)
LEMMA OrdinaryNozzle ==
  ASSUME Inv, Ordinary
  PROVE  HeatOK' /\ StubOK' /\ TipOK'
<1>1. /\ ControlOK /\ HeatOK /\ StubOK /\ TipOK
      /\ queued \in 0 .. 1 /\ tip \in Nat /\ gears \in Nat /\ gears >= 2
  BY LoadBoundsAreNat DEF Inv, LaneOK, PlaceOK
<1>2. CASE Start
  <2>1. HeatOK'
    BY <1>1, <1>2
       DEF Start, Bowden, Prepares, ForgetsStub, Goto, unit, seen, lane,
           nozzle, told, HeatOK, StubOK, ControlOK, Done, Forward
  <2>2. StubOK'
    BY <1>1, <1>2
       DEF Start, Bowden, Prepares, ForgetsStub, Goto, unit, seen, lane,
           nozzle, told, StubOK, TipOK, ControlOK, Done, Forward, Rewinds,
           Bowdening, SeatTriggered, SeatMade, ToolheadMade
  <2>3. TipOK'
    BY <1>1, <1>2
       DEF Start, Bowden, Prepares, ForgetsStub, Goto, unit, seen, lane,
           nozzle, told, TipOK, ControlOK, Bowdening, SeatTriggered, SeatMade,
           ToolheadMade
  <2>4. QED
    BY <2>1, <2>2, <2>3
<1>3. CASE RefusesLoad
  <2>1. HeatOK'
    BY <1>1, <1>3
       DEF RefusesLoad, Ends, channel, unit, link, seen, lane, nozzle, flags,
           steps, told, HeatOK, StubOK, ControlOK, Done, Forward
  <2>2. StubOK'
    BY <1>1, <1>3
       DEF RefusesLoad, Ends, channel, unit, link, seen, lane, nozzle, flags,
           steps, told, StubOK, TipOK, ControlOK, Done, Forward, Rewinds,
           Bowdening
  <2>3. TipOK'
    BY <1>1, <1>3
       DEF RefusesLoad, Ends, channel, unit, link, seen, lane, nozzle, flags,
           steps, told, TipOK, ControlOK, Bowdening
  <2>4. QED
    BY <2>1, <2>2, <2>3
<1>4. CASE Aligns
  <2>1. HeatOK'
    BY <1>1, <1>4
       DEF Aligns, Heats, Bowden, Prepares, Goto, unit, seen, told, HeatOK,
           StubOK, ControlOK, Done, Forward
  <2>2. StubOK'
    BY <1>1, <1>4
       DEF Aligns, Heats, Bowden, Prepares, Goto, unit, seen, told, StubOK,
           TipOK, ControlOK, Done, Forward, Rewinds, Bowdening, SeatTriggered,
           SeatMade, ToolheadMade
  <2>3. TipOK'
    BY <1>1, <1>4
       DEF Aligns, Heats, Bowden, Prepares, Goto, unit, seen, told, TipOK,
           ControlOK, Bowdening, SeatTriggered, SeatMade, ToolheadMade
  <2>4. QED
    BY <2>1, <2>2, <2>3
<1>5. CASE Nudges
  <2>1. HeatOK'
    BY <1>1, <1>5
       DEF Nudges, Heats, Bowden, Goto, unit, seen, told, HeatOK, StubOK,
           ControlOK, Done, Forward
  <2>2. StubOK'
    BY <1>1, <1>5
       DEF Nudges, Heats, Bowden, Goto, unit, seen, told, StubOK, TipOK,
           ControlOK, Done, Forward, Rewinds, Bowdening, SeatTriggered,
           SeatMade, ToolheadMade
  <2>3. TipOK'
    BY <1>1, <1>5
       DEF Nudges, Heats, Bowden, Goto, unit, seen, told, TipOK, ControlOK,
           Bowdening, SeatTriggered, SeatMade, ToolheadMade
  <2>4. QED
    BY <2>1, <2>2, <2>3
<1>6. CASE PreparationRaises
  <2>1. HeatOK'
    BY <1>1, <1>6
       DEF PreparationRaises, Ends, channel, unit, link, seen, lane, nozzle,
           flags, steps, told, HeatOK, StubOK, ControlOK, Done, Forward
  <2>2. StubOK'
    BY <1>1, <1>6
       DEF PreparationRaises, Ends, channel, unit, link, seen, lane, nozzle,
           flags, steps, told, StubOK, TipOK, ControlOK, Done, Forward,
           Rewinds, Bowdening
  <2>3. TipOK'
    BY <1>1, <1>6
       DEF PreparationRaises, Ends, channel, unit, link, seen, lane, nozzle,
           flags, steps, told, TipOK, ControlOK, Bowdening
  <2>4. QED
    BY <2>1, <2>2, <2>3
<1>7. CASE FeedSends
  <2>1. HeatOK'
    BY <1>1, <1>7
       DEF FeedSends, Goto, Quiet, lane, nozzle, flags, steps, told, unit,
           seen, HeatOK, StubOK, ControlOK, Done, Forward
  <2>2. StubOK'
    BY <1>1, <1>7
       DEF FeedSends, Goto, Quiet, lane, nozzle, flags, steps, told, unit,
           seen, StubOK, TipOK, ControlOK, Done, Forward, Rewinds, Bowdening
  <2>3. TipOK'
    BY <1>1, <1>7
       DEF FeedSends, Goto, Quiet, lane, nozzle, flags, steps, told, unit,
           seen, TipOK, ControlOK, Bowdening
  <2>4. QED
    BY <2>1, <2>2, <2>3
<1>8. CASE FeedAccepted
  <2>1. HeatOK'
    BY <1>1, <1>8
       DEF FeedAccepted, Goto, unit, link, lane, nozzle, flags, told, HeatOK,
           StubOK, ControlOK, Done, Forward, Feeds
  <2>2. StubOK'
    BY <1>1, <1>8
       DEF FeedAccepted, Goto, unit, link, lane, nozzle, flags, told, Feeds,
           StubOK, TipOK, ControlOK, Done, Forward, Rewinds, Bowdening
  <2>3. TipOK'
    BY <1>1, <1>8
       DEF FeedAccepted, Goto, unit, link, lane, nozzle, flags, told, TipOK,
           ControlOK, Bowdening, Feeds
  <2>4. QED
    BY <2>1, <2>2, <2>3
<1>9. CASE FeedForbidden /\ pc' = "feed"
  <2>1. HeatOK'
    BY <1>1, <1>9
       DEF FeedForbidden, Goto, Quiet, Raises, Fails, Ends, link, flags, told,
           lane, nozzle, unit, seen, HeatOK, StubOK, ControlOK, Done, Forward
  <2>2. StubOK'
    BY <1>1, <1>9
       DEF FeedForbidden, Goto, Quiet, Raises, Fails, Ends, link, flags, told,
           lane, nozzle, unit, seen, StubOK, TipOK, ControlOK, Done, Forward,
           Rewinds, Bowdening
  <2>3. TipOK'
    BY <1>1, <1>9
       DEF FeedForbidden, Goto, Quiet, Raises, Fails, Ends, link, flags, told,
           lane, nozzle, unit, seen, TipOK, ControlOK, Bowdening
  <2>4. QED
    BY <2>1, <2>2, <2>3
<1>10. CASE Doubts
  <2>1. HeatOK'
    BY <1>1, <1>10
       DEF Doubts, unit, link, lane, nozzle, flags, told, HeatOK, StubOK,
           ControlOK, Done, Forward
  <2>2. StubOK'
    BY <1>1, <1>10
       DEF Doubts, unit, link, lane, nozzle, flags, told, StubOK, TipOK,
           ControlOK, Done, Forward, Rewinds, Bowdening
  <2>3. TipOK'
    BY <1>1, <1>10
       DEF Doubts, unit, link, lane, nozzle, flags, told, TipOK, ControlOK,
           Bowdening
  <2>4. QED
    BY <2>1, <2>2, <2>3
<1>11. CASE Relents
  <2>1. HeatOK'
    BY <1>1, <1>11
       DEF Relents, channel, unit, link, seen, lane, nozzle, flags, told,
           HeatOK, StubOK, ControlOK, Done, Forward
  <2>2. StubOK'
    BY <1>1, <1>11
       DEF Relents, channel, unit, link, seen, lane, nozzle, flags, told,
           StubOK, TipOK, ControlOK, Done, Forward, Rewinds, Bowdening
  <2>3. TipOK'
    BY <1>1, <1>11
       DEF Relents, channel, unit, link, seen, lane, nozzle, flags, told,
           TipOK, ControlOK, Bowdening
  <2>4. QED
    BY <2>1, <2>2, <2>3
<1>12. CASE Arrives
  <2>1. HeatOK'
    BY <1>1, <1>12
       DEF Arrives, Goto, channel, unit, link, seen, lane, nozzle, flags, told,
           HeatOK, StubOK, ControlOK, Done, Forward
  <2>2. StubOK'
    BY <1>1, <1>12
       DEF Arrives, Goto, channel, unit, link, seen, lane, nozzle, flags, told,
           StubOK, TipOK, ControlOK, Done, Forward, Rewinds, Bowdening
  <2>3. TipOK'
    BY <1>1, <1>12
       DEF Arrives, Goto, channel, unit, link, seen, lane, nozzle, flags, told,
           TipOK, ControlOK, Bowdening
  <2>4. QED
    BY <2>1, <2>2, <2>3
<1>13. CASE IsLate
  <2>1. HeatOK'
    BY <1>1, <1>13
       DEF IsLate, Goto, channel, unit, link, seen, lane, nozzle, flags, told,
           HeatOK, StubOK, ControlOK, Done, Forward
  <2>2. StubOK'
    BY <1>1, <1>13
       DEF IsLate, Goto, channel, unit, link, seen, lane, nozzle, flags, told,
           StubOK, TipOK, ControlOK, Done, Forward, Rewinds, Bowdening
  <2>3. TipOK'
    BY <1>1, <1>13
       DEF IsLate, Goto, channel, unit, link, seen, lane, nozzle, flags, told,
           TipOK, ControlOK, Bowdening
  <2>4. QED
    BY <2>1, <2>2, <2>3
<1>14. CASE Nurses
  <2>1. HeatOK'
    BY <1>1, <1>14
       DEF Nurses, Sound, Goto, channel, unit, link, seen, lane, nozzle, flags,
           told, HeatOK, StubOK, ControlOK, Done, Forward
  <2>2. StubOK'
    BY <1>1, <1>14
       DEF Nurses, Sound, Goto, channel, unit, link, seen, lane, nozzle, flags,
           told, StubOK, TipOK, ControlOK, Done, Forward, Rewinds, Bowdening
  <2>3. TipOK'
    BY <1>1, <1>14
       DEF Nurses, Sound, Goto, channel, unit, link, seen, lane, nozzle, flags,
           told, TipOK, ControlOK, Bowdening
  <2>4. QED
    BY <2>1, <2>2, <2>3
<1>15. CASE Nursed /\ pc' = "arrived"
  <2>1. HeatOK'
    BY <1>1, <1>15
       DEF Nursed, Goto, Quiet, Fails, Ends, lane, nozzle, unit, seen, HeatOK,
           StubOK, ControlOK, Done, Forward
  <2>2. StubOK'
    BY <1>1, <1>15
       DEF Nursed, Goto, Quiet, Fails, Ends, lane, nozzle, unit, seen, StubOK,
           TipOK, ControlOK, Done, Forward, Rewinds, Bowdening
  <2>3. TipOK'
    BY <1>1, <1>15
       DEF Nursed, Goto, Quiet, Fails, Ends, lane, nozzle, unit, seen, TipOK,
           ControlOK, Bowdening
  <2>4. QED
    BY <2>1, <2>2, <2>3
<1>16. CASE StopsBulk
  <2>1. HeatOK'
    BY <1>1, <1>16
       DEF StopsBulk, StopsFeed, Goto, Quiet, Settled, lane, nozzle, unit,
           seen, flags, HeatOK, StubOK, ControlOK, Done, Forward
  <2>2. StubOK'
    BY <1>1, <1>16
       DEF StopsBulk, StopsFeed, Goto, Quiet, Settled, lane, nozzle, unit,
           seen, flags, StubOK, TipOK, ControlOK, Done, Forward, Rewinds,
           Bowdening
  <2>3. TipOK'
    BY <1>1, <1>16
       DEF StopsBulk, StopsFeed, Goto, Quiet, Settled, lane, nozzle, unit,
           seen, flags, TipOK, ControlOK, Bowdening
  <2>4. QED
    BY <2>1, <2>2, <2>3
<1>17. CASE Meets
  <2>1. HeatOK'
    BY <1>1, <1>17
       DEF Meets, Heats, Goto, channel, unit, link, seen, lane, flags, told,
           HeatOK, StubOK, ControlOK, Done, Forward
  <2>2. StubOK'
    BY <1>1, <1>17
       DEF Meets, Heats, Goto, channel, unit, link, seen, lane, flags, told,
           StubOK, TipOK, ControlOK, Done, Forward, Rewinds, Bowdening,
           SeatTriggered, SeatMade, ToolheadMade
  <2>3. TipOK'
    BY <1>1, <1>17
       DEF Meets, Heats, Goto, channel, unit, link, seen, lane, flags, told,
           TipOK, ControlOK, Bowdening, SeatTriggered, SeatMade, ToolheadMade
  <2>4. QED
    BY <2>1, <2>2, <2>3
<1>18. CASE Bites
  <2>1. HeatOK'
    BY <1>1, <1>18
       DEF Bites, Sound, Segment, channel, unit, link, seen, lane, flags, told,
           HeatOK, StubOK, ControlOK, Done, Forward
  <2>2. StubOK'
    BY <1>1, <1>18
       DEF Bites, Sound, Segment, channel, unit, link, seen, lane, flags, told,
           StubOK, TipOK, ControlOK, Done, Forward, Rewinds, Bowdening
  <2>3. TipOK'
    BY <1>1, <1>18
       DEF Bites, Sound, Segment, channel, unit, link, seen, lane, flags, told,
           TipOK, ControlOK, Bowdening
  <2>4. QED
    BY <2>1, <2>2, <2>3
<1>19. CASE Bitten
  <2>1. HeatOK'
    BY <1>1, <1>19
       DEF Bitten, StopsFeed, Goto, Quiet, Settled, lane, nozzle, unit, seen,
           flags, HeatOK, StubOK, ControlOK, Done, Forward
  <2>2. StubOK'
    BY <1>1, <1>19
       DEF Bitten, StopsFeed, Goto, Quiet, Settled, lane, nozzle, unit, seen,
           flags, StubOK, TipOK, ControlOK, Done, Forward, Rewinds, Bowdening
  <2>3. TipOK'
    BY <1>1, <1>19
       DEF Bitten, StopsFeed, Goto, Quiet, Settled, lane, nozzle, unit, seen,
           flags, TipOK, ControlOK, Bowdening
  <2>4. QED
    BY <2>1, <2>2, <2>3
<1>20. CASE Crosses
  <2>1. HeatOK'
    BY <1>1, <1>20
       DEF Crosses, Sound, Segment, channel, unit, link, seen, lane, flags,
           told, HeatOK, StubOK, ControlOK, Done, Forward
  <2>2. StubOK'
    BY <1>1, <1>20
       DEF Crosses, Sound, Segment, channel, unit, link, seen, lane, flags,
           told, StubOK, TipOK, ControlOK, Done, Forward, Rewinds, Bowdening,
           SeatTriggered, SeatMade, ToolheadMade
  <2>3. TipOK'
    BY <1>1, <1>20
       DEF Crosses, Sound, Segment, channel, unit, link, seen, lane, flags,
           told, TipOK, ControlOK, Bowdening, SeatTriggered, SeatMade,
           ToolheadMade
  <2>4. QED
    BY <2>1, <2>2, <2>3
<1>21. CASE Crossed
  <2>1. HeatOK'
    BY <1>1, <1>21
       DEF Crossed, StopsFeed, Goto, Quiet, Settled, lane, nozzle, unit, seen,
           flags, HeatOK, StubOK, ControlOK, Done, Forward
  <2>2. StubOK'
    BY <1>1, <1>21
       DEF Crossed, StopsFeed, Goto, Quiet, Settled, lane, nozzle, unit, seen,
           flags, StubOK, TipOK, ControlOK, Done, Forward, Rewinds, Bowdening,
           SeatTriggered, SeatMade, ToolheadMade
  <2>3. TipOK'
    BY <1>1, <1>21
       DEF Crossed, StopsFeed, Goto, Quiet, Settled, lane, nozzle, unit, seen,
           flags, TipOK, ControlOK, Bowdening, SeatTriggered, SeatMade,
           ToolheadMade
  <2>4. QED
    BY <2>1, <2>2, <2>3
<1>22. CASE BacksOff
  <2>1. HeatOK'
    BY <1>1, <1>22
       DEF BacksOff, Sound, Goto, channel, unit, link, seen, lane, nozzle,
           flags, told, HeatOK, StubOK, ControlOK, Done, Forward
  <2>2. StubOK'
    BY <1>1, <1>22
       DEF BacksOff, Sound, Goto, channel, unit, link, seen, lane, nozzle,
           flags, told, StubOK, TipOK, ControlOK, Done, Forward, Rewinds,
           Bowdening
  <2>3. TipOK'
    BY <1>1, <1>22
       DEF BacksOff, Sound, Goto, channel, unit, link, seen, lane, nozzle,
           flags, told, TipOK, ControlOK, Bowdening
  <2>4. QED
    BY <2>1, <2>2, <2>3
<1>23. CASE Released
  <2>1. HeatOK'
    BY <1>1, <1>23
       DEF Released, Goto, channel, unit, link, seen, lane, nozzle, flags,
           told, HeatOK, StubOK, ControlOK, Done, Forward
  <2>2. StubOK'
    BY <1>1, <1>23
       DEF Released, Goto, channel, unit, link, seen, lane, nozzle, flags,
           told, StubOK, TipOK, ControlOK, Done, Forward, Rewinds, Bowdening
  <2>3. TipOK'
    BY <1>1, <1>23
       DEF Released, Goto, channel, unit, link, seen, lane, nozzle, flags,
           told, TipOK, ControlOK, Bowdening
  <2>4. QED
    BY <2>1, <2>2, <2>3
<1>24. CASE Steps
  <2>1. HeatOK'
    BY <1>1, <1>24
       DEF Steps, Goto, channel, unit, link, seen, lane, nozzle, flags, told,
           HeatOK, StubOK, ControlOK, Done, Forward, Feeds
  <2>2. StubOK'
    BY <1>1, <1>24
       DEF Steps, Goto, channel, unit, link, seen, lane, nozzle, flags, told,
           StubOK, TipOK, ControlOK, Done, Forward, Rewinds, Bowdening
  <2>3. TipOK'
    BY <1>1, <1>24
       DEF Steps, Goto, channel, unit, link, seen, lane, nozzle, flags, told,
           TipOK, ControlOK, Bowdening, Feeds
  <2>4. QED
    BY <2>1, <2>2, <2>3
<1>25. CASE Stepped
  <2>1. HeatOK'
    BY <1>1, <1>25
       DEF Stepped, Goto, channel, unit, link, seen, lane, nozzle, flags, told,
           HeatOK, StubOK, ControlOK, Done, Forward
  <2>2. StubOK'
    BY <1>1, <1>25
       DEF Stepped, Goto, channel, unit, link, seen, lane, nozzle, flags, told,
           StubOK, TipOK, ControlOK, Done, Forward, Rewinds, Bowdening
  <2>3. TipOK'
    BY <1>1, <1>25
       DEF Stepped, Goto, channel, unit, link, seen, lane, nozzle, flags, told,
           TipOK, ControlOK, Bowdening
  <2>4. QED
    BY <2>1, <2>2, <2>3
<1>26. CASE RewindSends
  <2>1. HeatOK'
    BY <1>1, <1>26
       DEF RewindSends, RewindReturns, Ends, Goto, Quiet, flags, steps, told,
           lane, nozzle, unit, seen, HeatOK, StubOK, ControlOK, Done, Forward
  <2>2. StubOK'
    BY <1>1, <1>26
       DEF RewindSends, RewindReturns, Ends, Goto, Quiet, flags, steps, told,
           lane, nozzle, unit, seen, StubOK, TipOK, ControlOK, Done, Forward,
           Rewinds, Bowdening
  <2>3. TipOK'
    BY <1>1, <1>26
       DEF RewindSends, RewindReturns, Ends, Goto, Quiet, flags, steps, told,
           lane, nozzle, unit, seen, TipOK, ControlOK, Bowdening
  <2>4. QED
    BY <2>1, <2>2, <2>3
<1>27. CASE RewindAccepted
  <2>1. HeatOK'
    BY <1>1, <1>27
       DEF RewindAccepted, Goto, channel, unit, link, seen, lane, nozzle,
           flags, steps, told, HeatOK, StubOK, ControlOK, Done, Forward
  <2>2. StubOK'
    BY <1>1, <1>27
       DEF RewindAccepted, Goto, channel, unit, link, seen, lane, nozzle,
           flags, steps, told, StubOK, TipOK, ControlOK, Done, Forward,
           Rewinds, Bowdening
  <2>3. TipOK'
    BY <1>1, <1>27
       DEF RewindAccepted, Goto, channel, unit, link, seen, lane, nozzle,
           flags, steps, told, TipOK, ControlOK, Bowdening
  <2>4. QED
    BY <2>1, <2>2, <2>3
<1>28. CASE RewindRetries /\ pc' = "rewinding"
  <2>1. HeatOK'
    BY <1>1, <1>28
       DEF RewindRetries, Raises, Fails, Ends, Goto, flags, told, unit, seen,
           lane, nozzle, HeatOK, StubOK, ControlOK, Done, Forward
  <2>2. StubOK'
    BY <1>1, <1>28
       DEF RewindRetries, Raises, Fails, Ends, Goto, flags, told, unit, seen,
           lane, nozzle, StubOK, TipOK, ControlOK, Done, Forward, Rewinds,
           Bowdening
  <2>3. TipOK'
    BY <1>1, <1>28
       DEF RewindRetries, Raises, Fails, Ends, Goto, flags, told, unit, seen,
           lane, nozzle, TipOK, ControlOK, Bowdening
  <2>4. QED
    BY <2>1, <2>2, <2>3
<1>29. CASE Rewound
  <2>1. HeatOK'
    BY <1>1, <1>29
       DEF Rewound, RewindReturns, Ends, Goto, Quiet, lane, nozzle, steps,
           told, unit, seen, HeatOK, StubOK, ControlOK, Done, Forward
  <2>2. StubOK'
    BY <1>1, <1>29
       DEF Rewound, RewindReturns, Ends, Goto, Quiet, lane, nozzle, steps,
           told, unit, seen, StubOK, TipOK, ControlOK, Done, Forward, Rewinds,
           Bowdening
  <2>3. TipOK'
    BY <1>1, <1>29
       DEF Rewound, RewindReturns, Ends, Goto, Quiet, lane, nozzle, steps,
           told, unit, seen, TipOK, ControlOK, Bowdening
  <2>4. QED
    BY <2>1, <2>2, <2>3
<1>30. CASE Recovers
  <2>1. HeatOK'
    BY <1>1, <1>30
       DEF Recovers, Ends, Goto, unit, seen, lane, nozzle, told, HeatOK,
           StubOK, ControlOK, Done, Forward
  <2>2. StubOK'
    BY <1>1, <1>30
       DEF Recovers, Ends, Goto, unit, seen, lane, nozzle, told, StubOK, TipOK,
           ControlOK, Done, Forward, Rewinds, Bowdening
  <2>3. TipOK'
    BY <1>1, <1>30
       DEF Recovers, Ends, Goto, unit, seen, lane, nozzle, told, TipOK,
           ControlOK, Bowdening
  <2>4. QED
    BY <2>1, <2>2, <2>3
<1>31. CASE ThroughGears
  <2>1. HeatOK'
    BY <1>1, <1>31
       DEF ThroughGears, Goto, channel, unit, link, seen, lane, nozzle, told,
           HeatOK, StubOK, ControlOK, Done, Forward
  <2>2. StubOK'
    BY <1>1, <1>31
       DEF ThroughGears, Goto, channel, unit, link, seen, lane, nozzle, told,
           StubOK, TipOK, ControlOK, Done, Forward, Rewinds, Bowdening
  <2>3. TipOK'
    BY <1>1, <1>31
       DEF ThroughGears, Goto, channel, unit, link, seen, lane, nozzle, told,
           TipOK, ControlOK, Bowdening
  <2>4. QED
    BY <2>1, <2>2, <2>3
<1>32. CASE Arms
  <2>1. HeatOK'
    BY <1>1, <1>32
       DEF Arms, SendsStart, Goto, Quiet, flags, lane, nozzle, steps, unit,
           seen, Active, HeatOK, StubOK, ControlOK, Done, Forward
  <2>2. StubOK'
    BY <1>1, <1>32
       DEF Arms, SendsStart, Goto, Quiet, flags, lane, nozzle, steps, unit,
           seen, Active, StubOK, TipOK, ControlOK, Done, Forward, Rewinds,
           Bowdening
  <2>3. TipOK'
    BY <1>1, <1>32
       DEF Arms, SendsStart, Goto, Quiet, flags, lane, nozzle, steps, unit,
           seen, TipOK, ControlOK, Bowdening
  <2>4. QED
    BY <2>1, <2>2, <2>3
<1>33. CASE Enables
  <2>1. HeatOK'
    BY <1>1, <1>33
       DEF Enables, SendsStart, Goto, Quiet, lane, nozzle, steps, unit, seen,
           HeatOK, StubOK, ControlOK, Done, Forward
  <2>2. StubOK'
    BY <1>1, <1>33
       DEF Enables, SendsStart, Goto, Quiet, lane, nozzle, steps, unit, seen,
           StubOK, TipOK, ControlOK, Done, Forward, Rewinds, Bowdening
  <2>3. TipOK'
    BY <1>1, <1>33
       DEF Enables, SendsStart, Goto, Quiet, lane, nozzle, steps, unit, seen,
           TipOK, ControlOK, Bowdening
  <2>4. QED
    BY <2>1, <2>2, <2>3
<1>34. CASE AssistAnswered
  <2>1. HeatOK'
    BY <1>1, <1>34
       DEF AssistAnswered, unit, seen, lane, nozzle, steps, told, HeatOK,
           StubOK, ControlOK, Done, Forward
  <2>2. StubOK'
    BY <1>1, <1>34
       DEF AssistAnswered, unit, seen, lane, nozzle, steps, told, StubOK,
           TipOK, ControlOK, Done, Forward, Rewinds, Bowdening
  <2>3. TipOK'
    BY <1>1, <1>34
       DEF AssistAnswered, unit, seen, lane, nozzle, steps, told, TipOK,
           ControlOK, Bowdening
  <2>4. QED
    BY <2>1, <2>2, <2>3
<1>35. CASE Confirms
  <2>1. HeatOK'
    BY <1>1, <1>35
       DEF Confirms, Goto, channel, unit, link, seen, lane, nozzle, flags,
           steps, told, HeatOK, StubOK, ControlOK, Done, Forward
  <2>2. StubOK'
    BY <1>1, <1>35
       DEF Confirms, Goto, channel, unit, link, seen, lane, nozzle, flags,
           steps, told, StubOK, TipOK, ControlOK, Done, Forward, Rewinds,
           Bowdening
  <2>3. TipOK'
    BY <1>1, <1>35
       DEF Confirms, Goto, channel, unit, link, seen, lane, nozzle, flags,
           steps, told, TipOK, ControlOK, Bowdening
  <2>4. QED
    BY <2>1, <2>2, <2>3
<1>36. CASE Unconfirmed /\ pc' = "arm"
  <2>1. HeatOK'
    BY <1>1, <1>36
       DEF Unconfirmed, Raises, Fails, Ends, Goto, Quiet, link, flags, told,
           lane, nozzle, unit, seen, HeatOK, StubOK, ControlOK, Done, Forward
  <2>2. StubOK'
    BY <1>1, <1>36
       DEF Unconfirmed, Raises, Fails, Ends, Goto, Quiet, link, flags, told,
           lane, nozzle, unit, seen, StubOK, TipOK, ControlOK, Done, Forward,
           Rewinds, Bowdening
  <2>3. TipOK'
    BY <1>1, <1>36
       DEF Unconfirmed, Raises, Fails, Ends, Goto, Quiet, link, flags, told,
           lane, nozzle, unit, seen, TipOK, ControlOK, Bowdening
  <2>4. QED
    BY <2>1, <2>2, <2>3
<1>37. CASE Seats
  <2>1. HeatOK'
    BY <1>1, <1>37
       DEF Seats, Over, Ends, Goto, channel, unit, link, seen, steps, told,
           HeatOK, StubOK, ControlOK, Done, Forward
  <2>2. StubOK'
    BY <1>1, <1>37
       DEF Seats, Over, Ends, Goto, channel, unit, link, seen, steps, told,
           StubOK, TipOK, ControlOK, Done, Forward, Rewinds, Bowdening
  <2>3. TipOK'
    BY <1>1, <1>37
       DEF Seats, Over, Ends, Goto, channel, unit, link, seen, steps, told,
           TipOK, ControlOK, Bowdening
  <2>4. QED
    BY <2>1, <2>2, <2>3
<1>38. CASE Hugs
  <2>1. HeatOK'
    BY <1>1, <1>38
       DEF Hugs, Over, Ends, nozzle, flags, channel, unit, link, seen, told,
           HeatOK, StubOK, ControlOK, Done, Forward
  <2>2. StubOK'
    BY <1>1, <1>38
       DEF Hugs, Over, Ends, nozzle, flags, channel, unit, link, seen, told,
           StubOK, TipOK, ControlOK, Done, Forward, Rewinds, Bowdening
  <2>3. TipOK'
    BY <1>1, <1>38
       DEF Hugs, Over, Ends, nozzle, flags, channel, unit, link, seen, told,
           TipOK, ControlOK, Bowdening
  <2>4. QED
    BY <2>1, <2>2, <2>3
<1>39. CASE Enters
  <2>1. HeatOK'
    BY <1>1, <1>39
       DEF Enters, Ends, Goto, channel, unit, link, seen, lane, flags, steps,
           told, HeatOK, StubOK, ControlOK, Done, Forward
  <2>2. StubOK'
    BY <1>1, <1>39
       DEF Enters, Ends, Goto, channel, unit, link, seen, lane, flags, steps,
           told, StubOK, TipOK, ControlOK, Done, Forward, Rewinds, Bowdening
  <2>3. TipOK'
    BY <1>1, <1>39
       DEF Enters, Ends, Goto, channel, unit, link, seen, lane, flags, steps,
           told, TipOK, ControlOK, Bowdening
  <2>4. QED
    BY <2>1, <2>2, <2>3
<1>40. CASE Pushes
  <2>1. HeatOK'
    BY <1>1, <1>40
       DEF Pushes, Ends, unit, seen, lane, nozzle, steps, told, HeatOK, StubOK,
           ControlOK, Done, Forward
  <2>2. StubOK'
    BY <1>1, <1>40
       DEF Pushes, Ends, unit, seen, lane, nozzle, steps, told, StubOK, TipOK,
           ControlOK, Done, Forward, Rewinds, Bowdening
  <2>3. TipOK'
    BY <1>1, <1>40
       DEF Pushes, Ends, unit, seen, lane, nozzle, steps, told, TipOK,
           ControlOK, Bowdening
  <2>4. QED
    BY <2>1, <2>2, <2>3
<1>41. CASE Pushed
  <2>1. HeatOK'
    BY <1>1, <1>41
       DEF Pushed, Over, Ends, lane, nozzle, flags, channel, unit, link, seen,
           told, HeatOK, StubOK, ControlOK, Done, Forward
  <2>2. StubOK'
    BY <1>1, <1>41
       DEF Pushed, Over, Ends, lane, nozzle, flags, channel, unit, link, seen,
           told, StubOK, TipOK, ControlOK, Done, Forward, Rewinds, Bowdening
  <2>3. TipOK'
    BY <1>1, <1>41
       DEF Pushed, Over, Ends, lane, nozzle, flags, channel, unit, link, seen,
           told, TipOK, ControlOK, Bowdening
  <2>4. QED
    BY <2>1, <2>2, <2>3
<1>42. QED
  BY <1>2, <1>3, <1>4, <1>5, <1>6, <1>7, <1>8, <1>9, <1>10, <1>11, <1>12,
     <1>13, <1>14, <1>15, <1>16, <1>17, <1>18, <1>19, <1>20, <1>21, <1>22,
     <1>23, <1>24, <1>25, <1>26, <1>27, <1>28, <1>29, <1>30, <1>31, <1>32,
     <1>33, <1>34, <1>35, <1>36, <1>37, <1>38, <1>39, <1>40, <1>41
     DEF Ordinary

-----------------------------------------------------------------------------
(* The queue and the unit, under the driver *)

(* The driver moves nothing itself.  It sends stops, a feed, an unwind or  *)
(* an assist, each from its own place.                                     *)
Sent ==
  /\ UNCHANGED <<motor, window, slot, frame, stopLost>>
  /\ faults' \in 0 .. MaxFaults /\ beat' \in {beat, FALSE}
  /\ overtaken => overtaken'
  /\ book' = book \/ Begins \/ Chunk \/ Concludes
  /\ \/ Calms(queue, queue') /\ answer' \in {answer, "none"}
     \/ pc = "feed" /\ pc' = "feeding" /\ Attempt("feed")
     \/ pc \in {"rewind", "rewinding"} /\ pc' = "rewinding" /\ Attempt("wind")
     \/ pc \in {"arm", "armwait"} /\ SendsStart

(* What a step sends. *)
LEMMA OrdinaryLink ==
  ASSUME Inv, Ordinary
  PROVE  Sent
<1>0. Fault => faults' \in 0 .. MaxFaults
  BY FaultsAreNat DEF Fault, Inv, UnitTypeOK
<1>1. /\ faults \in 0 .. MaxFaults /\ claim \in BOOLEAN
      /\ Calms(queue, queue) /\ Calms(queue, queue \o Stop)
      /\ Calms(queue, Append(queue, Tells("stop")))
      /\ Calms(queue, Stop \o queue)
  BY CalmRules DEF Inv, UnitTypeOK, LaneOK, FlagsOK, Stop
<1>2. CASE Start
  BY <1>1, <1>2
     DEF Start, Bowden, Prepares, ForgetsStub, Goto, unit, seen, lane, nozzle,
         told, Sent, Stop
<1>3. CASE RefusesLoad
  BY <1>1, <1>3
     DEF RefusesLoad, Ends, channel, unit, link, seen, lane, nozzle, flags,
         steps, told, Sent
<1>4. CASE Aligns
  BY <1>1, <1>4
     DEF Aligns, Heats, Bowden, Prepares, Goto, unit, seen, told, Sent, Stop
<1>5. CASE Nudges
  BY <1>1, <1>5 DEF Nudges, Heats, Bowden, Goto, unit, seen, told, Sent, Stop
<1>6. CASE PreparationRaises
  BY <1>1, <1>6
     DEF PreparationRaises, Ends, channel, unit, link, seen, lane, nozzle,
         flags, steps, told, Sent
<1>7. CASE FeedSends
  BY <1>1, <1>7
     DEF FeedSends, Goto, Quiet, lane, nozzle, flags, steps, told, unit, seen,
         Sent
<1>8. CASE FeedAccepted
  BY <1>1, <1>8
     DEF FeedAccepted, Goto, unit, link, lane, nozzle, flags, told, Sent
<1>9. CASE FeedForbidden /\ pc' = "feed"
  BY <1>1, <1>9
     DEF FeedForbidden, Goto, Quiet, Raises, Fails, Ends, link, flags, told,
         lane, nozzle, unit, seen, Sent
<1>10. CASE Doubts
  BY <1>1, <1>10 DEF Doubts, unit, link, lane, nozzle, flags, told, Sent
<1>11. CASE Relents
  BY <1>1, <1>11
     DEF Relents, channel, unit, link, seen, lane, nozzle, flags, told, Sent
<1>12. CASE Arrives
  BY <1>1, <1>12
     DEF Arrives, Goto, channel, unit, link, seen, lane, nozzle, flags, told,
         Sent
<1>13. CASE IsLate
  BY <1>1, <1>13
     DEF IsLate, Goto, channel, unit, link, seen, lane, nozzle, flags, told,
         Sent
<1>14. CASE Nurses
  BY <1>1, <1>14
     DEF Nurses, Sound, Goto, channel, unit, link, seen, lane, nozzle, flags,
         told, Sent
<1>15. CASE Nursed /\ pc' = "arrived"
  <2>1. queue' \in {queue, queue \o Stop}
        /\ answer' = answer /\ (overtaken => overtaken')
    BY <1>15 DEF Nursed, Goto, Fails, Ends
  <2>2. UNCHANGED <<motor, window, slot, frame, beat, stopLost, faults,
                   book>>
    BY <1>15 DEF Nursed, Quiet, unit, seen
  <2>3. QED
    BY <1>1, <2>1, <2>2 DEF Sent
<1>16. CASE StopsBulk
  <2>1. UNCHANGED <<motor, window, slot, frame, beat, stopLost, faults,
                   book>>
    BY <1>16 DEF StopsBulk, Quiet, unit, seen
  <2>2. StopFeed /\ answer' = answer /\ (overtaken => overtaken')
    <3>1. CASE seat /\ StopsFeed("met")
      BY <3>1 DEF StopsFeed
    <3>2. CASE StopFeed /\ UNCHANGED <<answer, goal, overtaken>>
      BY <3>2
    <3>3. QED
      BY <1>16, <3>1, <3>2 DEF StopsBulk
  <2>3. queue' = Stop \o queue
    BY <2>2 DEF StopFeed, Sooner, Stop
  <2>4. QED
    BY <1>1, <2>1, <2>2, <2>3 DEF Sent
<1>17. CASE Meets
  BY <1>1, <1>17
     DEF Meets, Heats, Goto, channel, unit, link, seen, lane, flags, told, Sent
<1>18. CASE Bites
  BY <1>1, <1>18
     DEF Bites, Sound, Segment, channel, unit, link, seen, lane, flags, told,
         Sent
<1>19. CASE Bitten
  BY <1>1, <1>19
     DEF Bitten, StopsFeed, Goto, Quiet, Settled, lane, nozzle, unit, seen,
         flags, Sent, StopFeed, Sooner, Stop
<1>20. CASE Crosses
  BY <1>1, <1>20
     DEF Crosses, Sound, Segment, channel, unit, link, seen, lane, flags, told,
         Sent
<1>21. CASE Crossed
  BY <1>1, <1>21
     DEF Crossed, StopsFeed, Goto, Quiet, Settled, lane, nozzle, unit, seen,
         flags, Sent, StopFeed, Sooner, Stop
<1>22. CASE BacksOff
  BY <1>1, <1>22
     DEF BacksOff, Sound, Goto, channel, unit, link, seen, lane, nozzle, flags,
         told, Sent
<1>23. CASE Released
  BY <1>1, <1>23
     DEF Released, Goto, channel, unit, link, seen, lane, nozzle, flags, told,
         Sent
<1>24. CASE Steps
  BY <1>1, <1>24
     DEF Steps, Goto, channel, unit, link, seen, lane, nozzle, flags, told,
         Sent
<1>25. CASE Stepped
  BY <1>1, <1>25
     DEF Stepped, Goto, channel, unit, link, seen, lane, nozzle, flags, told,
         Sent
<1>26. CASE RewindSends
  BY <1>1, <1>26
     DEF RewindSends, RewindReturns, Ends, Goto, Quiet, flags, steps, told,
         lane, nozzle, unit, seen, Sent
<1>27. CASE RewindAccepted
  BY <1>1, <1>27
     DEF RewindAccepted, Goto, channel, unit, link, seen, lane, nozzle, flags,
         steps, told, Sent
<1>28. CASE RewindRetries /\ pc' = "rewinding"
  BY <1>1, <1>28, <1>0
     DEF RewindRetries, Raises, Fails, Ends, Goto, flags, told, unit, seen,
         lane, nozzle, Sent, Fault
<1>29. CASE Rewound
  <2>1. queue' \in {queue, queue \o Stop}
        /\ answer' = answer /\ (overtaken => overtaken')
    BY <1>29 DEF Rewound, RewindReturns, told
  <2>2. UNCHANGED <<motor, window, slot, frame, beat, stopLost, faults,
                   book>>
    BY <1>29 DEF Rewound, Quiet, unit, seen
  <2>3. QED
    BY <1>1, <2>1, <2>2 DEF Sent
<1>30. CASE Recovers
  BY <1>1, <1>30
     DEF Recovers, Ends, Goto, unit, seen, lane, nozzle, told, Sent, Stop
<1>31. CASE ThroughGears
  BY <1>1, <1>31
     DEF ThroughGears, Goto, channel, unit, link, seen, lane, nozzle, told,
         Sent
<1>32. CASE Arms
  BY <1>1, <1>32
     DEF Arms, SendsStart, Goto, Quiet, flags, lane, nozzle, steps, unit, seen,
         Sent
<1>33. CASE Enables
  BY <1>1, <1>33
     DEF Enables, SendsStart, Goto, Quiet, lane, nozzle, steps, unit, seen,
         Sent
<1>34. CASE AssistAnswered
  BY <1>1, <1>34
     DEF AssistAnswered, unit, seen, lane, nozzle, steps, told, Sent
<1>35. CASE Confirms
  BY <1>1, <1>35
     DEF Confirms, Goto, channel, unit, link, seen, lane, nozzle, flags, steps,
         told, Sent
<1>36. CASE Unconfirmed /\ pc' = "arm"
  BY <1>1, <1>36
     DEF Unconfirmed, Raises, Fails, Ends, Goto, Quiet, link, flags, told,
         lane, nozzle, unit, seen, Sent
<1>37. CASE Seats
  <2>1. queue' \in {queue}
        /\ answer' = answer /\ (overtaken => overtaken')
    BY <1>37 DEF Seats, Over, channel, link, told
  <2>2. UNCHANGED <<motor, window, slot, frame, beat, stopLost, faults,
                   book>>
    BY <1>37 DEF Seats, Over, channel, unit, seen
  <2>3. QED
    BY <1>1, <2>1, <2>2 DEF Sent
<1>38. CASE Hugs
  BY <1>1, <1>38
     DEF Hugs, Over, Ends, nozzle, flags, channel, unit, link, seen, told, Sent
<1>39. CASE Enters
  BY <1>1, <1>39
     DEF Enters, Ends, Goto, channel, unit, link, seen, lane, flags, steps,
         told, Sent
<1>40. CASE Pushes
  <2>1. Chunk /\ faults' \in 0 .. MaxFaults
    BY <1>0, <1>1, <1>40 DEF Pushes, Chunk
  <2>2. QED
    BY <1>1, <1>40, <2>1
       DEF Pushes, Ends, unit, seen, told, StopRetract, Later, Stop, Sent
<1>41. CASE Pushed
  BY <1>1, <1>41
     DEF Pushed, Over, Ends, lane, nozzle, flags, channel, unit, link, seen,
         told, Sent
<1>42. QED
  BY <1>2, <1>3, <1>4, <1>5, <1>6, <1>7, <1>8, <1>9, <1>10, <1>11, <1>12,
     <1>13, <1>14, <1>15, <1>16, <1>17, <1>18, <1>19, <1>20, <1>21, <1>22,
     <1>23, <1>24, <1>25, <1>26, <1>27, <1>28, <1>29, <1>30, <1>31, <1>32,
     <1>33, <1>34, <1>35, <1>36, <1>37, <1>38, <1>39, <1>40, <1>41
     DEF Ordinary

(* What was sent is typed.  Only a feed or an unwind can disturb a queue   *)
(* that is still, and only a feed one whose feeds are all stopped.         *)
LEMMA SentFacts ==
  ASSUME Inv, Sent
  PROVE  /\ UnitTypeOK'
         /\ motor' = motor /\ frame' = frame /\ stopLost' = stopLost
         /\ beat' => beat
         /\ overtaken => overtaken'
         /\ answer' \in {answer, "none"}
         /\ pc \notin {"feed", "rewind", "rewinding"} /\ Still(queue)
              => Still(queue')
         /\ pc # "feed" /\ Bounded("feed", queue, motor)
              => Bounded("feed", queue', motor)
<1>1. /\ queue \in Seq(Request) /\ beat \in BOOLEAN
      /\ motor' = motor /\ window' = window /\ slot' = slot
      /\ frame' = frame /\ stopLost' = stopLost
      /\ beat' \in {beat, FALSE} /\ faults' \in 0 .. MaxFaults
      /\ overtaken => overtaken'
  BY DEF Inv, UnitTypeOK, Sent
<1>2. \A op \in {"feed", "wind", "assist"} :
        Asks(op) \in Request /\ Asks(op).op = op
  BY RequestTypes DEF Ops
<1>3. Orphaned(queue) \in Seq(Request)
  BY <1>1, OrphanedType
<1> DEFINE Kept == /\ queue' \in Seq(Request) /\ answer' \in {answer, "none"}
                   /\ /\ pc \notin {"feed", "rewind", "rewinding"}
                      /\ Still(queue)
                      => Still(queue')
                   /\ pc # "feed" /\ Bounded("feed", queue, motor)
                        => Bounded("feed", queue', motor)
<1>5. ASSUME Calms(queue, queue') /\ answer' \in {answer, "none"}
      PROVE  Kept
  BY <1>5 DEF Calms, Ops, Still
<1>6. ASSUME pc = "feed" /\ Attempt("feed")
      PROVE  Kept
  BY <1>2, <1>3, <1>6, Appended DEF Attempt
<1>7. ASSUME pc \in {"rewind", "rewinding"} /\ Attempt("wind")
      PROVE  Kept
  <2>1. queue' = Append(Orphaned(queue), Asks("wind")) /\ answer' = "none"
    BY <1>7 DEF Attempt
  <2>2. Bounded("feed", queue, motor) => Bounded("feed", Orphaned(queue), motor)
    BY <1>1, OrphanedStops
  <2>3. QED
    BY <1>2, <1>3, <1>7, <2>1, <2>2, Appended, AppendedStops
<1>8. ASSUME SendsStart
      PROVE  Kept
  BY <1>1, <1>2, <1>8, Appended, AppendedStops DEF SendsStart, Still
<1>9. Kept
  BY <1>5, <1>6, <1>7, <1>8 DEF Sent
<1>10. answer' \in {"none", "ok", "forbidden"}
  BY <1>9 DEF Inv, UnitTypeOK
<1>11. UnitTypeOK'
  <2>1. UnitTypeOK /\ beat' \in BOOLEAN
    BY <1>1 DEF Inv
  <2>2. QED
    BY <1>1, <1>9, <1>10, <2>1 DEF UnitTypeOK
<1>12. beat' => beat
  BY <1>1
<1>13. QED
  BY <1>1, <1>9, <1>11, <1>12

(* The stop that an overrun sends is the last thing queued. *)
LEMMA PushStops ==
  ASSUME Inv, Pushes
  PROVE  OverrunOK'
<1>1. /\ queue \in Seq(Request) /\ pc = "push" /\ motor' = motor
      /\ push' = "overrun" =>
           pc' = "idle" /\ claim' = FALSE /\ queue' = Append(queue, Tells("stop"))
  BY DEF Inv, UnitTypeOK, Pushes, Ends, StopRetract, Later, unit
<1>2. Bounded("assist", Append(queue, Tells("stop")), motor)
  BY <1>1, RequestTypes, AppendedStops
<1>3. QED
  BY <1>1, <1>2 DEF OverrunOK

(* The request that is waited for, the stillness of a load that pays out,  *)
(* and the stop of an overrun, step by step.                               *)
LEMMA OrdinaryChannel ==
  ASSUME Inv, Ordinary
  PROVE  QueueOK' /\ MotionOK' /\ OverrunOK'
<1>1. /\ ControlOK /\ QueueOK /\ MotionOK /\ OverrunOK
      /\ queue \in Seq(Request)
  BY DEF Inv, UnitTypeOK
<1>2. /\ motor' = motor /\ frame' = frame /\ stopLost' = stopLost
      /\ beat' => beat
      /\ pc \notin {"feed", "rewind", "rewinding"} /\ Still(queue)
           => Still(queue')
      /\ queue = <<>> => Still(queue)
  BY OrdinaryLink, SentFacts DEF Still, Lacks
<1>3. CASE Start
  <2>1. QueueOK'
    BY <1>1, <1>3
       DEF Start, Bowden, Prepares, ForgetsStub, Goto, unit, seen, lane,
           nozzle, told, QueueOK
  <2>2. MotionOK'
    BY <1>1, <1>2, <1>3
       DEF Start, Bowden, Prepares, ForgetsStub, Goto, unit, seen, lane,
           nozzle, told, MotionOK, ControlOK, Paying
  <2>3. OverrunOK'
    BY <1>1, <1>3
       DEF Start, Bowden, Prepares, ForgetsStub, Goto, unit, seen, lane,
           nozzle, told, OverrunOK, book
  <2>4. QED
    BY <2>1, <2>2, <2>3
<1>4. CASE RefusesLoad
  <2>1. QueueOK'
    BY <1>1, <1>4
       DEF RefusesLoad, Ends, channel, unit, link, seen, lane, nozzle, flags,
           steps, told, QueueOK
  <2>2. MotionOK'
    BY <1>1, <1>2, <1>4
       DEF RefusesLoad, Ends, channel, unit, link, seen, lane, nozzle, flags,
           steps, told, MotionOK, ControlOK, Paying
  <2>3. OverrunOK'
    BY <1>1, <1>4
       DEF RefusesLoad, Ends, channel, unit, link, seen, lane, nozzle, flags,
           steps, told, OverrunOK, book
  <2>4. QED
    BY <2>1, <2>2, <2>3
<1>5. CASE Aligns
  <2>1. QueueOK'
    BY <1>1, <1>5
       DEF Aligns, Heats, Bowden, Prepares, Goto, unit, seen, told, QueueOK
  <2>2. MotionOK'
    BY <1>1, <1>2, <1>5
       DEF Aligns, Heats, Bowden, Prepares, Goto, unit, seen, told, MotionOK,
           ControlOK, Paying
  <2>3. OverrunOK'
    BY <1>1, <1>5
       DEF Aligns, Heats, Bowden, Prepares, Goto, unit, seen, told, OverrunOK,
           book
  <2>4. QED
    BY <2>1, <2>2, <2>3
<1>6. CASE Nudges
  <2>1. QueueOK'
    BY <1>1, <1>6 DEF Nudges, Heats, Bowden, Goto, unit, seen, told, QueueOK
  <2>2. MotionOK'
    BY <1>1, <1>2, <1>6
       DEF Nudges, Heats, Bowden, Goto, unit, seen, told, MotionOK, ControlOK,
           Paying
  <2>3. OverrunOK'
    BY <1>1, <1>6
       DEF Nudges, Heats, Bowden, Goto, unit, seen, told, OverrunOK, book
  <2>4. QED
    BY <2>1, <2>2, <2>3
<1>7. CASE PreparationRaises
  <2>1. QueueOK'
    BY <1>1, <1>7
       DEF PreparationRaises, Ends, channel, unit, link, seen, lane, nozzle,
           flags, steps, told, QueueOK
  <2>2. MotionOK'
    BY <1>1, <1>2, <1>7
       DEF PreparationRaises, Ends, channel, unit, link, seen, lane, nozzle,
           flags, steps, told, MotionOK, ControlOK, Paying
  <2>3. OverrunOK'
    BY <1>1, <1>7
       DEF PreparationRaises, Ends, channel, unit, link, seen, lane, nozzle,
           flags, steps, told, OverrunOK, book
  <2>4. QED
    BY <2>1, <2>2, <2>3
<1>8. CASE FeedSends
  <2>1. QueueOK'
    <3>1. /\ Orphaned(queue) \in Seq(Request)
          /\ \A i \in DOMAIN Orphaned(queue) : ~Orphaned(queue)[i].live
          /\ queue' = Append(Orphaned(queue), Asks("feed")) /\ answer' = "none"
      BY <1>1, <1>8, OrphanedType DEF FeedSends, Attempt
    <3>2. Asks("feed") \in Request /\ Asks("feed").op = "feed"
      BY RequestTypes DEF Ops
    <3>3. QED
      BY <3>1, <3>2, AppendedType, Appended DEF QueueOK
  <2>2. MotionOK'
    BY <1>1, <1>2, <1>8
       DEF FeedSends, Goto, Quiet, lane, nozzle, flags, steps, told, unit,
           seen, MotionOK, ControlOK, Paying
  <2>3. OverrunOK'
    BY <1>1, <1>8
       DEF FeedSends, Goto, Quiet, lane, nozzle, flags, steps, told, unit,
           seen, OverrunOK, book
  <2>4. QED
    BY <2>1, <2>2, <2>3
<1>9. CASE FeedAccepted
  <2>1. QueueOK'
    BY <1>1, <1>9
       DEF FeedAccepted, Goto, unit, link, lane, nozzle, flags, told, QueueOK,
           Watched, ControlOK, Feeds
  <2>2. MotionOK'
    BY <1>1, <1>2, <1>9
       DEF FeedAccepted, Goto, unit, link, lane, nozzle, flags, told, MotionOK,
           ControlOK, Paying, QueueOK, Feeds
  <2>3. OverrunOK'
    BY <1>1, <1>9
       DEF FeedAccepted, Goto, unit, link, lane, nozzle, flags, told,
           OverrunOK, book
  <2>4. QED
    BY <2>1, <2>2, <2>3
<1>10. CASE FeedForbidden /\ pc' = "feed"
  <2>1. QueueOK'
    BY <1>1, <1>10
       DEF FeedForbidden, Goto, Quiet, Raises, Fails, Ends, link, flags, told,
           lane, nozzle, unit, seen, QueueOK
  <2>2. MotionOK'
    BY <1>1, <1>2, <1>10
       DEF FeedForbidden, Goto, Quiet, Raises, Fails, Ends, link, flags, told,
           lane, nozzle, unit, seen, MotionOK, ControlOK, Paying
  <2>3. OverrunOK'
    BY <1>1, <1>10
       DEF FeedForbidden, Goto, Quiet, Raises, Fails, Ends, link, flags, told,
           lane, nozzle, unit, seen, OverrunOK, book
  <2>4. QED
    BY <2>1, <2>2, <2>3
<1>11. CASE Doubts
  <2>1. QueueOK'
    BY <1>1, <1>11
       DEF Doubts, unit, link, lane, nozzle, flags, told, QueueOK, Watched,
           ControlOK, Feeds
  <2>2. MotionOK'
    BY <1>1, <1>2, <1>11
       DEF Doubts, unit, link, lane, nozzle, flags, told, MotionOK, ControlOK,
           Paying, Watched
  <2>3. OverrunOK'
    BY <1>1, <1>11
       DEF Doubts, unit, link, lane, nozzle, flags, told, OverrunOK, Watched,
           book
  <2>4. QED
    BY <2>1, <2>2, <2>3
<1>12. CASE Relents
  <2>1. QueueOK'
    BY <1>1, <1>12
       DEF Relents, channel, unit, link, seen, lane, nozzle, flags, told,
           QueueOK, Watched, ControlOK, Feeds
  <2>2. MotionOK'
    BY <1>1, <1>2, <1>12
       DEF Relents, channel, unit, link, seen, lane, nozzle, flags, told,
           MotionOK, ControlOK, Paying
  <2>3. OverrunOK'
    BY <1>1, <1>12
       DEF Relents, channel, unit, link, seen, lane, nozzle, flags, told,
           OverrunOK, ControlOK, Watched, book
  <2>4. QED
    BY <2>1, <2>2, <2>3
<1>13. CASE Arrives
  <2>1. QueueOK'
    BY <1>1, <1>13
       DEF Arrives, Goto, channel, unit, link, seen, lane, nozzle, flags, told,
           QueueOK
  <2>2. MotionOK'
    BY <1>1, <1>2, <1>13
       DEF Arrives, Goto, channel, unit, link, seen, lane, nozzle, flags, told,
           MotionOK, ControlOK, Paying
  <2>3. OverrunOK'
    BY <1>1, <1>13
       DEF Arrives, Goto, channel, unit, link, seen, lane, nozzle, flags, told,
           OverrunOK, book
  <2>4. QED
    BY <2>1, <2>2, <2>3
<1>14. CASE IsLate
  <2>1. QueueOK'
    BY <1>1, <1>14
       DEF IsLate, Goto, channel, unit, link, seen, lane, nozzle, flags, told,
           QueueOK
  <2>2. MotionOK'
    BY <1>1, <1>2, <1>14
       DEF IsLate, Goto, channel, unit, link, seen, lane, nozzle, flags, told,
           MotionOK, ControlOK, Paying
  <2>3. OverrunOK'
    BY <1>1, <1>14
       DEF IsLate, Goto, channel, unit, link, seen, lane, nozzle, flags, told,
           OverrunOK, book
  <2>4. QED
    BY <2>1, <2>2, <2>3
<1>15. CASE Nurses
  <2>1. QueueOK'
    BY <1>1, <1>15
       DEF Nurses, Sound, Goto, channel, unit, link, seen, lane, nozzle, flags,
           told, QueueOK
  <2>2. MotionOK'
    BY <1>1, <1>2, <1>15
       DEF Nurses, Sound, Goto, channel, unit, link, seen, lane, nozzle, flags,
           told, MotionOK, ControlOK, Paying
  <2>3. OverrunOK'
    BY <1>1, <1>15
       DEF Nurses, Sound, Goto, channel, unit, link, seen, lane, nozzle, flags,
           told, OverrunOK, book
  <2>4. QED
    BY <2>1, <2>2, <2>3
<1>16. CASE Nursed /\ pc' = "arrived"
  <2>1. QueueOK'
    BY <1>1, <1>16
       DEF Nursed, Goto, Quiet, Fails, Ends, lane, nozzle, unit, seen, QueueOK
  <2>2. MotionOK'
    BY <1>1, <1>2, <1>16
       DEF Nursed, Goto, Quiet, Fails, Ends, lane, nozzle, unit, seen,
           MotionOK, ControlOK, Paying
  <2>3. OverrunOK'
    BY <1>1, <1>16
       DEF Nursed, Goto, Quiet, Fails, Ends, lane, nozzle, unit, seen,
           OverrunOK, book
  <2>4. QED
    BY <2>1, <2>2, <2>3
<1>17. CASE StopsBulk
  <2>1. QueueOK'
    BY <1>1, <1>17
       DEF StopsBulk, StopsFeed, Goto, Quiet, Settled, lane, nozzle, unit,
           seen, flags, QueueOK
  <2>2. MotionOK'
    BY <1>1, <1>2, <1>17
       DEF StopsBulk, StopsFeed, Goto, Quiet, Settled, lane, nozzle, unit,
           seen, flags, MotionOK, ControlOK, Paying, Seen
  <2>3. OverrunOK'
    BY <1>1, <1>17
       DEF StopsBulk, StopsFeed, Goto, Quiet, Settled, lane, nozzle, unit,
           seen, flags, OverrunOK, book
  <2>4. QED
    BY <2>1, <2>2, <2>3
<1>18. CASE Meets
  <2>1. QueueOK'
    BY <1>1, <1>18
       DEF Meets, Heats, Goto, channel, unit, link, seen, lane, flags, told,
           QueueOK
  <2>2. MotionOK'
    BY <1>1, <1>2, <1>18
       DEF Meets, Heats, Goto, channel, unit, link, seen, lane, flags, told,
           MotionOK, ControlOK, Paying, Feeds
  <2>3. OverrunOK'
    BY <1>1, <1>18
       DEF Meets, Heats, Goto, channel, unit, link, seen, lane, flags, told,
           OverrunOK, book
  <2>4. QED
    BY <2>1, <2>2, <2>3
<1>19. CASE Bites
  <2>1. QueueOK'
    BY <1>1, <1>19
       DEF Bites, Sound, Segment, channel, unit, link, seen, lane, flags, told,
           QueueOK, Watched, ControlOK, Feeds
  <2>2. MotionOK'
    BY <1>1, <1>2, <1>19
       DEF Bites, Sound, Segment, channel, unit, link, seen, lane, flags, told,
           MotionOK, ControlOK, Paying
  <2>3. OverrunOK'
    BY <1>1, <1>19
       DEF Bites, Sound, Segment, channel, unit, link, seen, lane, flags, told,
           OverrunOK, book
  <2>4. QED
    BY <2>1, <2>2, <2>3
<1>20. CASE Bitten
  <2>1. QueueOK'
    BY <1>1, <1>20
       DEF Bitten, StopsFeed, Goto, Quiet, Settled, lane, nozzle, unit, seen,
           flags, QueueOK
  <2>2. MotionOK'
    BY <1>1, <1>2, <1>20
       DEF Bitten, StopsFeed, Goto, Quiet, Settled, lane, nozzle, unit, seen,
           flags, MotionOK, ControlOK, Paying, Seen
  <2>3. OverrunOK'
    BY <1>1, <1>20
       DEF Bitten, StopsFeed, Goto, Quiet, Settled, lane, nozzle, unit, seen,
           flags, OverrunOK, book
  <2>4. QED
    BY <2>1, <2>2, <2>3
<1>21. CASE Crosses
  <2>1. QueueOK'
    BY <1>1, <1>21
       DEF Crosses, Sound, Segment, channel, unit, link, seen, lane, flags,
           told, QueueOK, Watched, ControlOK, Feeds
  <2>2. MotionOK'
    BY <1>1, <1>2, <1>21
       DEF Crosses, Sound, Segment, channel, unit, link, seen, lane, flags,
           told, MotionOK, ControlOK, Paying
  <2>3. OverrunOK'
    BY <1>1, <1>21
       DEF Crosses, Sound, Segment, channel, unit, link, seen, lane, flags,
           told, OverrunOK, book
  <2>4. QED
    BY <2>1, <2>2, <2>3
<1>22. CASE Crossed
  <2>1. QueueOK'
    BY <1>1, <1>22
       DEF Crossed, StopsFeed, Goto, Quiet, Settled, lane, nozzle, unit, seen,
           flags, QueueOK
  <2>2. MotionOK'
    BY <1>1, <1>2, <1>22
       DEF Crossed, StopsFeed, Goto, Quiet, Settled, lane, nozzle, unit, seen,
           flags, MotionOK, ControlOK, Paying, Seen
  <2>3. OverrunOK'
    BY <1>1, <1>22
       DEF Crossed, StopsFeed, Goto, Quiet, Settled, lane, nozzle, unit, seen,
           flags, OverrunOK, book
  <2>4. QED
    BY <2>1, <2>2, <2>3
<1>23. CASE BacksOff
  <2>1. QueueOK'
    BY <1>1, <1>23
       DEF BacksOff, Sound, Goto, channel, unit, link, seen, lane, nozzle,
           flags, told, QueueOK
  <2>2. MotionOK'
    BY <1>1, <1>2, <1>23
       DEF BacksOff, Sound, Goto, channel, unit, link, seen, lane, nozzle,
           flags, told, MotionOK, ControlOK, Paying, Feeds
  <2>3. OverrunOK'
    BY <1>1, <1>23
       DEF BacksOff, Sound, Goto, channel, unit, link, seen, lane, nozzle,
           flags, told, OverrunOK, book
  <2>4. QED
    BY <2>1, <2>2, <2>3
<1>24. CASE Released
  <2>1. QueueOK'
    BY <1>1, <1>24
       DEF Released, Goto, channel, unit, link, seen, lane, nozzle, flags,
           told, QueueOK
  <2>2. MotionOK'
    BY <1>1, <1>2, <1>24
       DEF Released, Goto, channel, unit, link, seen, lane, nozzle, flags,
           told, MotionOK, ControlOK, Paying
  <2>3. OverrunOK'
    BY <1>1, <1>24
       DEF Released, Goto, channel, unit, link, seen, lane, nozzle, flags,
           told, OverrunOK, book
  <2>4. QED
    BY <2>1, <2>2, <2>3
<1>25. CASE Steps
  <2>1. QueueOK'
    BY <1>1, <1>25
       DEF Steps, Goto, channel, unit, link, seen, lane, nozzle, flags, told,
           QueueOK
  <2>2. MotionOK'
    BY <1>1, <1>2, <1>25
       DEF Steps, Goto, channel, unit, link, seen, lane, nozzle, flags, told,
           MotionOK, ControlOK, Paying, Feeds
  <2>3. OverrunOK'
    BY <1>1, <1>25
       DEF Steps, Goto, channel, unit, link, seen, lane, nozzle, flags, told,
           OverrunOK, book
  <2>4. QED
    BY <2>1, <2>2, <2>3
<1>26. CASE Stepped
  <2>1. QueueOK'
    BY <1>1, <1>26
       DEF Stepped, Goto, channel, unit, link, seen, lane, nozzle, flags, told,
           QueueOK
  <2>2. MotionOK'
    BY <1>1, <1>2, <1>26
       DEF Stepped, Goto, channel, unit, link, seen, lane, nozzle, flags, told,
           MotionOK, ControlOK, Paying
  <2>3. OverrunOK'
    BY <1>1, <1>26
       DEF Stepped, Goto, channel, unit, link, seen, lane, nozzle, flags, told,
           OverrunOK, book
  <2>4. QED
    BY <2>1, <2>2, <2>3
<1>27. CASE RewindSends
  <2>1. QueueOK'
    BY <1>1, <1>27
       DEF RewindSends, RewindReturns, Ends, Goto, Quiet, flags, steps, told,
           lane, nozzle, unit, seen, QueueOK
  <2>2. MotionOK'
    BY <1>1, <1>2, <1>27
       DEF RewindSends, RewindReturns, Ends, Goto, Quiet, flags, steps, told,
           lane, nozzle, unit, seen, MotionOK, ControlOK, Paying
  <2>3. OverrunOK'
    BY <1>1, <1>27
       DEF RewindSends, RewindReturns, Ends, Goto, Quiet, flags, steps, told,
           lane, nozzle, unit, seen, OverrunOK, book
  <2>4. QED
    BY <2>1, <2>2, <2>3
<1>28. CASE RewindAccepted
  <2>1. QueueOK'
    BY <1>1, <1>28
       DEF RewindAccepted, Goto, channel, unit, link, seen, lane, nozzle,
           flags, steps, told, QueueOK
  <2>2. MotionOK'
    BY <1>1, <1>2, <1>28
       DEF RewindAccepted, Goto, channel, unit, link, seen, lane, nozzle,
           flags, steps, told, MotionOK, ControlOK, Paying
  <2>3. OverrunOK'
    BY <1>1, <1>28
       DEF RewindAccepted, Goto, channel, unit, link, seen, lane, nozzle,
           flags, steps, told, OverrunOK, book
  <2>4. QED
    BY <2>1, <2>2, <2>3
<1>29. CASE RewindRetries /\ pc' = "rewinding"
  <2>1. QueueOK'
    BY <1>1, <1>29
       DEF RewindRetries, Raises, Fails, Ends, Goto, flags, told, unit, seen,
           lane, nozzle, QueueOK
  <2>2. MotionOK'
    BY <1>1, <1>2, <1>29
       DEF RewindRetries, Raises, Fails, Ends, Goto, flags, told, unit, seen,
           lane, nozzle, MotionOK, ControlOK, Paying
  <2>3. OverrunOK'
    BY <1>1, <1>29
       DEF RewindRetries, Raises, Fails, Ends, Goto, flags, told, unit, seen,
           lane, nozzle, OverrunOK, book
  <2>4. QED
    BY <2>1, <2>2, <2>3
<1>30. CASE Rewound
  <2>1. QueueOK'
    BY <1>1, <1>30
       DEF Rewound, RewindReturns, Ends, Goto, Quiet, lane, nozzle, steps,
           told, unit, seen, QueueOK
  <2>2. MotionOK'
    BY <1>1, <1>2, <1>30
       DEF Rewound, RewindReturns, Ends, Goto, Quiet, lane, nozzle, steps,
           told, unit, seen, MotionOK, ControlOK, Paying
  <2>3. OverrunOK'
    BY <1>1, <1>30
       DEF Rewound, RewindReturns, Ends, Goto, Quiet, lane, nozzle, steps,
           told, unit, seen, OverrunOK, book
  <2>4. QED
    BY <2>1, <2>2, <2>3
<1>31. CASE Recovers
  <2>1. QueueOK'
    BY <1>1, <1>31
       DEF Recovers, Ends, Goto, unit, seen, lane, nozzle, told, QueueOK
  <2>2. MotionOK'
    BY <1>1, <1>2, <1>31
       DEF Recovers, Ends, Goto, unit, seen, lane, nozzle, told, MotionOK,
           ControlOK, Paying
  <2>3. OverrunOK'
    BY <1>1, <1>31
       DEF Recovers, Ends, Goto, unit, seen, lane, nozzle, told, OverrunOK,
           book
  <2>4. QED
    BY <2>1, <2>2, <2>3
<1>32. CASE ThroughGears
  <2>1. QueueOK'
    BY <1>1, <1>32
       DEF ThroughGears, Goto, channel, unit, link, seen, lane, nozzle, told,
           QueueOK
  <2>2. MotionOK'
    BY <1>1, <1>2, <1>32
       DEF ThroughGears, Goto, channel, unit, link, seen, lane, nozzle, told,
           MotionOK, ControlOK, Paying
  <2>3. OverrunOK'
    BY <1>1, <1>32
       DEF ThroughGears, Goto, channel, unit, link, seen, lane, nozzle, told,
           OverrunOK, book
  <2>4. QED
    BY <2>1, <2>2, <2>3
<1>33. CASE Arms
  <2>1. QueueOK'
    BY <1>1, <1>33
       DEF Arms, SendsStart, Goto, Quiet, flags, lane, nozzle, steps, unit,
           seen, QueueOK
  <2>2. MotionOK'
    BY <1>1, <1>2, <1>33
       DEF Arms, SendsStart, Goto, Quiet, flags, lane, nozzle, steps, unit,
           seen, MotionOK, ControlOK, Paying, Active
  <2>3. OverrunOK'
    BY <1>1, <1>33
       DEF Arms, SendsStart, Goto, Quiet, flags, lane, nozzle, steps, unit,
           seen, OverrunOK, book
  <2>4. QED
    BY <2>1, <2>2, <2>3
<1>34. CASE Enables
  <2>1. QueueOK'
    BY <1>1, <1>34
       DEF Enables, SendsStart, Goto, Quiet, lane, nozzle, steps, unit, seen,
           QueueOK
  <2>2. MotionOK'
    BY <1>1, <1>2, <1>34
       DEF Enables, SendsStart, Goto, Quiet, lane, nozzle, steps, unit, seen,
           MotionOK, ControlOK, Paying
  <2>3. OverrunOK'
    BY <1>1, <1>34
       DEF Enables, SendsStart, Goto, Quiet, lane, nozzle, steps, unit, seen,
           OverrunOK, book
  <2>4. QED
    BY <2>1, <2>2, <2>3
<1>35. CASE AssistAnswered
  <2>1. QueueOK'
    BY <1>1, <1>35
       DEF AssistAnswered, unit, seen, lane, nozzle, steps, told, QueueOK,
           Watched, ControlOK, Feeds
  <2>2. MotionOK'
    BY <1>1, <1>2, <1>35
       DEF AssistAnswered, unit, seen, lane, nozzle, steps, told, MotionOK,
           ControlOK, Paying
  <2>3. OverrunOK'
    BY <1>1, <1>35
       DEF AssistAnswered, unit, seen, lane, nozzle, steps, told, OverrunOK,
           book
  <2>4. QED
    BY <2>1, <2>2, <2>3
<1>36. CASE Confirms
  <2>1. QueueOK'
    BY <1>1, <1>36
       DEF Confirms, Goto, channel, unit, link, seen, lane, nozzle, flags,
           steps, told, QueueOK
  <2>2. MotionOK'
    BY <1>1, <1>2, <1>36
       DEF Confirms, Goto, channel, unit, link, seen, lane, nozzle, flags,
           steps, told, MotionOK, ControlOK, Paying
  <2>3. OverrunOK'
    BY <1>1, <1>36
       DEF Confirms, Goto, channel, unit, link, seen, lane, nozzle, flags,
           steps, told, OverrunOK, book
  <2>4. QED
    BY <2>1, <2>2, <2>3
<1>37. CASE Unconfirmed /\ pc' = "arm"
  <2>1. QueueOK'
    BY <1>1, <1>37
       DEF Unconfirmed, Raises, Fails, Ends, Goto, Quiet, link, flags, told,
           lane, nozzle, unit, seen, QueueOK
  <2>2. MotionOK'
    BY <1>1, <1>2, <1>37
       DEF Unconfirmed, Raises, Fails, Ends, Goto, Quiet, link, flags, told,
           lane, nozzle, unit, seen, MotionOK, ControlOK, Paying, Active
  <2>3. OverrunOK'
    BY <1>1, <1>37
       DEF Unconfirmed, Raises, Fails, Ends, Goto, Quiet, link, flags, told,
           lane, nozzle, unit, seen, OverrunOK, book
  <2>4. QED
    BY <2>1, <2>2, <2>3
<1>38. CASE Seats
  <2>1. QueueOK'
    BY <1>1, <1>38
       DEF Seats, Over, Ends, Goto, channel, unit, link, seen, steps, told,
           QueueOK
  <2>2. MotionOK'
    BY <1>1, <1>2, <1>38
       DEF Seats, Over, Ends, Goto, channel, unit, link, seen, steps, told,
           MotionOK, ControlOK, Paying
  <2>3. OverrunOK'
    BY <1>1, <1>38
       DEF Seats, Over, Ends, Goto, channel, unit, link, seen, steps, told,
           OverrunOK, book
  <2>4. QED
    BY <2>1, <2>2, <2>3
<1>39. CASE Hugs
  <2>1. QueueOK'
    BY <1>1, <1>39
       DEF Hugs, Over, Ends, nozzle, flags, channel, unit, link, seen, told,
           QueueOK
  <2>2. MotionOK'
    BY <1>1, <1>2, <1>39
       DEF Hugs, Over, Ends, nozzle, flags, channel, unit, link, seen, told,
           MotionOK, ControlOK, Paying
  <2>3. OverrunOK'
    BY <1>1, <1>39
       DEF Hugs, Over, Ends, nozzle, flags, channel, unit, link, seen, told,
           OverrunOK, book
  <2>4. QED
    BY <2>1, <2>2, <2>3
<1>40. CASE Enters
  <2>1. QueueOK'
    BY <1>1, <1>40
       DEF Enters, Ends, Goto, channel, unit, link, seen, lane, flags, steps,
           told, QueueOK
  <2>2. MotionOK'
    BY <1>1, <1>2, <1>40
       DEF Enters, Ends, Goto, channel, unit, link, seen, lane, flags, steps,
           told, MotionOK, ControlOK, Paying
  <2>3. OverrunOK'
    BY <1>1, <1>40
       DEF Enters, Ends, Goto, channel, unit, link, seen, lane, flags, steps,
           told, OverrunOK, Begins, book
  <2>4. QED
    BY <2>1, <2>2, <2>3
<1>41. CASE Pushes
  <2>1. QueueOK'
    BY <1>1, <1>41
       DEF Pushes, Ends, unit, seen, lane, nozzle, steps, told, QueueOK
  <2>2. MotionOK'
    BY <1>1, <1>2, <1>41
       DEF Pushes, Ends, unit, seen, lane, nozzle, steps, told, MotionOK,
           ControlOK, Paying
  <2>3. OverrunOK'
    BY <1>1, <1>41, PushStops DEF Pushes, Ends, told
  <2>4. QED
    BY <2>1, <2>2, <2>3
<1>42. CASE Pushed
  <2>1. QueueOK'
    BY <1>1, <1>42
       DEF Pushed, Over, Ends, lane, nozzle, flags, channel, unit, link, seen,
           told, QueueOK
  <2>2. MotionOK'
    BY <1>1, <1>2, <1>42
       DEF Pushed, Over, Ends, lane, nozzle, flags, channel, unit, link, seen,
           told, MotionOK, ControlOK, Paying
  <2>3. OverrunOK'
    BY <1>1, <1>42
       DEF Pushed, Over, Ends, lane, nozzle, flags, channel, unit, link, seen,
           told, OverrunOK, Concludes, book
  <2>4. QED
    BY <2>1, <2>2, <2>3
<1>43. QED
  BY <1>3, <1>4, <1>5, <1>6, <1>7, <1>8, <1>9, <1>10, <1>11, <1>12, <1>13,
     <1>14, <1>15, <1>16, <1>17, <1>18, <1>19, <1>20, <1>21, <1>22, <1>23,
     <1>24, <1>25, <1>26, <1>27, <1>28, <1>29, <1>30, <1>31, <1>32, <1>33,
     <1>34, <1>35, <1>36, <1>37, <1>38, <1>39, <1>40, <1>41, <1>42
     DEF Ordinary

(* A feed is sent behind feeds that have their stops. *)
LEMMA FeedQueued ==
  ASSUME Inv, FeedOK, FeedSends
  PROVE  FeedOK'
<1>1. /\ queue \in Seq(Request) /\ pc = "feed" /\ pc' = "feeding"
      /\ queue' = Append(Orphaned(queue), Asks("feed")) /\ answer' = "none"
      /\ UNCHANGED <<motor, stopLost, overtaken>>
  BY DEF Inv, UnitTypeOK, FeedSends, Attempt, Goto, Quiet, unit, told
<1>2. Asks("feed") \in Request /\ Asks("feed").live
  BY RequestTypes DEF Ops
<1>3. Orphaned(queue) \in Seq(Request)
  BY <1>1, OrphanedType
<1>4. SUFFICES ASSUME ~stopLost, ~overtaken, ~Nipping
               PROVE  /\ motor = "feed" => StopAfter(queue', 0)
                      /\ \A i \in DOMAIN queue' :
                           queue'[i].op = "feed" /\ ~queue'[i].live
                             => StopAfter(queue', i)
  BY <1>1 DEF FeedOK, FeedSends, Goto, Quiet, steps, Paying, Nipping, Arming
<1>5. Bounded("feed", Orphaned(queue), motor)
  BY <1>1, <1>4, OrphanedStops DEF FeedOK, Paying, Arming
<1>6. \A i \in DOMAIN Orphaned(queue) \cup {0} :
        StopAfter(Orphaned(queue), i) => StopAfter(queue', i)
  BY <1>1, <1>2, <1>3, AppendedStops
<1>7. \A i \in DOMAIN queue' : ~queue'[i].live =>
        i \in DOMAIN Orphaned(queue) /\ queue'[i] = Orphaned(queue)[i]
  BY <1>1, <1>2, <1>3, Appended
<1>8. QED
  BY <1>5, <1>6, <1>7 DEF Bounded

(* A stop behind every feed, and what a load knows of its assist, step by  *)
(* step.                                                                   *)
LEMMA OrdinaryFeeds ==
  ASSUME Inv, Ordinary, ArmOK, FeedOK
  PROVE  ArmOK' /\ FeedOK'
<1>1. /\ ControlOK /\ QueueOK /\ MotionOK /\ ArmOK /\ FeedOK
      /\ queue \in Seq(Request) /\ queued \in 0 .. 1
  BY DEF Inv, UnitTypeOK, LaneOK, PlaceOK
<1>2. /\ motor' = motor /\ frame' = frame /\ stopLost' = stopLost
      /\ overtaken => overtaken'
      /\ pc \notin {"feed", "rewind", "rewinding"} /\ Still(queue)
           => Still(queue')
      /\ pc # "feed" /\ Bounded("feed", queue, motor)
           => Bounded("feed", queue', motor')
  BY OrdinaryLink, SentFacts
<1>3. /\ pc = "feeding" /\ answer = "forbidden" /\ ~Nipping
      /\ ~stopLost /\ ~overtaken
      => Bounded("feed", queue, motor)
  BY <1>1 DEF QueueOK, FeedOK, Bounded, StopAfter
<1>4. Still(queue) => Bounded("feed", <<Tells("stop")>> \o queue, motor)
  BY <1>1, RequestTypes, PrependedStops DEF Still
<1>5. Still(queue) /\ motor \notin Moves => Bounded("feed", queue, motor)
  BY DEF Still, Lacks, Bounded, Moves
<1>6. UnitTypeOK /\ UnitTypeOK'
  BY OrdinaryLink, SentFacts DEF Inv
<1>7. CASE Start
  <2>1. ArmOK'
    BY <1>1, <1>2, <1>7
       DEF Start, Bowden, Prepares, ForgetsStub, Goto, unit, seen, lane,
           nozzle, told, ArmOK, Arming, ControlOK, Paying
  <2>2. FeedOK'
    BY <1>1, <1>2, <1>7
       DEF Start, Bowden, Prepares, ForgetsStub, Goto, unit, seen, lane,
           nozzle, told, FeedOK, Nipping, Arming, Assured, ControlOK, Paying
  <2>3. QED
    BY <2>1, <2>2
<1>8. CASE RefusesLoad
  <2>1. ArmOK'
    BY <1>1, <1>2, <1>8
       DEF RefusesLoad, Ends, channel, unit, link, seen, lane, nozzle, flags,
           steps, told, ArmOK, Arming, ControlOK, Paying
  <2>2. FeedOK'
    BY <1>1, <1>2, <1>8
       DEF RefusesLoad, Ends, channel, unit, link, seen, lane, nozzle, flags,
           steps, told, FeedOK, Nipping, Arming, Assured, ControlOK, Paying
  <2>3. QED
    BY <2>1, <2>2
<1>9. CASE Aligns
  <2>1. ArmOK'
    BY <1>1, <1>2, <1>9
       DEF Aligns, Heats, Bowden, Prepares, Goto, unit, seen, told, ArmOK,
           Arming, ControlOK, Paying
  <2>2. FeedOK'
    BY <1>1, <1>2, <1>9
       DEF Aligns, Heats, Bowden, Prepares, Goto, unit, seen, told, FeedOK,
           Nipping, Arming, Assured, ControlOK, Paying
  <2>3. QED
    BY <2>1, <2>2
<1>10. CASE Nudges
  <2>1. ArmOK'
    BY <1>1, <1>2, <1>10
       DEF Nudges, Heats, Bowden, Goto, unit, seen, told, ArmOK, Arming,
           ControlOK, Paying
  <2>2. FeedOK'
    BY <1>1, <1>2, <1>10
       DEF Nudges, Heats, Bowden, Goto, unit, seen, told, FeedOK, Nipping,
           Arming, Assured, ControlOK, Paying
  <2>3. QED
    BY <2>1, <2>2
<1>11. CASE PreparationRaises
  <2>1. ArmOK'
    BY <1>1, <1>2, <1>11
       DEF PreparationRaises, Ends, channel, unit, link, seen, lane, nozzle,
           flags, steps, told, ArmOK, Arming, ControlOK, Paying
  <2>2. FeedOK'
    BY <1>1, <1>2, <1>11
       DEF PreparationRaises, Ends, channel, unit, link, seen, lane, nozzle,
           flags, steps, told, FeedOK, Nipping, Arming, Assured, ControlOK,
           Paying
  <2>3. QED
    BY <2>1, <2>2
<1>12. CASE FeedSends
  <2>1. ArmOK'
    BY <1>1, <1>2, <1>12
       DEF FeedSends, Goto, Quiet, lane, nozzle, flags, steps, told, unit,
           seen, ArmOK, Arming, ControlOK
  <2>2. FeedOK'
    BY <1>1, <1>2, <1>12, FeedQueued DEF FeedSends, Goto
  <2>3. QED
    BY <2>1, <2>2
<1>13. CASE FeedAccepted
  <2>1. ArmOK'
    BY <1>1, <1>2, <1>13
       DEF FeedAccepted, Goto, unit, link, lane, nozzle, flags, told, ArmOK,
           Arming, ControlOK, Paying, Feeds
  <2>2. FeedOK'
    BY <1>1, <1>2, <1>13
       DEF FeedAccepted, Goto, unit, link, lane, nozzle, flags, told, FeedOK,
           Nipping, Arming, Assured, ControlOK, Paying, Feeds
  <2>3. QED
    BY <2>1, <2>2
<1>14. CASE FeedForbidden /\ pc' = "feed"
  <2>1. ArmOK'
    BY <1>1, <1>2, <1>14, <1>3
       DEF FeedForbidden, Goto, Quiet, Raises, Fails, Ends, link, flags, told,
           lane, nozzle, unit, seen, ArmOK, Arming, ControlOK, Paying
  <2>2. FeedOK'
    BY <1>1, <1>2, <1>14, <1>3
       DEF FeedForbidden, Goto, Quiet, Raises, Fails, Ends, link, flags, told,
           lane, nozzle, unit, seen, FeedOK, Nipping, Arming, Assured,
           ControlOK, Paying
  <2>3. QED
    BY <2>1, <2>2
<1>15. CASE Doubts
  <2>1. ArmOK'
    BY <1>1, <1>2, <1>15
       DEF Doubts, unit, link, lane, nozzle, flags, told, ArmOK, Arming,
           ControlOK, Paying, Watched
  <2>2. FeedOK'
    BY <1>1, <1>2, <1>15
       DEF Doubts, unit, link, lane, nozzle, flags, told, FeedOK, Nipping,
           Arming, Assured, ControlOK, Paying, Watched
  <2>3. QED
    BY <2>1, <2>2
<1>16. CASE Relents
  <2>1. ArmOK'
    BY <1>1, <1>2, <1>16
       DEF Relents, channel, unit, link, seen, lane, nozzle, flags, told,
           ArmOK, Arming, ControlOK, Paying, Watched
  <2>2. FeedOK'
    BY <1>1, <1>2, <1>16
       DEF Relents, channel, unit, link, seen, lane, nozzle, flags, told,
           FeedOK, Nipping, Arming, Assured, ControlOK, Paying, Watched
  <2>3. QED
    BY <2>1, <2>2
<1>17. CASE Arrives
  <2>1. ArmOK'
    BY <1>1, <1>2, <1>17
       DEF Arrives, Goto, channel, unit, link, seen, lane, nozzle, flags, told,
           ArmOK, Arming, ControlOK, Paying
  <2>2. FeedOK'
    BY <1>1, <1>2, <1>17
       DEF Arrives, Goto, channel, unit, link, seen, lane, nozzle, flags, told,
           FeedOK, Nipping, Arming, Assured, ControlOK, Paying
  <2>3. QED
    BY <2>1, <2>2
<1>18. CASE IsLate
  <2>1. ArmOK'
    BY <1>1, <1>2, <1>18
       DEF IsLate, Goto, channel, unit, link, seen, lane, nozzle, flags, told,
           ArmOK, Arming, ControlOK, Paying
  <2>2. FeedOK'
    BY <1>1, <1>2, <1>18
       DEF IsLate, Goto, channel, unit, link, seen, lane, nozzle, flags, told,
           FeedOK, Nipping, Arming, Assured, ControlOK, Paying
  <2>3. QED
    BY <2>1, <2>2
<1>19. CASE Nurses
  <2>1. ArmOK'
    BY <1>1, <1>2, <1>19
       DEF Nurses, Sound, Goto, channel, unit, link, seen, lane, nozzle, flags,
           told, ArmOK, Arming, ControlOK, Paying
  <2>2. FeedOK'
    BY <1>1, <1>2, <1>19
       DEF Nurses, Sound, Goto, channel, unit, link, seen, lane, nozzle, flags,
           told, FeedOK, Nipping, Arming, Assured, ControlOK, Paying
  <2>3. QED
    BY <2>1, <2>2
<1>20. CASE Nursed /\ pc' = "arrived"
  <2>1. ArmOK'
    BY <1>1, <1>2, <1>20
       DEF Nursed, Goto, Quiet, Fails, Ends, lane, nozzle, unit, seen, ArmOK,
           Arming, ControlOK, Paying
  <2>2. FeedOK'
    BY <1>1, <1>2, <1>20
       DEF Nursed, Goto, Quiet, Fails, Ends, lane, nozzle, unit, seen, FeedOK,
           Nipping, Arming, Assured, ControlOK, Paying
  <2>3. QED
    BY <2>1, <2>2
<1>21. CASE StopsBulk
  <2>1. ArmOK'
    BY <1>1, <1>2, <1>21, <1>4
       DEF StopsBulk, StopsFeed, Goto, Quiet, Settled, lane, nozzle, unit,
           seen, flags, ArmOK, Arming, ControlOK, Paying, Seen, MotionOK,
           StopFeed, Sooner
  <2>2. FeedOK'
    BY <1>1, <1>2, <1>21, <1>4
       DEF StopsBulk, StopsFeed, Goto, Quiet, Settled, lane, nozzle, unit,
           seen, flags, FeedOK, Nipping, Arming, Assured, ControlOK, Paying,
           Seen, MotionOK, StopFeed, Sooner
  <2>3. QED
    BY <2>1, <2>2
<1>22. CASE Meets
  <2>1. ArmOK'
    BY <1>1, <1>2, <1>22
       DEF Meets, Heats, Goto, channel, unit, link, seen, lane, flags, told,
           ArmOK, Arming, ControlOK, Paying, Feeds
  <2>2. FeedOK'
    BY <1>1, <1>2, <1>22
       DEF Meets, Heats, Goto, channel, unit, link, seen, lane, flags, told,
           FeedOK, Nipping, Arming, Assured, ControlOK, Paying, Feeds
  <2>3. QED
    BY <2>1, <2>2
<1>23. CASE Bites
  <2>1. ArmOK'
    BY <1>1, <1>2, <1>23
       DEF Bites, Sound, Segment, channel, unit, link, seen, lane, flags, told,
           ArmOK, Arming, ControlOK, Paying
  <2>2. FeedOK'
    BY <1>1, <1>2, <1>23
       DEF Bites, Sound, Segment, channel, unit, link, seen, lane, flags, told,
           FeedOK, Nipping, Arming, Assured, ControlOK, Paying
  <2>3. QED
    BY <2>1, <2>2
<1>24. CASE Bitten
  <2>1. ArmOK'
    BY <1>1, <1>2, <1>24, <1>4
       DEF Bitten, StopsFeed, Goto, Quiet, Settled, lane, nozzle, unit, seen,
           flags, ArmOK, Arming, ControlOK, Paying, Seen, MotionOK, StopFeed,
           Sooner
  <2>2. FeedOK'
    BY <1>1, <1>2, <1>24, <1>4
       DEF Bitten, StopsFeed, Goto, Quiet, Settled, lane, nozzle, unit, seen,
           flags, FeedOK, Nipping, Arming, Assured, ControlOK, Paying, Seen,
           MotionOK, StopFeed, Sooner
  <2>3. QED
    BY <2>1, <2>2
<1>25. CASE Crosses
  <2>1. ArmOK'
    BY <1>1, <1>2, <1>25
       DEF Crosses, Sound, Segment, channel, unit, link, seen, lane, flags,
           told, ArmOK, Arming, ControlOK, Paying
  <2>2. FeedOK'
    BY <1>1, <1>2, <1>25
       DEF Crosses, Sound, Segment, channel, unit, link, seen, lane, flags,
           told, FeedOK, Nipping, Arming, Assured, ControlOK, Paying
  <2>3. QED
    BY <2>1, <2>2
<1>26. CASE Crossed
  <2>1. ArmOK'
    BY <1>1, <1>2, <1>26, <1>4
       DEF Crossed, StopsFeed, Goto, Quiet, Settled, lane, nozzle, unit, seen,
           flags, ArmOK, Arming, ControlOK, Paying, Seen, MotionOK, StopFeed,
           Sooner
  <2>2. FeedOK'
    BY <1>1, <1>2, <1>26, <1>4
       DEF Crossed, StopsFeed, Goto, Quiet, Settled, lane, nozzle, unit, seen,
           flags, FeedOK, Nipping, Arming, Assured, ControlOK, Paying, Seen,
           MotionOK, StopFeed, Sooner
  <2>3. QED
    BY <2>1, <2>2
<1>27. CASE BacksOff
  <2>1. ArmOK'
    BY <1>1, <1>2, <1>27
       DEF BacksOff, Sound, Goto, channel, unit, link, seen, lane, nozzle,
           flags, told, ArmOK, Arming, ControlOK, Paying
  <2>2. FeedOK'
    BY <1>1, <1>2, <1>27
       DEF BacksOff, Sound, Goto, channel, unit, link, seen, lane, nozzle,
           flags, told, FeedOK, Nipping, Arming, Assured, ControlOK, Paying
  <2>3. QED
    BY <2>1, <2>2
<1>28. CASE Released
  <2>1. ArmOK'
    BY <1>1, <1>2, <1>28
       DEF Released, Goto, channel, unit, link, seen, lane, nozzle, flags,
           told, ArmOK, Arming, ControlOK, Paying
  <2>2. FeedOK'
    BY <1>1, <1>2, <1>28
       DEF Released, Goto, channel, unit, link, seen, lane, nozzle, flags,
           told, FeedOK, Nipping, Arming, Assured, ControlOK, Paying
  <2>3. QED
    BY <2>1, <2>2
<1>29. CASE Steps
  <2>1. ArmOK'
    BY <1>1, <1>2, <1>29
       DEF Steps, Goto, channel, unit, link, seen, lane, nozzle, flags, told,
           ArmOK, Arming, ControlOK, Paying, Feeds
  <2>2. FeedOK'
    BY <1>1, <1>2, <1>29
       DEF Steps, Goto, channel, unit, link, seen, lane, nozzle, flags, told,
           FeedOK, Nipping, Arming, Assured, ControlOK, Paying, Feeds
  <2>3. QED
    BY <2>1, <2>2
<1>30. CASE Stepped
  <2>1. ArmOK'
    BY <1>1, <1>2, <1>30, <1>5
       DEF Stepped, Goto, channel, unit, link, seen, lane, nozzle, flags, told,
           ArmOK, Arming, ControlOK, Paying, Seen, MotionOK
  <2>2. FeedOK'
    BY <1>1, <1>2, <1>30, <1>5
       DEF Stepped, Goto, channel, unit, link, seen, lane, nozzle, flags, told,
           FeedOK, Nipping, Arming, Assured, ControlOK, Forward, Paying, ArmOK
  <2>3. QED
    BY <2>1, <2>2
<1>31. CASE RewindSends
  <2>1. ArmOK'
    BY <1>1, <1>2, <1>31
       DEF RewindSends, RewindReturns, Ends, Goto, Quiet, flags, steps, told,
           lane, nozzle, unit, seen, ArmOK, Arming, ControlOK, Rewinds
  <2>2. FeedOK'
    BY <1>1, <1>2, <1>31
       DEF RewindSends, RewindReturns, Ends, Goto, Quiet, flags, steps, told,
           lane, nozzle, unit, seen, FeedOK, Nipping, Arming, Assured,
           ControlOK, Paying
  <2>3. QED
    BY <2>1, <2>2
<1>32. CASE RewindAccepted
  <2>1. ArmOK'
    BY <1>1, <1>2, <1>32
       DEF RewindAccepted, Goto, channel, unit, link, seen, lane, nozzle,
           flags, steps, told, ArmOK, Arming, ControlOK, Paying
  <2>2. FeedOK'
    BY <1>1, <1>2, <1>32
       DEF RewindAccepted, Goto, channel, unit, link, seen, lane, nozzle,
           flags, steps, told, FeedOK, Nipping, Arming, Assured, ControlOK,
           Paying
  <2>3. QED
    BY <2>1, <2>2
<1>33. CASE RewindRetries /\ pc' = "rewinding"
  <2>1. ArmOK'
    BY <1>1, <1>2, <1>33
       DEF RewindRetries, Raises, Fails, Ends, Goto, flags, told, unit, seen,
           lane, nozzle, ArmOK, Arming, ControlOK, Paying
  <2>2. FeedOK'
    BY <1>1, <1>2, <1>33
       DEF RewindRetries, Raises, Fails, Ends, Goto, flags, told, unit, seen,
           lane, nozzle, FeedOK, Nipping, Arming, Assured, ControlOK, Paying
  <2>3. QED
    BY <2>1, <2>2
<1>34. CASE Rewound
  <2>1. ArmOK'
    BY <1>1, <1>2, <1>34
       DEF Rewound, RewindReturns, Ends, Goto, Quiet, lane, nozzle, steps,
           told, unit, seen, ArmOK, Arming, ControlOK, Rewinds
  <2>2. FeedOK'
    BY <1>1, <1>2, <1>34
       DEF Rewound, RewindReturns, Ends, Goto, Quiet, lane, nozzle, steps,
           told, unit, seen, FeedOK, Nipping, Arming, Assured, ControlOK,
           Paying
  <2>3. QED
    BY <2>1, <2>2
<1>35. CASE Recovers
  <2>1. ArmOK'
    BY <1>1, <1>2, <1>35
       DEF Recovers, Ends, Goto, unit, seen, lane, nozzle, told, ArmOK, Arming,
           ControlOK, Paying
  <2>2. FeedOK'
    BY <1>1, <1>2, <1>35
       DEF Recovers, Ends, Goto, unit, seen, lane, nozzle, told, FeedOK,
           Nipping, Arming, Assured, ControlOK, Paying
  <2>3. QED
    BY <2>1, <2>2
<1>36. CASE ThroughGears
  <2>1. ArmOK'
    BY <1>1, <1>2, <1>36
       DEF ThroughGears, Goto, channel, unit, link, seen, lane, nozzle, told,
           ArmOK, Arming, MotionOK, Paying
  <2>2. FeedOK'
    BY <1>1, <1>2, <1>36
       DEF ThroughGears, Goto, channel, unit, link, seen, lane, nozzle, told,
           FeedOK, Nipping, Arming, Assured, ControlOK, Paying
  <2>3. QED
    BY <2>1, <2>2
<1>37. CASE Arms
  <2>1. ArmOK'
    BY <1>1, <1>2, <1>37
       DEF Arms, SendsStart, Goto, Quiet, flags, lane, nozzle, steps, unit,
           seen, ArmOK, Arming, ControlOK, Paying, Active
  <2>2. FeedOK'
    BY <1>1, <1>2, <1>37
       DEF Arms, SendsStart, Goto, Quiet, flags, lane, nozzle, steps, unit,
           seen, FeedOK, Nipping, Arming, Assured, ControlOK, Paying, Active
  <2>3. QED
    BY <2>1, <2>2
<1>38. CASE Enables
  <2>1. ArmOK'
    BY <1>1, <1>2, <1>38
       DEF Enables, SendsStart, Goto, Quiet, lane, nozzle, steps, unit, seen,
           ArmOK, Arming, ControlOK, Paying
  <2>2. FeedOK'
    BY <1>1, <1>2, <1>38
       DEF Enables, SendsStart, Goto, Quiet, lane, nozzle, steps, unit, seen,
           FeedOK, Nipping, Arming, Assured, ControlOK, Paying
  <2>3. QED
    BY <2>1, <2>2
<1>39. CASE AssistAnswered
  <2>1. ArmOK'
    BY <1>1, <1>2, <1>39
       DEF AssistAnswered, unit, seen, lane, nozzle, steps, told, ArmOK,
           Arming, ControlOK, Paying
  <2>2. FeedOK'
    <3>1. /\ arming /\ ~arming' /\ answer' = "none" /\ queue' = queue
          /\ pc # "feeding"
          /\ claim' => answer = "ok" \/ frame.assisting
          /\ UNCHANGED <<pc, goal, overtaken>>
      BY <1>1, <1>39 DEF AssistAnswered, steps, told, ControlOK
    <3>2. Assured' => Assured
      BY <1>2, <3>1 DEF Assured
    <3>3. QED
      BY <1>1, <1>2, <3>1, <3>2 DEF FeedOK, Paying, Nipping, Arming
  <2>3. QED
    BY <2>1, <2>2
<1>40. CASE Confirms
  <2>1. ArmOK'
    BY <1>1, <1>2, <1>40
       DEF Confirms, Goto, channel, unit, link, seen, lane, nozzle, flags,
           steps, told, ArmOK, Arming, ControlOK, Paying
  <2>2. FeedOK'
    BY <1>1, <1>2, <1>40
       DEF Confirms, Goto, channel, unit, link, seen, lane, nozzle, flags,
           steps, told, FeedOK, Nipping, Arming, Assured, ControlOK, Paying,
           Active
  <2>3. QED
    BY <2>1, <2>2
<1>41. CASE Unconfirmed /\ pc' = "arm"
  <2>1. ArmOK'
    BY <1>1, <1>2, <1>41
       DEF Unconfirmed, Raises, Fails, Ends, Goto, Quiet, link, flags, told,
           lane, nozzle, unit, seen, ArmOK, Arming, ControlOK, Paying, Active
  <2>2. FeedOK'
    BY <1>1, <1>2, <1>41
       DEF Unconfirmed, Raises, Fails, Ends, Goto, Quiet, link, flags, told,
           lane, nozzle, unit, seen, FeedOK, Nipping, Arming, Assured,
           ControlOK, Paying, Active
  <2>3. QED
    BY <2>1, <2>2
<1>42. CASE Seats
  <2>1. ArmOK'
    BY <1>1, <1>2, <1>42
       DEF Seats, Over, Ends, Goto, channel, unit, link, seen, steps, told,
           ArmOK, Arming, ControlOK, Paying
  <2>2. FeedOK'
    BY <1>1, <1>2, <1>42
       DEF Seats, Over, Ends, Goto, channel, unit, link, seen, steps, told,
           FeedOK, Nipping, Arming, Assured, ControlOK, Paying
  <2>3. QED
    BY <2>1, <2>2
<1>43. CASE Hugs
  <2>1. ArmOK'
    BY <1>1, <1>2, <1>43
       DEF Hugs, Over, Ends, nozzle, flags, channel, unit, link, seen, told,
           ArmOK, Arming, ControlOK, Paying
  <2>2. FeedOK'
    BY <1>1, <1>2, <1>43
       DEF Hugs, Over, Ends, nozzle, flags, channel, unit, link, seen, told,
           FeedOK, Nipping, Arming, Assured, ControlOK, Paying
  <2>3. QED
    BY <2>1, <2>2
<1>44. CASE Enters
  <2>1. ArmOK'
    BY <1>1, <1>2, <1>44
       DEF Enters, Ends, Goto, channel, unit, link, seen, lane, flags, steps,
           told, ArmOK, Arming, ControlOK, Paying
  <2>2. FeedOK'
    BY <1>1, <1>2, <1>44
       DEF Enters, Ends, Goto, channel, unit, link, seen, lane, flags, steps,
           told, FeedOK, Nipping, Arming, Assured, ControlOK, Paying
  <2>3. QED
    BY <2>1, <2>2
<1>45. CASE Pushes
  <2>1. ArmOK'
    BY <1>1, <1>2, <1>45
       DEF Pushes, Ends, unit, seen, lane, nozzle, steps, told, ArmOK, Arming,
           ControlOK, Paying
  <2>2. FeedOK'
    BY <1>1, <1>2, <1>45
       DEF Pushes, Ends, unit, seen, lane, nozzle, steps, told, FeedOK,
           Nipping, Arming, Assured, ControlOK, Paying
  <2>3. QED
    BY <2>1, <2>2
<1>46. CASE Pushed
  <2>1. ArmOK'
    BY <1>1, <1>2, <1>46
       DEF Pushed, Over, Ends, lane, nozzle, flags, channel, unit, link, seen,
           told, ArmOK, Arming, ControlOK, Paying
  <2>2. FeedOK'
    BY <1>1, <1>2, <1>46
       DEF Pushed, Over, Ends, lane, nozzle, flags, channel, unit, link, seen,
           told, FeedOK, Nipping, Arming, Assured, ControlOK, Paying
  <2>3. QED
    BY <2>1, <2>2
<1>47. QED
  BY <1>7, <1>8, <1>9, <1>10, <1>11, <1>12, <1>13, <1>14, <1>15, <1>16, <1>17,
     <1>18, <1>19, <1>20, <1>21, <1>22, <1>23, <1>24, <1>25, <1>26, <1>27,
     <1>28, <1>29, <1>30, <1>31, <1>32, <1>33, <1>34, <1>35, <1>36, <1>37,
     <1>38, <1>39, <1>40, <1>41, <1>42, <1>43, <1>44, <1>45, <1>46
     DEF Ordinary

(* Where feeds outlast a heartbeat: the stillness behind an assist.        *)
LEMMA OrdinaryRests ==
  ASSUME Inv, Ordinary, FeedsOutlast, ArmOK, RestOK
  PROVE  RestOK'
<1>1. /\ ControlOK /\ MotionOK /\ FeedsOutlast /\ RestOK
      /\ frame.ready => ~frame.assisting
      /\ queue \in Seq(Request)
  BY DEF Inv, UnitTypeOK, ArmOK
<1>2. /\ motor' = motor /\ frame' = frame
      /\ beat' => beat
      /\ pc \notin {"feed", "rewind", "rewinding"} /\ Still(queue)
           => Still(queue')
  BY OrdinaryLink, SentFacts
<1>7. CASE Start
  BY <1>1, <1>2, <1>7
     DEF Start, Bowden, Prepares, ForgetsStub, Goto, unit, seen, lane,
         nozzle, told, RestOK, ControlOK, Restful, Paying
<1>8. CASE RefusesLoad
  BY <1>1, <1>2, <1>8
     DEF RefusesLoad, Ends, channel, unit, link, seen, lane, nozzle, flags,
         steps, told, RestOK, ControlOK, Restful, Paying
<1>9. CASE Aligns
  BY <1>1, <1>2, <1>9
     DEF Aligns, Heats, Bowden, Prepares, Goto, unit, seen, told, RestOK,
         ControlOK, Restful, Paying
<1>10. CASE Nudges
  BY <1>1, <1>2, <1>10
     DEF Nudges, Heats, Bowden, Goto, unit, seen, told, RestOK, ControlOK,
         Restful, Paying
<1>11. CASE PreparationRaises
  BY <1>1, <1>2, <1>11
     DEF PreparationRaises, Ends, channel, unit, link, seen, lane, nozzle,
         flags, steps, told, RestOK, ControlOK, Restful, Paying
<1>12. CASE FeedSends
  BY <1>1, <1>2, <1>12
     DEF FeedSends, Goto, Quiet, lane, nozzle, flags, steps, told, unit,
         seen, RestOK, ControlOK, Restful, Paying
<1>13. CASE FeedAccepted
  BY <1>1, <1>2, <1>13
     DEF FeedAccepted, Goto, unit, link, lane, nozzle, flags, told, RestOK,
         ControlOK, Restful, Paying, Feeds
<1>14. CASE FeedForbidden /\ pc' = "feed"
  BY <1>1, <1>2, <1>14
     DEF FeedForbidden, Goto, Quiet, Raises, Fails, Ends, link, flags, told,
         lane, nozzle, unit, seen, RestOK, ControlOK, Restful, Paying
<1>15. CASE Doubts
  BY <1>1, <1>2, <1>15
     DEF Doubts, unit, link, lane, nozzle, flags, told, RestOK, ControlOK,
         Restful, Paying, Watched
<1>16. CASE Relents
  BY <1>1, <1>2, <1>16
     DEF Relents, channel, unit, link, seen, lane, nozzle, flags, told,
         RestOK, ControlOK, Restful, Paying, Watched
<1>17. CASE Arrives
  BY <1>1, <1>2, <1>17
     DEF Arrives, Goto, channel, unit, link, seen, lane, nozzle, flags, told,
         RestOK, ControlOK, Restful, Paying
<1>18. CASE IsLate
  BY <1>1, <1>2, <1>18
     DEF IsLate, Goto, channel, unit, link, seen, lane, nozzle, flags, told,
         RestOK, ControlOK, Restful, Paying
<1>19. CASE Nurses
  BY <1>1, <1>2, <1>19
     DEF Nurses, Sound, Goto, channel, unit, link, seen, lane, nozzle, flags,
         told, RestOK, ControlOK, Restful, Paying
<1>20. CASE Nursed /\ pc' = "arrived"
  BY <1>1, <1>2, <1>20
     DEF Nursed, Goto, Quiet, Fails, Ends, lane, nozzle, unit, seen, RestOK,
         ControlOK, Restful, Paying
<1>21. CASE StopsBulk
  BY <1>1, <1>2, <1>21
     DEF StopsBulk, StopsFeed, Goto, Quiet, Settled, lane, nozzle, unit,
         seen, flags, RestOK, ControlOK, Restful, Paying, Seen
<1>22. CASE Meets
  BY <1>1, <1>2, <1>22
     DEF Meets, Heats, Goto, channel, unit, link, seen, lane, flags, told,
         RestOK, ControlOK, Restful, Paying, Feeds
<1>23. CASE Bites
  BY <1>1, <1>2, <1>23
     DEF Bites, Sound, Segment, channel, unit, link, seen, lane, flags, told,
         RestOK, ControlOK, Restful, Paying
<1>24. CASE Bitten
  BY <1>1, <1>2, <1>24
     DEF Bitten, StopsFeed, Goto, Quiet, Settled, lane, nozzle, unit, seen,
         flags, RestOK, ControlOK, Restful, Paying, Seen
<1>25. CASE Crosses
  BY <1>1, <1>2, <1>25
     DEF Crosses, Sound, Segment, channel, unit, link, seen, lane, flags,
         told, RestOK, ControlOK, Restful, Paying
<1>26. CASE Crossed
  BY <1>1, <1>2, <1>26
     DEF Crossed, StopsFeed, Goto, Quiet, Settled, lane, nozzle, unit, seen,
         flags, RestOK, ControlOK, Restful, Paying, Seen
<1>27. CASE BacksOff
  BY <1>1, <1>2, <1>27
     DEF BacksOff, Sound, Goto, channel, unit, link, seen, lane, nozzle,
         flags, told, RestOK, ControlOK, Restful, Paying, Feeds
<1>28. CASE Released
  BY <1>1, <1>2, <1>28
     DEF Released, Goto, channel, unit, link, seen, lane, nozzle, flags,
         told, RestOK, ControlOK, Restful, Paying
<1>29. CASE Steps
  BY <1>1, <1>2, <1>29
     DEF Steps, Goto, channel, unit, link, seen, lane, nozzle, flags, told,
         RestOK, ControlOK, Restful, Paying, Feeds
<1>30. CASE Stepped
  BY <1>1, <1>2, <1>30
     DEF Stepped, Goto, channel, unit, link, seen, lane, nozzle, flags, told,
         RestOK, ControlOK, Restful, Paying, Seen, MotionOK
<1>31. CASE RewindSends
  BY <1>1, <1>2, <1>31
     DEF RewindSends, RewindReturns, Ends, Goto, Quiet, flags, steps, told,
         lane, nozzle, unit, seen, RestOK, ControlOK, Restful, Paying
<1>32. CASE RewindAccepted
  BY <1>1, <1>2, <1>32
     DEF RewindAccepted, Goto, channel, unit, link, seen, lane, nozzle,
         flags, steps, told, RestOK, ControlOK, Restful, Paying
<1>33. CASE RewindRetries /\ pc' = "rewinding"
  BY <1>1, <1>2, <1>33
     DEF RewindRetries, Raises, Fails, Ends, Goto, flags, told, unit, seen,
         lane, nozzle, RestOK, ControlOK, Restful, Paying
<1>34. CASE Rewound
  BY <1>1, <1>2, <1>34
     DEF Rewound, RewindReturns, Ends, Goto, Quiet, lane, nozzle, steps,
         told, unit, seen, RestOK, ControlOK, Restful, Paying
<1>35. CASE Recovers
  BY <1>1, <1>2, <1>35
     DEF Recovers, Ends, Goto, unit, seen, lane, nozzle, told, RestOK,
         ControlOK, Restful, Paying
<1>36. CASE ThroughGears
  BY <1>1, <1>2, <1>36
     DEF ThroughGears, Goto, channel, unit, link, seen, lane, nozzle, told,
         RestOK, ControlOK, Restful, Paying, MotionOK
<1>37. CASE Arms
  BY <1>1, <1>2, <1>37
     DEF Arms, SendsStart, Goto, Quiet, flags, lane, nozzle, steps, unit,
         seen, RestOK, ControlOK, Restful, Paying, Active
<1>38. CASE Enables
  BY <1>1, <1>2, <1>38
     DEF Enables, SendsStart, Goto, Quiet, lane, nozzle, steps, unit, seen,
         RestOK, ControlOK, Restful, Paying
<1>39. CASE AssistAnswered
  BY <1>1, <1>2, <1>39
     DEF AssistAnswered, unit, seen, lane, nozzle, steps, told, RestOK,
         ControlOK, Restful, Paying
<1>40. CASE Confirms
  BY <1>1, <1>2, <1>40
     DEF Confirms, Goto, channel, unit, link, seen, lane, nozzle, flags,
         steps, told, RestOK, ControlOK, Restful, Paying, Active
<1>41. CASE Unconfirmed /\ pc' = "arm"
  BY <1>1, <1>2, <1>41
     DEF Unconfirmed, Raises, Fails, Ends, Goto, Quiet, link, flags, told,
         lane, nozzle, unit, seen, RestOK, ControlOK, Restful, Paying, Active
<1>42. CASE Seats
  <2>1. /\ pc = "seated" /\ confirmed' = confirmed /\ queue' = queue
        /\ pc' \in {"idle", "hug", "door"}
    BY <1>42 DEF Seats, Over, Ends, Goto, channel, link, told
  <2>2. QED
    BY <1>1, <1>2, <2>1 DEF RestOK, Restful
<1>43. CASE Hugs
  BY <1>1, <1>2, <1>43
     DEF Hugs, Over, Ends, nozzle, flags, channel, unit, link, seen, told,
         RestOK, ControlOK, Restful, Paying
<1>44. CASE Enters
  BY <1>1, <1>2, <1>44
     DEF Enters, Ends, Goto, channel, unit, link, seen, lane, flags, steps,
         told, RestOK, ControlOK, Restful, Paying
<1>45. CASE Pushes
  BY <1>1, <1>2, <1>45
     DEF Pushes, Ends, unit, seen, lane, nozzle, steps, told, RestOK,
         ControlOK, Restful, Paying
<1>46. CASE Pushed
  BY <1>1, <1>2, <1>46
     DEF Pushed, Over, Ends, lane, nozzle, flags, channel, unit, link, seen,
         told, RestOK, ControlOK, Restful, Paying
<1>47. QED
  BY <1>7, <1>8, <1>9, <1>10, <1>11, <1>12, <1>13, <1>14, <1>15, <1>16, <1>17,
     <1>18, <1>19, <1>20, <1>21, <1>22, <1>23, <1>24, <1>25, <1>26, <1>27,
     <1>28, <1>29, <1>30, <1>31, <1>32, <1>33, <1>34, <1>35, <1>36, <1>37,
     <1>38, <1>39, <1>40, <1>41, <1>42, <1>43, <1>44, <1>45, <1>46
     DEF Ordinary

-----------------------------------------------------------------------------
(* The driver *)

LEMMA LedgerKept ==
  ASSUME LedgerOK, UNCHANGED book
  PROVE  LedgerOK'
  BY DEF LedgerOK, book, BookOK, ShortfallOK, HealthOK, Spent,
         UnderDeliveryAdvised, HealthyPushQuiet, Tolerated

LEMMA OrdinaryInv ==
  ASSUME Inv, Ordinary
  PROVE  Inv'
<1>1. UnitTypeOK'
  BY OrdinaryLink, SentFacts
<1>2. LaneOK' /\ ControlOK'
  BY OrdinaryLane, OrdinaryControl
<1>3. HeatOK' /\ StubOK' /\ TipOK'
  BY OrdinaryNozzle
<1>4. QueueOK' /\ MotionOK' /\ OverrunOK'
  BY OrdinaryChannel
<1>5. LedgerOK'
  <2>1. LedgerOK /\ (UNCHANGED book \/ Begins \/ Chunk \/ Concludes)
    BY OrdinaryLink DEF Inv, Sent
  <2>2. QED
    BY <2>1, LedgerKept, BeginsLedger, ChunkLedger, ConcludesLedger
<1>6. QED
  BY <1>1, <1>2, <1>3, <1>4, <1>5 DEF Inv

(* An exception leaves a call that is over, or the recovery. *)
LEMMA FailedInv ==
  ASSUME Inv, Failed
  PROVE  Inv'
<1>1. /\ UnitTypeOK /\ LaneOK /\ ControlOK /\ HeatOK /\ StubOK /\ TipOK
      /\ LedgerOK /\ queued = 0 /\ pc' \in {"idle", "cleanup"}
      /\ UNCHANGED <<motor, window, slot, frame, beat, stopLost, seat, gears,
                     tip, stub, covered, queued, heat, stubDone, arming, goal,
                     try, done, printing, confirmed, calls>>
      /\ UNCHANGED book
  BY DEF Failed, Inv, unit, seen
<1>2. UnitTypeOK'
  <2>1. /\ queue' \in Seq(Request) /\ faults' \in 0 .. MaxFaults
        /\ answer' \in {answer, "none"}
    BY DEF Failed, Calms
  <2>2. QED
    BY <1>1, <2>1 DEF UnitTypeOK
<1>3. PlaceOK'
  <2>1. outcome' \in {outcome, "raised"}
    BY DEF Failed
  <2>2. QED
    BY <1>1, <2>1 DEF LaneOK, PlaceOK, Outcomes
<1>4. FlagsOK'
  <2>1. /\ overtaken' \in BOOLEAN /\ loading' \in BOOLEAN
        /\ claim' \in BOOLEAN /\ doubt' \in BOOLEAN
    BY <1>1 DEF Failed, LaneOK, FlagsOK
  <2>2. QED
    BY <1>1, <2>1 DEF LaneOK, FlagsOK
<1>5. ControlOK'
  <2>1. ~doubt' /\ queued' = 0
    BY DEF Failed
  <2>2. QED
    BY <1>1, <2>1 DEF ControlOK, Forward, Rewinds
<1>6. HeatOK' /\ StubOK' /\ TipOK'
  BY <1>1 DEF HeatOK, StubOK, TipOK, Done, Forward, Rewinds, Bowdening
<1>7. QueueOK' /\ MotionOK'
  BY <1>1 DEF QueueOK, MotionOK, Paying
<1>8. OverrunOK'
  <2>1. push # "overrun" /\ push' = push
    BY <1>1 DEF Inv, OverrunOK, Failed, book
  <2>2. QED
    BY <2>1 DEF OverrunOK
<1>9. LedgerOK'
  BY <1>1, LedgerKept
<1>10. QED
  BY <1>2, <1>3, <1>4, <1>5, <1>6, <1>7, <1>8, <1>9 DEF Inv, LaneOK

LEMMA FailedFeeds ==
  ASSUME Inv, Failed, ArmOK
  PROVE  /\ ArmOK'
         /\ FeedOK => FeedOK'
         /\ RestOK => RestOK'
<1>1. /\ queue \in Seq(Request) /\ queued = 0 /\ pc' \in {"idle", "cleanup"}
      /\ UNCHANGED <<motor, frame, beat, stopLost, goal, confirmed>>
      /\ pc' = "idle" => /\ pc # "feeding" /\ ~Paying
                         /\ goal \in {"cleanup", "unpark"}
                         /\ overtaken' = overtaken /\ outcome' = "raised"
      /\ pc' = "cleanup" => /\ overtaken => overtaken'
                            /\ ~overtaken' => Bounded("feed", queue', motor)
      /\ Calms(queue, queue')
  BY DEF Failed, Inv, UnitTypeOK, unit, seen
<1>2. ArmOK'
  BY <1>1 DEF ArmOK, Arming
<1>3. RestOK => RestOK'
  BY <1>1 DEF RestOK, Restful
<1>4. Bounded("feed", queue, motor) => Bounded("feed", queue', motor')
  BY <1>1 DEF Calms, Ops
<1>5. FeedOK => FeedOK'
  <2>1. pc' = "idle" => ~Nipping /\ ~Arming
    BY <1>1 DEF ArmOK, Nipping, Arming
  <2>2. ~Paying' /\ ~Nipping' /\ ~Arming' /\ pc' \notin {"feeding", "ready"}
    BY <1>1 DEF Paying, Nipping, Arming
  <2>3. QED
    BY <1>1, <1>4, <2>1, <2>2 DEF FeedOK
<1>6. QED
  BY <1>2, <1>3, <1>5

(* Every step of the driver. *)
LEMMA DriverStep ==
  ASSUME Inv, Driver
  PROVE  /\ Inv'
         /\ ArmOK /\ FeedOK => ArmOK' /\ FeedOK'
         /\ FeedsOutlast /\ ArmOK /\ RestOK => RestOK'
  BY DriverKinds, OrdinaryInv, FailedInv, OrdinaryFeeds, OrdinaryRests,
     FailedFeeds

-----------------------------------------------------------------------------
(* Calls *)

(* Between two calls nothing is sent, and the books are cleared. *)
LEMMA CallStep ==
  ASSUME Inv, CallUnpark \/ \E p \in BOOLEAN : CallLoad(p)
  PROVE  /\ Inv'
         /\ ArmOK /\ FeedOK => ArmOK' /\ FeedOK'
         /\ ArmOK /\ RestOK => RestOK'
<1>1. /\ UnitTypeOK /\ LaneOK /\ ControlOK /\ LedgerOK
      /\ pc = "idle" /\ ~arming /\ queued = 0
  BY DEF Inv, LaneOK, PlaceOK, ControlOK, CallUnpark, CallLoad, Calls
<1>2. /\ UNCHANGED <<motor, window, slot, queue, answer, frame, beat, stopLost,
                     faults, seat, gears, queued, stubDone, loading, claim,
                     arming, overtaken, confirmed, hub>>
      /\ ledger' = Empty /\ push' = "none" /\ truth' = Clean
      /\ outcome' = "none" /\ try' = 0 /\ done' = 0 /\ doubt' = FALSE
      /\ calls' = calls + 1 /\ calls < MaxCalls
      /\ heat' \in {"hot", "heating", "cold"}
      /\ tip' \in {0, tip, gears}
      /\ stub' \in BOOLEAN /\ covered' \in BOOLEAN
      /\ printing' \in BOOLEAN
  <2>1. stub \in BOOLEAN /\ covered \in BOOLEAN /\ printing \in BOOLEAN
    BY <1>1 DEF LaneOK, FlagsOK
  <2>2. CASE CallUnpark
    BY <2>1, <2>2 DEF CallUnpark, Calls, channel, unit, link, seen, flags
  <2>3. CASE \E p \in BOOLEAN : CallLoad(p)
    <3>1. PICK p \in BOOLEAN : CallLoad(p)
      BY <2>3
    <3>2. stub' \in BOOLEAN /\ covered' \in BOOLEAN
      BY <3>1 DEF CallLoad, NextLane
    <3>3. QED
      BY <3>1, <3>2
         DEF CallLoad, Calls, NextLane, channel, unit, link, seen, flags
  <2>4. QED
    BY <2>2, <2>3
<1>3. \/ pc' = "start" /\ goal' = "load"
      \/ /\ pc' = (IF claim THEN "confirm" ELSE "arm") /\ goal' = "unpark"
         /\ outcome \in {"none", "parked"}
  BY DEF CallUnpark, CallLoad, Calls
<1>4. UnitTypeOK'
  BY <1>1, <1>2 DEF UnitTypeOK
<1>5. LaneOK'
  <2>1. /\ calls' \in 0 .. MaxCalls /\ 0 \in 0 .. MaxRetries + EnableAttempts
        /\ 0 \in 0 .. CrossCap + BiteLength + BackoffCap + StepCap
        /\ gears \in Nat /\ tip \in Nat
    BY <1>1, <1>2, LoadBoundsAreNat DEF LaneOK, PlaceOK
  <2>2. PlaceOK'
    BY <1>1, <1>2, <1>3, <2>1 DEF LaneOK, PlaceOK, Outcomes
  <2>3. FlagsOK'
    BY <1>1, <1>2 DEF LaneOK, FlagsOK
  <2>4. QED
    BY <2>2, <2>3 DEF LaneOK
<1>6. ControlOK'
  BY <1>1, <1>2, <1>3 DEF ControlOK, Forward, Rewinds
<1>7. HeatOK' /\ StubOK' /\ TipOK'
  BY <1>1, <1>2, <1>3
     DEF HeatOK, StubOK, TipOK, Done, Forward, Rewinds, Bowdening
<1>8. QueueOK' /\ MotionOK' /\ OverrunOK'
  BY <1>2, <1>3 DEF QueueOK, MotionOK, OverrunOK, Paying
<1>9. LedgerOK'
  BY <1>1, <1>2, ClearedLedger
<1>10. RestOK => RestOK'
  BY <1>1, <1>2, <1>3 DEF RestOK, Restful
<1>11. FeedOK => FeedOK'
  BY <1>1, <1>2, <1>3 DEF FeedOK, Paying, Nipping, Arming
<1>12. ArmOK => ArmOK'
  BY <1>1, <1>2, <1>3 DEF ArmOK, Arming
<1>13. QED
  BY <1>4, <1>5, <1>6, <1>7, <1>8, <1>9, <1>10, <1>11, <1>12 DEF Inv

-----------------------------------------------------------------------------
(* The machine *)

(* A head within the gears, with a segment of its way commanded, stays     *)
(* within them whether the segment runs or the unit moves it.              *)
LEMMA NoFurther ==
  ASSUME NEW g \in Nat, g >= 2, NEW t \in Nat, NEW u \in Nat,
         NEW q \in {0, 1}, NEW r, t + q <= g,
         \/ r = q /\ (u < t \/ (t = 0 /\ u = 1))
         \/ q > 0 /\ r = q - 1 /\ u \in {t, t + 1}
  PROVE  u + r <= g
<1>1. CASE q = 0
  BY <1>1
<1>2. CASE q = 1
  BY <1>2
<1>3. QED
  BY <1>1, <1>2

(* The lane moves, and nothing else: a segment of the crossing ends no     *)
(* further than it was commanded to.                                       *)
LEMMA LaneStep ==
  ASSUME Inv, HeadMoves \/ SegmentRuns
  PROVE  /\ Inv'
         /\ ArmOK /\ FeedOK => ArmOK' /\ FeedOK'
         /\ ArmOK /\ RestOK => RestOK'
<1>1. /\ UnitTypeOK /\ LaneOK /\ ControlOK /\ HeatOK /\ StubOK /\ TipOK
      /\ QueueOK /\ MotionOK /\ OverrunOK /\ LedgerOK
      /\ gears \in Nat /\ gears >= 2 /\ tip \in Nat /\ queued \in 0 .. 1
  BY LoadBoundsAreNat DEF Inv, LaneOK, PlaceOK
<1>2. /\ UNCHANGED <<motor, window, slot, queue, answer, frame, beat, stopLost,
                     faults, seat, gears, stub, covered, heat, stubDone,
                     loading, claim, arming, goal, try, done, doubt, printing,
                     pc, outcome, overtaken, confirmed, calls>>
      /\ UNCHANGED book
      /\ tip' \in Nat /\ queued' \in 0 .. queued
      /\ \/ queued' = queued /\ (tip' < tip \/ (tip = 0 /\ tip' = 1))
         \/ queued > 0 /\ queued' = queued - 1 /\ tip' \in {tip, tip + 1}
  <2>1. CASE HeadMoves
    BY <1>1, <2>1
       DEF HeadMoves, channel, unit, link, seen, nozzle, flags, steps, told
  <2>2. CASE SegmentRuns
    BY <1>1, <2>2
       DEF SegmentRuns, channel, unit, link, seen, flags, steps, told
  <2>3. QED
    BY <2>1, <2>2
<1>3. UnitTypeOK'
  BY <1>1, <1>2 DEF UnitTypeOK
<1>4. LaneOK'
  <2>1. PlaceOK'
    BY <1>1, <1>2 DEF LaneOK, PlaceOK
  <2>2. FlagsOK'
    BY <1>1, <1>2 DEF LaneOK, FlagsOK
  <2>3. QED
    BY <2>1, <2>2 DEF LaneOK
<1>5. ControlOK'
  BY <1>1, <1>2 DEF ControlOK
<1>6. HeatOK' /\ StubOK'
  BY <1>1, <1>2 DEF HeatOK, StubOK, Done
<1>7. TipOK'
  <2>1. (seat /\ Bowdening)' => seat /\ Bowdening
    BY <1>2 DEF Bowdening
  <2>2. ASSUME seat /\ Bowdening PROVE tip' < gears
    <3>1. tip < gears /\ queued = 0
      BY <1>1, <2>2 DEF TipOK, ControlOK, Bowdening
    <3>2. QED
      BY <1>1, <1>2, <3>1
  <2>3. ASSUME goal \in {"cross", "crossed"} PROVE tip' + queued' <= gears
    <3>1. /\ tip + queued <= gears /\ gears \in Nat /\ gears >= 2
          /\ tip \in Nat /\ tip' \in Nat /\ queued \in {0, 1}
      BY <1>1, <1>2, <2>3 DEF TipOK
    <3>2. QED
      BY <1>2, <3>1, NoFurther
  <2>4. QED
    BY <1>2, <2>1, <2>2, <2>3 DEF TipOK
<1>8. QueueOK' /\ MotionOK' /\ OverrunOK'
  BY <1>1, <1>2 DEF QueueOK, MotionOK, OverrunOK, Paying, book
<1>9. LedgerOK'
  BY <1>1, <1>2, LedgerKept
<1>10. (ArmOK => ArmOK') /\ (RestOK => RestOK') /\ (FeedOK => FeedOK')
  BY <1>2 DEF ArmOK, RestOK, Restful, FeedOK, Paying, Nipping, Arming, Assured
<1>11. QED
  BY <1>3, <1>4, <1>5, <1>6, <1>7, <1>8, <1>9, <1>10 DEF Inv

LEMMA StutterStep ==
  ASSUME Inv, UNCHANGED vars
  PROVE  /\ Inv'
         /\ ArmOK /\ FeedOK => ArmOK' /\ FeedOK'
         /\ ArmOK /\ RestOK => RestOK'
<1>1. /\ UNCHANGED <<motor, window, slot, queue, answer, frame, beat, stopLost,
                     faults, seat, gears, tip, stub, covered, queued, heat,
                     stubDone, loading, claim, arming, goal, try, done, doubt,
                     printing, pc, outcome, overtaken, confirmed, calls>>
      /\ UNCHANGED book
  BY DEF vars, channel, unit, link, seen, lane, nozzle, flags, steps, told
<1>2. UnitTypeOK' /\ LaneOK'
  BY <1>1 DEF Inv, UnitTypeOK, LaneOK, PlaceOK, FlagsOK
<1>3. ControlOK' /\ HeatOK' /\ StubOK' /\ TipOK'
  BY <1>1 DEF Inv, ControlOK, HeatOK, StubOK, TipOK, Done, Bowdening
<1>4. QueueOK' /\ MotionOK' /\ OverrunOK'
  BY <1>1 DEF Inv, QueueOK, MotionOK, OverrunOK, Paying, book
<1>5. LedgerOK'
  BY <1>1, LedgerKept DEF Inv
<1>6. (ArmOK => ArmOK') /\ (RestOK => RestOK') /\ (FeedOK => FeedOK')
  BY <1>1 DEF ArmOK, RestOK, Restful, FeedOK, Paying, Nipping, Arming, Assured
<1>7. QED
  BY <1>2, <1>3, <1>4, <1>5, <1>6 DEF Inv

(* The unit takes a request or ends a motion.                              *)
LEMMA UnitStep ==
  ASSUME Inv, UnitActs
  PROVE  /\ Inv'
         /\ ArmOK /\ FeedOK => ArmOK' /\ FeedOK'
         /\ ArmOK /\ RestOK => RestOK'
<1>1. /\ UnitTypeOK /\ LaneOK /\ ControlOK /\ HeatOK /\ StubOK /\ TipOK
      /\ QueueOK /\ MotionOK /\ OverrunOK /\ LedgerOK
      /\ queue \in Seq(Request)
      /\ motor \in {"idle", "wind", "feed", "assist"}
  BY DEF Inv, UnitTypeOK
<1>2. /\ UNCHANGED <<seat, gears, tip, stub, covered, queued, heat, stubDone,
                     loading, claim, arming, goal, try, done, doubt, printing,
                     pc, outcome, overtaken, calls>>
      /\ UNCHANGED book
      /\ confirmed' = (confirmed \/ motor' = "assist")
      /\ UnitNext \/ UnitFails
  BY DEF UnitActs, lane, nozzle, flags, steps
<1>3. UnitTypeOK' /\ (Takes \/ Idles)
  BY <1>1, <1>2, UnitMoves
<1>4. LaneOK'
  <2>1. PlaceOK'
    BY <1>1, <1>2 DEF LaneOK, PlaceOK
  <2>2. confirmed' \in BOOLEAN
    BY <1>1, <1>2 DEF LaneOK, FlagsOK
  <2>3. FlagsOK'
    BY <1>1, <1>2, <2>2 DEF LaneOK, FlagsOK
  <2>4. QED
    BY <2>1, <2>3 DEF LaneOK
<1>5. ControlOK' /\ HeatOK' /\ StubOK' /\ TipOK'
  BY <1>1, <1>2 DEF ControlOK, HeatOK, StubOK, TipOK, Done, Bowdening
<1>6. /\ Paying' <=> Paying
      /\ Restful' <=> Restful
      /\ Nipping' <=> Nipping
      /\ Arming' <=> Arming
  BY <1>2 DEF Paying, Restful, Nipping, Arming
<1>7. /\ \/ queue' = queue /\ motor' \in {motor, "idle"}
         \/ /\ queue # <<>> /\ queue' = Tail(queue)
            /\ motor' \in {motor, "idle", Head(queue).op}
      /\ stopLost => stopLost'
  BY <1>3 DEF Takes, Idles
<1>8. ASSUME NEW op, op # "idle", Lacks(queue, op)
      PROVE  Lacks(queue', op) /\ (motor' = op => motor = op)
  <2>1. CASE queue' = queue /\ motor' \in {motor, "idle"}
    BY <1>8, <2>1
  <2>2. CASE /\ queue # <<>> /\ queue' = Tail(queue)
             /\ motor' \in {motor, "idle", Head(queue).op}
    <3>1. Lacks(Tail(queue), op) /\ Head(queue).op # op
      BY <1>1, <1>8, <2>2, TailStops
    <3>2. QED
      BY <1>8, <2>2, <3>1
  <2>3. QED
    BY <1>7, <2>1, <2>2
<1>9. ASSUME ~stopLost', NEW op, op # "idle", Bounded(op, queue, motor)
      PROVE  Bounded(op, queue', motor')
  <2>1. CASE Takes
    <3>1. /\ queue # <<>> /\ queue' = Tail(queue)
          /\ motor' \in {motor, "idle", Head(queue).op}
          /\ Head(queue).op = "stop" => motor' = "idle"
      BY <1>9, <2>1 DEF Takes
    <3>2. QED
      BY <1>1, <1>9, <3>1, TailBounded
  <2>2. CASE Idles
    BY <1>9, <2>2 DEF Idles, Bounded
  <2>3. QED
    BY <1>3, <2>1, <2>2
<1>10. QueueOK'
  <2>1. CASE Idles
    BY <1>1, <1>2, <2>1 DEF QueueOK, Idles
  <2>2. CASE Takes /\ pc = "feeding"
    <3>1. /\ queue # <<>> /\ queue' = Tail(queue)
          /\ answer' # answer => Head(queue).live
          /\ answer = "none"
      BY <1>1, <2>2 DEF Takes, QueueOK
    <3>2. ASSUME NEW i \in DOMAIN queue', queue'[i].live
          PROVE  i = Len(queue') /\ queue'[i].op = "feed" /\ answer' = "none"
      <4>1. i + 1 \in DOMAIN queue /\ queue'[i] = queue[i + 1]
        BY <1>1, <3>1, <3>2, TailStops
      <4>2. i + 1 = Len(queue) /\ queue[i + 1].op = "feed"
        BY <1>1, <2>2, <3>2, <4>1 DEF QueueOK
      <4>3. Len(queue') = Len(queue) - 1 /\ i \in Nat /\ i >= 1
        BY <1>1, <3>1, <3>2, TailStops
      <4>4. ~Head(queue).live
        BY <1>1, <2>2, <3>1, <4>2, <4>3, TailStops DEF QueueOK
      <4>5. QED
        BY <3>1, <4>1, <4>2, <4>3, <4>4
    <3>3. ASSUME answer' # "none" PROVE queue' = <<>>
      <4>1. Len(queue) = 1
        BY <1>1, <2>2, <3>1, <3>3, TailStops DEF QueueOK
      <4>2. QED
        BY <1>1, <3>1, <4>1
    <3>4. QED
      BY <3>2, <3>3 DEF QueueOK
  <2>3. QED
    BY <1>2, <1>3, <2>1, <2>2 DEF QueueOK
<1>11. MotionOK'
  <2>1. Paying => Still(queue')
    BY <1>1, <1>8 DEF MotionOK, Still
  <2>2. (Paying /\ beat /\ frame.ready)' => motor' \notin Moves
    <3>1. SUFFICES ASSUME Paying, beat', (frame.ready)'
                   PROVE  motor' \notin Moves
      BY <1>6
    <3>2. motor' \in Moves => motor = motor'
      BY <1>1, <1>8, <3>1 DEF MotionOK, Still, Moves
    <3>3. CASE frame' = frame /\ beat' = beat
      BY <1>1, <3>1, <3>2, <3>3 DEF MotionOK
    <3>4. CASE frame' = Shown /\ motor' = motor
      BY <3>1, <3>4 DEF Shown, Moves
    <3>5. QED
      BY <1>3, <3>3, <3>4 DEF Takes, Idles
  <2>3. beat => beat'
    BY <1>3 DEF Takes, Idles
  <2>4. QED
    BY <1>1, <1>2, <1>6, <2>1, <2>2, <2>3 DEF MotionOK
<1>12. OverrunOK'
  <2>1. push' = push
    BY <1>2 DEF book
  <2>2. QED
    BY <1>1, <1>2, <1>7, <1>9, <2>1 DEF OverrunOK
<1>13. LedgerOK'
  BY <1>1, <1>2, LedgerKept
<1>14. \/ frame' = frame
       \/ /\ frame' = Shown /\ motor' = motor /\ queue' = queue
          /\ frame'.ready = (motor = "idle")
          /\ frame'.assisting = (motor = "assist")
  BY <1>3 DEF Takes, Idles, Shown
<1>15. ASSUME ArmOK PROVE ArmOK'
  <2>1. (frame.ready)' => ~(frame.assisting)'
    BY <1>14, <1>15 DEF ArmOK
  <2>2. Arming => Still(queue')
    BY <1>8, <1>15 DEF ArmOK, Still
  <2>3. QED
    BY <1>2, <1>6, <1>15, <2>1, <2>2 DEF ArmOK
<1>16. ASSUME ArmOK, RestOK PROVE RestOK'
  <2>1. \/ frame' = frame
        \/ frame' = Shown /\ motor' = motor
    BY <1>14
  <2>2. (frame.assisting)' => confirmed'
    BY <1>2, <1>14, <1>16 DEF RestOK
  <2>3. ASSUME Restful
        PROVE  /\ Still(queue') /\ motor' \notin Moves
               /\ (frame.ready)' \/ (frame.assisting)'
    <3>1. Still(queue') /\ motor' \notin Moves
      BY <1>8, <1>16, <2>3 DEF RestOK, Still, Moves
    <3>2. CASE frame' = frame
      BY <1>16, <2>3, <3>1, <3>2 DEF RestOK
    <3>3. CASE frame' = Shown /\ motor' = motor
      <4>1. /\ frame'.ready = (motor = "idle")
            /\ frame'.assisting = (motor = "assist")
        BY <3>3 DEF Shown
      <4>2. motor \in {"idle", "assist"}
        BY <1>1, <1>16, <2>3 DEF RestOK, Moves
      <4>3. QED
        BY <3>1, <4>1, <4>2
    <3>4. QED
      BY <2>1, <3>2, <3>3
  <2>4. QED
    BY <1>2, <1>6, <1>16, <2>2, <2>3 DEF RestOK
<1>17. ASSUME ArmOK, FeedOK PROVE FeedOK'
  <2>1. SUFFICES ASSUME ~stopLost', ~overtaken
                 PROVE  (/\ ~Paying /\ ~Nipping /\ ~Arming /\ pc # "feeding"
                              => Bounded("feed", queue, motor)
                         /\ Arming /\ Assured => Bounded("feed", queue, motor)
                         /\ pc = "ready" /\ goal \in {"met", "bitten", "crossed"}
                              => Bounded("feed", queue, motor)
                         /\ /\ pc = "feeding" /\ ~Nipping
                            /\ \/ \E i \in DOMAIN queue : queue[i].live
                               \/ answer = "forbidden"
                            => /\ motor = "feed" => StopAfter(queue, 0)
                               /\ \A i \in DOMAIN queue :
                                    queue[i].op = "feed" /\ ~queue[i].live
                                      => StopAfter(queue, i))'
    BY <1>2 DEF FeedOK
  <2>2. ~stopLost
    BY <1>7, <2>1
  <2>3. Bounded("feed", queue, motor) => Bounded("feed", queue', motor')
    BY <1>9, <2>1
  <2>4. ASSUME pc = "feeding", ~Nipping,
               (\E i \in DOMAIN queue' : queue'[i].live) \/ answer' = "forbidden"
        PROVE  /\ motor' = "feed" => StopAfter(queue', 0)
               /\ \A i \in DOMAIN queue' :
                    queue'[i].op = "feed" /\ ~queue'[i].live
                      => StopAfter(queue', i)
    <3>1. (\E i \in DOMAIN queue : queue[i].live) \/ answer = "forbidden"
      <4>1. CASE Idles
        BY <2>4, <4>1 DEF Idles
      <4>2. CASE Takes
        <5>1. /\ queue # <<>> /\ queue' = Tail(queue)
              /\ answer' # answer => Head(queue).live
          BY <4>2 DEF Takes
        <5>2. QED
          BY <1>1, <2>4, <5>1, TailStops
      <4>3. QED
        BY <1>3, <4>1, <4>2
    <3>2. /\ motor = "feed" => StopAfter(queue, 0)
          /\ \A i \in DOMAIN queue :
               queue[i].op = "feed" /\ ~queue[i].live => StopAfter(queue, i)
      BY <1>17, <2>1, <2>2, <2>4, <3>1 DEF FeedOK
    <3>3. CASE Idles
      BY <3>2, <3>3 DEF Idles
    <3>4. CASE Takes /\ Head(queue).live
      <4>1. /\ queue # <<>> /\ queue' = Tail(queue)
            /\ Len(queue) = 1 /\ queue[1].op = "feed" /\ answer = "none"
        <5>1. queue # <<>> /\ queue' = Tail(queue)
          BY <3>4 DEF Takes
        <5>2. 1 \in DOMAIN queue /\ queue[1].live
          BY <1>1, <3>4, <5>1, TailStops
        <5>3. QED
          BY <1>1, <2>4, <5>1, <5>2 DEF QueueOK
      <4>2. queue' = <<>>
        BY <1>1, <4>1
      <4>3. motor' = motor
        BY <1>1, <1>2, <2>4, <4>1, <4>2, RefusalMovesNothing
      <4>4. motor # "feed"
        BY <1>1, <3>2, <4>1 DEF StopAfter
      <4>5. QED
        BY <4>2, <4>3, <4>4
    <3>5. CASE Takes /\ ~Head(queue).live
      <4>1. /\ queue # <<>> /\ queue' = Tail(queue)
            /\ motor' \in {motor, "idle", Head(queue).op}
            /\ Head(queue).op = "stop" => motor' = "idle"
        BY <2>1, <3>5 DEF Takes
      <4>2. motor' = "feed" => StopAfter(queue', 0)
        BY <1>1, <3>2, <3>5, <4>1, TailStops
      <4>3. ASSUME NEW i \in DOMAIN queue', queue'[i].op = "feed",
                   ~queue'[i].live
            PROVE  StopAfter(queue', i)
        BY <1>1, <3>2, <4>1, <4>3, TailStops
      <4>4. QED
        BY <4>2, <4>3
    <3>6. QED
      BY <1>3, <3>3, <3>4, <3>5
  <2>5. ASSUME Arming, Assured'
        PROVE  Bounded("feed", queue', motor')
    <3>1. Still(queue) /\ Still(queue')
      BY <1>6, <1>15, <1>17, <2>5 DEF ArmOK
    <3>2. CASE Assured
      BY <1>17, <2>1, <2>2, <2>3, <2>5, <3>2 DEF FeedOK
    <3>3. CASE ~Assured
      <4>1. \/ frame'.assisting /\ ~frame.assisting
            \/ answer' = "ok" /\ answer # "ok"
        BY <1>2, <2>5, <3>3 DEF Assured
      <4>2. motor' # "feed"
        <5>1. CASE frame'.assisting /\ ~frame.assisting
          BY <1>14, <5>1
        <5>2. CASE answer' = "ok" /\ answer # "ok"
          <6>1. queue # <<>>
            BY <1>3, <5>2 DEF Takes, Idles
          <6>2. Head(queue).op # "feed"
            BY <1>1, <3>1, <6>1, TailStops DEF Still
          <6>3. QED
            BY <1>1, <1>2, <5>2, <6>2, AcceptanceMoves
        <5>3. QED
          BY <4>1, <5>1, <5>2
      <4>3. QED
        BY <3>1, <4>2 DEF Still, Lacks, Bounded
    <3>4. QED
      BY <3>2, <3>3
  <2>6. QED
    BY <1>2, <1>6, <1>17, <2>1, <2>2, <2>3, <2>4, <2>5 DEF FeedOK
<1>18. QED
  BY <1>3, <1>4, <1>5, <1>10, <1>11, <1>12, <1>13, <1>15, <1>16, <1>17 DEF Inv

-----------------------------------------------------------------------------
(* Every behaviour *)

LEMMA InitInv ==
  ASSUME Init
  PROVE  Inv /\ ArmOK /\ FeedOK /\ RestOK
<1>1. /\ queue = <<>> /\ motor \in {"idle", "assist"} /\ frame = Shown
      /\ claim = (motor = "assist") /\ confirmed = claim
      /\ push = "none" /\ pc = "idle" /\ goal = "load" /\ queued = 0
      /\ ~doubt /\ ~stubDone /\ tip = 0
  BY DEF Init, BookInit
<1>2. UnitTypeOK
  <2>1. queue \in Seq(Request) /\ 0 \in 0 .. MaxFaults
    BY <1>1, FaultsAreNat
  <2>2. Shown \in Frame
    BY DEF Init, Shown, Frame
  <2>3. QED
    BY <1>1, <2>1, <2>2 DEF Init, UnitTypeOK
<1>3. LaneOK
  <2>1. /\ 0 \in 0 .. MaxRetries + EnableAttempts
        /\ 0 \in 0 .. CrossCap + BiteLength + BackoffCap + StepCap
        /\ 0 \in 0 .. MaxCalls
    BY LoadBoundsAreNat
  <2>2. PlaceOK
    BY <2>1 DEF Init, PlaceOK, Outcomes
  <2>3. FlagsOK
    BY DEF Init, FlagsOK
  <2>4. QED
    BY <2>2, <2>3 DEF LaneOK
<1>4. ControlOK
  BY <1>1 DEF ControlOK, Forward, Rewinds, Watched
<1>5. HeatOK /\ StubOK /\ TipOK
  BY <1>1 DEF HeatOK, StubOK, TipOK, Done, Forward, Rewinds, Bowdening
<1>6. QueueOK /\ MotionOK /\ OverrunOK
  BY <1>1 DEF QueueOK, MotionOK, OverrunOK, Paying
<1>7. LedgerOK
  <2>1. <<>> \in Seq(Nat) /\ Total \in Nat
    BY PushLengthsAreNat
  <2>2. QED
    BY <2>1
       DEF Init, BookInit, LedgerOK, BookOK, Empty, Clean,
           UnderDeliveryAdvised, HealthyPushQuiet
<1>8. Lacks(queue, "feed") /\ Lacks(queue, "wind")
  BY <1>1 DEF Lacks
<1>9. RestOK
  BY <1>1, <1>8 DEF RestOK, Still, Moves, Shown
<1>10. Bounded("feed", queue, motor)
  BY <1>1 DEF Bounded
<1>11. FeedOK
  BY <1>1, <1>10 DEF FeedOK, Arming
<1>12. ArmOK
  BY <1>1 DEF ArmOK, Arming, Shown
<1>13. QED
  BY <1>2, <1>3, <1>4, <1>5, <1>6, <1>7, <1>9, <1>11, <1>12 DEF Inv

(* Every step keeps what holds of a load, and, where feeds outlast a       *)
(* heartbeat, what holds while it rests.                                   *)
LEMMA NextStep ==
  ASSUME Inv, [Next]_vars
  PROVE  /\ Inv'
         /\ ArmOK /\ FeedOK => ArmOK' /\ FeedOK'
         /\ FeedsOutlast /\ ArmOK /\ RestOK => RestOK'
<1>1. CASE CallUnpark \/ \E p \in BOOLEAN : CallLoad(p)
  BY <1>1, CallStep
<1>2. CASE Driver
  BY <1>2, DriverStep
<1>3. CASE HeadMoves \/ SegmentRuns
  BY <1>3, LaneStep
<1>4. CASE UnitActs
  BY <1>4, UnitStep
<1>5. CASE UNCHANGED vars
  BY <1>5, StutterStep
<1>6. QED
  BY <1>1, <1>2, <1>3, <1>4, <1>5 DEF Next

(* A load is where its program counter says: what its goal is, what it     *)
(* holds, what is still in the queue, and what the ledger of its push      *)
(* knows.  The invariant behind the theorems below.                        *)
THEOREM LoadInvariant == Spec => []Inv
<1>1. Init => Inv
  BY InitInv
<1>2. Inv /\ [Next]_vars => Inv'
  BY NextStep
<1>3. QED
  BY <1>1, <1>2, PTL DEF Spec

(* A stop waits behind every feed a load is done with, and an assist that  *)
(* a load was granted is not taken for one of its feeds.                   *)
THEOREM FeedInvariant == Spec => [](Inv /\ ArmOK /\ FeedOK)
<1>1. Init => Inv /\ ArmOK /\ FeedOK
  BY InitInv
<1>2. Inv /\ ArmOK /\ FeedOK /\ [Next]_vars => (Inv /\ ArmOK /\ FeedOK)'
  BY NextStep
<1>3. QED
  BY <1>1, <1>2, PTL DEF Spec

(* Where every feed lasts longer than a heartbeat, nothing moves while the *)
(* load makes sure of its assist.                                          *)
THEOREM RestInvariant ==
  FeedsOutlast => (Spec => [](Inv /\ ArmOK /\ FeedOK /\ RestOK))
<1> DEFINE All == Inv /\ ArmOK /\ FeedOK /\ RestOK
<1> SUFFICES ASSUME FeedsOutlast
             PROVE  Spec => []All
  OBVIOUS
<1>1. Init => All
  BY InitInv
<1>2. All /\ [Next]_vars => All'
  BY NextStep
<1>3. QED
  BY <1>1, <1>2, PTL DEF Spec

(* The lane, its flags, the channel and the ledger keep their types.       *)
THEOREM LoadTyped == Spec => []TypeOK
<1>1. Inv => TypeOK
  BY DEF Inv, TypeOK, LaneOK, PlaceOK, FlagsOK, LedgerOK
<1>2. QED
  BY <1>1, LoadInvariant, PTL

(* Nothing enters the melt zone cold: the bite, the hug, which has no gate *)
(* of its own, and the push find the nozzle hot.                           *)
THEOREM MeltZoneAlwaysHot == Spec => []MeltZoneHot
<1>1. Inv => MeltZoneHot
  BY DEF Inv, ControlOK, HeatOK, MeltZoneHot
<1>2. QED
  BY <1>1, LoadInvariant, PTL

(* The hug presses the head against a tail that this load has bitten: the  *)
(* flag of a stub load never outlives it.                                  *)
THEOREM HugsAfterBite == Spec => []HugFollowsBite
<1>1. Inv => HugFollowsBite
  BY DEF Inv, StubOK, HugFollowsBite
<1>2. QED
  BY <1>1, LoadInvariant, PTL

(* The crossing never drives the head past the post-gear switch: a segment *)
(* is commanded only from a drained queue and short of the switch.         *)
THEOREM CrossingStaysTrue == Spec => []CrossingTrue
<1>1. Inv => CrossingTrue
  <2>1. SUFFICES ASSUME Inv, goal \in {"cross", "crossed"}
                 PROVE  tip <= gears
    BY DEF CrossingTrue
  <2>2. tip + queued <= gears /\ tip \in Nat /\ gears \in Nat /\ queued \in Nat
    BY <2>1, LoadBoundsAreNat DEF Inv, TipOK, LaneOK, PlaceOK
  <2>3. QED
    BY <2>2
<1>2. QED
  BY <1>1, LoadInvariant, PTL

(* However the queue empties after an overrun, the assist is off and no    *)
(* longer claimed, unless the stop itself was lost on the link.            *)
THEOREM OverrunStopsAssist == Spec => []OverrunStops
<1>1. Inv => OverrunStops
  BY DEF Inv, OverrunOK, OverrunStops, Bounded, StopAfter
<1>2. QED
  BY <1>1, LoadInvariant, PTL

(* A push that ends well fell no shorter than the backstop allows, for     *)
(* every length of the push and everything its hub can see.                *)
THEOREM ShortPushAdvised == Spec => []UnderDeliveryAdvised
<1>1. Inv => UnderDeliveryAdvised
  BY DEF Inv, LedgerOK
<1>2. QED
  BY <1>1, LoadInvariant, PTL

(* A healthy push is never advised of nor taken for an overrun, however    *)
(* often the counter of the hub is reset in the middle of it.              *)
THEOREM HealthyPushStaysQuiet == Spec => []HealthyPushQuiet
<1>1. Inv => HealthyPushQuiet
  BY DEF Inv, LedgerOK
<1>2. QED
  BY <1>1, LoadInvariant, PTL

(* Where every feed lasts longer than a heartbeat, no push begins before   *)
(* the unit has assisted since the enable was last sent: a unit busy with  *)
(* a feed cannot be taken for one that assists.                            *)
THEOREM PushesUnderAssist == FeedsOutlast => (Spec => []PushUnderAssist)
<1> SUFFICES ASSUME FeedsOutlast PROVE Spec => []PushUnderAssist
  OBVIOUS
<1>1. RestOK => PushUnderAssist
  BY DEF RestOK, PushUnderAssist
<1>2. Spec => [](Inv /\ ArmOK /\ FeedOK /\ RestOK)
  BY RestInvariant
<1>3. QED
  BY <1>1, <1>2, PTL

(* A load that is over leaves nothing feeding once its requests are        *)
(* delivered, however long its feeds last, unless its stop was lost or     *)
(* overtook a feed that was still queued.                                  *)
THEOREM NothingFeedsAfter == Spec => []NothingLeftFeeding
<1>1. FeedOK => NothingLeftFeeding
  BY DEF FeedOK, NothingLeftFeeding, Paying, Nipping, Arming, Bounded, StopAfter
<1>2. QED
  BY <1>1, FeedInvariant, PTL
=============================================================================
