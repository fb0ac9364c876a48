---------------------------- MODULE AceUnitProof ----------------------------
(***************************************************************************)
(* Facts about the motion channel, for every command built on it: requests *)
(* stay requests when they are orphaned or joined by another, and a step   *)
(* of the unit takes the first request or leaves the queue alone.          *)
(***************************************************************************)
EXTENDS AceUnit, SequenceTheorems, TLAPS

(* A stop is queued behind the request at i; behind the unit, at 0. *)
StopAfter(q, i) == \E j \in DOMAIN q : j > i /\ q[j].op = "stop"

(* Every request for op in the queue has its stop queued behind it, and so *)
(* has the motor, should m be what it does.                                *)
Bounded(op, q, m) ==
  /\ m = op => StopAfter(q, 0)
  /\ \A i \in DOMAIN q : q[i].op = op => StopAfter(q, i)

Lacks(q, op) == \A i \in DOMAIN q : q[i].op # op

-----------------------------------------------------------------------------
(* The channel *)

(* Orphaning requests keeps them, and nobody waits for any of them. *)
LEMMA OrphanedType ==
  ASSUME NEW q \in Seq(Request)
  PROVE  /\ Orphaned(q) \in Seq(Request)
         /\ Len(Orphaned(q)) = Len(q)
         /\ DOMAIN Orphaned(q) = DOMAIN q
         /\ \A i \in DOMAIN q : ~Orphaned(q)[i].live
<1>1. DOMAIN q = 1 .. Len(q) /\ Len(q) \in Nat
  OBVIOUS
<1>2. \A i \in 1 .. Len(q) : q[i] \in Request
  OBVIOUS
<1>3. \A i \in 1 .. Len(q) :
        [q[i] EXCEPT !.live = FALSE] \in Request
        /\ ~[q[i] EXCEPT !.live = FALSE].live
  BY <1>2 DEF Request
<1>4. Orphaned(q) \in [1 .. Len(q) -> Request]
  BY <1>1, <1>3 DEF Orphaned
<1>5. Orphaned(q) \in Seq(Request) /\ Len(Orphaned(q)) = Len(q)
  BY <1>1, <1>4, SeqDef
<1>6. QED
  BY <1>1, <1>3, <1>5 DEF Orphaned

(* A request put behind others that nobody waits for. *)
LEMMA AppendedType ==
  ASSUME NEW q \in Seq(Request), NEW r \in Request,
         \A i \in DOMAIN q : ~q[i].live
  PROVE  /\ Append(q, r) \in Seq(Request)
         /\ \A i \in DOMAIN Append(q, r) :
              Append(q, r)[i].live => i = Len(Append(q, r)) /\ r.live
<1>1. Append(q, r) \in Seq(Request) /\ Len(Append(q, r)) = Len(q) + 1
  OBVIOUS
<1>2. \A i \in 1 .. Len(q) + 1 :
        Append(q, r)[i] = IF i = Len(q) + 1 THEN r ELSE q[i]
  OBVIOUS
<1>3. QED
  BY <1>1, <1>2

(* The requests and the initial channel are typed. *)
LEMMA RequestTypes ==
  /\ \A op \in Ops : Asks(op) \in Request /\ Asks(op).live /\ Asks(op).op = op
  /\ Asks("wind") \in Request /\ Asks("wind").live
  /\ Tells("stop") \in Request /\ ~Tells("stop").live
  /\ Tells("stop").op = "stop"
  BY DEF Asks, Tells, Request, Ops

LEMMA ShownType ==
  ASSUME UnitTypeOK PROVE Shown \in Frame
  BY DEF UnitTypeOK, Shown, Frame

-----------------------------------------------------------------------------
(* The queue *)

(* Elements of a queue joined by a request. *)
LEMMA Appended ==
  ASSUME NEW q \in Seq(Request), NEW r \in Request
  PROVE  /\ Append(q, r) \in Seq(Request)
         /\ Len(Append(q, r)) = Len(q) + 1
         /\ DOMAIN Append(q, r) = DOMAIN q \cup {Len(q) + 1}
         /\ \A i \in DOMAIN q : Append(q, r)[i] = q[i] /\ i <= Len(q)
         /\ Append(q, r)[Len(q) + 1] = r
  OBVIOUS

LEMMA AppendedStops ==
  ASSUME NEW q \in Seq(Request), NEW r \in Request, NEW m
  PROVE  /\ \A i : StopAfter(q, i) => StopAfter(Append(q, r), i)
         /\ r.op = "stop" => StopAfter(Append(q, r), 0)
         /\ r.op = "stop" => \A op : op # "stop" => Bounded(op, Append(q, r), m)
         /\ \A op : Bounded(op, q, m) /\ r.op # op =>
                   Bounded(op, Append(q, r), m)
         /\ \A op : Lacks(q, op) /\ r.op # op => Lacks(Append(q, r), op)
<1>1. \A i : StopAfter(q, i) => StopAfter(Append(q, r), i)
  BY Appended DEF StopAfter
<1>2. r.op = "stop" =>
        \A i \in (DOMAIN q) \cup {0} : StopAfter(Append(q, r), i)
  <2>1. Len(q) \in Nat /\ \A i \in (DOMAIN q) \cup {0} : Len(q) + 1 > i
    OBVIOUS
  <2>2. QED
    BY <2>1, Appended DEF StopAfter
<1>3. \A op : Lacks(q, op) /\ r.op # op => Lacks(Append(q, r), op)
  BY Appended DEF Lacks
<1>4. r.op = "stop" => \A op : op # "stop" => Bounded(op, Append(q, r), m)
  BY <1>2, Appended DEF Bounded
<1>5. \A op : Bounded(op, q, m) /\ r.op # op => Bounded(op, Append(q, r), m)
  BY <1>1, Appended DEF Bounded
<1>6. QED
  BY <1>1, <1>2, <1>3, <1>4, <1>5

(* Orphaning changes no operation. *)
LEMMA OrphanedStops ==
  ASSUME NEW q \in Seq(Request), NEW m
  PROVE  /\ \A i : StopAfter(q, i) => StopAfter(Orphaned(q), i)
         /\ \A op : Bounded(op, q, m) => Bounded(op, Orphaned(q), m)
         /\ \A op : Lacks(q, op) => Lacks(Orphaned(q), op)
<1>1. DOMAIN Orphaned(q) = DOMAIN q
  BY OrphanedType
<1>2. \A i \in DOMAIN q : Orphaned(q)[i].op = q[i].op
  <2>1. \A i \in DOMAIN q : q[i] \in Request
    OBVIOUS
  <2>2. QED
    BY <2>1 DEF Orphaned, Request
<1>3. QED
  BY <1>1, <1>2 DEF StopAfter, Bounded, Lacks

(* Taking the first request leaves the others bounded, and the motor too,  *)
(* unless that was the stop that ended it.                                 *)
LEMMA TailStops ==
  ASSUME NEW q \in Seq(Request), q # <<>>
  PROVE  /\ Tail(q) \in Seq(Request)
         /\ Len(Tail(q)) = Len(q) - 1 /\ Len(q) \in Nat \ {0}
         /\ DOMAIN Tail(q) = 1 .. Len(q) - 1 /\ DOMAIN q = 1 .. Len(q)
         /\ \A i \in DOMAIN Tail(q) :
              i + 1 \in DOMAIN q /\ Tail(q)[i] = q[i + 1]
         /\ 1 \in DOMAIN q /\ Head(q) = q[1]
         /\ Head(q).op # "stop" /\ StopAfter(q, 0) => StopAfter(Tail(q), 0)
         /\ StopAfter(q, 1) => StopAfter(Tail(q), 0)
         /\ \A i \in DOMAIN Tail(q) :
              StopAfter(q, i + 1) => StopAfter(Tail(q), i)
         /\ \A op : Lacks(q, op) => Lacks(Tail(q), op) /\ Head(q).op # op
<1>1. /\ Tail(q) \in Seq(Request)
      /\ Len(Tail(q)) = Len(q) - 1 /\ Len(q) \in Nat \ {0}
      /\ DOMAIN Tail(q) = 1 .. Len(q) - 1 /\ DOMAIN q = 1 .. Len(q)
      /\ \A i \in DOMAIN Tail(q) :
           i + 1 \in DOMAIN q /\ Tail(q)[i] = q[i + 1]
      /\ 1 \in DOMAIN q /\ Head(q) = q[1]
  OBVIOUS
<1>2. \A j \in DOMAIN q : j # 1 =>
        /\ j - 1 \in DOMAIN Tail(q) /\ Tail(q)[j - 1] = q[j]
        /\ j - 1 > 0
        /\ \A i \in Nat : j > i + 1 => j - 1 > i
  BY <1>1
<1>3. \A i \in Nat : StopAfter(q, i + 1) => StopAfter(Tail(q), i)
  <2>1. SUFFICES ASSUME NEW i \in Nat, NEW j \in DOMAIN q,
                        j > i + 1, q[j].op = "stop"
                 PROVE  StopAfter(Tail(q), i)
    BY DEF StopAfter
  <2>2. j # 1 /\ j - 1 > i
    BY <1>1, <2>1
  <2>3. QED
    BY <1>2, <2>1, <2>2 DEF StopAfter
<1>4. Head(q).op # "stop" /\ StopAfter(q, 0) => StopAfter(Tail(q), 0)
  BY <1>1, <1>2 DEF StopAfter
<1>5. StopAfter(q, 1) => StopAfter(Tail(q), 0)
  BY <1>3
<1>6. \A op : Lacks(q, op) => Lacks(Tail(q), op) /\ Head(q).op # op
  BY <1>1 DEF Lacks
<1>7. QED
  BY <1>1, <1>3, <1>4, <1>5, <1>6

LEMMA TailBounded ==
  ASSUME NEW q \in Seq(Request), q # <<>>, NEW m, NEW n, NEW op,
         op # "idle", Bounded(op, q, m), n \in {m, "idle", Head(q).op},
         Head(q).op = "stop" => n = "idle"
  PROVE  Bounded(op, Tail(q), n)
<1>1. n = op => StopAfter(Tail(q), 0)
  BY TailStops DEF Bounded
<1>2. ASSUME NEW i \in DOMAIN Tail(q), Tail(q)[i].op = op
      PROVE  StopAfter(Tail(q), i)
  BY <1>2, TailStops DEF Bounded
<1>3. QED
  BY <1>1, <1>2 DEF Bounded

-----------------------------------------------------------------------------
(* Stops sent ahead of the others *)

LEMMA Prepended ==
  ASSUME NEW q \in Seq(Request), NEW r \in Request
  PROVE  /\ <<r>> \o q \in Seq(Request)
         /\ Len(<<r>> \o q) = Len(q) + 1
         /\ DOMAIN (<<r>> \o q) = 1 .. Len(q) + 1 /\ DOMAIN q = 1 .. Len(q)
         /\ Len(q) \in Nat
         /\ (<<r>> \o q)[1] = r
         /\ \A i \in DOMAIN q : (<<r>> \o q)[i + 1] = q[i]
         /\ \A i \in DOMAIN (<<r>> \o q) : i # 1 =>
              i - 1 \in DOMAIN q /\ (<<r>> \o q)[i] = q[i - 1]
  OBVIOUS

(* A stop sent ahead follows what the unit does and nothing that is queued.*)
LEMMA PrependedStops ==
  ASSUME NEW q \in Seq(Request), NEW r \in Request, r.op = "stop", NEW op,
         op # "stop"
  PROVE  /\ StopAfter(<<r>> \o q, 0)
         /\ Lacks(q, op) => Lacks(<<r>> \o q, op)
         /\ \A m : Bounded(op, q, m) => Bounded(op, <<r>> \o q, m)
         /\ \A m : Lacks(q, op) => Bounded(op, <<r>> \o q, m)
<1> DEFINE s == <<r>> \o q
<1>1. /\ DOMAIN s = 1 .. Len(q) + 1 /\ DOMAIN q = 1 .. Len(q) /\ Len(q) \in Nat
      /\ s[1] = r /\ \A i \in DOMAIN q : s[i + 1] = q[i]
      /\ \A i \in DOMAIN s : i # 1 => i - 1 \in DOMAIN q /\ s[i] = q[i - 1]
  BY Prepended
<1> HIDE DEF s
<1>2. StopAfter(s, 0)
  BY <1>1 DEF StopAfter
<1>3. Lacks(q, op) => Lacks(s, op)
  BY <1>1 DEF Lacks
<1>4. ASSUME NEW i \in DOMAIN q, StopAfter(q, i)
      PROVE  StopAfter(s, i + 1)
  <2>1. PICK j \in DOMAIN q : j > i /\ q[j].op = "stop"
    BY <1>4 DEF StopAfter
  <2>2. j + 1 \in DOMAIN s /\ j + 1 > i + 1 /\ s[j + 1].op = "stop"
    BY <1>1, <2>1
  <2>3. QED
    BY <2>2 DEF StopAfter
<1>5. ASSUME NEW m, Bounded(op, q, m) PROVE Bounded(op, s, m)
  <2>1. ASSUME NEW i \in DOMAIN s, s[i].op = op PROVE StopAfter(s, i)
    <3>1. i - 1 \in DOMAIN q /\ q[i - 1].op = op
      BY <1>1, <2>1
    <3>2. StopAfter(s, (i - 1) + 1) /\ (i - 1) + 1 = i
      BY <1>1, <1>4, <1>5, <3>1 DEF Bounded
    <3>3. QED
      BY <3>2
  <2>2. QED
    BY <1>2, <2>1 DEF Bounded
<1>6. ASSUME NEW m, Lacks(q, op) PROVE Bounded(op, s, m)
  BY <1>2, <1>3, <1>6 DEF Bounded, Lacks
<1>7. QED
  BY <1>2, <1>3, <1>5, <1>6 DEF s

(* The queue r holds no operation, and leaves none unbounded, that q did   *)
(* not: stops were added and attempts forgotten.                           *)
Calms(q, r) ==
  /\ r \in Seq(Request)
  /\ \A op \in Ops \ {"stop"} :
       /\ Lacks(q, op) => Lacks(r, op)
       /\ \A m : Bounded(op, q, m) => Bounded(op, r, m)

LEMMA CalmRules ==
  ASSUME NEW q \in Seq(Request)
  PROVE  /\ Calms(q, q) /\ Calms(q, Orphaned(q))
         /\ q \o <<Tells("stop")>> = Append(q, Tells("stop"))
         /\ Calms(q, Append(q, Tells("stop")))
         /\ Calms(q, <<Tells("stop")>> \o q)
         /\ \A r, s : Calms(q, r) /\ Calms(r, s) => Calms(q, s)
<1>1. Tells("stop") \in Request /\ Tells("stop").op = "stop"
  BY RequestTypes
<1>2. Calms(q, Orphaned(q))
  BY OrphanedType, OrphanedStops DEF Calms
<1>3. Calms(q, Append(q, Tells("stop")))
  BY <1>1, Appended, AppendedStops DEF Calms
<1>4. Calms(q, <<Tells("stop")>> \o q)
  BY <1>1, Prepended, PrependedStops DEF Calms
<1>5. q \o <<Tells("stop")>> = Append(q, Tells("stop"))
  BY <1>1
<1>6. QED
  BY <1>2, <1>3, <1>4, <1>5 DEF Calms

-----------------------------------------------------------------------------
(* The unit *)

(* A step that leaves the queue alone moves nothing and forgets nothing.   *)
Idles ==
  /\ queue' = queue /\ answer' = answer /\ stopLost' = stopLost
  /\ motor' \in {motor, "idle"}
  /\ slot' \in {slot, "error", "empty"} /\ (slot = "empty" => slot' = "empty")
  /\ \/ frame' = frame /\ beat' = beat
     \/ frame' = Shown /\ beat' /\ slot' = slot /\ motor' = motor

(* A step that takes a request answers it or nobody; a stop stops or is    *)
(* known to be lost.                                                       *)
Takes ==
  /\ queue # <<>> /\ queue' = Tail(queue)
  /\ answer' # answer => Head(queue).live
  /\ \/ motor' \in {motor, "idle"}
     \/ motor' = Head(queue).op /\ answer' \in {answer, "ok"}
  /\ slot' = "empty" <=> slot = "empty"
  /\ stopLost => stopLost'
  /\ Head(queue).op = "stop" => slot' = slot /\ (motor' = "idle" \/ stopLost')
  /\ frame' = frame /\ beat' = beat

LEMMA ReplyType ==
  ASSUME UnitTypeOK, queue # <<>>
  PROVE  /\ Head(queue) \in Request
         /\ [Head(queue) EXCEPT !.live = FALSE] \in Request
         /\ [Head(queue) EXCEPT !.live = FALSE].op = Head(queue).op
         /\ ~[Head(queue) EXCEPT !.live = FALSE].live
         /\ Tail(queue) \in Seq(Request)
<1>1. Head(queue) \in Request /\ Tail(queue) \in Seq(Request)
  BY DEF UnitTypeOK
<1>2. QED
  BY <1>1 DEF Request

LEMMA TransactStep ==
  ASSUME UnitTypeOK, Transact
  PROVE  UnitTypeOK' /\ faults' = faults /\ Takes
<1>1. queue # <<>> /\ Executes(Head(queue))
  BY DEF Transact
<1>2. Head(queue) \in Request /\ Tail(queue) \in Seq(Request)
  BY <1>1, ReplyType
<1>3. Head(queue).op \in {"wind", "feed", "assist", "stop"}
        /\ Head(queue).live \in BOOLEAN
  BY <1>2 DEF Request, Ops
<1>4. UNCHANGED <<frame, beat, stopLost, faults>>
  BY DEF Transact, seen
<1>5. CASE Stops(Head(queue))
  BY <1>1, <1>2, <1>3, <1>4, <1>5 DEF Stops, Replies, UnitTypeOK, Takes
<1>6. CASE Runs(Head(queue))
  BY <1>1, <1>2, <1>3, <1>4, <1>6 DEF Runs, Replies, UnitTypeOK, Takes
<1>7. CASE Refuses(Head(queue))
  BY <1>1, <1>2, <1>3, <1>4, <1>7 DEF Refuses, Replies, UnitTypeOK, Takes, unit
<1>8. CASE Discards(Head(queue))
  BY <1>1, <1>2, <1>3, <1>4, <1>8 DEF Discards, Replies, UnitTypeOK, Takes, unit
<1>9. CASE Disrupted(Head(queue))
  BY <1>1, <1>2, <1>3, <1>4, <1>9
     DEF Disrupted, Replies, UnitTypeOK, Takes, Moves
<1>10. QED
  BY <1>1, <1>5, <1>6, <1>7, <1>8, <1>9 DEF Executes

LEMMA LossStep ==
  ASSUME UnitTypeOK, RequestLost \/ ReplyLost
  PROVE  UnitTypeOK' /\ faults' = faults + 1 /\ Takes
<1>1. queue # <<>> /\ Fault
  BY DEF RequestLost, ReplyLost
<1>2. /\ Head(queue) \in Request /\ Tail(queue) \in Seq(Request)
      /\ [Head(queue) EXCEPT !.live = FALSE] \in Request
      /\ [Head(queue) EXCEPT !.live = FALSE].op = Head(queue).op
      /\ ~[Head(queue) EXCEPT !.live = FALSE].live
  BY <1>1, ReplyType
<1>3. Head(queue).op \in {"wind", "feed", "assist", "stop"}
  BY <1>2 DEF Request, Ops
<1>4. faults' = faults + 1 /\ faults' \in 0 .. MaxFaults
  BY <1>1, FaultsAreNat DEF Fault, UnitTypeOK
<1>5. CASE RequestLost
  BY <1>1, <1>2, <1>4, <1>5 DEF RequestLost, unit, seen, UnitTypeOK, Takes
<1>6. CASE ReplyLost /\ Runs([Head(queue) EXCEPT !.live = FALSE])
  BY <1>1, <1>2, <1>3, <1>4, <1>6
     DEF ReplyLost, Runs, Replies, seen, UnitTypeOK, Takes
<1>7. CASE ReplyLost /\ Refuses([Head(queue) EXCEPT !.live = FALSE])
  BY <1>1, <1>2, <1>3, <1>4, <1>7
     DEF ReplyLost, Refuses, Replies, unit, seen, UnitTypeOK, Takes
<1>8. QED
  BY <1>5, <1>6, <1>7 DEF ReplyLost

LEMMA OwnStep ==
  ASSUME UnitTypeOK,
         WindowEnds \/ MoveEnds \/ Heartbeat \/ MotorFails \/ SpoolRunsOut
  PROVE  UnitTypeOK' /\ faults' \in {faults, faults + 1} /\ Idles
<1>1. Shown \in Frame /\ Shown.slot = slot
  BY ShownType DEF Shown
<1>2. Fault => faults' = faults + 1 /\ faults' \in 0 .. MaxFaults
  BY FaultsAreNat DEF Fault, UnitTypeOK
<1>3. CASE WindowEnds
  BY <1>3 DEF WindowEnds, link, seen, UnitTypeOK, Idles
<1>4. CASE MoveEnds
  BY <1>4 DEF MoveEnds, link, seen, UnitTypeOK, Idles
<1>5. CASE Heartbeat
  BY <1>1, <1>5 DEF Heartbeat, unit, link, UnitTypeOK, Idles
<1>6. CASE MotorFails
  BY <1>2, <1>6 DEF MotorFails, link, seen, UnitTypeOK, Idles
<1>7. CASE SpoolRunsOut
  BY <1>2, <1>7 DEF SpoolRunsOut, link, seen, UnitTypeOK, Idles
<1>8. QED
  BY <1>3, <1>4, <1>5, <1>6, <1>7

(* A step of the unit, with or without a fault. *)
LEMMA UnitMoves ==
  ASSUME UnitTypeOK, UnitNext \/ UnitFails
  PROVE  UnitTypeOK' /\ (Takes \/ Idles)
  BY TransactStep, LossStep, OwnStep DEF UnitNext, UnitFails

(* A refused request moves nothing. *)
LEMMA RefusalMovesNothing ==
  ASSUME UnitTypeOK, UnitNext \/ UnitFails,
         answer' = "forbidden", answer # "forbidden"
  PROVE  motor' = motor
<1>1. CASE Transact
  BY <1>1 DEF Transact, Executes, Stops, Runs, Refuses, Discards, Disrupted,
              Replies, unit
<1>2. CASE ReplyLost
  BY <1>2 DEF ReplyLost, Runs, Refuses, Replies, unit
<1>3. answer' = answer \/ Transact \/ ReplyLost
  BY DEF UnitNext, UnitFails, WindowEnds, MoveEnds, Heartbeat, RequestLost,
         MotorFails, SpoolRunsOut, link
<1>4. QED
  BY <1>1, <1>2, <1>3

(* A unit that accepts a request to do anything else does not feed.        *)
LEMMA AcceptanceMoves ==
  ASSUME UnitTypeOK, UnitNext \/ UnitFails,
         answer' = "ok", answer # "ok", Head(queue).op # "feed"
  PROVE  motor' # "feed"
<1>1. CASE Transact
  BY <1>1 DEF Transact, Executes, Stops, Runs, Refuses, Discards, Disrupted,
              Replies, unit
<1>2. CASE ReplyLost
  BY <1>2 DEF ReplyLost, Runs, Refuses, Replies, unit
<1>3. answer' = answer \/ Transact \/ ReplyLost
  BY DEF UnitNext, UnitFails, WindowEnds, MoveEnds, Heartbeat, RequestLost,
         MotorFails, SpoolRunsOut, link
<1>4. QED
  BY <1>1, <1>2, <1>3
=============================================================================
