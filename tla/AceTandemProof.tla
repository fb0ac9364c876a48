--------------------------- MODULE AceTandemProof ---------------------------
(***************************************************************************)
(* Proofs about AceTandem: type correctness, that no segment is commanded  *)
(* without a granted unwind on an owned lane, that verdicts are about      *)
(* executed motion, that a stopped pull leaves the lane still, how far a   *)
(* free one overshoots, that only a silence unwinds twice, and that the    *)
(* pull implements ExtruderPull: for any cap, windows, switch places,      *)
(* number of attempts, pulls and faults.                                   *)
(*                                                                         *)
(* None of them is inductive.  What carries them is the channel: a request *)
(* somebody waits for is the last in the queue, so that its answer finds   *)
(* the queue empty, and nothing of the attempts before it can reach the    *)
(* unit while the extruder pulls or behind the stop that ends it.          *)
(***************************************************************************)
EXTENDS AceTandem, AceUnitProof, FiniteSetTheorems

Pulling == {"loop", "confirm", "push", "check", "margin", "finish"}
Stopped == {"free", "cap", "gear", "error"}

(* The progress of the pull and what it rests on. *)
PullOK ==
  /\ queued <= pulled /\ checked <= pulled /\ blind <= faults
  /\ pc \in {"starter", "await"} => pulled = 0
  /\ pc \notin {"finish", "idle"} => pulled <= Cap
  /\ pc # "idle" => verdict = "none"
  /\ pc = "idle" /\ queued > 0 => verdict = "broken"
  /\ pc # "idle" \/ pulled > 0 => by.forced \/ by.index = Slot + ToolOffset
  /\ pc \in Pulling \/ pulled > 0 => granted
  /\ pc \in {"margin", "finish"} => ~EntryMade

(* The awaited request is the last one; behind its answer nothing waits.   *)
ChannelOK ==
  /\ \A i \in DOMAIN queue : queue[i].live =>
       i = Len(queue) /\ pc = "await" /\ answer = "none"
  /\ pc = "await" /\ answer # "none" => queue = <<>>
  /\ pc = "await" /\ answer = "ok" => granted
  /\ pc \in Pulling => queue = <<>>

(* What a look, a verdict and a stop leave behind. *)
EndOK ==
  /\ VerdictTrue
  /\ pc = "confirm" /\ beat /\ ShownError => slot # "ready"
  /\ verdict \in Stopped =>
       \/ queue = <<Tells("stop")>>
       \/ queue = <<>> /\ (stopLost \/ motor # "wind")

Inv == TypeOK /\ PullOK /\ ChannelOK /\ EndOK

-----------------------------------------------------------------------------
(* The unit *)

(* Whatever the unit does, it keeps the invariant. *)
LEMMA UnitStep ==
  ASSUME Inv, UnitActs
  PROVE  Inv'
<1>1. UnitTypeOK /\ TypeOK
  BY DEF Inv, TypeOK
<1>2. /\ UNCHANGED <<command, nip, from, silences, blind, calls>>
      /\ granted' = (granted \/ (answer = "none" /\ answer' = "ok"))
      /\ starts' = IF motor # "wind" /\ motor' = "wind" THEN starts + 1 ELSE starts
  BY DEF UnitActs
<1>3. UnitTypeOK' /\ faults' \in {faults, faults + 1} /\ (Takes \/ Idles)
  BY <1>1, TransactStep, LossStep, OwnStep DEF UnitActs, UnitNext, UnitFails
<1>4. faults \in Nat
  BY <1>1, FaultsAreNat DEF UnitTypeOK
<1>5. TypeOK'
  BY <1>1, <1>2, <1>3 DEF TypeOK, command, nip
<1>6. PullOK'
  BY <1>1, <1>2, <1>3, <1>4
     DEF Inv, PullOK, TypeOK, command, nip, EntryMade, Pulling
<1>7. CASE Takes
  <2>1. queue \in Seq(Request) /\ queue # <<>> /\ queue' = Tail(queue)
    BY <1>1, <1>7 DEF Takes, UnitTypeOK
  <2>2. /\ Len(queue) \in Nat /\ Len(queue) >= 1 /\ DOMAIN queue = 1 .. Len(queue)
        /\ Len(queue') = Len(queue) - 1 /\ DOMAIN queue' = 1 .. Len(queue) - 1
        /\ \A i \in 1 .. Len(queue) - 1 : queue'[i] = queue[i + 1]
        /\ Head(queue) = queue[1]
        /\ Len(queue) = 1 => queue' = <<>>
    BY <2>1
  <2>3. pc' = pc /\ pc \notin Pulling
    BY <1>2, <2>1 DEF Inv, ChannelOK, command
  <2>4. Head(queue).live => Len(queue) = 1 /\ pc = "await" /\ answer = "none"
    BY <2>2 DEF Inv, ChannelOK
  <2>5. answer' # answer => Head(queue).live
    BY <1>7 DEF Takes
  <2>6. \A i \in DOMAIN queue' : queue'[i].live =>
          i = Len(queue') /\ pc' = "await" /\ answer' = "none"
    <3>1. SUFFICES ASSUME NEW i \in 1 .. Len(queue) - 1, queue'[i].live
                   PROVE  i = Len(queue) - 1 /\ pc = "await" /\ answer' = "none"
      BY <2>2, <2>3
    <3>2. i + 1 \in DOMAIN queue /\ queue[i + 1].live
      BY <2>2, <3>1
    <3>3. i + 1 = Len(queue) /\ pc = "await" /\ answer = "none"
      BY <3>2 DEF Inv, ChannelOK
    <3>4. Len(queue) # 1
      BY <2>2, <3>1
    <3>5. answer' = answer
      BY <2>4, <2>5, <3>4
    <3>6. i = Len(queue) - 1
      <4>1. Len(queue) \in Nat
        BY <2>2
      <4>2. i \in Nat
        BY <3>1, <4>1
      <4>3. QED
        BY <3>3, <4>1, <4>2
    <3>7. QED
      BY <3>3, <3>5, <3>6
  <2>7. pc = "await" /\ answer' # "none" => queue' = <<>>
    BY <2>1, <2>2, <2>4, <2>5 DEF Inv, ChannelOK
  <2>8. pc = "await" /\ answer' = "ok" => granted'
    BY <1>2, <2>4, <2>5 DEF Inv, ChannelOK
  <2>9. ChannelOK'
    BY <2>3, <2>6, <2>7, <2>8 DEF ChannelOK
  <2>10. verdict \in Stopped => Head(queue).op = "stop" /\ queue' = <<>>
    BY <2>1, <2>2, RequestTypes DEF Inv, EndOK
  <2>11. verdict \in Stopped => slot' = slot /\ (motor' = "idle" \/ stopLost')
    BY <1>7, <2>10 DEF Takes
  <2>12. VerdictTrue'
    BY <1>2, <2>11
       DEF Inv, EndOK, VerdictTrue, Stopped, command, nip, EntryMade, SeatMade,
           Executed
  <2>13. EndOK'
    BY <1>2, <2>3, <2>10, <2>11, <2>12 DEF EndOK, command, Pulling
  <2>14. QED
    BY <1>5, <1>6, <2>9, <2>13 DEF Inv
<1>8. CASE Idles
  <2>1. ChannelOK'
    BY <1>2, <1>8 DEF Inv, ChannelOK, Idles, command, Pulling
  <2>2. VerdictTrue'
    BY <1>2, <1>8
       DEF Inv, EndOK, VerdictTrue, Idles, command, nip, EntryMade, SeatMade,
           Executed
  <2>3. pc' = "confirm" /\ beat' /\ ShownError' => slot' # "ready"
    <3>1. Shown.slot = slot
      BY DEF Shown
    <3>2. QED
      BY <1>2, <1>8, <3>1 DEF Inv, EndOK, Idles, command, ShownError
  <2>4. EndOK'
    BY <1>2, <1>8, <2>2, <2>3 DEF Inv, EndOK, Idles, command
  <2>5. QED
    BY <1>5, <1>6, <2>1, <2>4 DEF Inv
<1>9. QED
  BY <1>3, <1>7, <1>8

-----------------------------------------------------------------------------
(* The driver *)

(* Distances are naturals; faults are counted up. *)
LEMMA Numbers ==
  ASSUME TypeOK
  PROVE  /\ Cap \in Nat /\ pulled \in Nat /\ checked \in Nat /\ queued \in Nat
         /\ tip \in Nat /\ at.seat \in Nat /\ at.entry \in Nat
         /\ faults \in Nat /\ blind \in Nat /\ try \in Nat /\ calls \in Nat
         /\ Fault => faults' = faults + 1 /\ faults' \in 0 .. MaxFaults
<1>1. at \in [seat : Nat, entry : Nat]
  BY DistancesAreNat DEF TypeOK
<1>2. QED
  BY <1>1, DistancesAreNat, FaultsAreNat DEF TypeOK, UnitTypeOK, Fault

(* The stop behind an empty queue. *)
LEMMA StopLast ==
  ASSUME queue = <<>>, StopRetract
  PROVE  /\ queue' = <<Tells("stop")>> /\ queue' \in Seq(Request)
         /\ \A i \in DOMAIN queue' : ~queue'[i].live
<1>1. queue' = <<Tells("stop")>>
  BY DEF StopRetract, Later
<1>2. QED
  BY <1>1, RequestTypes

LEMMA CallStep ==
  ASSUME Inv, NEW i \in Indices, NEW f \in BOOLEAN, CallTandem(i, f)
  PROVE  Inv'
<1>1. TypeOK /\ UnitTypeOK /\ pc = "idle"
  BY DEF Inv, TypeOK, CallTandem
<1>2. UnitTypeOK'
  BY <1>1 DEF CallTandem, channel, unit, link, seen, UnitTypeOK
<1>3. TypeOK'
  <2>1. by' \in [index : Indices \cup {Unreadable}, forced : BOOLEAN]
    BY DEF CallTandem
  <2>2. /\ pc' \in {"starter", "idle"} /\ verdict' \in {"none", "unowned"}
        /\ calls' \in 0 .. MaxCalls
    BY <1>1, DistancesAreNat DEF CallTandem, Ends, TypeOK
  <2>3. /\ try' \in 0 .. Attempts /\ pulled' \in 0 .. Cap + 1
        /\ checked' \in 0 .. Cap + 1 /\ blind' \in 0 .. MaxFaults
        /\ from' \in Nat
    BY <1>1, Numbers, DistancesAreNat, FaultsAreNat DEF CallTandem, TypeOK
  <2>4. QED
    BY <1>1, <1>2, <2>1, <2>2, <2>3 DEF CallTandem, nip, TypeOK, Verdicts
<1>4. PullOK'
  BY <1>1, Numbers
     DEF Inv, PullOK, CallTandem, channel, nip, Ends, Pulling, Owned, EntryMade
<1>5. ChannelOK'
  BY <1>1 DEF Inv, ChannelOK, CallTandem, channel, link, Ends, Pulling
<1>6. EndOK'
  BY <1>1 DEF CallTandem, EndOK, VerdictTrue, Ends, Stopped
<1>7. QED
  BY <1>3, <1>4, <1>5, <1>6 DEF Inv

(* An attempt or its abandonment: the rest of the queue goes unread.       *)
LEMMA AttemptType ==
  ASSUME NEW q \in Seq(Request)
  PROVE  /\ Orphaned(q) \in Seq(Request)
         /\ \A i \in DOMAIN Orphaned(q) : ~Orphaned(q)[i].live
         /\ Append(Orphaned(q), Asks("wind")) \in Seq(Request)
         /\ \A i \in DOMAIN Append(Orphaned(q), Asks("wind")) :
              Append(Orphaned(q), Asks("wind"))[i].live =>
                i = Len(Append(Orphaned(q), Asks("wind")))
  BY OrphanedType, RequestTypes, AppendedType

LEMMA StarterStep ==
  ASSUME Inv, Starter
  PROVE  Inv'
<1>1. TypeOK /\ UnitTypeOK /\ pc = "starter" /\ queue \in Seq(Request)
  BY DEF Inv, TypeOK, UnitTypeOK, Starter
<1>2. /\ Tells("stop") \in Request /\ ~Tells("stop").live
      /\ Asks("wind") \in Request
  BY RequestTypes
<1>3. \A i \in DOMAIN queue : ~queue[i].live
  BY <1>1 DEF Inv, ChannelOK
<1>4. StopsAssist(queue) \in Seq(Request)
        /\ \A i \in DOMAIN StopsAssist(queue) : ~StopsAssist(queue)[i].live
  BY <1>1, <1>2, <1>3, AppendedType DEF StopsAssist
<1>5. StopsAssist(Orphaned(queue)) \in Seq(Request)
        /\ \A i \in DOMAIN StopsAssist(Orphaned(queue)) :
              ~StopsAssist(Orphaned(queue))[i].live
  BY <1>1, <1>2, OrphanedType, AppendedType DEF StopsAssist
<1>6. queue' \in Seq(Request)
        /\ \A i \in DOMAIN queue' : queue'[i].live =>
             i = Len(queue') /\ pc' = "await" /\ answer' = "none"
  BY <1>2, <1>4, <1>5, AppendedType DEF Starter, Goto, Ends
<1>7. TypeOK'
  <2>1. UnitTypeOK'
    BY <1>1, <1>6 DEF Starter, UnitTypeOK, unit, seen
  <2>2. /\ pc' \in {"idle", "await"} /\ verdict' \in {verdict, "empty"}
        /\ try' \in 0 .. Attempts
    BY <1>1, DistancesAreNat DEF Starter, Goto, Ends, TypeOK
  <2>3. QED
    BY <1>1, <2>1, <2>2 DEF Starter, TypeOK, nip, told, Verdicts
<1>8. PullOK'
  BY <1>1, Numbers
     DEF Inv, PullOK, Starter, Goto, Ends, nip, told, Pulling, EntryMade
<1>9. ChannelOK'
  BY <1>1, <1>6 DEF Inv, ChannelOK, Starter, Goto, Ends, Pulling
<1>10. EndOK'
  BY <1>1 DEF Inv, PullOK, EndOK, VerdictTrue, Starter, Goto, Ends, Stopped
<1>11. QED
  BY <1>7, <1>8, <1>9, <1>10 DEF Inv

LEMMA AcceptedStep ==
  ASSUME Inv, Accepted
  PROVE  Inv'
<1>1. TypeOK /\ pc = "await" /\ answer = "ok" /\ pc' = "loop"
  BY DEF Inv, Accepted, Goto
<1>2. TypeOK'
  BY <1>1 DEF Accepted, TypeOK, UnitTypeOK, channel, unit, link, seen, nip,
              told, SeatReading
<1>3. PullOK'
  BY <1>1, Numbers
     DEF Inv, PullOK, ChannelOK, Accepted, channel, nip, told, Pulling, EntryMade
<1>4. ChannelOK'
  BY <1>1 DEF Inv, ChannelOK, Accepted, channel, link, told
<1>5. EndOK'
  BY <1>1 DEF Inv, PullOK, EndOK, VerdictTrue, Accepted, Stopped
<1>6. QED
  BY <1>2, <1>3, <1>4, <1>5 DEF Inv

(* A refusal or a silence: the attempt is repeated or the pull given up.   *)
LEMMA RetryStep ==
  ASSUME Inv, Refused \/ NoAnswer
  PROVE  Inv'
<1>1. TypeOK /\ UnitTypeOK /\ pc = "await" /\ TriesAgain
        /\ queue \in Seq(Request)
  BY DEF Inv, TypeOK, UnitTypeOK, Refused, NoAnswer
<1>2. /\ UNCHANGED <<unit, seen, stopLost, by, seatAtStart, pulled, checked,
                     claimed, nip, from, granted, starts, blind, calls>>
      /\ faults' = faults \/ Fault
      /\ silences' \in {silences, silences + 1}
  BY <1>1 DEF Refused, NoAnswer, told, TypeOK
<1>3. /\ queue' \in Seq(Request) /\ answer' = "none"
      /\ \A i \in DOMAIN queue' : queue'[i].live =>
           i = Len(queue') /\ pc' = "await"
  BY <1>1, AttemptType DEF TriesAgain, Attempt, GivenUp, Ends
<1>4. /\ pc' \in {"await", "idle"} /\ try' \in 0 .. Attempts
      /\ verdict' \in {verdict, "refused"}
      /\ pc' = "await" => verdict' = verdict
  BY <1>1, Numbers, DistancesAreNat DEF TriesAgain, Ends, TypeOK
<1>5. faults' \in 0 .. MaxFaults /\ faults' >= faults
  BY <1>1, <1>2, Numbers DEF UnitTypeOK
<1>6. TypeOK'
  BY <1>1, <1>2, <1>3, <1>4, <1>5
     DEF TypeOK, UnitTypeOK, unit, seen, nip, Verdicts
<1>7. PullOK'
  BY <1>1, <1>2, <1>4, <1>5, Numbers
     DEF Inv, PullOK, nip, Pulling, EntryMade
<1>8. ChannelOK'
  BY <1>3, <1>4 DEF ChannelOK, Pulling
<1>9. EndOK'
  BY <1>1, <1>4 DEF Inv, PullOK, EndOK, VerdictTrue, Stopped
<1>10. QED
  BY <1>6, <1>7, <1>8, <1>9 DEF Inv

-----------------------------------------------------------------------------
(* The loop *)
LEMMA LooksStep ==
  ASSUME Inv, Looks
  PROVE  Inv'
<1>1. TypeOK /\ pc = "loop" /\ pc' \in {"margin", "confirm", "push"}
        /\ (pc' = "margin" => ~EntryMade) /\ beat' = (pc' # "confirm")
  BY DEF Inv, Looks, Goto
<1>2. TypeOK'
  BY <1>1 DEF Looks, TypeOK, UnitTypeOK, unit, link, nip, told
<1>3. PullOK'
  BY <1>1 DEF Inv, PullOK, Looks, nip, told, Pulling, EntryMade
<1>4. ChannelOK'
  BY <1>1 DEF Inv, ChannelOK, Looks, link, told, Pulling
<1>5. EndOK'
  BY <1>1 DEF Inv, PullOK, EndOK, VerdictTrue, Looks, Stopped
<1>6. QED
  BY <1>2, <1>3, <1>4, <1>5 DEF Inv

LEMMA ConfirmsStep ==
  ASSUME Inv, Confirms
  PROVE  Inv'
<1>1. TypeOK /\ UnitTypeOK /\ pc = "confirm" /\ queue = <<>>
        /\ pc' \in {"push", "idle"} /\ verdict' \in {verdict, "error"}
  BY DEF Inv, TypeOK, ChannelOK, Pulling, Confirms, Goto, Ends
<1>2. UNCHANGED <<unit, seen, stopLost, faults, by, try, seatAtStart, pulled,
                  checked, claimed, nip, told, answer>>
  BY DEF Confirms, link
<1>3. CASE ~ShownError /\ Goto("push") /\ UNCHANGED <<link, verdict>>
  <2>1. TypeOK' /\ PullOK'
    BY <1>1, <1>2, <1>3
       DEF Inv, PullOK, TypeOK, UnitTypeOK, unit, link, seen, nip, told, Goto,
           Pulling, EntryMade
  <2>2. ChannelOK' /\ EndOK'
    BY <1>1, <1>2, <1>3
       DEF Inv, PullOK, ChannelOK, EndOK, VerdictTrue, link, told, Goto, Stopped,
           Pulling
  <2>3. QED
    BY <2>1, <2>2 DEF Inv
<1>4. CASE ShownError /\ queued = 0 /\ Ends("error") /\ StopRetract
  <2>1. queue' = <<Tells("stop")>> /\ queue' \in Seq(Request)
          /\ \A i \in DOMAIN queue' : ~queue'[i].live
    BY <1>1, <1>4, StopLast
  <2>2. TypeOK' /\ PullOK'
    BY <1>1, <1>2, <1>4, <2>1
       DEF Inv, PullOK, TypeOK, UnitTypeOK, unit, seen, nip, told, Ends, Pulling,
           Verdicts, EntryMade
  <2>3. ChannelOK'
    BY <1>4, <2>1 DEF ChannelOK, Ends, Pulling
  <2>4. slot \in {"error", "empty"}
    BY <1>1, <1>4 DEF Confirms, Inv, EndOK, UnitTypeOK
  <2>5. EndOK'
    BY <1>2, <1>4, <2>1, <2>4 DEF EndOK, VerdictTrue, Ends, Stopped, unit, nip
  <2>6. QED
    BY <2>2, <2>3, <2>5 DEF Inv
<1>5. QED
  BY <1>3, <1>4 DEF Confirms

LEMMA PushesStep ==
  ASSUME Inv, Pushes \/ Margin
  PROVE  Inv'
<1>1. /\ TypeOK /\ pc \in {"push", "margin"} /\ pulled <= Cap
      /\ pc = "push" => pulled < Cap
      /\ pc' \in {"check", "loop", "finish"}
      /\ pc' = "finish" <=> pc = "margin"
      /\ queued' = queued + 1 /\ pulled' = pulled + 1
      /\ UNCHANGED <<channel, by, try, seatAtStart, checked, claimed, verdict,
                     tip, at, caught, told>>
  BY DEF Inv, PullOK, Pushes, Margin, ForceMove, Goto
<1>2. TypeOK'
  BY <1>1, Numbers
     DEF Inv, PullOK, TypeOK, UnitTypeOK, channel, unit, link, seen, told
<1>3. PullOK'
  BY <1>1, Numbers DEF Inv, PullOK, channel, told, Pulling, EntryMade
<1>4. ChannelOK'
  BY <1>1 DEF Inv, ChannelOK, channel, link, told, Pulling
<1>5. EndOK'
  BY <1>1 DEF Inv, PullOK, EndOK, VerdictTrue, Stopped
<1>6. QED
  BY <1>2, <1>3, <1>4, <1>5 DEF Inv

LEMMA RaisesStep ==
  ASSUME Inv, ForceMoveRaises
  PROVE  Inv'
<1>1. /\ TypeOK /\ pc \in Pulling /\ pc' = "idle" /\ verdict' = "broken"
      /\ faults' = faults + 1 /\ faults' \in 0 .. MaxFaults
      /\ UNCHANGED <<unit, link, seen, stopLost, by, try, seatAtStart, pulled,
                     checked, claimed, nip, told>>
  BY Numbers DEF Inv, ForceMoveRaises, Ends, Pulling
<1>2. TypeOK'
  BY <1>1 DEF TypeOK, UnitTypeOK, unit, link, seen, nip, told, Verdicts
<1>3. PullOK'
  BY <1>1, Numbers DEF Inv, PullOK, nip, told, Pulling, EntryMade
<1>4. ChannelOK'
  BY <1>1 DEF Inv, ChannelOK, link, told, Pulling
<1>5. EndOK'
  BY <1>1 DEF EndOK, VerdictTrue, Stopped
<1>6. QED
  BY <1>2, <1>3, <1>4, <1>5 DEF Inv

(* A pull that is over on a drained queue, with its stop sent. *)
LEMMA StoppedStep ==
  ASSUME Inv, pc \in Pulling, queued = 0, StopRetract,
         NEW v \in {"free", "cap", "gear"}, Ends(v),
         v = "free" => ~EntryMade,
         v = "cap" => EntryMade /\ Executed >= Cap,
         v = "gear" => SeatMade /\ Executed >= GearClear,
         UNCHANGED <<answer, unit, seen, stopLost, by, try, seatAtStart, pulled,
                     checked, claimed, nip, from, granted, starts, silences,
                     blind, calls, faults>>
  PROVE  Inv'
<1>1. TypeOK /\ queue = <<>>
  BY DEF Inv, ChannelOK
<1>2. queue' = <<Tells("stop")>> /\ queue' \in Seq(Request)
        /\ \A i \in DOMAIN queue' : ~queue'[i].live
  BY <1>1, StopLast
<1>3. TypeOK'
  BY <1>1, <1>2 DEF TypeOK, UnitTypeOK, unit, seen, nip, Ends, Verdicts
<1>4. PullOK'
  BY <1>1 DEF Inv, PullOK, nip, Ends, Pulling, EntryMade
<1>5. ChannelOK'
  BY <1>2 DEF ChannelOK, Ends, Pulling
<1>6. EndOK'
  BY <1>2 DEF EndOK, VerdictTrue, Ends, Stopped, nip, EntryMade, SeatMade,
              Executed
<1>7. QED
  BY <1>3, <1>4, <1>5, <1>6 DEF Inv

LEMMA AtCapStep ==
  ASSUME Inv, AtCap
  PROVE  Inv'
<1>1. TypeOK /\ pc = "push" /\ pulled >= Cap /\ queued = 0
  BY DEF Inv, AtCap
<1>2. UNCHANGED <<unit, seen, stopLost, faults, by, try, seatAtStart, pulled,
                  checked, claimed, nip, told, answer>>
  BY DEF AtCap, link
<1>3. CASE ~EntryMade /\ Goto("margin") /\ UNCHANGED <<link, verdict>>
  <2>1. TypeOK' /\ PullOK'
    BY <1>1, <1>2, <1>3
       DEF Inv, PullOK, TypeOK, UnitTypeOK, unit, link, seen, nip, told, Goto,
           Pulling, EntryMade
  <2>2. ChannelOK' /\ EndOK'
    BY <1>1, <1>2, <1>3
       DEF Inv, PullOK, ChannelOK, EndOK, VerdictTrue, link, told, Goto, Stopped,
           Pulling
  <2>3. QED
    BY <2>1, <2>2 DEF Inv
<1>4. CASE EntryMade /\ Ends("cap") /\ StopRetract
  <2>1. Executed >= Cap
    BY <1>1, Numbers DEF Executed
  <2>2. QED
    BY <1>1, <1>2, <1>4, <2>1, StoppedStep DEF Pulling, told
<1>5. QED
  BY <1>3, <1>4 DEF AtCap

LEMMA FinishesStep ==
  ASSUME Inv, Finishes
  PROVE  Inv'
  BY StoppedStep DEF Inv, PullOK, Finishes, Pulling, told

(* The judgement of a window: the pull goes on, or ends at the gears.      *)
LEMMA ChecksStep ==
  ASSUME Inv, Checks
  PROVE  Inv'
<1>1. TypeOK /\ pc = "check" /\ queued = 0
  BY DEF Inv, Checks
<1>2. UNCHANGED <<unit, seen, stopLost, by, try, seatAtStart, pulled, claimed,
                  nip, from, granted, starts, silences, calls>>
  BY DEF Checks
<1>3. CASE Goto("loop") /\ checked' = pulled /\ UNCHANGED <<link, verdict>>
  <2>1. \/ faults' = faults /\ blind' = blind
        \/ faults' = faults + 1 /\ faults' \in 0 .. MaxFaults /\ blind' = blind + 1
    BY <1>1, Numbers DEF Checks
  <2>2. faults' \in 0 .. MaxFaults /\ blind' \in 0 .. MaxFaults /\ blind' <= faults'
    BY <1>1, <2>1, Numbers, FaultsAreNat DEF Inv, PullOK, TypeOK, UnitTypeOK
  <2>3. TypeOK' /\ PullOK'
    BY <1>1, <1>2, <1>3, <2>2, Numbers
       DEF Inv, PullOK, TypeOK, UnitTypeOK, unit, link, seen, nip, Goto, Pulling,
           EntryMade
  <2>4. ChannelOK' /\ EndOK'
    BY <1>1, <1>2, <1>3
       DEF Inv, PullOK, ChannelOK, EndOK, VerdictTrue, link, Goto, Stopped,
           Pulling
  <2>5. QED
    BY <2>3, <2>4 DEF Inv
<1>4. CASE /\ seatAtStart = "made" /\ SeatReading = "made" /\ pulled >= GearClear
           /\ Ends("gear") /\ StopRetract
           /\ UNCHANGED <<answer, checked, faults, blind>>
  <2>1. SeatMade /\ Executed >= GearClear
    BY <1>1, <1>4, Numbers DEF SeatReading, Executed
  <2>2. QED
    BY <1>1, <1>2, <1>4, <2>1, StoppedStep DEF Pulling
<1>5. QED
  BY <1>3, <1>4 DEF Checks, Judged

-----------------------------------------------------------------------------
(* The toolhead and the strand *)
LEMMA ExecutesStep ==
  ASSUME Inv, Executes1
  PROVE  Inv'
<1>1. /\ TypeOK /\ queued > 0 /\ queued' = queued - 1
      /\ tip' \in {tip, tip + 1} /\ UNCHANGED <<channel, command, at, caught, told>>
  BY DEF Inv, Executes1
<1>2. tip' \in Nat /\ tip' >= tip /\ queued' \in Nat /\ queued' <= queued
  BY <1>1, Numbers
<1>3. TypeOK'
  BY <1>1, <1>2, Numbers
     DEF TypeOK, UnitTypeOK, channel, unit, link, seen, command, told
<1>4. PullOK'
  BY <1>1, <1>2, Numbers
     DEF Inv, PullOK, channel, command, told, Pulling, EntryMade
<1>5. ChannelOK'
  BY <1>1 DEF Inv, ChannelOK, channel, link, command, told, Pulling
<1>6. verdict \notin Stopped
  BY <1>1, Numbers DEF Inv, EndOK, VerdictTrue, Stopped
<1>7. EndOK'
  BY <1>1, <1>6
     DEF Inv, EndOK, VerdictTrue, Stopped, channel, unit, seen, command, ShownError
<1>8. QED
  BY <1>3, <1>4, <1>5, <1>7 DEF Inv

LEMMA CatchesStep ==
  ASSUME Inv, StrandCatches
  PROVE  Inv'
<1>1. /\ TypeOK /\ faults' = faults + 1 /\ faults' \in 0 .. MaxFaults
      /\ caught' = TRUE
      /\ UNCHANGED <<unit, link, seen, stopLost, command, queued, tip, at, told>>
  BY Numbers DEF Inv, StrandCatches
<1>2. TypeOK'
  BY <1>1 DEF TypeOK, UnitTypeOK, unit, link, seen, command, told
<1>3. PullOK'
  BY <1>1, Numbers DEF Inv, PullOK, command, told, Pulling, EntryMade
<1>4. ChannelOK'
  BY <1>1 DEF Inv, ChannelOK, link, command, told, Pulling
<1>5. EndOK'
  BY <1>1 DEF Inv, EndOK, VerdictTrue, unit, link, seen, command, ShownError,
              EntryMade, SeatMade, Executed
<1>6. QED
  BY <1>2, <1>3, <1>4, <1>5 DEF Inv

-----------------------------------------------------------------------------
(* The witness at the gears.  Windows are judged on their boundaries, and  *)
(* a boundary at which the switch was read as made lies short of GearClear.*)
GroundOK ==
  /\ \E j \in Nat : checked = j * StallWindow
  /\ pc \in {"loop", "confirm", "push"} => pulled < checked + StallWindow
  /\ pc = "check" => pulled = checked + StallWindow
  /\ pulled <= checked + StallWindow \/ ~SeatMade
  /\ seatAtStart = "made" /\ SeatMade =>
       checked <= GearClear - StallWindow + StallWindow * blind

(* A boundary short of another is a window short of it. *)
LEMMA Boundary ==
  ASSUME NEW w \in Nat \ {0}, NEW a \in Nat, NEW b \in Nat, a * w < b * w
  PROVE  a * w + w <= b * w
<1>1. a < b
  <2>1. SUFFICES ASSUME a >= b PROVE FALSE
    OBVIOUS
  <2>2. PICK d \in Nat : a = b + d
    <3>1. a - b \in Nat /\ a = b + (a - b)
      BY <2>1
    <3>2. QED
      BY <3>1
  <2>3. a * w = b * w + d * w /\ d * w >= 0
    BY <2>2
  <2>4. QED
    BY <2>3
<1>2. PICK d \in Nat : b = a + 1 + d
  <2>1. b - a - 1 \in Nat /\ b = a + 1 + (b - a - 1)
    BY <1>1
  <2>2. QED
    BY <2>1
<1>3. b * w = a * w + w + d * w /\ d * w >= 0
  BY <1>2
<1>4. QED
  BY <1>3

(* Arithmetic. *)
LEMMA Room ==
  ASSUME NEW a \in Int, NEW b \in Int, NEW c \in Int, a + b <= c
  PROVE  a <= c - b
  OBVIOUS

(* A step of the unit, the toolhead or the channel judges nothing: the     *)
(* strand only comes further back.                                         *)
LEMMA GroundKept ==
  ASSUME TypeOK, GroundOK, UNCHANGED <<pulled, checked, at>>,
         pc' = pc \/ pc' \in {"idle", "await", "margin"}
           \/ (pc \in {"loop", "confirm", "push"} /\ pc' \in {"loop", "confirm", "push"}),
         UNCHANGED <<blind, seatAtStart>>, tip' \in Nat, tip' >= tip
  PROVE  GroundOK'
<1>1. SeatMade' => SeatMade
  BY Numbers DEF SeatMade
<1>2. QED
  BY <1>1 DEF GroundOK

LEMMA GroundStep ==
  ASSUME Inv, GroundOK, [Next]_vars
  PROVE  GroundOK'
<1>1. TypeOK /\ tip \in Nat
  BY DEF Inv, TypeOK
<1>2. StallWindow \in Nat \ {0} /\ GearClear \in Nat
  BY DistancesAreNat
<1>3. CASE UNCHANGED vars
  BY <1>3 DEF vars, command, nip, told, GroundOK, SeatMade
<1>4. ASSUME NEW i \in Indices, NEW f \in BOOLEAN, CallTandem(i, f)
      PROVE  GroundOK'
  <2>1. /\ pulled' = 0 /\ checked' = 0 /\ seatAtStart' = "none"
        /\ pc' \in {"starter", "idle"}
    BY <1>4 DEF CallTandem, Ends
  <2>2. 0 * StallWindow = 0
    BY <1>2
  <2>3. QED
    BY <1>2, <2>1, <2>2 DEF GroundOK
<1>5. CASE Starter
  BY <1>1, <1>5, GroundKept DEF Starter, Goto, Ends, nip, told
<1>6. CASE Accepted
  <2>1. pulled = 0 /\ checked = 0
    BY <1>1, <1>6, Numbers DEF Inv, PullOK, Accepted
  <2>2. UNCHANGED <<pulled, checked, at, tip, blind>> /\ pc' = "loop"
    BY <1>6 DEF Accepted, nip, told, Goto
  <2>3. SeatMade' = SeatMade
    BY <2>2 DEF SeatMade
  <2>4. 0 <= GearClear - StallWindow + StallWindow * blind
    <3>1. PICK k \in 1 .. GearClear : GearClear = k * StallWindow
      BY WindowsFit
    <3>2. 0 * StallWindow < k * StallWindow
      BY <1>2, <3>1
    <3>3. 0 * StallWindow + StallWindow <= k * StallWindow
      BY <1>2, <3>2, Boundary
    <3>4. blind \in Nat /\ StallWindow * blind >= 0
      BY <1>1, <1>2, Numbers
    <3>5. QED
      BY <1>2, <3>1, <3>3, <3>4
  <2>5. QED
    BY <1>2, <2>1, <2>2, <2>3, <2>4 DEF GroundOK
<1>7. CASE Refused \/ NoAnswer
  BY <1>1, <1>7, GroundKept DEF Refused, NoAnswer, TriesAgain, Ends, nip, told
<1>8. CASE Looks
  BY <1>1, <1>8, GroundKept DEF Looks, Goto, nip, told
<1>9. CASE Confirms
  BY <1>1, <1>9, GroundKept DEF Confirms, Goto, Ends, nip, told
<1>10. CASE ForceMoveRaises
  BY <1>1, <1>10, GroundKept DEF ForceMoveRaises, Ends, nip, told
<1>11. CASE AtCap
  BY <1>1, <1>11, GroundKept DEF AtCap, Goto, Ends, nip, told
<1>12. CASE Finishes
  BY <1>1, <1>12, GroundKept DEF Finishes, Ends, nip, told
<1>13. CASE Pushes
  <2>1. /\ pulled' = pulled + 1 /\ UNCHANGED <<checked, tip, at, blind, seatAtStart>>
        /\ pulled < checked + StallWindow
        /\ pc' = IF pulled' - checked >= StallWindow THEN "check" ELSE "loop"
    BY <1>13 DEF Pushes, ForceMove, Goto, GroundOK, told
  <2>2. SeatMade' = SeatMade
    BY <2>1 DEF SeatMade
  <2>3. QED
    BY <1>1, <1>2, <2>1, <2>2, Numbers DEF GroundOK
<1>14. CASE Margin
  <2>1. ~EntryMade /\ UNCHANGED <<checked, tip, at>> /\ pc' = "finish"
    BY <1>14 DEF Inv, PullOK, Margin, Goto
  <2>2. at.seat <= at.entry
    BY <1>1, WindowsFit DEF TypeOK
  <2>3. ~SeatMade'
    BY <1>1, <2>1, <2>2, Numbers DEF EntryMade, SeatMade
  <2>4. QED
    BY <2>1, <2>3 DEF GroundOK
<1>15. CASE Checks
  <2>1. /\ pulled = checked + StallWindow
        /\ UNCHANGED <<pulled, tip, at, seatAtStart>>
    BY <1>15 DEF Checks, GroundOK, nip
  <2>2. SeatMade' = SeatMade
    BY <2>1 DEF SeatMade
  <2>3. CASE Ends("gear") /\ UNCHANGED <<checked, blind>>
    BY <2>1, <2>2, <2>3 DEF GroundOK, Ends
  <2>4. CASE Goto("loop") /\ checked' = pulled
    <3>1. PICK j \in Nat : checked = j * StallWindow
      BY DEF GroundOK
    <3>2. checked' = (j + 1) * StallWindow /\ j + 1 \in Nat
      BY <1>2, <2>1, <2>4, <3>1
    <3>3. pulled' < checked' + StallWindow
      BY <1>1, <1>2, <2>1, <2>4, Numbers
    <3>4. ASSUME seatAtStart = "made", SeatMade
          PROVE  checked' <= GearClear - StallWindow + StallWindow * blind'
      <4>1. blind \in Nat /\ StallWindow * blind \in Nat
        BY <1>1, <1>2, Numbers
      <4>2. CASE blind' = blind + 1
        <5>1. StallWindow * blind' = StallWindow * blind + StallWindow
          BY <1>2, <4>1, <4>2
        <5>2. checked <= GearClear - StallWindow + StallWindow * blind
          BY <3>4 DEF GroundOK
        <5>3. QED
          BY <1>1, <1>2, <2>1, <2>4, <4>1, <5>1, <5>2, Numbers
      <4>3. CASE blind' = blind /\ pulled < GearClear
        <5>1. PICK k \in 1 .. GearClear : GearClear = k * StallWindow
          BY WindowsFit
        <5>2. (j + 1) * StallWindow < k * StallWindow
          BY <2>4, <3>2, <4>3, <5>1
        <5>3. (j + 1) * StallWindow + StallWindow <= k * StallWindow
          BY <1>2, <3>2, <5>1, <5>2, Boundary
        <5>4. checked' + StallWindow <= GearClear
          BY <3>2, <5>1, <5>3
        <5>5. checked' \in Nat
          BY <1>1, <2>4, Numbers
        <5>6. checked' <= GearClear - StallWindow
          <6>1. GearClear \in Int /\ StallWindow \in Int /\ checked' \in Int
            BY <1>2, <5>5
          <6>2. QED
            BY <5>4, <6>1, Room
        <5>7. StallWindow * blind' \in Nat
          BY <4>1, <4>3
        <5>8. QED
          BY <1>2, <5>5, <5>6, <5>7
      <4>4. QED
        BY <1>1, <1>15, <2>4, <3>4, <4>2, <4>3, <1>2, Numbers
           DEF Checks, Judged, Goto, Ends, SeatReading
    <3>5. QED
      BY <1>2, <2>1, <2>2, <2>4, <3>2, <3>3, <3>4 DEF GroundOK, Goto
  <2>5. QED
    BY <1>15, <2>3, <2>4 DEF Checks, Judged
<1>16. CASE Executes1
  BY <1>1, <1>16, GroundKept, Numbers DEF Executes1, command, told
<1>17. CASE StrandCatches
  BY <1>1, <1>17, GroundKept, Numbers DEF StrandCatches, command, told
<1>18. CASE UnitActs
  BY <1>1, <1>18, GroundKept, Numbers DEF UnitActs, command, nip
<1>19. QED
  BY <1>3, <1>4, <1>5, <1>6, <1>7, <1>8, <1>9, <1>10, <1>11, <1>12, <1>13,
     <1>14, <1>15, <1>16, <1>17, <1>18 DEF Next, Driver

-----------------------------------------------------------------------------
(* The invariant *)
LEMMA InitInv == Init => Inv /\ GroundOK
<1> SUFFICES ASSUME Init PROVE Inv /\ GroundOK
  OBVIOUS
<1>1. UnitTypeOK
  <2>1. Shown \in Frame
    BY DEF Init, Shown, Frame
  <2>2. queue \in Seq(Request) /\ faults \in 0 .. MaxFaults
    BY FaultsAreNat DEF Init
  <2>3. QED
    BY <2>1, <2>2 DEF Init, UnitTypeOK
<1>2. TypeOK
  <2>1. by \in [index : Indices \cup {Unreadable}, forced : BOOLEAN]
    BY DEF Init
  <2>2. /\ try \in 0 .. Attempts /\ pulled \in 0 .. Cap + 1
        /\ checked \in 0 .. Cap + 1 /\ queued \in 0 .. Cap + 1
        /\ blind \in 0 .. MaxFaults /\ calls \in 0 .. MaxCalls
    BY DistancesAreNat, FaultsAreNat DEF Init
  <2>3. claimed \in BOOLEAN
    BY DEF Init
  <2>4. QED
    BY <1>1, <2>1, <2>2, <2>3 DEF Init, TypeOK, Verdicts
<1>3. PullOK /\ ChannelOK /\ EndOK
  BY <1>1 DEF Init, PullOK, ChannelOK, EndOK, VerdictTrue, Pulling, Stopped,
              UnitTypeOK
<1>4. 0 * StallWindow = 0
  BY DistancesAreNat
<1>5. GroundOK
  BY <1>4, DistancesAreNat DEF Init, GroundOK
<1>6. QED
  BY <1>2, <1>3, <1>5 DEF Inv

LEMMA NextInv == Inv /\ [Next]_vars => Inv'
<1> SUFFICES ASSUME Inv, [Next]_vars PROVE Inv'
  OBVIOUS
<1>1. CASE UNCHANGED vars
  BY <1>1
     DEF Inv, TypeOK, UnitTypeOK, PullOK, ChannelOK, EndOK, VerdictTrue, vars,
         channel, unit, link, seen, command, nip, told, EntryMade, SeatMade,
         Executed, ShownError
<1>2. CASE Driver
  BY <1>2, StarterStep, AcceptedStep, RetryStep, LooksStep, ConfirmsStep,
     PushesStep, AtCapStep, ChecksStep, FinishesStep DEF Driver
<1>3. QED
  BY <1>1, <1>2, CallStep, RaisesStep, ExecutesStep, CatchesStep, UnitStep
     DEF Next

LEMMA Invariance == Spec => [](Inv /\ GroundOK)
<1>1. Inv /\ GroundOK /\ [Next]_vars => (Inv /\ GroundOK)'
  BY NextInv, GroundStep
<1>2. QED
  BY InitInv, <1>1, PTL DEF Spec

(* Every variable of the pull keeps its type, whatever the unit and the    *)
(* link do to it.                                                          *)
THEOREM TypeCorrect == Spec => []TypeOK
<1>1. Inv => TypeOK
  BY DEF Inv
<1>2. QED
  BY Invariance, <1>1, PTL

(* The extruder is never commanded unless the unit acknowledged an unwind  *)
(* of this very pull on the lane that owns the nip, or one vouched for.    *)
THEOREM PullsWarranted == Spec => []PullWarranted
<1>1. Inv => PullWarranted
  BY Numbers DEF Inv, PullOK, PullWarranted
<1>2. QED
  BY Invariance, <1>1, PTL

(* A verdict of the pull is about executed motion, on a drained queue, and *)
(* what it says of the switches and of the unit is so.                     *)
THEOREM VerdictsTrue == Spec => []VerdictTrue
<1>1. Inv => VerdictTrue
  BY DEF Inv, EndOK
<1>2. QED
  BY Invariance, <1>1, PTL

(* Behind the stop of a pull that ended there is no unwind: not one of the *)
(* attempts that were given up before.                                     *)
THEOREM LanesLeftStill == Spec => []LaneLeftStill
<1>1. Inv => LaneLeftStill
  BY DEF Inv, EndOK, LaneLeftStill, Stopped
<1>2. QED
  BY Invariance, <1>1, PTL

(* A strand that the post-gear switch shows not to move is ground for at   *)
(* most POSTGEAR_CLEAR_MM of executed pull, and a window more for each one *)
(* in which the switch could not be read.                                  *)
THEOREM GrindingWitnessed == Spec => []GroundWitnessed
<1>1. Inv /\ GroundOK => GroundWitnessed
  <2>1. SUFFICES ASSUME Inv, GroundOK, seatAtStart = "made", SeatMade
                 PROVE  Executed <= GearClear + StallWindow * blind
    BY DEF GroundWitnessed
  <2>2. TypeOK /\ queued <= pulled
    BY <2>1 DEF Inv, PullOK
  <2>3. /\ pulled <= checked + StallWindow
        /\ checked <= GearClear - StallWindow + StallWindow * blind
    BY <2>1 DEF GroundOK
  <2>4. StallWindow \in Nat /\ GearClear \in Nat /\ StallWindow * blind \in Nat
    BY <2>2, DistancesAreNat, Numbers
  <2>5. QED
    BY <2>2, <2>3, <2>4, Numbers DEF Executed
<1>2. QED
  BY Invariance, <1>1, PTL

-----------------------------------------------------------------------------
(* How far a pull goes.  A window begins on a drained queue, with the      *)
(* switch still made or seen free at once: what is commanded in it, and    *)
(* the margin segment, is all that can come after the edge.                *)
ReachOK ==
  /\ pc \in {"starter", "await"} => tip = from
  /\ pc \in {"loop", "confirm", "push", "check"} =>
       /\ pulled = checked => queued = 0
       /\ pulled > checked \/ pc # "loop" =>
            tip + queued < at.entry + (pulled - checked)
  /\ pc \in {"loop", "margin"} =>
       tip + queued < at.entry + StallWindow \/ tip + queued <= from
  /\ pc = "finish" \/ verdict = "free" =>
       tip + queued <= at.entry + StallWindow \/ tip + queued <= from + 1

(* A segment executed takes the strand no further than it was commanded.   *)
LEMMA SegmentSpent ==
  ASSUME NEW t \in Nat, NEW q \in Nat, q > 0, NEW u \in {t, t + 1}
  PROVE  u + (q - 1) <= t + q /\ u + (q - 1) \in Nat
<1>1. CASE u = t
  BY <1>1
<1>2. CASE u = t + 1
  BY <1>2
<1>3. QED
  BY <1>1, <1>2

(* A step that commands nothing, goes nowhere new and ends nothing well.   *)
LEMMA ReachKept ==
  ASSUME TypeOK, ReachOK, UNCHANGED <<pulled, checked, at, from, nip>>,
         pc' \in {pc, "idle"}, pc' = pc \/ verdict' # "free",
         verdict' = verdict \/ verdict' # "free"
  PROVE  ReachOK'
  BY DEF ReachOK, nip

LEMMA ReachStep ==
  ASSUME Inv, GroundOK, ReachOK, [Next]_vars
  PROVE  ReachOK'
<1>1. /\ TypeOK /\ PullOK /\ pulled \in Nat /\ checked \in Nat /\ queued \in Nat
      /\ tip \in Nat /\ at.entry \in Nat /\ from \in Nat
      /\ StallWindow \in Nat \ {0}
  BY Numbers, DistancesAreNat DEF Inv, TypeOK
<1>2. CASE UNCHANGED vars
  BY <1>1, <1>2, ReachKept DEF vars, command, told, nip
<1>3. ASSUME NEW i \in Indices, NEW f \in BOOLEAN, CallTandem(i, f)
      PROVE  ReachOK'
  <2>1. /\ tip' = tip /\ from' = tip /\ pc' \in {"starter", "idle"}
        /\ verdict' # "free"
    BY <1>3 DEF CallTandem, Ends, nip
  <2>2. QED
    BY <2>1 DEF ReachOK
<1>4. CASE Starter
  <2>1. /\ pc = "starter" /\ pc' \in {"await", "idle"} /\ tip' = tip
        /\ from' = from /\ verdict' # "free"
    BY <1>1, <1>4 DEF PullOK, Starter, Goto, Ends, nip, told
  <2>2. QED
    BY <2>1 DEF ReachOK
<1>5. CASE Accepted
  <2>1. /\ pc = "await" /\ pc' = "loop" /\ verdict = "none"
        /\ UNCHANGED <<pulled, checked, verdict, tip, at, queued, from>>
        /\ pulled = 0 /\ checked = 0 /\ queued = 0
    BY <1>1, <1>5 DEF PullOK, Accepted, Goto, nip, told
  <2>2. tip' + queued' <= from'
    BY <1>1, <2>1 DEF ReachOK
  <2>3. QED
    BY <2>1, <2>2 DEF ReachOK
<1>6. CASE Refused \/ NoAnswer
  <2>1. /\ pc = "await" /\ pc' \in {"await", "idle"} /\ verdict = "none"
        /\ verdict' \in {verdict, "refused"}
        /\ UNCHANGED <<tip, from>>
    BY <1>1, <1>6 DEF PullOK, Refused, NoAnswer, TriesAgain, Ends, nip, told
  <2>2. QED
    BY <2>1 DEF ReachOK
<1>7. CASE Looks
  <2>1. /\ pc = "loop" /\ pc' \in {"margin", "confirm", "push"}
        /\ pc' # "margin" => EntryMade
        /\ verdict' = "none"
        /\ UNCHANGED <<pulled, checked, tip, at, queued, from>>
    BY <1>1, <1>7 DEF PullOK, Looks, Goto, nip, told
  <2>2. pc' # "margin" => tip + queued < at.entry + (pulled - checked)
    <3>1. CASE pulled = checked
      BY <1>1, <2>1, <3>1 DEF ReachOK, EntryMade
    <3>2. CASE pulled # checked
      BY <1>1, <2>1, <3>2 DEF ReachOK, PullOK
    <3>3. QED
      BY <3>1, <3>2
  <2>3. QED
    BY <2>1, <2>2 DEF ReachOK
<1>8. CASE Confirms
  <2>1. /\ pc = "confirm" /\ pc' \in {"push", "idle"} /\ verdict = "none"
        /\ verdict' \in {verdict, "error"}
        /\ UNCHANGED <<pulled, checked, tip, at, queued, from>>
    BY <1>1, <1>8 DEF PullOK, Confirms, Goto, Ends, nip, told
  <2>2. QED
    BY <2>1 DEF ReachOK
<1>9. CASE Pushes
  <2>1. /\ pc = "push" /\ pc' \in {"check", "loop"} /\ verdict' = "none"
        /\ queued' = queued + 1 /\ pulled' = pulled + 1
        /\ pc' = "loop" => pulled' - checked < StallWindow
        /\ UNCHANGED <<checked, tip, at, from>>
        /\ checked <= pulled
    BY <1>1, <1>9 DEF PullOK, Pushes, ForceMove, Goto, told
  <2>2. tip + queued < at.entry + (pulled - checked)
    BY <2>1 DEF ReachOK
  <2>3. /\ pulled' # checked'
        /\ tip' + queued' < at'.entry + (pulled' - checked')
        /\ pc' = "loop" => tip' + queued' < at'.entry + StallWindow
    BY <1>1, <2>1, <2>2
  <2>4. QED
    BY <2>1, <2>3 DEF ReachOK
<1>10. CASE ForceMoveRaises
  <2>1. pc' = "idle" /\ verdict' = "broken"
    BY <1>10 DEF ForceMoveRaises, Ends
  <2>2. QED
    BY <2>1 DEF ReachOK
<1>11. CASE AtCap
  <2>1. /\ pc = "push" /\ verdict = "none"
        /\ \/ pc' = "margin" /\ verdict' = verdict
           \/ pc' = "idle" /\ verdict' = "cap"
        /\ UNCHANGED <<pulled, checked, tip, at, queued, from>>
        /\ pulled < checked + StallWindow
    BY <1>1, <1>11 DEF PullOK, GroundOK, AtCap, Goto, Ends, nip, told
  <2>2. tip + queued < at.entry + StallWindow
    BY <1>1, <2>1 DEF ReachOK
  <2>3. QED
    BY <2>1, <2>2 DEF ReachOK
<1>12. CASE Checks
  <2>1. /\ pc = "check" /\ verdict = "none" /\ queued = 0
        /\ \/ pc' = "loop" /\ verdict' = verdict /\ checked' = pulled
           \/ pc' = "idle" /\ verdict' = "gear"
        /\ UNCHANGED <<pulled, tip, at, queued, from>>
        /\ pulled = checked + StallWindow
    BY <1>1, <1>12 DEF PullOK, GroundOK, Checks, Judged, Goto, Ends, nip
  <2>2. tip + queued < at.entry + StallWindow
    BY <1>1, <2>1 DEF ReachOK
  <2>3. pc' = "loop" => pulled' = checked'
    BY <2>1
  <2>4. QED
    BY <1>1, <2>1, <2>2, <2>3 DEF ReachOK
<1>13. CASE Margin
  <2>1. /\ pc = "margin" /\ pc' = "finish" /\ verdict' = "none"
        /\ queued' = queued + 1 /\ UNCHANGED <<tip, at, from>>
    BY <1>1, <1>13 DEF PullOK, Margin, ForceMove, Goto, told
  <2>2. \/ tip + queued < at.entry + StallWindow
        \/ tip + queued <= from
    BY <2>1 DEF ReachOK
  <2>3. \/ tip' + queued' <= at'.entry + StallWindow
        \/ tip' + queued' <= from' + 1
    BY <1>1, <2>1, <2>2
  <2>4. QED
    BY <2>1, <2>3 DEF ReachOK
<1>14. CASE Finishes
  <2>1. pc = "finish" /\ pc' = "idle" /\ UNCHANGED <<tip, queued, at, from>>
    BY <1>14 DEF Finishes, Ends, nip, told
  <2>2. QED
    BY <2>1 DEF ReachOK
<1>15. CASE Executes1
  <2>1. /\ queued > 0 /\ queued' = queued - 1 /\ tip' \in {tip, tip + 1}
        /\ UNCHANGED <<pc, pulled, checked, verdict, at, from>>
    BY <1>15 DEF Executes1, command, told
  <2>2. pulled # 0 /\ pc \notin {"starter", "await"}
    BY <1>1, <2>1 DEF PullOK
  <2>3. tip' + queued' <= tip + queued /\ tip' + queued' \in Nat
    BY <1>1, <2>1, SegmentSpent
  <2>4. pc \in {"loop", "confirm", "push", "check"} => pulled # checked
    BY <1>1, <2>1 DEF ReachOK
  <2>5. \A b \in Int : /\ tip + queued < b => tip' + queued' < b
                       /\ tip + queued <= b => tip' + queued' <= b
    BY <1>1, <2>3
  <2>6. /\ at.entry + (pulled - checked) \in Int /\ at.entry + StallWindow \in Int
        /\ from \in Int /\ from + 1 \in Int
    BY <1>1
  <2>7. QED
    BY <2>1, <2>2, <2>4, <2>5, <2>6 DEF ReachOK
<1>16. CASE StrandCatches
  <2>1. UNCHANGED <<pc, pulled, checked, verdict, tip, queued, at, from>>
    BY <1>16 DEF StrandCatches, command, told
  <2>2. QED
    BY <2>1 DEF ReachOK
<1>17. CASE UnitActs
  <2>1. UNCHANGED <<pc, pulled, checked, verdict, tip, queued, at, from>>
    BY <1>17 DEF UnitActs, command, nip
  <2>2. QED
    BY <2>1 DEF ReachOK
<1>18. QED
  BY <1>2, <1>3, <1>4, <1>5, <1>6, <1>7, <1>8, <1>9, <1>10, <1>11, <1>12,
     <1>13, <1>14, <1>15, <1>16, <1>17 DEF Next, Driver

(* A pull that ends free rests at most a window past the entry switch, its *)
(* margin segment included, or a segment past where it began: motion that  *)
(* was queued when the switch was read is never more than that.            *)
THEOREM OvershootsBounded == Spec => []OvershootBounded
<1>1. Init => ReachOK
  BY DEF Init, ReachOK
<1>2. Inv /\ GroundOK /\ ReachOK /\ [Next]_vars => ReachOK'
  BY ReachStep
<1>3. Inv /\ ReachOK => OvershootBounded
  <2>1. SUFFICES ASSUME Inv, ReachOK, verdict = "free"
                 PROVE  tip <= at.entry + StallWindow \/ tip <= from + 1
    BY DEF OvershootBounded
  <2>2. queued = 0 /\ tip \in Nat
    BY <2>1, Numbers DEF Inv, EndOK, VerdictTrue
  <2>3. QED
    BY <2>1, <2>2 DEF ReachOK
<1>4. QED
  BY <1>1, <1>2, <1>3, Invariance, PTL DEF Spec

-----------------------------------------------------------------------------
(* How often a pull unwinds *)

(* The unwinds that are queued. *)
Unwinds(q) == {i \in DOMAIN q : q[i].op = "wind"}

(* An attempt that the unit has not had, or has refused, is still due.     *)
Due == pc = "starter" \/ (pc = "await" /\ answer = "forbidden")

StartsOK ==
  /\ \A i \in DOMAIN queue : queue[i].live => queue[i].op = "wind"
  /\ starts + Cardinality(Unwinds(queue)) + (IF Due THEN 1 ELSE 0)
       <= calls + silences

(* Taking a request takes its unwind, adding one adds at most that one.    *)
LEMMA UnwindsTyped ==
  ASSUME NEW q \in Seq(Request)
  PROVE  IsFiniteSet(Unwinds(q)) /\ Cardinality(Unwinds(q)) \in Nat
<1>1. IsFiniteSet(1 .. Len(q)) /\ DOMAIN q = 1 .. Len(q)
  BY FS_Interval
<1>2. Unwinds(q) \in SUBSET (1 .. Len(q))
  BY <1>1 DEF Unwinds
<1>3. QED
  BY <1>1, <1>2, FS_Subset, FS_CardinalityType

LEMMA UnwindTaken ==
  ASSUME NEW q \in Seq(Request), q # <<>>
  PROVE  Cardinality(Unwinds(Tail(q))) <=
           Cardinality(Unwinds(q)) - (IF Head(q).op = "wind" THEN 1 ELSE 0)
<1> DEFINE rest == Unwinds(q) \ {1}
           next == [i \in Unwinds(Tail(q)) |-> i + 1]
<1>1. /\ IsFiniteSet(Unwinds(q)) /\ Cardinality(Unwinds(q)) \in Nat
      /\ IsFiniteSet(Unwinds(Tail(q))) /\ Cardinality(Unwinds(Tail(q))) \in Nat
  BY UnwindsTyped, TailStops
<1>2. /\ IsFiniteSet(rest)
      /\ Cardinality(rest) = IF 1 \in Unwinds(q) THEN Cardinality(Unwinds(q)) - 1
                                                  ELSE Cardinality(Unwinds(q))
  BY <1>1, FS_RemoveElement
<1>3. 1 \in Unwinds(q) <=> Head(q).op = "wind"
  BY TailStops DEF Unwinds
<1>4. \A i \in Unwinds(Tail(q)) : i + 1 \in rest /\ i \in Nat
  <2>1. SUFFICES ASSUME NEW i \in DOMAIN Tail(q), Tail(q)[i].op = "wind"
                 PROVE  i + 1 \in rest /\ i \in Nat
    BY DEF Unwinds
  <2>2. i \in Nat /\ i >= 1 /\ i + 1 \in DOMAIN q /\ q[i + 1].op = "wind"
    BY <2>1, TailStops
  <2>3. QED
    BY <2>2 DEF Unwinds
<1>5. next \in Injection(Unwinds(Tail(q)), rest)
  <2>1. next \in [Unwinds(Tail(q)) -> rest]
    BY <1>4
  <2>2. \A a, b \in Unwinds(Tail(q)) : next[a] = next[b] => a = b
    BY <1>4
  <2>3. QED
    BY <2>1, <2>2 DEF Injection, IsInjective
<1>6. Cardinality(Unwinds(Tail(q))) <= Cardinality(rest)
  BY <1>2, <1>5, FS_Injection
<1>7. QED
  BY <1>1, <1>2, <1>3, <1>6

LEMMA UnwindAdded ==
  ASSUME NEW q \in Seq(Request), NEW r \in Request
  PROVE  Cardinality(Unwinds(Append(q, r))) =
           Cardinality(Unwinds(q)) + (IF r.op = "wind" THEN 1 ELSE 0)
<1>1. Unwinds(Append(q, r)) = IF r.op = "wind" THEN Unwinds(q) \cup {Len(q) + 1}
                                               ELSE Unwinds(q)
  <2>1. Len(q) + 1 \notin DOMAIN q
    OBVIOUS
  <2>2. QED
    BY <2>1, Appended DEF Unwinds
<1>2. Len(q) + 1 \notin Unwinds(q)
  BY DEF Unwinds
<1>3. IsFiniteSet(Unwinds(q)) /\ Cardinality(Unwinds(q)) \in Nat
  BY UnwindsTyped
<1>4. Cardinality(Unwinds(q) \cup {Len(q) + 1}) = Cardinality(Unwinds(q)) + 1
  BY <1>2, <1>3, FS_AddElement
<1>5. QED
  BY <1>1, <1>3, <1>4

LEMMA UnwindKept ==
  ASSUME NEW q \in Seq(Request)
  PROVE  Unwinds(Orphaned(q)) = Unwinds(q)
<1>1. DOMAIN Orphaned(q) = DOMAIN q
  BY OrphanedType
<1>2. \A i \in DOMAIN q : Orphaned(q)[i].op = q[i].op
  <2>1. \A i \in DOMAIN q : q[i] \in Request
    OBVIOUS
  <2>2. QED
    BY <2>1 DEF Orphaned, Request
<1>3. QED
  BY <1>1, <1>2 DEF Unwinds

(* The driver sends nothing but stops, unwinds that are due, and one more  *)
(* for a silence; the unit begins no more than it takes.                   *)
LEMMA StartsStep ==
  ASSUME Inv, StartsOK, [Next]_vars
  PROVE  StartsOK'
<1>1. /\ TypeOK /\ UnitTypeOK /\ PullOK /\ ChannelOK /\ queue \in Seq(Request)
      /\ starts \in Nat /\ calls \in Nat /\ silences \in Nat
      /\ Cardinality(Unwinds(queue)) \in Nat
  BY UnwindsTyped, Numbers DEF Inv, TypeOK, UnitTypeOK
<1> DEFINE W(q) == Cardinality(Unwinds(q))
           Wary(q) == \A i \in DOMAIN q : q[i].live => q[i].op = "wind"
<1>2. /\ Tells("stop") \in Request /\ Tells("stop").op = "stop"
      /\ Asks("wind") \in Request /\ Asks("wind").op = "wind"
      /\ ~Tells("stop").live
  BY RequestTypes DEF Ops
<1>3. /\ Wary(queue)
      /\ starts + W(queue) + (IF Due THEN 1 ELSE 0) <= calls + silences
  BY DEF StartsOK
<1>4. SUFFICES /\ Wary(queue')
               /\ starts' + W(queue') + (IF Due' THEN 1 ELSE 0)
                    <= calls' + silences'
  BY DEF StartsOK, Unwinds
<1>5. ASSUME NEW q \in Seq(Request), Wary(q)
      PROVE  LET s == Append(q, Tells("stop"))
             IN  s \in Seq(Request) /\ Wary(s) /\ W(s) = W(q)
  <2>1. W(q) \in Nat
    BY UnwindsTyped
  <2>2. W(Append(q, Tells("stop"))) = W(q)
    BY <1>2, <2>1, UnwindAdded
  <2>3. QED
    BY <1>2, <1>5, <2>2, Appended
<1>6. ASSUME NEW q \in Seq(Request), Wary(q)
      PROVE  LET s == Append(q, Asks("wind"))
             IN  s \in Seq(Request) /\ Wary(s) /\ W(s) = W(q) + 1
  BY <1>2, <1>6, Appended, UnwindAdded
<1>7. /\ Orphaned(queue) \in Seq(Request) /\ Wary(Orphaned(queue))
      /\ W(Orphaned(queue)) = W(queue)
  BY <1>1, OrphanedType, UnwindKept
<1> HIDE DEF W, Wary
<1>8. CASE UNCHANGED vars
  BY <1>1, <1>3, <1>8
     DEF vars, channel, link, command, told, Due
<1>9. ASSUME NEW i \in Indices, NEW f \in BOOLEAN, CallTandem(i, f)
      PROVE  /\ Wary(queue')
             /\ starts' + W(queue') + (IF Due' THEN 1 ELSE 0)
                  <= calls' + silences'
  <2>1. /\ UNCHANGED <<queue, starts, silences>> /\ calls' = calls + 1 /\ ~Due
    BY <1>9 DEF CallTandem, channel, link, Due
  <2>2. QED
    BY <1>1, <1>3, <2>1 DEF W
<1>10. CASE Starter
  <2>1. /\ UNCHANGED <<starts, calls, silences>> /\ Due /\ ~Due'
        /\ \/ queue' = StopsAssist(queue)
           \/ queue' = Append(StopsAssist(Orphaned(queue)), Asks("wind"))
    BY <1>10 DEF Starter, told, Due, Goto, Ends
  <2>2. ASSUME NEW q \in Seq(Request), Wary(q)
        PROVE  /\ StopsAssist(q) \in Seq(Request) /\ Wary(StopsAssist(q))
               /\ W(StopsAssist(q)) = W(q)
    BY <1>5, <2>2 DEF StopsAssist
  <2>3. Wary(queue') /\ W(queue') <= W(queue) + 1 /\ W(queue') \in Nat
    <3>1. CASE queue' = StopsAssist(queue)
      BY <1>1, <1>3, <2>2, <3>1 DEF W
    <3>2. CASE queue' = Append(StopsAssist(Orphaned(queue)), Asks("wind"))
      BY <1>1, <1>6, <1>7, <2>2, <3>2 DEF W
    <3>3. QED
      BY <2>1, <3>1, <3>2
  <2>4. QED
    BY <1>1, <1>3, <2>1, <2>3 DEF W
<1>11. CASE Refused \/ NoAnswer
  <2>1. /\ UNCHANGED <<starts, calls>> /\ ~Due'
        /\ \/ Due /\ silences' = silences
           \/ silences' = silences + 1
        /\ \/ queue' = Append(Orphaned(queue), Asks("wind"))
           \/ queue' = Orphaned(queue)
    BY <1>1, <1>11
       DEF Refused, NoAnswer, TriesAgain, Attempt, GivenUp, told, Due, Ends
  <2>2. Wary(queue') /\ W(queue') <= W(queue) + 1 /\ W(queue') \in Nat
    <3>1. W(queue) \in Nat
      BY <1>1 DEF W
    <3>2. CASE queue' = Orphaned(queue)
      BY <1>7, <3>1, <3>2
    <3>3. CASE queue' = Append(Orphaned(queue), Asks("wind"))
      BY <1>6, <1>7, <3>1, <3>3
    <3>4. QED
      BY <2>1, <3>2, <3>3
  <2>3. QED
    BY <1>1, <1>3, <2>1, <2>2 DEF W
<1>12. CASE \/ Accepted \/ Looks \/ Pushes \/ Margin \/ ForceMoveRaises
            \/ Executes1 \/ StrandCatches
  <2>1. UNCHANGED <<queue, starts, calls, silences>> /\ (Due' => Due)
    BY <1>12
       DEF Accepted, Looks, Pushes, Margin, ForceMoveRaises, Executes1,
           StrandCatches, ForceMove, Goto, Ends, channel, link, told, command,
           Due
  <2>2. QED
    BY <1>1, <1>3, <2>1 DEF W
<1>13. CASE Confirms \/ AtCap \/ Checks \/ Finishes
  <2>1. /\ UNCHANGED <<starts, calls, silences>> /\ ~Due'
        /\ queue' = queue \/ queue' = Append(queue, Tells("stop"))
    BY <1>13
       DEF Confirms, AtCap, Checks, Judged, Finishes, StopRetract, Later, Goto,
           Ends, link, told, Due
  <2>2. Wary(queue') /\ W(queue') = W(queue)
    BY <1>1, <1>3, <1>5, <2>1
  <2>3. QED
    BY <1>1, <1>3, <2>1, <2>2 DEF W
<1>14. CASE UnitActs
  <2>1. /\ UNCHANGED <<pc, calls, silences>>
        /\ starts' = IF motor # "wind" /\ motor' = "wind" THEN starts + 1
                                                          ELSE starts
        /\ UnitNext \/ UnitFails
    BY <1>14 DEF UnitActs, command
  <2>2. Takes \/ Idles
    BY <1>1, <2>1, UnitMoves
  <2>3. CASE Idles
    <3>1. /\ queue' = queue /\ starts' = starts /\ Due' = Due
      BY <2>1, <2>3 DEF Idles, Due
    <3>2. QED
      BY <1>3, <2>1, <3>1
  <2>4. CASE Takes
    <3>1. /\ queue # <<>> /\ queue' = Tail(queue)
          /\ answer' # answer => Head(queue).live
          /\ motor' \in {motor, "idle", Head(queue).op}
      BY <2>4 DEF Takes
    <3>2. Wary(queue')
      BY <1>1, <1>3, <3>1, TailStops DEF Wary
    <3>3. Head(queue).live => Head(queue).op = "wind"
      BY <1>1, <1>3, <3>1, TailStops DEF Wary
    <3>4. /\ W(queue') \in Nat
          /\ W(queue') <= W(queue) - (IF Head(queue).op = "wind" THEN 1 ELSE 0)
      BY <1>1, <3>1, TailStops, UnwindsTyped, UnwindTaken DEF W
    <3>5. pc = "await" => answer = "none"
      BY <1>1, <3>1 DEF ChannelOK
    <3>6. CASE Head(queue).op = "wind"
      <4>1. Due' => Due \/ motor' = motor
        BY <1>1, <2>1, <3>5, RefusalMovesNothing DEF Due
      <4>2. starts' + (IF Due' THEN 1 ELSE 0)
              <= starts + (IF Due THEN 1 ELSE 0) + 1
        BY <1>1, <2>1, <3>5, <4>1 DEF Due
      <4>3. QED
        BY <1>1, <1>3, <2>1, <3>2, <3>4, <3>6, <4>2 DEF W
    <3>7. CASE Head(queue).op # "wind"
      <4>1. answer' = answer /\ starts' = starts
        BY <2>1, <3>1, <3>3, <3>7
      <4>2. Due' = Due
        BY <2>1, <4>1 DEF Due
      <4>3. QED
        BY <1>1, <1>3, <2>1, <3>2, <3>4, <3>7, <4>1, <4>2 DEF W
    <3>8. QED
      BY <3>6, <3>7
  <2>5. QED
    BY <2>2, <2>3, <2>4
<1>15. QED
  BY <1>8, <1>9, <1>10, <1>11, <1>12, <1>13, <1>14 DEF Next, Driver

(* The unit begins no more unwinds than there were pulls and silences: an  *)
(* attempt is repeated only after the unit refused it, or after a silence, *)
(* so that nothing else can make it unwind twice.                          *)
THEOREM UnwindsOncePerSilence == Spec => []OneUnwindPerSilence
<1>1. Init => StartsOK
  <2>1. SUFFICES ASSUME Init PROVE StartsOK
    OBVIOUS
  <2>2. /\ Unwinds(queue) = {} /\ DOMAIN queue = {} /\ ~Due
        /\ starts = 0 /\ calls = 0 /\ silences = 0
    BY <2>1 DEF Init, Unwinds, Due
  <2>3. Cardinality(Unwinds(queue)) = 0
    BY <2>2, FS_EmptySet
  <2>4. QED
    BY <2>2, <2>3 DEF StartsOK
<1>2. Inv /\ StartsOK /\ [Next]_vars => StartsOK'
  BY StartsStep
<1>3. Inv /\ StartsOK => OneUnwindPerSilence
  <2>1. SUFFICES ASSUME Inv, StartsOK PROVE OneUnwindPerSilence
    OBVIOUS
  <2>2. /\ starts \in Nat /\ calls \in Nat /\ silences \in Nat
        /\ Cardinality(Unwinds(queue)) \in Nat
    BY <2>1, UnwindsTyped, Numbers DEF Inv, TypeOK, UnitTypeOK
  <2>3. QED
    BY <2>1, <2>2 DEF StartsOK, OneUnwindPerSilence
<1>4. QED
  BY <1>1, <1>2, <1>3, Invariance, PTL DEF Spec

-----------------------------------------------------------------------------
(* The pull implements ExtruderPull *)
LEMMA InitMaps == Init => Contract!Init
  BY DistancesAreNat
     DEF Init, Contract!Init, Stage, Executed, Outcome, EntryMade

(* Steps that nobody outside the pull can see. *)
LEMMA Unseen ==
  ASSUME Stage' = Stage, UNCHANGED <<verdict, pulled, queued, tip, at>>
  PROVE  UNCHANGED Contract!pvars
  BY DEF Contract!pvars, Outcome, Executed, EntryMade

LEMMA StepMaps == Inv /\ [Next]_vars => [Contract!Next]_Contract!pvars
<1> SUFFICES ASSUME Inv, [Next]_vars
             PROVE  Contract!Next \/ UNCHANGED Contract!pvars
  OBVIOUS
<1> USE DEF Stage
<1>1. TypeOK /\ PullOK
  BY DEF Inv
<1>2. CASE UNCHANGED vars
  BY <1>2, Unseen DEF vars, command, nip
<1>3. ASSUME NEW i \in Indices, NEW f \in BOOLEAN, CallTandem(i, f)
      PROVE  Contract!Next
  <2>1. /\ pc = "idle" /\ pulled' = 0 /\ queued' = 0
        /\ UNCHANGED <<tip, at>>
    BY <1>3 DEF CallTandem, nip
  <2>2. \/ pc' = "starter" /\ verdict' = "none"
        \/ pc' = "idle" /\ verdict' = "unowned"
    BY <1>3 DEF CallTandem, Ends
  <2>3. Contract!Ask \/ Contract!Refuse
    BY <2>1, <2>2
       DEF Contract!Ask, Contract!Refuse, Outcome, Executed, EntryMade
  <2>4. QED
    BY <2>3 DEF Contract!Next
<1>4. CASE Starter \/ Refused \/ NoAnswer
  <2>1. /\ pc \in {"starter", "await"} /\ pulled = 0 /\ queued = 0
        /\ UNCHANGED <<pulled, nip>>
    BY <1>1, <1>4, Numbers DEF PullOK, Starter, Refused, NoAnswer
  <2>2. \/ pc' \in {"starter", "await"} /\ verdict' = verdict
        \/ pc' = "idle" /\ verdict' \in {"empty", "refused"}
    BY <1>4, <2>1 DEF Starter, Refused, NoAnswer, TriesAgain, Goto, Ends
  <2>3. CASE pc' = "idle" /\ verdict' \in {"empty", "refused"}
    BY <2>1, <2>3
       DEF Contract!Next, Contract!Refuse, Outcome, Executed, EntryMade, nip
  <2>4. QED
    BY <2>1, <2>2, <2>3, Unseen DEF nip
<1>5. CASE Accepted
  BY <1>5
     DEF Accepted, Goto, Contract!Next, Contract!Grant, Outcome, Executed,
         EntryMade, nip
<1>6. CASE Looks
  BY <1>6, Unseen DEF Looks, Goto, nip
<1>7. ASSUME pc \in Pulling, NEW v \in {"error", "cap", "gear"}, Ends(v),
             UNCHANGED <<pulled, nip>>
      PROVE  Contract!Next
  BY <1>7
     DEF Ends, Pulling, Contract!Next, Contract!Fail, Outcome, Executed,
         EntryMade, nip
<1>8. CASE Confirms
  <2>1. CASE Goto("push") /\ UNCHANGED verdict
    BY <1>8, <2>1, Unseen DEF Confirms, Goto, nip
  <2>2. QED
    BY <1>7, <1>8, <2>1 DEF Confirms, Pulling
<1>9. CASE Pushes \/ Margin
  <2>1. /\ pulled' = pulled + 1 /\ queued' = queued + 1
        /\ pc \in {"push", "margin"} /\ pc' \in Pulling
        /\ UNCHANGED <<verdict, tip, at>>
    BY <1>9 DEF Pushes, Margin, ForceMove, Goto, Pulling
  <2>2. Executed' = Executed
    BY <1>1, <2>1, Numbers DEF Executed
  <2>3. QED
    BY <2>1, <2>2 DEF Contract!pvars, Outcome, EntryMade, Pulling
<1>10. CASE ForceMoveRaises
  BY <1>10
     DEF ForceMoveRaises, Ends, Contract!Next, Contract!Break, Outcome,
         Executed, EntryMade, nip
<1>11. CASE AtCap
  <2>1. CASE Goto("margin") /\ UNCHANGED verdict
    BY <1>11, <2>1, Unseen DEF AtCap, Goto, nip
  <2>2. QED
    BY <1>7, <1>11, <2>1 DEF AtCap, Pulling
<1>12. CASE Checks
  <2>1. CASE Goto("loop") /\ UNCHANGED verdict
    BY <1>12, <2>1, Unseen DEF Checks, Goto, nip
  <2>2. QED
    BY <1>7, <1>12, <2>1 DEF Checks, Judged, Pulling
<1>13. CASE Finishes
  <2>1. ~EntryMade
    BY <1>1, <1>13 DEF PullOK, Finishes
  <2>2. QED
    BY <1>13, <2>1
       DEF Finishes, Ends, Contract!Next, Contract!Succeed, Outcome, Executed,
           EntryMade, nip
<1>14. CASE Executes1
  <2>1. /\ queued > 0 /\ queued' = queued - 1
        /\ tip' \in {tip, tip + 1} /\ UNCHANGED <<command, at>>
    BY <1>14 DEF Executes1
  <2>2. UNCHANGED <<pc, pulled, verdict>>
    BY <2>1 DEF command
  <2>3. Executed' = Executed + 1 /\ Executed <= Cap
    BY <1>1, <2>1, <2>2, Numbers DEF Executed, TypeOK
  <2>4. (~EntryMade)' \in {~EntryMade, TRUE}
    <3>1. tip' >= tip /\ at' = at /\ tip \in Nat /\ tip' \in Nat /\ at.entry \in Nat
      BY <1>1, <2>1, Numbers
    <3>2. EntryMade' => EntryMade
      BY <3>1 DEF EntryMade
    <3>3. EntryMade \in BOOLEAN /\ EntryMade' \in BOOLEAN
      BY DEF EntryMade
    <3>4. QED
      BY <3>2, <3>3
  <2>5. pc \notin {"starter", "await"} /\ (pc = "idle" => verdict = "broken")
    BY <1>1, <2>1, Numbers DEF PullOK
  <2>6. CASE pc = "idle"
    BY <2>2, <2>3, <2>4, <2>5, <2>6
       DEF Contract!Next, Contract!Coast, Outcome
  <2>7. CASE pc # "idle"
    <3>1. pc \in Pulling
      BY <1>1, <2>5, <2>7 DEF TypeOK, Pulling
    <3>2. QED
      BY <2>2, <2>3, <2>4, <3>1
         DEF Contract!Next, Contract!Draw, Outcome, Pulling
  <2>8. QED
    BY <2>6, <2>7
<1>15. CASE StrandCatches
  BY <1>15, Unseen DEF StrandCatches, command
<1>16. CASE UnitActs
  BY <1>16, Unseen DEF UnitActs, command, nip
<1>17. QED
  BY <1>2, <1>3, <1>4, <1>5, <1>6, <1>8, <1>9, <1>10, <1>11, <1>12, <1>13,
     <1>14, <1>15, <1>16 DEF Next, Driver

(* The tandem pull is an ExtruderPull: the extruder stands still until the *)
(* unit has accepted, draws at most the cap and one margin segment, and is *)
(* at rest, its entry free, when the pull is declared free.                *)
THEOREM ImplementsContract == Spec => Implements
<1>1. Inv /\ [Next]_vars => [Contract!Next]_Contract!pvars
  BY StepMaps
<1>2. Init => Contract!Init
  BY InitMaps
<1>3. QED
  BY Invariance, <1>1, <1>2, PTL DEF Spec, Implements, Contract!Spec
=============================================================================
