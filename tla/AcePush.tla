------------------------------- MODULE AcePush -------------------------------
(***************************************************************************)
(* The ledger of a melt-zone push (_extruder_push_verified,                *)
(* klipper/instance.py): the extruder pushes in chunks, and the hub        *)
(* encoder, whose counter can be reset in the middle and whose readings    *)
(* can be swallowed, says what came past it.  Far too much is an overrun   *)
(* and ends the push; too little is advised of, once, when it is over.     *)
(* AceLoad runs the ledger.  Lengths are millimetres.                      *)
(***************************************************************************)
EXTENDS AceUnit

CONSTANTS
  Total,    \* total_mm
  Motions,  \* what the hub may see of a chunk
  HubStarts \* the counter when the push begins

ASSUME PushLengthsAreNat ==
  /\ Total \in Nat \ {0}
  /\ Motions \subseteq Nat /\ HubStarts \subseteq Nat

CHUNK       == 10
SLOP        == 4
MAX_DEFICIT == 8

VARIABLES
  hub,     \* distance_mm of the hub encoder, while a push runs
  ledger,  \* pushed, delivered, hist and _under of the push
  push,    \* "none", "running", "done", "advised" or "overrun"
  truth    \* history: what really went past the hub

book == <<hub, ledger, push, truth>>

Empty == [pushed |-> 0, delivered |-> 0, hist |-> <<>>, under |-> FALSE]
Clean == [short |-> 0, resynced |-> FALSE, healthy |-> TRUE,
          misread |-> FALSE]

BookOK ==
  /\ hub \in Nat
  /\ ledger \in [pushed : 0 .. Total, delivered : Int, hist : Seq(Nat),
                 under : BOOLEAN]
  /\ push \in {"none", "running", "done", "advised", "overrun"}
  /\ truth \in [short : Int, resynced : BOOLEAN, healthy : BOOLEAN,
                misread : BOOLEAN]

BookInit ==
  /\ hub = 0
  /\ ledger = Empty /\ push = "none" /\ truth = Clean

Begins ==
  /\ push' = "running"
  /\ ledger' = Empty
  /\ truth' = Clean
  /\ hub' \in HubStarts

(* The push is over, and its locals with it. *)
Closes == hub' = 0 /\ ledger' = Empty

AtMost(a, b) == IF a < b THEN a ELSE b
Asked == AtMost(CHUNK, Total - ledger.pushed)

(* A chunk below the floor, a window of three below 80%, or a deficit past *)
(* the backstop: _under is sticky.                                         *)
Under(old, new, c, delta) ==
  LET n == Len(new.hist)
  IN  \/ old.under
      \/ new.pushed - new.delivered - SLOP > MAX_DEFICIT
      \/ old.pushed > SLOP /\ 10 * delta < 7 * c
      \/ n >= 4 /\ 10 * (new.hist[n] + new.hist[n - 1] + new.hist[n - 2]) < 24 * c

(* Mutant: only the last chunk decides. *)
UnderAtLast(old, new, c, delta) == old.pushed > SLOP /\ 10 * delta < 7 * c

Verdict(old, new, c, delta) == Under(old, new, c, delta)

Credited(c, delta) ==
  [ledger EXCEPT !.pushed = @ + c, !.delivered = @ + delta,
                 !.hist = Append(@, delta)]

(* A negative delta is a discontinuity: the chunk is not judged. *)
Resyncs(c) ==
  /\ ledger' = [ledger EXCEPT !.pushed = @ + c, !.hist = <<>>,
                              !.delivered = ledger.pushed + c - SLOP]
  /\ UNCHANGED push

Overruns == push' = "overrun" /\ ledger' = Empty

Credits(c, delta) ==
  /\ ledger' = [Credited(c, delta) EXCEPT
                  !.under = Verdict(ledger, Credited(c, delta), c, delta)]
  /\ UNCHANGED push

(* Mutant: the chunk of a discontinuity is judged like any other. *)
JudgesAlways(c, delta) ==
  IF delta > 2 * c + SLOP \/ delta < 0 THEN Overruns
                                       ELSE Credits(c, delta)

Judges(c, delta) ==
  \/ delta < 0 /\ Resyncs(c)
  \/ delta > 2 * c + SLOP /\ Overruns
  \/ delta \in 0 .. 2 * c + SLOP /\ Credits(c, delta)

(* The shortfall the backstop forgives: after a discontinuity the ledger   *)
(* has spent the slop.                                                     *)
Tolerated(resynced) == MAX_DEFICIT + (IF resynced THEN 0 ELSE SLOP)

(* What happened to the readings around a chunk: nothing, a reset of the   *)
(* counter, or a reading that raised and counts as 0.0.                    *)
Glitches == {"none", "reset", "first", "second"}

(* A healthy push: no first reading lost, every glitch seen for what it    *)
(* is, the first chunk at 70% and the others at 90%, and a shortfall the   *)
(* backstop tolerates.                                                     *)
Notes(c, m, g, delta) ==
  LET short    == IF delta < 0 THEN 0 ELSE truth.short + c - m
      resynced == truth.resynced \/ delta < 0
  IN  truth' = [short    |-> short,
                resynced |-> resynced,
                healthy  |-> /\ truth.healthy /\ g # "first" /\ m <= 2 * c
                             /\ g \in {"reset", "second"} => delta < 0
                             /\ 10 * m >= (IF ledger.pushed = 0 THEN 7 ELSE 9) * c
                             /\ short <= Tolerated(resynced),
                misread  |-> truth.misread \/ g = "first"]

(* One chunk: the reading, the move, the pause for the last edges, the     *)
(* reading after it and its judgement.                                     *)
Chunk ==
  /\ push = "running"
  /\ ledger.pushed < Total
  /\ \E m \in Motions, g \in Glitches :
       LET counter == IF g = "reset" THEN 0 ELSE hub + m
           before  == IF g = "first" THEN 0 ELSE hub
           after   == IF g = "second" THEN 0 ELSE counter
       IN  /\ IF g = "none" THEN UNCHANGED faults ELSE Fault
           /\ Judges(Asked, after - before)
           /\ hub' = IF push' = "overrun" THEN 0 ELSE counter
           /\ Notes(Asked, m, g, after - before)

(* _under is judged once, after the loop. *)
Concludes ==
  /\ push = "running"
  /\ ledger.pushed = Total
  /\ push' = IF ledger.under THEN "advised" ELSE "done"
  /\ Closes
  /\ UNCHANGED truth

-----------------------------------------------------------------------------
(* Properties *)

(* "A slip is a deficit that accumulates": a push that falls short of what *)
(* the slop and the backstop allow, counted since the last discontinuity,  *)
(* is advised of, however the shortfall is spread over the chunks.         *)
UnderDeliveryAdvised ==
  push = "done" /\ ~truth.misread =>
    truth.short <= Tolerated(truth.resynced)

(* "An alarm that fires on every healthy run is not a signal, it is a hum":*)
(* a push whose chunks are delivered, but for the dip of the first, ends   *)
(* without an advice and without an overrun, though the counter be reset   *)
(* or the second reading of a chunk be swallowed in the middle of it, as   *)
(* often as that shows: a reset of a counter that stands at zero does not. *)
HealthyPushQuiet ==
  push \in {"advised", "overrun"} => ~truth.healthy
=============================================================================
