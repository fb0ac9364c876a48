---------------------------- MODULE AcePushProof ----------------------------
(***************************************************************************)
(* Facts about the ledger of a melt-zone push, for every length of the     *)
(* push, whatever the hub sees of a chunk and however often its counter is *)
(* reset or its readings are lost: what the ledger holds is the shortfall  *)
(* since the last discontinuity, never less, so that a shortfall past the  *)
(* backstop is advised of; and no chunk of a healthy push is judged short. *)
(***************************************************************************)
EXTENDS AcePush, SequenceTheorems, TLAPS

(* What the ledger has spent of the slop. *)
Spent(resynced) == IF resynced THEN SLOP ELSE 0

(* The ledger is never kinder than the truth, unless a first reading was   *)
(* lost; _under is set as soon as the backstop is passed.                  *)
ShortfallOK ==
  /\ ~truth.misread =>
       truth.short + Spent(truth.resynced) <= ledger.pushed - ledger.delivered
  /\ ~ledger.under => ledger.pushed - ledger.delivered - SLOP <= MAX_DEFICIT

(* The ledger of a healthy push is the truth, and its window holds no      *)
(* chunk below 90% but the first.                                          *)
HealthOK ==
  truth.healthy =>
    /\ ~ledger.under /\ ~truth.misread
    /\ truth.short + Spent(truth.resynced) = ledger.pushed - ledger.delivered
    /\ truth.short <= Tolerated(truth.resynced)
    /\ ledger.pushed < Total =>
         \A i \in DOMAIN ledger.hist : i > 1 => ledger.hist[i] >= 9

LedgerOK ==
  /\ BookOK
  /\ push = "running" => ShortfallOK /\ HealthOK
  /\ push = "running" /\ ledger.pushed = 0 => ledger.hist = <<>>
  /\ UnderDeliveryAdvised /\ HealthyPushQuiet

LEMMA BeginsLedger ==
  ASSUME Begins PROVE LedgerOK'
<1>1. <<>> \in Seq(Nat) /\ Total \in Nat
  BY PushLengthsAreNat
<1>2. BookOK'
  BY <1>1, PushLengthsAreNat DEF Begins, BookOK, Empty, Clean
<1>3. QED
  BY <1>1, <1>2
     DEF Begins, LedgerOK, Empty, Clean, ShortfallOK, HealthOK, Spent,
         Tolerated, SLOP, MAX_DEFICIT, UnderDeliveryAdvised, HealthyPushQuiet

LEMMA ConcludesLedger ==
  ASSUME LedgerOK, Concludes PROVE LedgerOK'
<1>1. <<>> \in Seq(Nat) /\ Total \in Nat
  BY PushLengthsAreNat
<1>2. BookOK'
  BY <1>1 DEF LedgerOK, Concludes, Closes, BookOK, Empty
<1>3. /\ truth' = truth /\ push' \in {"advised", "done"}
      /\ push' = "advised" <=> ledger.under
  BY DEF Concludes
<1>4. truth.healthy => ~ledger.under
  BY DEF LedgerOK, Concludes, HealthOK
<1>5. ~ledger.under /\ ~truth.misread =>
        truth.short <= Tolerated(truth.resynced)
  BY DEF LedgerOK, BookOK, Concludes, ShortfallOK, Spent, Tolerated, SLOP,
         MAX_DEFICIT
<1>6. QED
  BY <1>2, <1>3, <1>4, <1>5
     DEF LedgerOK, UnderDeliveryAdvised, HealthyPushQuiet, Tolerated

(* The books are closed between two calls. *)
LEMMA ClearedLedger ==
  ASSUME LedgerOK, ledger' = Empty, push' = "none", truth' = Clean, hub' = hub
  PROVE  LedgerOK'
  BY PushLengthsAreNat
     DEF LedgerOK, BookOK, Empty, Clean, UnderDeliveryAdvised, HealthyPushQuiet

-----------------------------------------------------------------------------
(* A chunk *)

LEMMA AskedLength ==
  ASSUME BookOK, ledger.pushed < Total
  PROVE  /\ Asked \in 1 .. CHUNK /\ ledger.pushed + Asked \in 1 .. Total
         /\ Asked \in Nat /\ ledger.pushed \in Nat
         /\ ledger.pushed + Asked < Total => Asked = CHUNK
<1>1. ledger.pushed \in 0 .. Total - 1 /\ Total \in Nat
  BY PushLengthsAreNat DEF BookOK
<1>2. QED
  BY <1>1 DEF Asked, AtMost, CHUNK

(* A chunk that moves forward is entered with what the hub saw of it. *)
LEMMA Credit ==
  ASSUME BookOK, NEW c \in Nat, NEW d \in Nat
  PROVE  /\ Credited(c, d).pushed = ledger.pushed + c
         /\ Credited(c, d).delivered = ledger.delivered + d
         /\ Credited(c, d).hist = Append(ledger.hist, d)
         /\ Credited(c, d).hist \in Seq(Nat)
         /\ Credits(c, d) =>
              /\ ledger'.pushed = ledger.pushed + c
              /\ ledger'.delivered = ledger.delivered + d
              /\ ledger'.hist = Append(ledger.hist, d)
              /\ ledger'.under = Under(ledger, Credited(c, d), c, d)
              /\ ledger' \in [pushed : Nat, delivered : Int,
                              hist : Seq(Nat), under : BOOLEAN]
              /\ push' = push
<1>1. ledger.hist \in Seq(Nat) /\ Append(ledger.hist, d) \in Seq(Nat)
  BY DEF BookOK
<1>2. Under(ledger, Credited(c, d), c, d) \in BOOLEAN
  BY DEF Under, BookOK
<1>3. /\ ledger \in [pushed : Nat, delivered : Int, hist : Seq(Nat),
                     under : BOOLEAN]
      /\ ledger.delivered \in Int
  BY PushLengthsAreNat DEF BookOK
<1>4. /\ Credited(c, d).pushed = ledger.pushed + c
      /\ Credited(c, d).delivered = ledger.delivered + d
      /\ Credited(c, d).hist = Append(ledger.hist, d)
  BY <1>3 DEF Credited
<1>5. Credited(c, d) \in [pushed : Nat, delivered : Int, hist : Seq(Nat),
                         under : BOOLEAN]
  <2>1. ledger.pushed + c \in Nat /\ ledger.delivered + d \in Int
    BY <1>3
  <2>2. \A p \in Nat, e \in Int, h \in Seq(Nat) :
          [ledger EXCEPT !.pushed = p, !.delivered = e, !.hist = h]
            \in [pushed : Nat, delivered : Int, hist : Seq(Nat),
                 under : BOOLEAN]
    BY <1>3
  <2>3. Credited(c, d) = [ledger EXCEPT !.pushed = ledger.pushed + c,
                                       !.delivered = ledger.delivered + d,
                                       !.hist = Append(ledger.hist, d)]
    BY DEF Credited
  <2>4. QED
    BY <1>1, <2>1, <2>2, <2>3
<1>6. ASSUME Credits(c, d)
      PROVE  /\ ledger' = [Credited(c, d) EXCEPT
                             !.under = Under(ledger, Credited(c, d), c, d)]
             /\ push' = push
  BY <1>6 DEF Credits, Verdict
<1>7. QED
  BY <1>1, <1>2, <1>4, <1>5, <1>6

(* Chunks at 90% do not show in the window. *)
LEMMA WindowHealthy ==
  ASSUME BookOK, NEW c \in 1 .. CHUNK, NEW d \in Nat,
         10 * d >= 9 * c \/ ledger.hist = <<>>,
         \A i \in DOMAIN ledger.hist : i > 1 => ledger.hist[i] >= 9,
         NEW n, n = Len(Credited(c, d).hist), n >= 4
  PROVE  ~(10 * (Credited(c, d).hist[n] + Credited(c, d).hist[n - 1]
                   + Credited(c, d).hist[n - 2]) < 24 * c)
<1> DEFINE h == ledger.hist
<1>1. h \in Seq(Nat) /\ Credited(c, d).hist = Append(h, d)
  <2>1. c \in Nat /\ d \in Nat
    BY DEF CHUNK
  <2>2. Credited(c, d).hist = Append(h, d)
    BY <2>1, Credit
  <2>3. QED
    BY <2>2 DEF BookOK
<1>2. /\ n = Len(h) + 1 /\ Len(h) \in Nat /\ DOMAIN h = 1 .. Len(h)
      /\ Append(h, d)[n] = d
      /\ \A i \in 1 .. Len(h) : Append(h, d)[i] = h[i] /\ h[i] \in Nat
  BY <1>1
<1>3. n - 1 \in DOMAIN h /\ n - 2 \in DOMAIN h /\ n - 2 > 1 /\ n - 1 > 1
  BY <1>2
<1>4. /\ Append(h, d)[n - 1] \in Nat /\ Append(h, d)[n - 2] \in Nat
      /\ Append(h, d)[n - 1] >= 9 /\ Append(h, d)[n - 2] >= 9
  BY <1>2, <1>3
<1>5. 10 * d >= 9 * c
  BY <1>3
<1>6. \A a, b \in Nat : a >= 9 /\ b >= 9 => ~(10 * (d + a + b) < 24 * c)
  BY <1>5 DEF CHUNK
<1>7. QED
  BY <1>1, <1>2, <1>4, <1>6

(* What the hub reads around a chunk is a number, and a reading that runs  *)
(* backwards is a reset or one that was lost.                              *)
Reads(m, g) ==
  LET counter == IF g = "reset" THEN 0 ELSE hub + m
      before  == IF g = "first" THEN 0 ELSE hub
      after   == IF g = "second" THEN 0 ELSE counter
  IN  after - before

LEMMA ReadsType ==
  ASSUME BookOK, NEW m \in Motions, NEW g \in Glitches
  PROVE  /\ m \in Nat /\ Reads(m, g) \in Int
         /\ g = "none" => Reads(m, g) = m
         /\ g = "first" => Reads(m, g) >= 0
         /\ g \in {"reset", "second"} => Reads(m, g) <= 0
         /\ (IF g = "reset" THEN 0 ELSE hub + m) \in Nat
  BY PushLengthsAreNat DEF BookOK, Glitches, Reads

LEMMA NotesType ==
  ASSUME BookOK, NEW c \in Nat, NEW m \in Nat, NEW g, NEW d \in Int,
         Notes(c, m, g, d)
  PROVE  /\ truth' \in [short : Int, resynced : BOOLEAN, healthy : BOOLEAN,
                        misread : BOOLEAN]
         /\ truth'.short = IF d < 0 THEN 0 ELSE truth.short + c - m
         /\ truth'.resynced <=> truth.resynced \/ d < 0
         /\ truth'.misread <=> truth.misread \/ g = "first"
         /\ truth'.healthy <=>
              /\ truth.healthy /\ g # "first" /\ m <= 2 * c
              /\ g \in {"reset", "second"} => d < 0
              /\ 10 * m >= (IF ledger.pushed = 0 THEN 7 ELSE 9) * c
              /\ truth'.short <= Tolerated(truth'.resynced)
<1> DEFINE s == IF d < 0 THEN 0 ELSE truth.short + c - m
           e == truth.resynced \/ d < 0
           k == /\ truth.healthy /\ g # "first" /\ m <= 2 * c
                /\ g \in {"reset", "second"} => d < 0
                /\ 10 * m >= (IF ledger.pushed = 0 THEN 7 ELSE 9) * c
                /\ s <= Tolerated(e)
           w == truth.misread \/ g = "first"
<1>1. truth' = [short |-> s, resynced |-> e, healthy |-> k, misread |-> w]
  BY DEF Notes
<1>2. truth.short \in Int
  BY DEF BookOK
<1>3. s \in Int
  BY <1>2
<1>4. e \in BOOLEAN /\ k \in BOOLEAN /\ w \in BOOLEAN
  OBVIOUS
<1> HIDE DEF s, e, k, w
<1>5. /\ truth' \in [short : Int, resynced : BOOLEAN, healthy : BOOLEAN,
                     misread : BOOLEAN]
      /\ truth'.short = s /\ truth'.resynced = e /\ truth'.healthy = k
      /\ truth'.misread = w
  BY <1>1, <1>3, <1>4
<1>6. QED
  BY <1>5 DEF s, e, k, w

(* A chunk whose delta is negative is not judged: the ledger starts again, *)
(* with the slop spent.                                                    *)
LEMMA ResyncLedger ==
  ASSUME LedgerOK, push = "running", ledger.pushed < Total,
         NEW m \in Motions, NEW g \in Glitches, NEW d \in Int, d < 0,
         d = Reads(m, g), g # "none",
         Resyncs(Asked), Notes(Asked, m, g, d), hub' \in Nat
  PROVE  LedgerOK'
<1>1. BookOK /\ m \in Nat
  BY ReadsType DEF LedgerOK
<1>2. /\ Asked \in Nat /\ ledger.pushed \in Nat
      /\ ledger.pushed + Asked \in 1 .. Total
  BY <1>1, AskedLength
<1>3. /\ ledger' = [ledger EXCEPT !.pushed = ledger.pushed + Asked,
                                  !.hist = <<>>,
                                  !.delivered = ledger.pushed + Asked - SLOP]
      /\ push' = push
  BY DEF Resyncs
<1>4. /\ ledger'.pushed = ledger.pushed + Asked /\ ledger'.hist = <<>>
      /\ ledger'.delivered = ledger.pushed + Asked - SLOP
      /\ ledger'.under = ledger.under
      /\ ledger' \in [pushed : 0 .. Total, delivered : Int, hist : Seq(Nat),
                      under : BOOLEAN]
  <2>1. <<>> \in Seq(Nat) /\ ledger.pushed + Asked - SLOP \in Int
    BY <1>2 DEF SLOP
  <2>2. \A p \in 0 .. Total, e \in Int, h \in Seq(Nat) :
          [ledger EXCEPT !.pushed = p, !.hist = h, !.delivered = e]
            \in [pushed : 0 .. Total, delivered : Int, hist : Seq(Nat),
                 under : BOOLEAN]
    BY <1>1 DEF BookOK
  <2>3. ledger.pushed + Asked \in 0 .. Total
    BY <1>2
  <2>4. QED
    BY <1>1, <1>3, <2>1, <2>2, <2>3 DEF BookOK
<1>5. /\ truth'.short = 0 /\ truth'.resynced
      /\ truth'.misread = (truth.misread \/ g = "first")
      /\ truth'.healthy => truth.healthy /\ g # "first"
      /\ truth' \in [short : Int, resynced : BOOLEAN, healthy : BOOLEAN,
                     misread : BOOLEAN]
  BY <1>1, <1>2, NotesType
<1>6. /\ ledger'.pushed - ledger'.delivered = 4
      /\ truth'.short + Spent(truth'.resynced) = 4
      /\ truth'.short <= Tolerated(truth'.resynced)
  BY <1>2, <1>4, <1>5 DEF SLOP, Spent, Tolerated, MAX_DEFICIT
<1>7. ShortfallOK'
  BY <1>6 DEF ShortfallOK, Spent, SLOP, MAX_DEFICIT
<1>8. HealthOK'
  <2>1. SUFFICES ASSUME truth'.healthy PROVE HealthOK'
    BY DEF HealthOK
  <2>2. ~ledger.under /\ ~truth.misread
    BY <1>5, <2>1 DEF LedgerOK, HealthOK
  <2>3. DOMAIN ledger'.hist = {}
    BY <1>4
  <2>4. ~ledger'.under /\ ~truth'.misread
    BY <1>4, <1>5, <2>1, <2>2
  <2>5. QED
    BY <1>6, <2>3, <2>4 DEF HealthOK, Spent, Tolerated
<1>9. BookOK'
  BY <1>1, <1>3, <1>4, <1>5 DEF BookOK
<1>10. QED
  BY <1>3, <1>4, <1>7, <1>8, <1>9
     DEF LedgerOK, UnderDeliveryAdvised, HealthyPushQuiet

(* A chunk that moves forward is judged, and adds what it fell short by to *)
(* the ledger's shortfall and, unless its first reading was lost, to the   *)
(* true one.                                                               *)
LEMMA CreditLedger ==
  ASSUME LedgerOK, push = "running", ledger.pushed < Total,
         NEW m \in Motions, NEW g \in Glitches, NEW d \in Nat,
         d = Reads(m, g),
         Credits(Asked, d), Notes(Asked, m, g, d), hub' \in Nat
  PROVE  LedgerOK'
<1> DEFINE c == Asked
           new == Credited(c, d)
<1>1. BookOK /\ m \in Nat
  BY ReadsType DEF LedgerOK
<1>2. /\ c \in Nat /\ ledger.pushed \in Nat /\ c \in 1 .. 10
      /\ ledger.pushed + c \in 1 .. Total
      /\ ledger.pushed + c < Total => c = 10
  BY <1>1, AskedLength DEF CHUNK
<1>3. Credits(c, d) /\ Notes(c, m, g, d)
  OBVIOUS
<1> HIDE DEF c, new
<1>4. /\ ledger'.pushed = ledger.pushed + c
      /\ ledger'.delivered = ledger.delivered + d
      /\ ledger'.hist = Append(ledger.hist, d)
      /\ ledger'.under = Under(ledger, new, c, d)
      /\ ledger' \in [pushed : Nat, delivered : Int, hist : Seq(Nat),
                      under : BOOLEAN]
      /\ push' = push
  BY <1>1, <1>2, <1>3, Credit DEF new
<1>5. /\ new.pushed = ledger.pushed + c /\ new.delivered = ledger.delivered + d
      /\ new.hist = Append(ledger.hist, d)
  BY <1>1, <1>2, Credit DEF new
<1>6. /\ truth' \in [short : Int, resynced : BOOLEAN, healthy : BOOLEAN,
                     misread : BOOLEAN]
      /\ truth'.short = truth.short + c - m
      /\ truth'.resynced <=> truth.resynced
      /\ truth'.misread <=> truth.misread \/ g = "first"
      /\ truth'.healthy =>
           /\ truth.healthy /\ g \notin {"first", "reset", "second"}
           /\ 10 * m >= (IF ledger.pushed = 0 THEN 7 ELSE 9) * c
           /\ truth'.short <= Tolerated(truth'.resynced)
  BY <1>1, <1>2, <1>3, NotesType
<1>7. /\ truth.short \in Int /\ ledger.delivered \in Int
      /\ Spent(truth.resynced) \in {0, 4}
      /\ Spent(truth'.resynced) = Spent(truth.resynced)
      /\ Tolerated(truth'.resynced) = 12 - Spent(truth.resynced)
      /\ SLOP = 4 /\ MAX_DEFICIT = 8
  BY <1>1, <1>6 DEF BookOK, Spent, Tolerated, SLOP, MAX_DEFICIT
<1>8. BookOK'
  <2>1. ledger' \in [pushed : 0 .. Total, delivered : Int, hist : Seq(Nat),
                     under : BOOLEAN]
    BY <1>2, <1>4, PushLengthsAreNat
  <2>2. QED
    BY <1>1, <1>4, <1>6, <2>1 DEF BookOK
<1>9. /\ g = "first" \/ d <= m
      /\ g = "none" => d = m
  BY <1>1, ReadsType DEF Glitches
<1> DEFINE deficit == ledger.pushed - ledger.delivered
           known   == truth.short + Spent(truth.resynced)
<1>10. /\ deficit \in Int /\ known \in Int
       /\ ledger'.pushed - ledger'.delivered = deficit + c - d
       /\ new.pushed - new.delivered = deficit + c - d
       /\ truth'.short + Spent(truth'.resynced) = known + c - m
  <2>1. Spent(truth.resynced) \in Int /\ ledger.pushed \in Int /\ c \in Int
          /\ m \in Int /\ d \in Int
    BY <1>1, <1>2, <1>7
  <2>2. /\ deficit \in Int /\ known \in Int
        /\ (ledger.pushed + c) - (ledger.delivered + d) = deficit + c - d
        /\ (truth.short + c - m) + Spent(truth.resynced) = known + c - m
    BY <1>7, <2>1
  <2>3. QED
    BY <1>4, <1>5, <1>6, <1>7, <2>2
<1> HIDE DEF deficit, known
<1>11. ShortfallOK'
  <2>1. ASSUME ~truth'.misread
        PROVE  truth'.short + Spent(truth'.resynced)
                 <= ledger'.pushed - ledger'.delivered
    <3>1. known <= deficit
      BY <1>6, <2>1 DEF LedgerOK, ShortfallOK, known, deficit
    <3>2. d <= m
      BY <1>6, <1>9, <2>1
    <3>3. QED
      BY <1>1, <1>2, <1>10, <3>1, <3>2
  <2>2. ASSUME ~ledger'.under
        PROVE  ledger'.pushed - ledger'.delivered - SLOP <= MAX_DEFICIT
    <3>1. ~(new.pushed - new.delivered - SLOP > MAX_DEFICIT)
      BY <1>4, <2>2 DEF Under
    <3>2. QED
      BY <1>2, <1>7, <1>10, <3>1
  <2>3. QED
    BY <2>1, <2>2 DEF ShortfallOK, Spent
<1>12. HealthOK'
  <2>1. SUFFICES ASSUME truth'.healthy PROVE HealthOK'
    BY DEF HealthOK
  <2>2. /\ truth.healthy /\ g = "none" /\ d = m
        /\ 10 * m >= (IF ledger.pushed = 0 THEN 7 ELSE 9) * c
        /\ truth'.short <= Tolerated(truth'.resynced)
    BY <1>6, <1>9, <2>1 DEF Glitches
  <2>3. /\ ~ledger.under /\ ~truth.misread
        /\ known = deficit
        /\ \A i \in DOMAIN ledger.hist : i > 1 => ledger.hist[i] >= 9
        /\ ledger.pushed = 0 => ledger.hist = <<>>
    BY <2>2 DEF LedgerOK, HealthOK, known, deficit
  <2>4. truth'.short + Spent(truth'.resynced) = ledger'.pushed - ledger'.delivered
    BY <1>10, <2>2, <2>3
  <2>5. ledger.hist = <<>> \/ 10 * d >= 9 * c
    BY <1>2, <2>2, <2>3
  <2>6. ~Under(ledger, new, c, d)
    <3>1. ~(new.pushed - new.delivered - SLOP > MAX_DEFICIT)
      <4>1. new.pushed - new.delivered = truth'.short + Spent(truth.resynced)
        BY <1>7, <1>10, <2>2, <2>3
      <4>2. truth'.short \in Int /\ truth'.short <= 12 - Spent(truth.resynced)
        BY <1>6, <1>7, <2>2
      <4>3. QED
        BY <1>7, <4>1, <4>2
    <3>2. ~(ledger.pushed > SLOP /\ 10 * d < 7 * c)
      BY <1>2, <1>7, <2>2
    <3>3. ASSUME NEW n, n = Len(new.hist), n >= 4
          PROVE  ~(10 * (new.hist[n] + new.hist[n - 1] + new.hist[n - 2]) < 24 * c)
      BY <1>1, <1>2, <2>3, <2>5, <3>3, WindowHealthy DEF CHUNK, new
    <3>4. QED
      BY <2>3, <3>1, <3>2, <3>3 DEF Under
  <2>7. ASSUME ledger'.pushed < Total
        PROVE  \A i \in DOMAIN ledger'.hist : i > 1 => ledger'.hist[i] >= 9
    <3>1. c = 10 /\ ledger.hist \in Seq(Nat)
      BY <1>1, <1>2, <1>4, <2>7 DEF BookOK
    <3>2. ledger.hist = <<>> \/ d >= 9
      BY <2>5, <3>1
    <3>3. \A i \in DOMAIN Append(ledger.hist, d) :
            /\ i \in DOMAIN ledger.hist => Append(ledger.hist, d)[i] = ledger.hist[i]
            /\ i \notin DOMAIN ledger.hist =>
                 Append(ledger.hist, d)[i] = d /\ i = Len(ledger.hist) + 1
      BY <3>1
    <3>4. Len(ledger.hist) \in Nat /\ (ledger.hist = <<>> => Len(ledger.hist) = 0)
      BY <3>1
    <3>5. ASSUME NEW i \in DOMAIN Append(ledger.hist, d), i > 1
          PROVE  Append(ledger.hist, d)[i] >= 9
      <4>1. CASE i \in DOMAIN ledger.hist
        BY <2>3, <3>3, <4>1, <3>5
      <4>2. CASE i \notin DOMAIN ledger.hist
        BY <3>2, <3>3, <3>4, <3>5, <4>2
      <4>3. QED
        BY <4>1, <4>2
    <3>6. QED
      BY <1>4, <3>5
  <2>8. QED
    BY <1>4, <1>6, <2>2, <2>3, <2>4, <2>6, <2>7 DEF HealthOK, Spent, Tolerated
<1>13. ledger'.pushed # 0
  BY <1>2, <1>4
<1>14. QED
  BY <1>4, <1>8, <1>11, <1>12, <1>13
     DEF LedgerOK, UnderDeliveryAdvised, HealthyPushQuiet

(* A chunk that saw far too much was not a healthy one. *)
LEMMA OverrunLedger ==
  ASSUME LedgerOK, push = "running", ledger.pushed < Total,
         NEW m \in Motions, NEW g \in Glitches, NEW d \in Int,
         d = Reads(m, g), d > 2 * Asked + SLOP,
         Overruns, Notes(Asked, m, g, d), hub' \in Nat
  PROVE  LedgerOK'
<1>1. BookOK /\ m \in Nat /\ Asked \in Nat
  BY ReadsType, AskedLength DEF LedgerOK
<1>2. /\ truth' \in [short : Int, resynced : BOOLEAN, healthy : BOOLEAN,
                     misread : BOOLEAN]
      /\ truth'.healthy => /\ g \in {"reset", "second"} => d < 0
                           /\ g # "first" /\ m <= 2 * Asked
  BY <1>1, NotesType
<1>3. ~truth'.healthy
  <2>1. SUFFICES ASSUME truth'.healthy PROVE FALSE
    OBVIOUS
  <2>2. g = "none" /\ m <= 2 * Asked
    BY <1>1, <1>2, <2>1 DEF Glitches, SLOP
  <2>3. d = m
    BY <1>1, <2>2, ReadsType
  <2>4. QED
    BY <1>1, <2>2, <2>3 DEF SLOP
<1>4. BookOK'
  BY <1>2, PushLengthsAreNat DEF Overruns, BookOK, Empty
<1>5. QED
  BY <1>3, <1>4 DEF Overruns, LedgerOK, UnderDeliveryAdvised, HealthyPushQuiet

(* A chunk keeps the ledger true. *)
LEMMA ChunkLedger ==
  ASSUME LedgerOK, Chunk PROVE LedgerOK'
<1>1. push = "running" /\ ledger.pushed < Total /\ BookOK
  BY DEF Chunk, LedgerOK
<1>2. PICK m \in Motions, g \in Glitches :
        /\ Judges(Asked, Reads(m, g))
        /\ hub' = IF push' = "overrun" THEN 0
                  ELSE (IF g = "reset" THEN 0 ELSE hub + m)
        /\ Notes(Asked, m, g, Reads(m, g))
  BY DEF Chunk, Reads
<1>3. Reads(m, g) \in Int /\ m \in Nat /\ hub' \in Nat /\ Asked \in Nat
      /\ (g = "none" => Reads(m, g) = m)
  BY <1>1, <1>2, ReadsType, AskedLength
<1>4. CASE Reads(m, g) < 0 /\ Resyncs(Asked)
  BY <1>1, <1>2, <1>3, <1>4, ResyncLedger
<1>5. CASE Reads(m, g) > 2 * Asked + SLOP /\ Overruns
  BY <1>1, <1>2, <1>3, <1>5, OverrunLedger
<1>6. CASE Reads(m, g) \in 0 .. 2 * Asked + SLOP /\ Credits(Asked, Reads(m, g))
  <2>1. Reads(m, g) \in Nat
    BY <1>3, <1>6
  <2>2. QED
    BY <1>1, <1>2, <1>3, <1>6, <2>1, CreditLedger
<1>7. QED
  BY <1>2, <1>4, <1>5, <1>6 DEF Judges
=============================================================================
