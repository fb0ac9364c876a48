---------------------------- MODULE AceRfidProof ----------------------------
(***************************************************************************)
(* Proofs about AceRfid: type correctness, that no temperature from an     *)
(* untrusted record reaches the inventory, that two lanes never name one   *)
(* spool by decoded tags, and that an identify is not disturbed by reads in*)
(* the background, for any number of lanes, spools, swaps, identify        *)
(* commands and faults.                                                    *)
(*                                                                         *)
(* The first two are inductive once the types are known, because every     *)
(* answer, whatever its origin, passes HandleInfo, and every image passes  *)
(* RenderImage.  The state is split into the parts that change together.   *)
(***************************************************************************)
EXTENDS AceRfid, SequenceTheorems, FiniteSetTheorems, TLAPS

InventoryOK ==
  /\ inv \in [Slots -> Entry]
  /\ slotUid \in [Slots -> SpoolOrNone]
  /\ boundUid \in [Slots -> SpoolOrNone]
  /\ xlane \in [Slots -> 0 .. MaxRetry + 1]
  /\ HeatIsFromTag
  /\ SkuHeldByOneLane

QueriesOK  == pendingQ \in SUBSET Slots /\ walks \in Seq(Walk)
RequestsOK == refreshDue \in BOOLEAN /\ refresh \in Seq(Slots)
                /\ asked \in SUBSET Slots
IdentOK    == syncOn \in BOOLEAN /\ ident \in Thread
LinkOK     == linkUp \in BOOLEAN /\ wire \in Seq(Request)
                /\ late \in SUBSET Answer
LanesOK    == /\ spool \in [Slots -> SpoolOrNone]
              /\ phase \in [Slots -> {"empty", "loading", "ready"}]
              /\ seen \in [Slots -> BOOLEAN]
              /\ tenants \in [Slots -> SUBSET Spools]
MemoryOK   == rec \in [Slots -> SpoolOrNone] /\ buffer \in SpoolOrNone
BoundsOK   == idents \in Nat /\ swaps \in Nat /\ faults \in Nat

Inv == /\ InventoryOK /\ QueriesOK /\ RequestsOK /\ IdentOK
       /\ LinkOK /\ LanesOK /\ MemoryOK /\ BoundsOK

(* The parts a step leaves alone stay in order. *)
LEMMA Framed ==
  /\ InventoryOK /\ UNCHANGED inventory => InventoryOK'
  /\ QueriesOK /\ UNCHANGED queries => QueriesOK'
  /\ RequestsOK /\ UNCHANGED requests => RequestsOK'
  /\ IdentOK /\ UNCHANGED <<syncOn, ident>> => IdentOK'
  /\ LinkOK /\ UNCHANGED <<linkUp, wire, late>> => LinkOK'
  /\ LanesOK /\ UNCHANGED lanes => LanesOK'
  /\ MemoryOK /\ UNCHANGED memory => MemoryOK'
  /\ BoundsOK /\ UNCHANGED bounds => BoundsOK'
  BY DEF InventoryOK, inventory, HeatIsFromTag, SkuHeldByOneLane, QueriesOK,
         queries, RequestsOK, requests, IdentOK, LinkOK, LanesOK, lanes,
         MemoryOK, memory, BoundsOK, bounds

-----------------------------------------------------------------------------
(* Data *)

(* Slots are finitely many numbers, 0 among them. *)
LEMMA SlotFacts ==
  /\ 0 \in Slots /\ None \notin Slots
  /\ \A s \in Slots : s \in Nat
  /\ IsFiniteSet(Slots)
  BY NumSlotsIsPos, NoneIsNoThing, FS_Interval DEF Slots

(* A loop over some slots asks for those slots only. *)
LEMMA AsksType ==
  ASSUME NEW kind \in {"live", "cached"}, NEW S \in SUBSET Slots,
         NEW q \in InOrder(S)
  PROVE  Asks(kind, q) \in Seq(Request)
<1>1. IsFiniteSet(S)
  BY SlotFacts, FS_Subset
<1>2. Cardinality(S) \in Nat
  BY <1>1, FS_CardinalityType
<1>3. q \in [1 .. Cardinality(S) -> S]
  BY DEF InOrder
<1>4. Asks(kind, q) \in [1 .. Cardinality(S) -> Request]
  BY <1>3 DEF Asks, Ask, Request
<1>5. QED
  BY <1>2, <1>4, SeqDef

(* What the antenna picks up is a tag of a spool. *)
LEMMA FieldType ==
  ASSUME LanesOK, NEW s \in Slots
  PROVE  Near(s) \in SUBSET Spools /\ InField(s) \in SUBSET Spools
  BY DEF LanesOK, Near, InField, SpoolOrNone

(* A splice keeps the walks and adds the tag to their sources. *)
LEMMA SplicedType ==
  ASSUME QueriesOK, NEW tag \in Spools
  PROVE  Spliced(tag) \in Seq(Walk)
<1>1. walks \in Seq(Walk) /\ Len(walks) \in Nat /\ DOMAIN walks = 1 .. Len(walks)
  BY DEF QueriesOK
<1>2. \A i \in DOMAIN walks : [walks[i] EXCEPT !.tags = @ \cup {tag}] \in Walk
  <2>1. TAKE i \in DOMAIN walks
  <2>2. walks[i] \in Walk
    BY <1>1
  <2>3. QED
    BY <2>2 DEF Walk
<1>3. CASE Form[tag] = "uid"
  BY <1>1, <1>3 DEF Spliced
<1>4. CASE Form[tag] # "uid"
  <2>1. Spliced(tag) \in [1 .. Len(walks) -> Walk]
    BY <1>1, <1>2, <1>4 DEF Spliced
  <2>2. QED
    BY <1>1, <2>1, SeqDef
<1>5. QED
  BY <1>3, <1>4

(* Reading a tag keeps the memory of the unit typed. *)
LEMMA ReadsTagType ==
  ASSUME MemoryOK, NEW s \in Slots, NEW tag \in Spools, ReadsTag(s, tag)
  PROVE  MemoryOK' /\ Pages(tag) \in SpoolOrNone
  BY DEF MemoryOK, ReadsTag, Pages, SpoolOrNone

(* Answers that name a tag name a spool. *)
LEMMA AnswerTypes ==
  ASSUME MemoryOK, NEW s \in Slots, NEW i \in IndexOf(s)
  PROVE  /\ Cached(s, i) \in Answer
         /\ \A tag \in Spools : ReadOf(s, i, tag) \in Answer
<1>1. i \in Slots
  BY SlotFacts DEF IndexOf
<1>2. QED
  BY <1>1, NoneIsNoThing DEF MemoryOK, Cached, ReadOf, Answer, SpoolOrNone

(* The served request names a slot and leaves a queue of requests. *)
LEMMA HeadType ==
  ASSUME LinkOK, wire # <<>>
  PROVE  Head(wire).slot \in Slots /\ Tail(wire) \in Seq(Request)
<1>1. Head(wire) \in Request /\ Tail(wire) \in Seq(Request)
  BY DEF LinkOK
<1>2. QED
  BY <1>1 DEF Request
-----------------------------------------------------------------------------
(* The answers *)

(* A refused read disarms nothing but the gate of its lane. *)
LEMMA RefuseReadSafe ==
  ASSUME InventoryOK, NEW s \in Slots, RefuseRead(s),
         UNCHANGED <<slotUid, boundUid>>
  PROVE  InventoryOK'
<1>1. \A n \in 0 .. MaxRetry + 1 : OneMore(n) \in 0 .. MaxRetry + 1
  BY LimitsAreNat DEF OneMore
<1>2. xlane' \in [Slots -> 0 .. MaxRetry + 1]
  BY <1>1 DEF InventoryOK, RefuseRead
<1>3. PICK b \in BOOLEAN : inv' = [inv EXCEPT ![s].rfid = b]
  <2>1. inv[s].rfid \in BOOLEAN
    BY DEF InventoryOK, Entry
  <2>2. QED
    BY <2>1 DEF RefuseRead
<1>4. inv' \in [Slots -> Entry]
  BY <1>3 DEF InventoryOK, Entry
<1>5. \A t \in Slots : /\ inv'[t].heat = inv[t].heat /\ inv'[t].sku = inv[t].sku
                       /\ inv'[t].src = inv[t].src
  BY <1>3 DEF InventoryOK, Entry
<1>6. HeatIsFromTag' /\ SkuHeldByOneLane'
  BY <1>5 DEF InventoryOK, HeatIsFromTag, SkuHeldByOneLane
<1>7. QED
  BY <1>2, <1>4, <1>6 DEF InventoryOK

(* An accepted read takes temperatures from trusted fields only, and a sku *)
(* no other lane holds.                                                    *)
LEMMA AcceptReadSafe ==
  ASSUME InventoryOK, NEW s \in Slots, NEW tag \in Spools, AcceptRead(s, tag),
         ~BelongsToOtherLane(s, SkuOf(tag)),
         UNCHANGED <<slotUid, boundUid>>
  PROVE  InventoryOK'
<1> DEFINE k == SkuOf(tag)
           new == [inv[s] EXCEPT
                     !.sku  = IF k # None THEN k ELSE @,
                     !.src  = IF k # None THEN "decode" ELSE @,
                     !.heat = IF TrustsFields(Form[tag]) THEN Worth(Form[tag])
                                                         ELSE @]
<1>1. k \in SpoolOrNone /\ Worth(Form[tag]) \in {"tag", "garbage"}
  BY DEF SkuOf, SpoolOrNone, Worth
<1>2. inv' = [inv EXCEPT ![s] = new]
  BY DEF AcceptRead, InventoryOK
<1>3. inv[s] \in Entry
  BY DEF InventoryOK
<1>4. new \in Entry
  BY <1>1, <1>3 DEF Entry
<1>5. inv' \in [Slots -> Entry]
  BY <1>2, <1>4 DEF InventoryOK
<1>6. HeatIsFromTag'
  <2>1. new.heat # "garbage"
    BY <1>3 DEF Entry, InventoryOK, HeatIsFromTag, TrustsFields, Worth
  <2>2. QED
    BY <1>2, <2>1 DEF InventoryOK, HeatIsFromTag
<1>7. SkuHeldByOneLane'
  <2>1. \A t \in Slots \ {s} : k # None => inv[t].sku # k
    BY DEF BelongsToOtherLane
  <2>2. k # None => new.sku = k
    BY <1>3 DEF Entry
  <2>3. k = None => new.sku = inv[s].sku /\ new.src = inv[s].src
    BY <1>3 DEF Entry
  <2>4. inv'[s] = new /\ \A t \in Slots \ {s} : inv'[t] = inv[t]
    BY <1>2 DEF InventoryOK
  <2> HIDE DEF new, k
  <2>5. QED
    BY <2>1, <2>2, <2>3, <2>4 DEF InventoryOK, SkuHeldByOneLane
<1>8. xlane' \in [Slots -> 0 .. MaxRetry + 1]
  BY LimitsAreNat DEF AcceptRead, InventoryOK
<1>9. QED
  BY <1>5, <1>6, <1>7, <1>8 DEF InventoryOK

(* Whatever is answered, to whichever lane, the inventory stays sound. *)
LEMMA HandleInfoSafe ==
  ASSUME InventoryOK, QueriesOK, NEW s \in Slots, NEW a \in Answer,
         NEW ws \in Seq(Walk), NEW pages \in SpoolOrNone,
         HandleInfo(s, a, ws, pages)
  PROVE  InventoryOK' /\ QueriesOK'
<1>1. CASE Settle(s, ws)
  BY <1>1, Framed DEF Settle, QueriesOK
<1>2. CASE FetchRawTagImage(s, ws, pages)
  <2>1. [slot |-> s, tags |-> {pages} \ {None}] \in Walk
    BY DEF Walk, SpoolOrNone
  <2>2. walks' \in Seq(Walk)
    BY <1>2, <2>1, AppendProperties DEF FetchRawTagImage
  <2>3. QED
    BY <1>2, <2>2, Framed DEF FetchRawTagImage, QueriesOK
<1>3. CASE a.rfid /\ BindSku(s, a.tag, ws)
  <2>1. a.tag \in Spools
    BY <1>3 DEF Answer, SpoolOrNone
  <2>2. QueriesOK'
    BY <1>3 DEF BindSku, QueriesOK
  <2>3. CASE BelongsToOtherLane(s, SkuOf(a.tag))
    BY <1>3, <2>2, <2>3, RefuseReadSafe DEF BindSku
  <2>4. CASE ~BelongsToOtherLane(s, SkuOf(a.tag))
    BY <1>3, <2>1, <2>2, <2>4, AcceptReadSafe DEF BindSku
  <2>5. QED
    BY <2>3, <2>4
<1>4. CASE a.rfid /\ ConsumeUidTag(s, a.tag, ws)
  <2>1. a.tag \in Spools
    BY <1>4 DEF Answer, SpoolOrNone
  <2>2. QueriesOK'
    BY <1>4 DEF ConsumeUidTag, QueriesOK
  <2>3. slotUid' \in [Slots -> SpoolOrNone] /\ boundUid' \in [Slots -> SpoolOrNone]
    BY <1>4, <2>1 DEF ConsumeUidTag, InventoryOK, SpoolOrNone
  <2>4. QED
    BY <1>4, <2>2, <2>3 DEF ConsumeUidTag, InventoryOK, HeatIsFromTag,
                            SkuHeldByOneLane
<1>5. QED
  BY <1>1, <1>2, <1>3, <1>4 DEF HandleInfo

(* An image, torn or not, seeds no untrusted temperature, and does not pass*)
(* for a decoded tag.                                                      *)
LEMMA RenderImageSafe ==
  ASSUME InventoryOK, NEW s \in Slots, NEW tags \in SUBSET Spools,
         RenderImage(s, tags), UNCHANGED <<slotUid, boundUid, xlane>>
  PROVE  InventoryOK'
<1>1. PICK tag \in tags :
        inv' = [inv EXCEPT
          ![s].sku  = IF ImageSku(tag) # None THEN ImageSku(tag) ELSE @,
          ![s].src  = IF ImageSku(tag) # None THEN "image" ELSE @,
          ![s].heat = IF ImageHeats(tag) THEN HeatOf(tag, tags) ELSE @]
  BY DEF RenderImage
<1> DEFINE k == ImageSku(tag)
           new == [inv[s] EXCEPT
                     !.sku  = IF k # None THEN k ELSE @,
                     !.src  = IF k # None THEN "image" ELSE @,
                     !.heat = IF ImageHeats(tag) THEN HeatOf(tag, tags) ELSE @]
<1>2. inv' = [inv EXCEPT ![s] = new]
  BY <1>1 DEF InventoryOK
<1>3. inv[s] \in Entry
  BY DEF InventoryOK
<1>4. k \in SpoolOrNone
  BY DEF ImageSku, SkuOf, SpoolOrNone
<1>5. ImageHeats(tag) => HeatOf(tag, tags) \in {"tag", "splice"}
  BY DEF ImageHeats, HeatOf
<1>6. new \in Entry
  BY <1>3, <1>4, <1>5 DEF Entry
<1>7. inv' \in [Slots -> Entry]
  BY <1>2, <1>6 DEF InventoryOK
<1>8. HeatIsFromTag'
  <2>1. new.heat # "garbage"
    BY <1>3, <1>5 DEF Entry, InventoryOK, HeatIsFromTag
  <2>2. QED
    BY <1>2, <2>1 DEF InventoryOK, HeatIsFromTag
<1>9. SkuHeldByOneLane'
  <2>1. /\ k # None => new.src = "image"
        /\ k = None => new.sku = inv[s].sku /\ new.src = inv[s].src
    <3> HIDE DEF k
    <3>1. QED
      BY <1>3 DEF Entry
  <2>2. inv'[s] = new /\ \A t \in Slots \ {s} : inv'[t] = inv[t]
    BY <1>2 DEF InventoryOK
  <2> HIDE DEF new, k
  <2>3. QED
    BY <2>1, <2>2 DEF InventoryOK, SkuHeldByOneLane
<1>10. QED
  BY <1>7, <1>8, <1>9 DEF InventoryOK
-----------------------------------------------------------------------------
(* The steps *)

(* A live read is handled, or falls back to the record. *)
LEMMA AnswerLiveStep ==
  ASSUME Inv, AnswerLive
  PROVE  Inv'
<1> DEFINE s == Head(wire).slot
<1>1. s \in Slots /\ Tail(wire) \in Seq(Request)
  BY HeadType DEF Inv, AnswerLive, Served
<1>2. RequestsOK' /\ IdentOK' /\ LanesOK' /\ BoundsOK'
  BY Framed DEF Inv, AnswerLive
<1>3. CASE \E tag \in InField(s), i \in IndexOf(s) :
             /\ ReadsTag(s, tag)
             /\ HandleInfo(s, ReadOf(s, i, tag), Spliced(tag), Pages(tag))
             /\ wire' = Tail(wire)
  <2>1. PICK tag \in InField(s), i \in IndexOf(s) :
             /\ ReadsTag(s, tag)
             /\ HandleInfo(s, ReadOf(s, i, tag), Spliced(tag), Pages(tag))
             /\ wire' = Tail(wire)
    BY <1>3
  <2>2. tag \in Spools
    BY <1>1, FieldType DEF Inv
  <2>3. MemoryOK' /\ Pages(tag) \in SpoolOrNone
    BY <1>1, <2>1, <2>2, ReadsTagType DEF Inv
  <2>4. Spliced(tag) \in Seq(Walk) /\ ReadOf(s, i, tag) \in Answer
    BY <1>1, <2>2, SplicedType, AnswerTypes DEF Inv
  <2>5. InventoryOK' /\ QueriesOK'
    BY <1>1, <2>1, <2>3, <2>4, HandleInfoSafe DEF Inv
  <2>6. LinkOK'
    BY <1>1, <2>1 DEF Inv, LinkOK, AnswerLive
  <2>7. QED
    BY <1>2, <2>3, <2>5, <2>6 DEF Inv
<1>4. CASE /\ wire' = Append(Tail(wire), Ask("cached", s))
           /\ pendingQ' = pendingQ \cup {s}
           /\ UNCHANGED <<inventory, walks, memory>>
  <2>1. InventoryOK' /\ MemoryOK' /\ QueriesOK'
    BY <1>1, <1>4, Framed DEF Inv, QueriesOK
  <2>2. Ask("cached", s) \in Request
    BY <1>1 DEF Ask, Request
  <2>3. LinkOK'
    BY <1>1, <1>4, <2>2, AppendProperties DEF Inv, LinkOK, AnswerLive
  <2>4. QED
    BY <1>2, <2>1, <2>3 DEF Inv
<1>5. QED
  BY <1>3, <1>4 DEF AnswerLive

(* The record of a lane is handled, for it or for another. *)
LEMMA AnswerCachedStep ==
  ASSUME Inv, AnswerCached \/ AnswerMisdelivered
  PROVE  Inv'
<1> DEFINE s == Head(wire).slot
<1>1. s \in Slots /\ Tail(wire) \in Seq(Request)
  BY HeadType DEF Inv, AnswerCached, AnswerMisdelivered, Served
<1>2. PICK t \in Slots : \E i \in IndexOf(t) : HandleInfo(s, Cached(t, i), walks, buffer)
  BY <1>1 DEF AnswerCached, AnswerMisdelivered
<1>3. PICK i \in IndexOf(t) : HandleInfo(s, Cached(t, i), walks, buffer)
  BY <1>2
<1>4. Cached(t, i) \in Answer
  BY AnswerTypes DEF Inv
<1>5. InventoryOK' /\ QueriesOK'
  BY <1>1, <1>3, <1>4, HandleInfoSafe DEF Inv, QueriesOK, MemoryOK
<1>6. RequestsOK' /\ IdentOK' /\ LanesOK' /\ MemoryOK'
  BY Framed DEF Inv, AnswerCached, AnswerMisdelivered
<1>7. LinkOK'
  BY <1>1 DEF Inv, LinkOK, AnswerCached, AnswerMisdelivered
<1>8. BoundsOK'
  BY DEF Inv, BoundsOK, AnswerCached, AnswerMisdelivered, bounds
<1>9. QED
  BY <1>5, <1>6, <1>7, <1>8 DEF Inv

(* A request given up leaves at most a late answer. *)
LEMMA RequestExpiresStep ==
  ASSUME Inv, RequestExpires
  PROVE  Inv'
<1> DEFINE s == Head(wire).slot
<1>1. s \in Slots /\ Tail(wire) \in Seq(Request)
  BY HeadType DEF Inv, RequestExpires
<1>2. late' \in SUBSET Answer
  BY <1>1, AnswerTypes DEF Inv, LinkOK, RequestExpires
<1>3. LinkOK' /\ BoundsOK'
  BY <1>1, <1>2 DEF Inv, LinkOK, BoundsOK, RequestExpires
<1>4. QED
  BY <1>3, Framed DEF Inv, RequestExpires

(* A late answer is handled like any other. *)
LEMMA ReplayLateStep ==
  ASSUME Inv, NEW a \in late, ReplayLate(a)
  PROVE  Inv'
<1>1. a \in Answer /\ a.index \in Slots
  BY DEF Inv, LinkOK, Answer
<1>2. InventoryOK' /\ QueriesOK'
  <2>1. CASE HandleInfo(a.index, a, walks, buffer)
    BY <1>1, <2>1, HandleInfoSafe DEF Inv, QueriesOK, MemoryOK
  <2>2. CASE UNCHANGED <<inventory, queries>>
    BY <2>2, Framed DEF Inv
  <2>3. QED
    BY <2>1, <2>2 DEF ReplayLate
<1>3. LinkOK'
  BY DEF Inv, LinkOK, ReplayLate
<1>4. QED
  BY <1>2, <1>3, Framed DEF Inv, ReplayLate

(* A walk ends with its image rendered or dropped. *)
LEMMA ApplyRawTagImageStep ==
  ASSUME Inv, NEW i \in DOMAIN walks, ApplyRawTagImage(i)
  PROVE  Inv'
<1> DEFINE w == walks[i]
<1>1. /\ walks \in Seq(Walk) /\ Len(walks) \in Nat
      /\ DOMAIN walks = 1 .. Len(walks) /\ w \in Walk
  BY DEF Inv, QueriesOK
<1>2. w.slot \in Slots /\ w.tags \in SUBSET Spools
  BY <1>1 DEF Walk
<1>3. walks' \in Seq(Walk)
  <2>1. walks' = [j \in 1 .. Len(walks) - 1 |-> walks[IF j < i THEN j ELSE j + 1]]
    BY DEF ApplyRawTagImage
  <2>2. \A j \in 1 .. Len(walks) - 1 : walks[IF j < i THEN j ELSE j + 1] \in Walk
    BY <1>1
  <2>3. walks' \in [1 .. Len(walks) - 1 -> Walk]
    BY <2>1, <2>2
  <2>4. Len(walks) - 1 \in Nat
    BY <1>1
  <2>5. QED
    BY <2>3, <2>4, SeqDef
<1>4. QueriesOK'
  BY <1>2, <1>3 DEF Inv, QueriesOK, ApplyRawTagImage
<1>5. InventoryOK'
  <2>1. CASE RenderImage(w.slot, w.tags)
    BY <1>2, <2>1, RenderImageSafe DEF Inv, ApplyRawTagImage
  <2>2. CASE UNCHANGED inv
    BY <2>2, Framed DEF Inv, ApplyRawTagImage, inventory
  <2>3. QED
    BY <2>1, <2>2 DEF ApplyRawTagImage
<1>6. QED
  BY <1>4, <1>5, Framed DEF Inv, ApplyRawTagImage

(* A frame forgets lanes, asks for others, and makes no identity. *)
LEMMA HeartbeatStep ==
  ASSUME Inv, Heartbeat
  PROVE  Inv'
<1>1. PICK printing \in BOOLEAN : inv' = ShownInventory(printing)
  BY DEF Heartbeat
<1>2. \A s \in Slots :
        \/ /\ inv'[s] \in Entry /\ inv'[s].src = "none"
           /\ inv'[s].heat \in {"default", inv[s].heat}
        \/ /\ inv'[s] \in Entry /\ inv'[s].src = inv[s].src
           /\ inv'[s].heat = inv[s].heat /\ inv'[s].sku = inv[s].sku
  <2>1. TAKE s \in Slots
  <2>2. inv[s] \in Entry /\ phase[s] \in {"empty", "loading", "ready"}
    BY DEF Inv, InventoryOK, LanesOK
  <2>3. \A p \in BOOLEAN : /\ Forgotten(s, p) \in Entry /\ Forgotten(s, p).src = "none"
                           /\ Forgotten(s, p).heat \in {"default", inv[s].heat}
    BY <2>2 DEF Forgotten, Untagged, Entry, SpoolOrNone
  <2>4. CASE s \in ShownEmpty
    <3>1. inv'[s] = Forgotten(s, printing)
      BY <1>1, <2>4 DEF ShownInventory, ShownEmpty, ShownSwapped
    <3>2. QED
      BY <2>3, <3>1
  <2>5. CASE s \notin ShownEmpty /\ s \in ShownSwapped
    <3>1. inv'[s] = [Forgotten(s, TRUE) EXCEPT !.status = phase[s]]
      BY <1>1, <2>5 DEF ShownInventory
    <3>2. QED
      BY <2>2, <2>3, <3>1 DEF Entry
  <2>6. CASE s \notin ShownEmpty /\ s \notin ShownSwapped
    <3>1. inv'[s] = [inv[s] EXCEPT !.status = phase[s],
                                   !.rfid = @ \/ s \in Detected]
      BY <1>1, <2>6 DEF ShownInventory
    <3>2. (inv[s].rfid \/ s \in Detected) \in BOOLEAN
      OBVIOUS
    <3>3. QED
      BY <2>2, <3>1 DEF Entry
  <2>7. QED
    BY <2>4, <2>5, <2>6
<1>3. inv' \in [Slots -> Entry]
  BY <1>1, <1>2 DEF ShownInventory
<1>4. HeatIsFromTag' /\ SkuHeldByOneLane'
  BY <1>2 DEF Inv, InventoryOK, HeatIsFromTag, SkuHeldByOneLane
<1>5. InventoryOK'
  BY <1>3, <1>4 DEF Inv, InventoryOK, Heartbeat
<1>6. AllSlots \in Seq(Slots) /\ RefreshQueue \in Seq(Slots)
  <2>1. AllSlots \in [1 .. NumSlots -> Slots]
    BY NumSlotsIsPos DEF AllSlots, Slots
  <2>2. QED
    BY <2>1, NumSlotsIsPos, SeqDef DEF RefreshQueue, Inv, RequestsOK
<1>7. Refreshed \in SUBSET Slots /\ (Refreshed # {} => RefreshQueue # <<>>)
  BY <1>6 DEF Refreshed
<1>8. Detected \in SUBSET Slots
  BY DEF Detected
<1>9. QueriesOK'
  BY <1>7, <1>8 DEF Inv, QueriesOK, Heartbeat
<1>10. RequestsOK'
  <2>1. RefreshQueue # <<>> => Tail(RefreshQueue) \in Seq(Slots)
    BY <1>6
  <2>2. refresh' \in Seq(Slots)
    BY <1>6, <1>7, <2>1 DEF Heartbeat
  <2>3. QED
    BY <1>7, <2>2 DEF Inv, RequestsOK, Heartbeat
<1>11. LinkOK'
  <2>1. PICK next \in InOrder(Refreshed), new \in InOrder(Detected) :
          wire' = wire \o Asks("cached", next) \o Asks("live", new)
    BY DEF Heartbeat
  <2>2. Asks("cached", next) \in Seq(Request) /\ Asks("live", new) \in Seq(Request)
    BY <1>7, <1>8, AsksType
  <2>3. wire' \in Seq(Request)
    BY <2>1, <2>2 DEF Inv, LinkOK
  <2>4. QED
    BY <2>3 DEF Inv, LinkOK, Heartbeat
<1>12. LanesOK'
  <2>1. \A s \in Slots : Near(s) \in SUBSET Spools
    BY FieldType DEF Inv
  <2>2. QED
    BY <2>1 DEF Inv, LanesOK, Heartbeat
<1>13. IdentOK' /\ MemoryOK' /\ BoundsOK'
  BY Framed DEF Inv, Heartbeat
<1>14. QED
  BY <1>5, <1>9, <1>10, <1>11, <1>12, <1>13 DEF Inv

(* A reset forgets every lane. *)
LEMMA ResetInventoryStep ==
  ASSUME Inv, ResetInventory
  PROVE  Inv'
<1>1. Untagged \in Entry /\ Untagged.heat = "default" /\ Untagged.src = "none"
  BY DEF Untagged, Entry, SpoolOrNone
<1>2. inv' = [s \in Slots |-> Untagged]
  BY DEF ResetInventory
<1>3. HeatIsFromTag' /\ SkuHeldByOneLane'
  BY <1>1, <1>2 DEF HeatIsFromTag, SkuHeldByOneLane
<1>4. InventoryOK'
  BY <1>1, <1>2, <1>3 DEF Inv, InventoryOK, ResetInventory
<1>5. BoundsOK'
  BY DEF Inv, BoundsOK, ResetInventory
<1>6. QED
  BY <1>4, <1>5, Framed DEF Inv, ResetInventory

(* A thread keeps its type as it moves from one read to the next. *)
LEMMA ThreadTypes ==
  ASSUME IdentOK
  PROVE  /\ ident.prev \in BOOLEAN
         /\ ident.pc # "idle" => ident.slot \in Slots
         /\ \A s \in Slots : IdentifyUnder(s) \in Thread
         /\ NoIdent \in Thread
         /\ ident.pc # "idle" =>
              /\ [ident EXCEPT !.pc = "jog"] \in Thread
              /\ \A k \in {"none"} \cup Forms \cup Spools :
                   [ident EXCEPT !.pc = "jog", !.base = k] \in Thread
              /\ ident.jogs < MaxJogs =>
                   [ident EXCEPT !.pc = "read", !.jogs = @ + 1] \in Thread
<1>0. NoIdent \in Thread
  BY LimitsAreNat DEF Thread, NoIdent
<1>1. ident \in Thread /\ syncOn \in BOOLEAN
  BY DEF IdentOK
<1>2. /\ ident.prev \in BOOLEAN
      /\ ident.pc # "idle" => ident.slot \in Slots
  BY <1>1 DEF Thread
<1>3. \A s \in Slots : IdentifyUnder(s) \in Thread
  <2>1. TAKE s \in Slots
  <2>2. s # None
    BY SlotFacts
  <2>3. \A t \in Thread :
          [t EXCEPT !.pc = "base", !.slot = s, !.prev = syncOn] \in Thread
    BY <1>1, <2>2 DEF Thread
  <2>4. QED
    BY <1>0, <2>3 DEF IdentifyUnder
<1>4. ASSUME ident.pc # "idle"
      PROVE  [ident EXCEPT !.pc = "jog"] \in Thread
  BY <1>1, <1>4 DEF Thread
<1>5. ASSUME ident.pc # "idle", NEW k \in {"none"} \cup Forms \cup Spools
      PROVE  [ident EXCEPT !.pc = "jog", !.base = k] \in Thread
  BY <1>1, <1>5 DEF Thread
<1>6. ASSUME ident.pc # "idle", ident.jogs < MaxJogs
      PROVE  [ident EXCEPT !.pc = "read", !.jogs = @ + 1] \in Thread
  <2>1. ident.jogs \in 0 .. MaxJogs /\ ident.jogs + 1 \in 0 .. MaxJogs
    BY <1>1, <1>6, LimitsAreNat DEF Thread
  <2>2. QED
    BY <1>1, <1>6, <2>1 DEF Thread
<1>7. QED
  BY <1>0, <1>2, <1>3, <1>4, <1>5, <1>6

(* An identify starts with a read of its own. *)
LEMMA IdentifyBeginsStep ==
  ASSUME Inv, NEW s \in Slots, IdentifyBegins(s)
  PROVE  Inv'
<1>1. Ask("identify", s) \in Request
  BY DEF Ask, Request
<1>2. LinkOK'
  BY <1>1, AppendProperties DEF Inv, LinkOK, IdentifyBegins
<1>3. IdentOK'
  BY ThreadTypes DEF Inv, IdentOK, IdentifyBegins
<1>4. BoundsOK'
  BY DEF Inv, BoundsOK, IdentifyBegins
<1>5. QED
  BY <1>2, <1>3, <1>4, Framed DEF Inv, IdentifyBegins

(* An identify's read is noted, skipped or handled. *)
LEMMA AnswerIdentifyStep ==
  ASSUME Inv, AnswerIdentify
  PROVE  Inv'
<1> DEFINE s == ident.slot
<1>1. /\ s \in Slots /\ Tail(wire) \in Seq(Request) /\ ident.pc # "idle"
      /\ syncOn \in BOOLEAN
  BY ThreadTypes, HeadType DEF Inv, AnswerIdentify, Served, IdentOK
<1>2. LinkOK'
  BY <1>1 DEF Inv, LinkOK, AnswerIdentify
<1>3. RequestsOK' /\ LanesOK' /\ BoundsOK'
  BY Framed DEF Inv, AnswerIdentify
<1>4. NothingNew => IdentOK'
  BY <1>1, ThreadTypes DEF Inv, IdentOK, NothingNew
<1>5. CASE NothingNew /\ UNCHANGED <<inventory, queries, memory>>
  BY <1>2, <1>3, <1>4, <1>5, Framed DEF Inv
<1>6. ASSUME NEW tag \in InField(s), NEW i \in IndexOf(s), ReadsTag(s, tag),
             \/ /\ ident.pc = "base"
                /\ ident' = [ident EXCEPT !.pc = "jog", !.base = TagKey(tag)]
                /\ walks' = Spliced(tag)
                /\ UNCHANGED <<inventory, pendingQ, syncOn>>
             \/ /\ ident.pc = "read" /\ TagKey(tag) = ident.base
                /\ NothingNew
                /\ walks' = Spliced(tag)
                /\ UNCHANGED <<inventory, pendingQ>>
             \/ /\ ident.pc = "read" /\ TagKey(tag) # ident.base
                /\ NewTag(s, ReadOf(s, i, tag), tag)
      PROVE  Inv'
  <2>1. tag \in Spools
    BY <1>1, <1>6, FieldType DEF Inv
  <2>2. MemoryOK' /\ Pages(tag) \in SpoolOrNone
    BY <1>1, <1>6, <2>1, ReadsTagType DEF Inv
  <2>3. Spliced(tag) \in Seq(Walk) /\ ReadOf(s, i, tag) \in Answer
    BY <1>1, <1>6, <2>1, SplicedType, AnswerTypes DEF Inv
  <2>4. CASE walks' = Spliced(tag) /\ UNCHANGED <<inventory, pendingQ>>
             /\ (NothingNew \/ /\ UNCHANGED syncOn
                               /\ ident' = [ident EXCEPT !.pc = "jog",
                                                         !.base = TagKey(tag)])
    <3>1. TagKey(tag) \in {"none"} \cup Forms \cup Spools
      BY <2>1, FormIs DEF TagKey, SkuOf
    <3>2. IdentOK'
      BY <1>1, <1>4, <2>4, <3>1, ThreadTypes DEF Inv, IdentOK
    <3>3. QueriesOK' /\ InventoryOK'
      BY <2>3, <2>4, Framed DEF Inv, QueriesOK
    <3>4. QED
      BY <1>2, <1>3, <2>2, <3>2, <3>3 DEF Inv
  <2>5. CASE NewTag(s, ReadOf(s, i, tag), tag)
    <3>1. InventoryOK' /\ QueriesOK'
      BY <1>1, <2>2, <2>3, <2>5, HandleInfoSafe DEF Inv, NewTag
    <3>2. IdentOK'
      BY <1>1, <1>4, <2>5, ThreadTypes DEF Inv, IdentOK, NewTag, IdentifyEnds
    <3>3. QED
      BY <1>2, <1>3, <2>2, <3>1, <3>2 DEF Inv
  <2>6. QED
    BY <1>6, <2>4, <2>5
<1>7. QED
  BY <1>5, <1>6 DEF AnswerIdentify

(* A read nobody waits for disturbs the buffer only. *)
LEMMA AnswerOrphanStep ==
  ASSUME Inv, AnswerOrphan
  PROVE  Inv'
<1> DEFINE s == Head(wire).slot
<1>1. s \in Slots /\ Tail(wire) \in Seq(Request)
  BY HeadType DEF Inv, AnswerOrphan, Served
<1>2. LinkOK'
  BY <1>1 DEF Inv, LinkOK, AnswerOrphan
<1>3. QueriesOK' /\ MemoryOK'
  <2>1. CASE UNCHANGED <<walks, memory>>
    BY <2>1, Framed DEF Inv, AnswerOrphan, queries
  <2>2. ASSUME NEW tag \in InField(s), ReadsTag(s, tag), walks' = Spliced(tag)
        PROVE  QueriesOK' /\ MemoryOK'
    <3>1. tag \in Spools
      BY <1>1, <2>2, FieldType DEF Inv
    <3>2. QED
      BY <1>1, <2>2, <3>1, ReadsTagType, SplicedType DEF Inv, QueriesOK, AnswerOrphan
  <2>3. QED
    BY <2>1, <2>2 DEF AnswerOrphan
<1>4. QED
  BY <1>2, <1>3, Framed DEF Inv, AnswerOrphan

(* The steps of an identify between its reads. *)
LEMMA IdentifySteps ==
  ASSUME Inv, IdentifyStep
  PROVE  Inv'
<1>1. CASE IdentifyUnanswered
  <2>1. wire' \in Seq(Request)
    <3>1. wire \in Seq(Request) /\ Len(wire) \in Nat /\ DOMAIN wire = 1 .. Len(wire)
      BY DEF Inv, LinkOK
    <3>2. \A j \in DOMAIN wire : [wire[j] EXCEPT !.kind = "orphan"] \in Request
      <4>1. TAKE j \in DOMAIN wire
      <4>2. wire[j] \in Request
        BY <3>1
      <4>3. QED
        BY <4>2 DEF Request
    <3>3. wire' \in [1 .. Len(wire) -> Request]
      BY <1>1, <3>1, <3>2 DEF IdentifyUnanswered
    <3>4. QED
      BY <3>1, <3>3, SeqDef
  <2>2. LinkOK'
    BY <1>1, <2>1 DEF Inv, LinkOK, IdentifyUnanswered
  <2>3. IdentOK'
    BY <1>1, ThreadTypes DEF Inv, IdentOK, IdentifyUnanswered, NothingNew
  <2>4. QED
    BY <1>1, <2>2, <2>3, Framed DEF Inv, IdentifyUnanswered
<1>2. CASE JogAndRead
  <2>1. ident.slot \in Slots
    BY <1>2, ThreadTypes DEF Inv, JogAndRead
  <2>2. Ask("identify", ident.slot) \in Request
    BY <2>1 DEF Ask, Request
  <2>3. LinkOK'
    BY <1>2, <2>2, AppendProperties DEF Inv, LinkOK, JogAndRead
  <2>4. IdentOK'
    BY <1>2, ThreadTypes DEF Inv, IdentOK, JogAndRead
  <2>5. QED
    BY <1>2, <2>3, <2>4, Framed DEF Inv, JogAndRead
<1>3. CASE IdentifyGivesUp
  <2>1. IdentOK'
    BY <1>3, ThreadTypes DEF Inv, IdentOK, IdentifyGivesUp, IdentifyEnds
  <2>2. QED
    BY <1>3, <2>1, Framed DEF Inv, IdentifyGivesUp
<1>4. QED
  BY <1>1, <1>2, <1>3 DEF IdentifyStep

(* The link goes and comes. *)
LEMMA LinkSteps ==
  ASSUME Inv, LinkDrops \/ Connect
  PROVE  Inv'
<1>1. CASE LinkDrops
  <2>1. QueriesOK' /\ LinkOK' /\ BoundsOK'
    <3>1. <<>> \in Seq(Walk) /\ <<>> \in Seq(Request)
      OBVIOUS
    <3>2. QueriesOK'
      BY <1>1, <3>1 DEF Inv, QueriesOK, LinkDrops
    <3>3. LinkOK'
      BY <1>1, <3>1 DEF Inv, LinkOK, LinkDrops
    <3>4. BoundsOK'
      BY <1>1 DEF Inv, BoundsOK, LinkDrops
    <3>5. QED
      BY <3>2, <3>3, <3>4
  <2>2. QED
    BY <1>1, <2>1, Framed DEF Inv, LinkDrops
<1>2. CASE Connect
  <2>1. RequestsOK' /\ LinkOK'
    BY <1>2 DEF Inv, RequestsOK, LinkOK, Connect
  <2>2. QED
    BY <1>2, <2>1, Framed DEF Inv, Connect
<1>3. QED
  BY <1>1, <1>2

(* Spools come and go; a preload reads what passes the coil. *)
LEMMA SpoolSteps ==
  ASSUME Inv, NEW s \in Slots,
         \/ PreloadEnds(s)
         \/ SpoolOut(s)
         \/ \E sp \in Spools : SpoolIn(s, sp)
  PROVE  Inv'
<1>1. CASE PreloadEnds(s)
  <2>1. LanesOK'
    BY <1>1 DEF Inv, LanesOK, PreloadEnds
  <2>2. QueriesOK' /\ MemoryOK'
    <3>1. CASE UNCHANGED <<memory, walks>>
      BY <1>1, <3>1, Framed DEF Inv, PreloadEnds, queries
    <3>2. ASSUME NEW tag \in InField(s), ReadsTag(s, tag), walks' = Spliced(tag)
          PROVE  QueriesOK' /\ MemoryOK'
      <4>1. tag \in Spools
        BY <3>2, FieldType DEF Inv
      <4>2. QED
        BY <1>1, <3>2, <4>1, ReadsTagType, SplicedType DEF Inv, QueriesOK, PreloadEnds
    <3>3. QED
      BY <1>1, <3>1, <3>2 DEF PreloadEnds
  <2>3. QED
    BY <1>1, <2>1, <2>2, Framed DEF Inv, PreloadEnds
<1>2. CASE SpoolOut(s)
  <2>1. InventoryOK'
    BY <1>2, LimitsAreNat DEF Inv, InventoryOK, SpoolOut, SpoolOrNone,
                              HeatIsFromTag, SkuHeldByOneLane
  <2>2. LanesOK' /\ BoundsOK'
    BY <1>2 DEF Inv, LanesOK, BoundsOK, SpoolOut, SpoolOrNone
  <2>3. QED
    BY <1>2, <2>1, <2>2, Framed DEF Inv, SpoolOut
<1>3. CASE \E sp \in Spools : SpoolIn(s, sp)
  <2>1. PICK sp \in Spools : SpoolIn(s, sp)
    BY <1>3
  <2>2. LanesOK'
    BY <2>1 DEF Inv, LanesOK, SpoolIn, SpoolOrNone
  <2>3. BoundsOK'
    BY <2>1 DEF Inv, BoundsOK, SpoolIn
  <2>4. QED
    BY <2>1, <2>2, <2>3, Framed DEF Inv, SpoolIn
<1>4. QED
  BY <1>1, <1>2, <1>3

-----------------------------------------------------------------------------
(* The theorems *)

(* The driver starts in order. *)
LEMMA Initially == Init => Inv
<1> SUFFICES ASSUME Init PROVE Inv
  OBVIOUS
<1>1. Untagged \in Entry /\ Untagged.heat = "default" /\ Untagged.src = "none"
  BY DEF Untagged, Entry, SpoolOrNone
<1>2. InventoryOK
  BY <1>1, LimitsAreNat DEF Init, InventoryOK, SpoolOrNone, HeatIsFromTag,
                            SkuHeldByOneLane
<1>3. IdentOK
  BY LimitsAreNat DEF Init, IdentOK, NoIdent, Thread
<1>4. QueriesOK /\ RequestsOK /\ LinkOK
  <2>1. <<>> \in Seq(Walk) /\ <<>> \in Seq(Request) /\ <<>> \in Seq(Slots)
    OBVIOUS
  <2>2. QED
    BY <2>1 DEF Init, QueriesOK, RequestsOK, LinkOK
<1>5. LanesOK /\ MemoryOK /\ BoundsOK
  BY DEF Init, LanesOK, MemoryOK, BoundsOK, SpoolOrNone
<1>6. QED
  BY <1>2, <1>3, <1>4, <1>5 DEF Inv

(* Every step keeps the state in order. *)
LEMMA Inductive == Inv /\ [Next]_vars => Inv'
<1> SUFFICES ASSUME Inv, [Next]_vars PROVE Inv'
  OBVIOUS
<1>1. CASE Heartbeat
  BY <1>1, HeartbeatStep
<1>2. CASE Answered
  BY <1>2, AnswerLiveStep, AnswerCachedStep, AnswerIdentifyStep,
     AnswerOrphanStep DEF Answered
<1>3. CASE WalkEnds
  BY <1>3, ApplyRawTagImageStep DEF WalkEnds
<1>4. CASE IdentifyStep
  BY <1>4, IdentifySteps
<1>5. CASE Connect
  BY <1>5, LinkSteps
<1>6. CASE \E a \in late : ReplayLate(a)
  BY <1>6, ReplayLateStep
<1>7. CASE \E s \in Slots : PreloadEnds(s)
  BY <1>7, SpoolSteps
<1>8. CASE Environment
  BY <1>8, LinkSteps, AnswerCachedStep, RequestExpiresStep, ResetInventoryStep,
     SpoolSteps, IdentifyBeginsStep DEF Environment
<1>9. CASE UNCHANGED vars
  BY <1>9, Framed DEF Inv, vars
<1>10. QED
  BY <1>1, <1>2, <1>3, <1>4, <1>5, <1>6, <1>7, <1>8, <1>9 DEF Next

(* So it is in order for ever. *)
LEMMA Always == Spec => []Inv
  BY Initially, Inductive, PTL DEF Spec

(* Every variable keeps its type in every behaviour: answers that name a   *)
(* tag name a spool, and a running identify names a slot.                  *)
THEOREM TypeCorrect == Spec => []TypeOK
<1>1. Inv => TypeOK
  BY DEF Inv, InventoryOK, QueriesOK, RequestsOK, IdentOK, LinkOK, LanesOK,
         MemoryOK, BoundsOK, TypeOK
<1>2. QED
  BY Always, <1>1, PTL

(* No answer, late or for another lane, and no image, torn or not, brings a*)
(* temperature of an untrusted record into the inventory                   *)
(* (_handle_rfid_info_response, raw_temp_to_store).                        *)
THEOREM HeatTrusted == Spec => []HeatIsFromTag
<1>1. Inv => HeatIsFromTag
  BY DEF Inv, InventoryOK
<1>2. QED
  BY Always, <1>1, PTL

(* However lanes share antennas and records outlive spools, two lanes never*)
(* hold one decoded sku (_read_belongs_to_other_lane).                     *)
THEOREM SkuExclusive == Spec => []SkuHeldByOneLane
<1>1. Inv => SkuHeldByOneLane
  BY DEF Inv, InventoryOK
<1>2. QED
  BY Always, <1>1, PTL
-----------------------------------------------------------------------------
(* The background is quiet while an identify runs *)

(* identify_by_jog turns the background reads off before its first read and*)
(* on again only when it returns.                                          *)
Paused == ident.pc # "idle" => ~syncOn

(* The pause lasts as long as the identify.                                *)
LEMMA PauseLasts ==
  ASSUME Inv, Paused, [Next]_vars
  PROVE  Paused'
<1>1. CASE UNCHANGED <<syncOn, ident>>
  BY <1>1 DEF Paused
<1>2. CASE AnswerIdentify
  <2>1. ident \in Thread /\ ident.pc # "idle" /\ ~syncOn
    BY <1>2 DEF Inv, IdentOK, AnswerIdentify, Paused
  <2>2. (syncOn' = syncOn) \/ ident' = NoIdent
    BY <1>2 DEF AnswerIdentify, NothingNew, NewTag, IdentifyEnds
  <2>3. QED
    BY <2>1, <2>2 DEF Paused, NoIdent
<1>3. CASE IdentifyStep
  <2>1. ident.pc # "idle" /\ ~syncOn
    BY <1>3 DEF IdentifyStep, IdentifyUnanswered, JogAndRead, IdentifyGivesUp, Paused
  <2>2. (syncOn' = syncOn) \/ ident' = NoIdent
    BY <1>3 DEF IdentifyStep, IdentifyUnanswered, JogAndRead, IdentifyGivesUp,
                NothingNew, IdentifyEnds
  <2>3. QED
    BY <2>1, <2>2 DEF Paused, NoIdent
<1>4. CASE \E s \in Slots : IdentifyBegins(s)
  BY <1>4 DEF IdentifyBegins, Paused
<1>5. CASE Heartbeat \/ Connect \/ LinkDrops \/ RequestExpires \/ ResetInventory
  BY <1>1, <1>5 DEF Heartbeat, Connect, LinkDrops, RequestExpires, ResetInventory
<1>6. CASE AnswerLive \/ AnswerCached \/ AnswerOrphan \/ AnswerMisdelivered
  BY <1>1, <1>6 DEF AnswerLive, AnswerCached, AnswerOrphan, AnswerMisdelivered
<1>7. CASE WalkEnds \/ \E a \in late : ReplayLate(a)
  BY <1>1, <1>7 DEF WalkEnds, ApplyRawTagImage, ReplayLate
<1>8. CASE \/ \E s \in Slots : PreloadEnds(s) \/ SpoolOut(s)
           \/ \E s \in Slots, sp \in Spools : SpoolIn(s, sp)
  BY <1>1, <1>8 DEF PreloadEnds, SpoolOut, SpoolIn
<1>9. CASE UNCHANGED vars
  BY <1>1, <1>9 DEF vars
<1>10. QED
  BY <1>2, <1>3, <1>4, <1>5, <1>6, <1>7, <1>8, <1>9
     DEF Next, Answered, Environment

(* A frame asks for nothing while reads are paused.                        *)
LEMMA PausedFrameAsksNothing ==
  ASSUME Inv, ~syncOn, Heartbeat
  PROVE  wire' = wire
<1>1. Refreshed = {} /\ Detected = {}
  BY DEF Refreshed, Detected
<1>2. \A kind \in {"cached", "live"} : \A q \in InOrder({}) : Asks(kind, q) = <<>>
  <2>1. TAKE kind \in {"cached", "live"}
  <2>2. TAKE q \in InOrder({})
  <2>3. DOMAIN q = 1 .. 0
    BY FS_EmptySet DEF InOrder
  <2>4. Asks(kind, q) = [i \in 1 .. 0 |-> Ask(kind, q[i])]
    BY <2>3 DEF Asks
  <2>5. QED
    BY <2>4
<1>3. PICK next \in InOrder({}), new \in InOrder({}) :
        wire' = wire \o Asks("cached", next) \o Asks("live", new)
  BY <1>1 DEF Heartbeat
<1>4. wire' = wire \o <<>> \o <<>>
  BY <1>2, <1>3
<1>5. QED
  BY <1>4 DEF Inv, LinkOK

(* An answer puts at most its own fallback on the wire.                    *)
LEMMA AnswersDoNotAdd ==
  ASSUME Inv,
         \/ AnswerLive \/ AnswerCached \/ AnswerMisdelivered \/ RequestExpires
         \/ AnswerOrphan \/ AnswerIdentify
  PROVE  Len(wire') <= Len(wire)
<1> DEFINE s == Head(wire).slot
<1>1. wire # <<>>
  BY DEF AnswerLive, AnswerCached, AnswerMisdelivered, RequestExpires,
         AnswerOrphan, AnswerIdentify, Served
<1>2. /\ wire \in Seq(Request) /\ Tail(wire) \in Seq(Request)
      /\ Len(Tail(wire)) = Len(wire) - 1 /\ Len(wire) \in Nat
  BY <1>1 DEF Inv, LinkOK
<1>3. wire' = Tail(wire) \/ wire' = Append(Tail(wire), Ask("cached", s))
  BY DEF AnswerLive, AnswerCached, AnswerMisdelivered, RequestExpires,
         AnswerOrphan, AnswerIdentify
<1>4. Ask("cached", s) \in Request
  BY <1>1, HeadType DEF Inv, Ask, Request
<1>5. Len(Append(Tail(wire), Ask("cached", s))) = Len(wire)
  BY <1>2, <1>4, AppendProperties
<1>6. QED
  BY <1>2, <1>3, <1>5

(* While an identify jogs and reads, no frame and no answer puts a read of *)
(* another origin on the wire ("background sync tears identify reads -     *)
(* pause it", identify_by_jog).                                            *)
THEOREM BackgroundPaused == Spec => QuietDuringIdentify
<1>1. Init => Paused
  BY DEF Init, Paused, NoIdent
<1>2. Inv /\ Paused /\ [Next]_vars
        => [ident.pc # "idle" /\ ident' = ident => Len(wire') <= Len(wire)]_vars
  <2> SUFFICES ASSUME Inv, Paused, Next, ident.pc # "idle", ident' = ident
               PROVE  Len(wire') <= Len(wire)
    OBVIOUS
  <2>1. ~syncOn /\ ident \in Thread /\ Len(wire) \in Nat
    BY DEF Paused, Inv, IdentOK, LinkOK
  <2>2. CASE wire' = wire
    BY <2>1, <2>2
  <2>3. CASE Heartbeat
    BY <2>1, <2>2, <2>3, PausedFrameAsksNothing
  <2>4. CASE \/ Answered \/ AnswerMisdelivered \/ RequestExpires
    BY <2>4, AnswersDoNotAdd DEF Answered
  <2>5. CASE IdentifyStep
    <3>1. ident'.pc = ident.pc
      OBVIOUS
    <3>2. CASE IdentifyUnanswered
      BY <2>1, <3>1, <3>2 DEF IdentifyUnanswered, NothingNew, Thread
    <3>3. CASE JogAndRead
      BY <2>1, <3>1, <3>3 DEF JogAndRead, Thread
    <3>4. CASE IdentifyGivesUp
      BY <2>2, <3>4 DEF IdentifyGivesUp
    <3>5. QED
      BY <2>5, <3>2, <3>3, <3>4 DEF IdentifyStep
  <2>6. CASE \E t \in Slots : IdentifyBegins(t)
    BY <2>6 DEF IdentifyBegins
  <2>7. CASE LinkDrops
    BY <2>1, <2>7 DEF LinkDrops
  <2>8. CASE Connect \/ ResetInventory \/ WalkEnds \/ \E a \in late : ReplayLate(a)
    BY <2>2, <2>8 DEF Connect, ResetInventory, WalkEnds, ApplyRawTagImage, ReplayLate
  <2>9. CASE \/ \E t \in Slots : PreloadEnds(t) \/ SpoolOut(t)
             \/ \E t \in Slots, sp \in Spools : SpoolIn(t, sp)
    BY <2>2, <2>9 DEF PreloadEnds, SpoolOut, SpoolIn
  <2>10. QED
    BY <2>3, <2>4, <2>5, <2>6, <2>7, <2>8, <2>9 DEF Next, Environment
<1>3. QED
  BY Always, PauseLasts, <1>1, <1>2, PTL DEF Spec, QuietDuringIdentify
=============================================================================
