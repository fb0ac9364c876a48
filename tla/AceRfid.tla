------------------------------- MODULE AceRfid -------------------------------
(***************************************************************************)
(* RFID reads and spool identity of one AceInstance (klipper/instance.py). *)
(*                                                                         *)
(* A lane's spool is named by its tag.  Two lanes share one antenna, one   *)
(* page buffer serves the whole unit, a tag is readable only while its     *)
(* spool turns, and the unit keeps a record of the last tag of every lane  *)
(* that outlives the spool.  Out of these the driver makes an inventory    *)
(* that names the spool and seeds the heater.                              *)
(*                                                                         *)
(* Actors: the heartbeat callback (detects a tag, asks for it, refreshes   *)
(* after a reconnect), the answers of the serial queue, the walk that      *)
(* copies a raw tag image in 144 paced requests, the operator's identify   *)
(* command, the device and the operator's hands.                           *)
(***************************************************************************)
EXTENDS Integers, Sequences, FiniteSets

CONSTANTS
  NumSlots,      \* SLOT_COUNT
  Spools,        \* the spools; a spool and its tag are one
  Form,          \* what a read of a spool's tag returns, see Forms
  None,          \* no slot, no spool
  MaxRetry,      \* RFID_XLANE_MAX_RETRY
  Crosstalk,     \* the antenna may answer with the neighbour's tag
  SharedBus,     \* transport_spec.shared_bus: late answers are replayed
  IndexOmitted,  \* firmware that leaves the slot index out of its answers
  Idents,        \* bound: identify commands in a behaviour
  MaxJogs,       \* bound: jogs an identify has room for
  MaxSwaps,      \* bound: spools put in or taken out
  MaxFaults      \* bound: lost or late answers, dropped links

(* What an answer's version and fields amount to: a plausible Anycubic     *)
(* decode with or without a spool number; version 101 with a clean injected*)
(* sku among impossible fields, or without one; 514 with a sku, or         *)
(* without; 515 with a clean sku, or without; a UID; another version; and  *)
(* a spool without a tag.                                                  *)
Forms == { "native", "blank", "dirty", "garbage", "rawSku", "raw", "injected",
           "badInjected", "uid", "foreign", "none" }

ASSUME NumSlotsIsPos == NumSlots \in Nat \ {0}
ASSUME FormIs        == Form \in [Spools -> Forms]
ASSUME NoneIsNoThing == None \notin Spools /\ None \notin Nat
ASSUME SwitchesAre   == /\ Crosstalk \in BOOLEAN
                        /\ SharedBus \in BOOLEAN
                        /\ IndexOmitted \in BOOLEAN
ASSUME LimitsAreNat  == /\ MaxRetry \in Nat /\ Idents \in Nat /\ MaxJogs \in Nat
                        /\ MaxSwaps \in Nat /\ MaxFaults \in Nat

Slots        == 0 .. NumSlots - 1
SpoolOrNone  == Spools \cup {None}
Reader(s)    == s \div 2
Neighbour(s) == IF s % 2 = 0 THEN s + 1 ELSE s - 1

(* The slots of S in the order a loop over range(SLOT_COUNT) meets them *)
InOrder(S) == {q \in [1 .. Cardinality(S) -> S] :
                 \A i, j \in DOMAIN q : i < j => q[i] < q[j]}
AllSlots   == [i \in 1 .. NumSlots |-> i - 1]

VARIABLES
  \* driver
  inv,        \* inventory: status, rfid, sku and where it came from, temperatures
  pendingQ,   \* _pending_rfid_queries
  refreshDue, \* _pending_rfid_refresh
  refresh,    \* _pending_rfid_refresh_slots
  slotUid,    \* _slot_uid
  xlane,      \* _rfid_xlane_retry, counted up to MaxRetry + 1
  syncOn,     \* rfid_inventory_sync_enabled
  ident,      \* identify_by_jog; holds _reader_id_owner while it runs
  walks,      \* raw images under way: the slot, and the tags copied from
  \* link
  linkUp, wire,
  late,       \* answers that have missed their request
  \* device
  spool,      \* what is in each lane
  phase,      \* its state: "empty", "loading" or "ready"
  seen,       \* the status frame reports a tag
  rec,        \* the record of the lane's last read, served by command 13
  buffer,     \* whose pages are in the page buffer of the unit
  \* history and bounds
  boundUid,   \* the UID handed over for a lane since it last changed spools
  asked,      \* lanes the refresh has asked for since the last connect
  tenants,    \* spools near a lane since a frame last showed it empty
  idents, swaps, faults

inventory == <<inv, slotUid, boundUid, xlane>>
queries   == <<pendingQ, walks>>
requests  == <<refreshDue, refresh, asked>>
lanes     == <<spool, phase, seen, tenants>>
memory    == <<rec, buffer>>
bounds    == <<idents, swaps, faults>>
vars      == <<inventory, queries, requests, syncOn, ident, linkUp, wire, late,
               lanes, memory, bounds>>

(* An orphan is an identify read whose caller has stopped waiting. *)
Request == [kind : {"live", "cached", "identify", "orphan"}, slot : Slots]
Ask(kind, s) == [kind |-> kind, slot |-> s]

(* An answer: `read' is code 0, `rfid' a tag was identified, `index' the   *)
(* slot it names (0 when left out).                                        *)
Answer == {a \in [read : BOOLEAN, rfid : BOOLEAN, index : Slots,
                   tag : SpoolOrNone] : a.rfid => a.tag # None}

Entry == [status : {"empty", "loading", "ready"}, rfid : BOOLEAN,
          sku : SpoolOrNone, src : {"none", "decode", "image"},
          heat : {"default", "tag", "splice", "garbage"}]

Walk == [slot : Slots, tags : SUBSET Spools]

Thread == {t \in [pc : {"idle", "base", "jog", "read"}, slot : Slots \cup {None},
                   base : {"none"} \cup Forms \cup Spools, jogs : 0 .. MaxJogs,
                   prev : BOOLEAN] :
             t.pc # "idle" => t.slot # None}

TypeOK ==
  /\ inv \in [Slots -> Entry]
  /\ pendingQ \in SUBSET Slots
  /\ refreshDue \in BOOLEAN
  /\ refresh \in Seq(Slots)
  /\ slotUid \in [Slots -> SpoolOrNone]
  /\ boundUid \in [Slots -> SpoolOrNone]
  /\ xlane \in [Slots -> 0 .. MaxRetry + 1]
  /\ syncOn \in BOOLEAN
  /\ ident \in Thread
  /\ walks \in Seq(Walk)
  /\ linkUp \in BOOLEAN
  /\ wire \in Seq(Request)
  /\ late \in SUBSET Answer
  /\ spool \in [Slots -> SpoolOrNone]
  /\ phase \in [Slots -> {"empty", "loading", "ready"}]
  /\ seen \in [Slots -> BOOLEAN]
  /\ rec \in [Slots -> SpoolOrNone]
  /\ buffer \in SpoolOrNone
  /\ asked \in SUBSET Slots
  /\ tenants \in [Slots -> SUBSET Spools]
  /\ idents \in Nat /\ swaps \in Nat /\ faults \in Nat

Untagged == [status |-> "empty", rfid |-> FALSE, sku |-> None, src |-> "none",
             heat |-> "default"]
NoIdent  == [pc |-> "idle", slot |-> None, base |-> "none", jogs |-> 0,
             prev |-> TRUE]

(* The driver starts before the link is up and knows nothing. *)
Init ==
  /\ inv = [s \in Slots |-> Untagged]
  /\ pendingQ = {} /\ refreshDue = FALSE /\ refresh = <<>> /\ asked = {}
  /\ slotUid = [s \in Slots |-> None] /\ boundUid = [s \in Slots |-> None]
  /\ xlane = [s \in Slots |-> 0]
  /\ syncOn = TRUE /\ ident = NoIdent
  /\ walks = <<>> /\ linkUp = FALSE /\ wire = <<>> /\ late = {}
  /\ spool = [s \in Slots |-> None]
  /\ phase = [s \in Slots |-> "empty"]
  /\ seen = [s \in Slots |-> FALSE]
  /\ rec = [s \in Slots |-> None] /\ buffer = None
  /\ tenants = [s \in Slots |-> {}]
  /\ idents = 0 /\ swaps = 0 /\ faults = 0

-----------------------------------------------------------------------------
(* Attribution *)

(* reply_index_matches: 0 may be a real slot 0 or no index at all. *)
ReplyIndexMatches(index, s) == index = 0 \/ index = s

(* Mutant: the check forgets the reader's own pair. *)
BelongsToOtherReader(s, sku) ==
  sku # None /\ \E t \in Slots : Reader(t) # Reader(s) /\ inv[t].sku = sku

(* _read_belongs_to_other_lane *)
BelongsToOtherLane(s, sku) ==
  sku # None /\ \E t \in Slots \ {s} : inv[t].sku = sku

(* anticollision_ok against what the neighbour last presented *)
Collides(s, uid) ==
  Neighbour(s) \in Slots /\ slotUid[Neighbour(s)] = uid

(* Mutant: whatever carries version 101 is taken for an Anycubic tag. *)
Trusts101(form) == form \in {"native", "blank", "dirty"}

(* classify_tag_version and the plausibility gate: whose positional fields *)
(* are trusted, whose sku only, and whose tag has to be fetched and parsed.*)
TrustsFields(form) == form \in {"native", "blank"}
TrustsSku(form)    == form \in {"dirty", "rawSku", "injected"}
NeedsImage(form)   == form \in {"garbage", "raw", "foreign"}

SkuOf(tag) ==
  IF Form[tag] \in {"native", "dirty", "rawSku", "injected"} THEN tag ELSE None

(* What the positional fields of a form are worth *)
Worth(form) == IF form \in {"native", "blank"} THEN "tag" ELSE "garbage"

-----------------------------------------------------------------------------
(* _handle_rfid_info_response.  `ws' are the walks and `pages' the page    *)
(* buffer once the answered read is over.                                  *)

Settle(s, ws) ==
  /\ pendingQ' = pendingQ \ {s}
  /\ walks' = ws
  /\ UNCHANGED inventory

(* _fetch_raw_tag_image holds the slot for the whole walk. *)
FetchRawTagImage(s, ws, pages) ==
  /\ pendingQ' = pendingQ \cup {s}
  /\ walks' = Append(ws, [slot |-> s, tags |-> {pages} \ {None}])
  /\ UNCHANGED inventory

(* Refusals are told apart up to the first that gives up. *)
OneMore(n) == IF n > MaxRetry THEN n ELSE n + 1

(* Mutant: every refusal reopens the gate. *)
RefuseReadAlways(s) ==
  /\ xlane' = xlane
  /\ inv' = [inv EXCEPT ![s].rfid = FALSE]

(* Another lane holds the sku: the read is refused and, a few times over,  *)
(* the re-read gate reopened.                                              *)
RefuseRead(s) ==
  LET n == OneMore(xlane[s])
  IN  /\ xlane' = [xlane EXCEPT ![s] = n]
      /\ inv' = [inv EXCEPT ![s].rfid = @ /\ n > MaxRetry]

(* The carve-outs trust the sku alone, and no temperature.                 *)
AcceptRead(s, tag) ==
  /\ xlane' = [xlane EXCEPT ![s] = 0]
  /\ inv' = [inv EXCEPT
       ![s].sku  = IF SkuOf(tag) # None THEN SkuOf(tag) ELSE @,
       ![s].src  = IF SkuOf(tag) # None THEN "decode" ELSE @,
       ![s].heat = IF TrustsFields(Form[tag]) THEN Worth(Form[tag]) ELSE @]

BindSku(s, tag, ws) ==
  /\ pendingQ' = pendingQ \ {s}
  /\ walks' = ws
  /\ IF BelongsToOtherLane(s, SkuOf(tag))
       THEN RefuseRead(s) ELSE AcceptRead(s, tag)
  /\ UNCHANGED <<slotUid, boundUid>>

(* _consume_uid_tag and _anticollision_clear: the UID is noted before the  *)
(* verdict.                                                                *)
ConsumeUidTag(s, uid, ws) ==
  /\ pendingQ' = pendingQ \ {s}
  /\ walks' = ws
  /\ slotUid' = [slotUid EXCEPT ![s] = uid]
  /\ boundUid' = IF Collides(s, uid) THEN boundUid
                                     ELSE [boundUid EXCEPT ![s] = uid]
  /\ UNCHANGED <<inv, xlane>>

HandleInfo(s, a, ws, pages) ==
  \/ /\ ~(a.read /\ a.rfid) \/ ~ReplyIndexMatches(a.index, s)
     /\ Settle(s, ws)
  \/ /\ a.read /\ a.rfid /\ ReplyIndexMatches(a.index, s)
     /\ LET form == Form[a.tag]
        IN  \/ /\ TrustsFields(form) \/ TrustsSku(form)
               /\ BindSku(s, a.tag, ws)
            \/ NeedsImage(form) /\ FetchRawTagImage(s, ws, pages)
            \/ form = "uid" /\ ConsumeUidTag(s, a.tag, ws)
            \/ form = "badInjected" /\ Settle(s, ws)

-----------------------------------------------------------------------------
(* The tags in the field of a lane's antenna *)
Near(s) == {spool[t] : t \in {u \in Slots : \/ u = s
                                            \/ Crosstalk /\ Reader(u) = Reader(s)}}
             \ {None}
InField(s) == {sp \in Near(s) : Form[sp] # "none"}

IndexOf(s) == IF IndexOmitted THEN {0} ELSE {s}

ReadOf(s, i, tag) == [read |-> TRUE, rfid |-> TRUE, index |-> i, tag |-> tag]
Cached(s, i) == [read |-> TRUE, rfid |-> rec[s] # None, index |-> i,
                 tag |-> rec[s]]

(* Pages of a tag that answers a page read go to the one page buffer, under*)
(* the walks that are copying it.                                          *)
Pages(tag)   == IF Form[tag] = "uid" THEN buffer ELSE tag
Spliced(tag) == IF Form[tag] = "uid" THEN walks
                ELSE [i \in DOMAIN walks |->
                        [walks[i] EXCEPT !.tags = @ \cup {tag}]]

ReadsTag(s, tag) ==
  /\ buffer' = Pages(tag)
  /\ rec' = [rec EXCEPT ![s] = tag]

-----------------------------------------------------------------------------
(* The serial queue executes the head and runs its callback. *)

Served(kind) == linkUp /\ wire # <<>> /\ Head(wire).kind = kind

(* after_live: a read that fails falls back to the cached record. *)
AnswerLive ==
  LET s == Head(wire).slot
  IN
  /\ Served("live")
  /\ \/ \E tag \in InField(s), i \in IndexOf(s) :
          /\ ReadsTag(s, tag)
          /\ HandleInfo(s, ReadOf(s, i, tag), Spliced(tag), Pages(tag))
          /\ wire' = Tail(wire)
     \/ /\ wire' = Append(Tail(wire), Ask("cached", s))
        /\ pendingQ' = pendingQ \cup {s}
        /\ UNCHANGED <<inventory, walks, memory>>
  /\ UNCHANGED <<requests, syncOn, ident, linkUp, late, lanes, bounds>>

AnswerCached ==
  LET s == Head(wire).slot
  IN
  /\ Served("cached")
  /\ wire' = Tail(wire)
  /\ \E i \in IndexOf(s) : HandleInfo(s, Cached(s, i), walks, buffer)
  /\ UNCHANGED <<requests, syncOn, ident, linkUp, late, lanes, memory, bounds>>

(* The answer to another lane's query reaches this lane's callback. *)
AnswerMisdelivered ==
  LET s == Head(wire).slot
  IN
  /\ Served("cached")
  /\ faults < MaxFaults /\ faults' = faults + 1
  /\ wire' = Tail(wire)
  /\ \E t \in Slots \ {s} : \E i \in IndexOf(t) :
       HandleInfo(s, Cached(t, i), walks, buffer)
  /\ UNCHANGED <<requests, syncOn, ident, linkUp, late, lanes, memory, idents,
                 swaps>>

(* The transport gives a request up without its callback; its answer may   *)
(* come later.                                                             *)
RequestExpires ==
  LET s == Head(wire).slot
  IN
  /\ linkUp /\ wire # <<>>
  /\ faults < MaxFaults /\ faults' = faults + 1
  /\ wire' = Tail(wire)
  /\ \/ UNCHANGED late
     \/ /\ SharedBus /\ Head(wire).kind = "cached"
        /\ \E i \in IndexOf(s) : late' = late \cup {Cached(s, i)}
  /\ UNCHANGED <<inventory, queries, requests, syncOn, ident, linkUp, lanes,
                 memory, idents, swaps>>

(* handle_shared_bus_filament_info_response *)
ReplayLate(a) ==
  /\ a \in late
  /\ late' = late \ {a}
  /\ IF a.index \in pendingQ
       THEN HandleInfo(a.index, a, walks, buffer)
       ELSE UNCHANGED <<inventory, queries>>
  /\ UNCHANGED <<requests, syncOn, ident, linkUp, wire, lanes, memory, bounds>>

-----------------------------------------------------------------------------
(* _apply_raw_tag_image, at the end of a walk *)

(* What a parser makes of an image: the sku it names, whether the format   *)
(* is a real one that may heat (mutant: any plausible value may), whether  *)
(* it is Anycubic's; what a temperature from an image is worth.            *)
ImageSku(tag)  == IF Form[tag] \in {"garbage", "raw"} THEN tag ELSE SkuOf(tag)
ImageHeatsIfPlausible(tag) == Form[tag] # "none"
ImageHeats(tag) == Form[tag] \notin {"foreign", "none", "uid"}
IsAnycubic(tag) == Form[tag] \in {"native", "blank"}

HeatOf(tag, tags) ==
  IF Form[tag] = "foreign" THEN "garbage"
  ELSE IF Cardinality(tags) = 1 THEN "tag" ELSE "splice"

(* The image is copied from the pages of `tags'; a splice of two images of *)
(* one format passes the structural check and may name either; another may *)
(* render nothing.                                                         *)
RenderImage(s, tags) ==
  \E tag \in tags :
    /\ ~IsAnycubic(tag)
    /\ inv' = [inv EXCEPT
       ![s].sku  = IF ImageSku(tag) # None THEN ImageSku(tag) ELSE @,
       ![s].src  = IF ImageSku(tag) # None THEN "image" ELSE @,
       ![s].heat = IF ImageHeats(tag) THEN HeatOf(tag, tags) ELSE @]

(* Mutant: an image that is dropped keeps the hold. *)
ApplyRawTagImageLeaks(i) ==
  LET w == walks[i]
  IN
  /\ i \in DOMAIN walks
  /\ walks' = [j \in 1 .. Len(walks) - 1 |-> walks[IF j < i THEN j ELSE j + 1]]
  /\ \/ RenderImage(w.slot, w.tags) /\ pendingQ' = pendingQ \ {w.slot}
     \/ /\ Cardinality(w.tags) # 1 \/ \E tag \in w.tags : IsAnycubic(tag)
        /\ UNCHANGED <<inv, pendingQ>>
  /\ UNCHANGED <<slotUid, boundUid, xlane, requests, syncOn, ident,
                 linkUp, wire, late, lanes, memory, bounds>>

ApplyRawTagImage(i) ==
  LET w == walks[i]
  IN
  /\ i \in DOMAIN walks
  /\ walks' = [j \in 1 .. Len(walks) - 1 |-> walks[IF j < i THEN j ELSE j + 1]]
  /\ pendingQ' = pendingQ \ {w.slot}
  /\ \/ RenderImage(w.slot, w.tags)
     \/ /\ Cardinality(w.tags) # 1 \/ \E tag \in w.tags : IsAnycubic(tag)
        /\ UNCHANGED inv
  /\ UNCHANGED <<slotUid, boundUid, xlane, requests, syncOn, ident,
                 linkUp, wire, late, lanes, memory, bounds>>

-----------------------------------------------------------------------------
(* _status_update_callback: the RFID part of a status frame *)

ReaderLocked(s) == ident.pc # "idle" /\ Reader(ident.slot) = Reader(s)

(* Mutant: the last lane is left out. *)
RefreshQueueShort ==
  IF refreshDue /\ syncOn THEN SubSeq(AllSlots, 1, NumSlots - 1)
  ELSE refresh

(* The flag of the last connect is consumed whether or not reads are on.   *)
RefreshQueue == IF refreshDue /\ syncOn THEN AllSlots ELSE refresh

(* Mutant: the refresh goes on while an identify has paused the reads. *)
RefreshedUnpaused == IF RefreshQueue # <<>> /\ pendingQ = {}
                       THEN {Head(RefreshQueue)} ELSE {}

(* One lane of the refresh is asked for per frame, when no query is out.   *)
Refreshed == IF syncOn /\ RefreshQueue # <<>> /\ pendingQ = {}
               THEN {Head(RefreshQueue)} ELSE {}

ShownEmpty == {s \in Slots : phase[s] = "empty"}

(* empty to ready without a tag, on a lane that had one *)
ShownSwapped == {s \in Slots : /\ inv[s].status = "empty" /\ inv[s].rfid
                               /\ phase[s] = "ready" /\ ~seen[s]}

(* A tag where there was none: it is in the coil now. *)
Detected == {s \in Slots \ (pendingQ \cup Refreshed) :
               /\ phase[s] = "ready" /\ seen[s] /\ ~inv[s].rfid
               /\ syncOn /\ ~ReaderLocked(s)}

(* The identity goes with the spool; the temperature is kept for an        *)
(* endless-spool refill while printing.                                    *)
Forgotten(s, printing) ==
  [Untagged EXCEPT !.heat = IF printing THEN inv[s].heat ELSE @]

ShownInventory(printing) ==
  [s \in Slots |->
     CASE s \in ShownEmpty   -> Forgotten(s, printing)
       [] s \in ShownSwapped -> [Forgotten(s, TRUE) EXCEPT !.status = phase[s]]
       [] OTHER -> [inv[s] EXCEPT !.status = phase[s],
                                  !.rfid = @ \/ s \in Detected]]

Asks(kind, q) == [i \in DOMAIN q |-> Ask(kind, q[i])]

Heartbeat ==
  /\ linkUp
  /\ \E printing \in BOOLEAN : inv' = ShownInventory(printing)
  /\ refreshDue' = FALSE
  /\ refresh' = IF Refreshed = {} THEN RefreshQueue ELSE Tail(RefreshQueue)
  /\ asked' = asked \cup Refreshed
  /\ pendingQ' = ((pendingQ \cup Refreshed) \ (ShownEmpty \cup ShownSwapped))
                   \cup Detected
  /\ \E next \in InOrder(Refreshed), new \in InOrder(Detected) :
       wire' = wire \o Asks("cached", next) \o Asks("live", new)
  /\ tenants' = [s \in Slots |-> IF s \in ShownEmpty THEN Near(s) ELSE tenants[s]]
  /\ UNCHANGED <<slotUid, boundUid, xlane, walks, syncOn, ident, linkUp,
                 late, spool, phase, seen, memory, bounds>>

(* reset_persistent_inventory *)
ResetInventory ==
  /\ swaps < MaxSwaps /\ swaps' = swaps + 1
  /\ inv' = [s \in Slots |-> Untagged]
  /\ UNCHANGED <<slotUid, boundUid, xlane, queries, requests, syncOn,
                 ident, linkUp, wire, late, lanes, memory, idents, faults>>

-----------------------------------------------------------------------------
(* identify_by_jog *)

IdentifyUnder(s) == [NoIdent EXCEPT !.pc = "base", !.slot = s, !.prev = syncOn]

(* Asked for a lane that holds a spool, is not the loaded tool and has room*)
(* to jog; background reads pause.                                         *)
IdentifyBegins(s) ==
  /\ ident.pc = "idle" /\ phase[s] = "ready"
  /\ idents < Idents /\ idents' = idents + 1
  /\ ident' = IdentifyUnder(s)
  /\ syncOn' = FALSE
  /\ wire' = Append(wire, Ask("identify", s))
  /\ UNCHANGED <<inventory, queries, requests, linkUp, late, lanes, memory,
                 swaps, faults>>

IdentifyEnds == ident' = NoIdent /\ syncOn' = ident.prev

(* _read_tag_key *)
TagKey(tag) ==
  IF SkuOf(tag) # None \/ Form[tag] = "uid" THEN tag ELSE Form[tag]

(* The read failed, or found the tag of the baseline: jog on. *)
NothingNew == ident' = [ident EXCEPT !.pc = "jog"] /\ UNCHANGED syncOn

(* A tag other than the baseline's goes to the normal decode path. *)
NewTag(s, a, tag) ==
  /\ HandleInfo(s, a, Spliced(tag), Pages(tag))
  /\ IF inv'[s].rfid /\ inv'[s].sku # None
       THEN IdentifyEnds ELSE NothingNew

AnswerIdentify ==
  LET s == ident.slot
  IN
  /\ Served("identify") /\ ident.pc \in {"base", "read"}
  /\ wire' = Tail(wire)
  /\ \/ NothingNew /\ UNCHANGED <<inventory, queries, memory>>
     \/ \E tag \in InField(s), i \in IndexOf(s) :
          /\ ReadsTag(s, tag)
          /\ \/ /\ ident.pc = "base"
                /\ ident' = [ident EXCEPT !.pc = "jog", !.base = TagKey(tag)]
                /\ walks' = Spliced(tag)
                /\ UNCHANGED <<inventory, pendingQ, syncOn>>
             \/ /\ ident.pc = "read" /\ TagKey(tag) = ident.base
                /\ NothingNew
                /\ walks' = Spliced(tag)
                /\ UNCHANGED <<inventory, pendingQ>>
             \/ /\ ident.pc = "read" /\ TagKey(tag) # ident.base
                /\ NewTag(s, ReadOf(s, i, tag), tag)
  /\ UNCHANGED <<requests, linkUp, late, lanes, bounds>>

(* The caller waits 1.5 s; the read may still be carried out later. *)
IdentifyUnanswered ==
  /\ ident.pc \in {"base", "read"}
  /\ NothingNew
  /\ wire' = [i \in DOMAIN wire |->
                IF wire[i].kind = "identify"
                  THEN [wire[i] EXCEPT !.kind = "orphan"] ELSE wire[i]]
  /\ UNCHANGED <<inventory, queries, requests, linkUp, late, lanes, memory,
                 bounds>>

AnswerOrphan ==
  LET s == Head(wire).slot
  IN
  /\ Served("orphan")
  /\ wire' = Tail(wire)
  /\ \/ UNCHANGED <<walks, memory>>
     \/ \E tag \in InField(s) : ReadsTag(s, tag) /\ walks' = Spliced(tag)
  /\ UNCHANGED <<inventory, pendingQ, requests, syncOn, ident, linkUp, late,
                 lanes, bounds>>

(* Mutant: the jogs do not stop at the end of the room. *)
JogOnAndRead ==
  /\ ident.pc = "jog"
  /\ ident' = [ident EXCEPT !.pc = "read", !.jogs = @ + 1]
  /\ wire' = Append(wire, Ask("identify", ident.slot))
  /\ UNCHANGED <<inventory, queries, requests, syncOn, linkUp, late, lanes,
                 memory, bounds>>

JogAndRead ==
  /\ ident.pc = "jog" /\ ident.jogs < MaxJogs
  /\ ident' = [ident EXCEPT !.pc = "read", !.jogs = @ + 1]
  /\ wire' = Append(wire, Ask("identify", ident.slot))
  /\ UNCHANGED <<inventory, queries, requests, syncOn, linkUp, late, lanes,
                 memory, bounds>>

IdentifyGivesUp ==
  /\ ident.pc = "jog" /\ ident.jogs = MaxJogs
  /\ IdentifyEnds
  /\ UNCHANGED <<inventory, queries, requests, linkUp, wire, late, lanes, memory,
                 bounds>>

-----------------------------------------------------------------------------
(* Link, device and operator *)

(* disconnect() clears the queue; a walk whose request was in it is over.  *)
LinkDrops ==
  /\ linkUp /\ faults < MaxFaults
  /\ faults' = faults + 1
  /\ linkUp' = FALSE
  /\ wire' = <<>>
  /\ walks' \in {<<>>, walks}
  /\ UNCHANGED <<inventory, pendingQ, requests, syncOn, ident, late, lanes,
                 memory, idents, swaps>>

(* _on_ace_connect *)
Connect ==
  /\ ~linkUp
  /\ linkUp' = TRUE
  /\ refreshDue' = TRUE
  /\ refresh' = <<>>
  /\ asked' = {}
  /\ UNCHANGED <<inventory, queries, syncOn, ident, wire, late, lanes, memory,
                 bounds>>

(* A spool goes into a lane; its tag passes the coil, and its neighbour's  *)
(* may answer instead, or nothing.  Or it is taken out: the lane's record  *)
(* stays.                                                                  *)
SpoolIn(s, sp) ==
  /\ swaps < MaxSwaps /\ swaps' = swaps + 1
  /\ phase[s] = "empty"
  /\ \A t \in Slots : spool[t] # sp
  /\ spool' = [spool EXCEPT ![s] = sp]
  /\ phase' = [phase EXCEPT ![s] = "loading"]
  /\ tenants' = [t \in Slots |->
                   IF t = s \/ (Crosstalk /\ Reader(t) = Reader(s))
                     THEN tenants[t] \cup {sp} ELSE tenants[t]]
  /\ UNCHANGED <<inventory, queries, requests, syncOn, ident, linkUp, wire, late,
                 seen, memory, idents, faults>>

PreloadEnds(s) ==
  /\ phase[s] = "loading"
  /\ phase' = [phase EXCEPT ![s] = "ready"]
  /\ \/ \E tag \in InField(s) :
          /\ ReadsTag(s, tag)
          /\ walks' = Spliced(tag)
          /\ seen' = [seen EXCEPT ![s] = TRUE]
     \/ seen' = [seen EXCEPT ![s] = FALSE] /\ UNCHANGED <<memory, walks>>
  /\ UNCHANGED <<inventory, pendingQ, requests, syncOn, ident, linkUp, wire, late,
                 spool, tenants, bounds>>

SpoolOut(s) ==
  /\ swaps < MaxSwaps /\ swaps' = swaps + 1
  /\ phase[s] # "empty"
  /\ ident.slot # s
  /\ spool' = [spool EXCEPT ![s] = None]
  /\ phase' = [phase EXCEPT ![s] = "empty"]
  /\ seen' = [seen EXCEPT ![s] = FALSE]
  /\ boundUid' = [boundUid EXCEPT ![s] = None]
  /\ UNCHANGED <<inv, slotUid, xlane, queries, requests, syncOn, ident, linkUp,
                 wire, late, tenants, memory, idents, faults>>

-----------------------------------------------------------------------------
Answered == AnswerLive \/ AnswerCached \/ AnswerIdentify \/ AnswerOrphan

IdentifyStep == IdentifyUnanswered \/ JogAndRead \/ IdentifyGivesUp

WalkEnds == \E i \in DOMAIN walks : ApplyRawTagImage(i)

Environment ==
  \/ LinkDrops \/ AnswerMisdelivered \/ RequestExpires \/ ResetInventory
  \/ \E s \in Slots : SpoolOut(s) \/ IdentifyBegins(s)
  \/ \E s \in Slots, sp \in Spools : SpoolIn(s, sp)

Next ==
  \/ Heartbeat \/ Answered \/ WalkEnds \/ IdentifyStep \/ Connect
  \/ \E a \in late : ReplayLate(a)
  \/ \E s \in Slots : PreloadEnds(s)
  \/ Environment

Spec == Init /\ [][Next]_vars

(* The heartbeat timer and the walk's timer keep running, the queue drains,*)
(* an identify goes on, the link comes back and a preload ends.            *)
Fairness ==
  /\ WF_vars(Heartbeat) /\ WF_vars(Answered) /\ WF_vars(WalkEnds)
  /\ WF_vars(IdentifyStep) /\ WF_vars(Connect)
  /\ \A s \in Slots : WF_vars(PreloadEnds(s))

FairSpec == Spec /\ Fairness

-----------------------------------------------------------------------------
(* Properties *)

(* R1: no temperature from a record whose positional fields are not a real *)
(* Anycubic decode ever reaches the inventory, and so the heater, whatever *)
(* arrives, late, for another lane or from a splice                        *)
(* (_handle_rfid_info_response, raw_temp_to_store).                        *)
HeatIsFromTag == \A s \in Slots : inv[s].heat # "garbage"

(* Two lanes never name one spool by decoded tags, although their antenna  *)
(* is shared and records outlive spools (_read_belongs_to_other_lane).     *)
SkuHeldByOneLane ==
  \A s, t \in Slots :
    s # t /\ inv[s].src = "decode" /\ inv[t].src = "decode"
      => inv[s].sku # inv[t].sku

(* A lane that reads ready names a spool that has been near it since a     *)
(* frame last showed it empty; the refresh "ensures we have current data if*)
(* spools were changed during disconnect" (_on_ace_connect).               *)
NoStaleIdentity ==
  \A s \in Slots :
    inv[s].status = "ready" /\ inv[s].sku # None => inv[s].sku \in tenants[s]

(* "background sync tears identify reads - pause it" (identify_by_jog):    *)
(* while it runs, no status frame and no answer puts a read of another     *)
(* origin on the wire, fallbacks of reads already out excepted.            *)
QuietDuringIdentify ==
  [][ident.pc # "idle" /\ ident' = ident => Len(wire') <= Len(wire)]_vars

(* Every hold on a lane's reads is released in the end ("never leak the    *)
(* hold", _fetch_raw_tag_image).                                           *)
HoldsReleased == \A s \in Slots : s \in pendingQ ~> s \notin pendingQ

(* After a connect every lane with a tag is asked for ("Refreshes RFID data*)
(* for all slots with detected tags", _on_ace_connect).                    *)
RefreshReachesAll ==
  \A s \in Slots : linkUp /\ seen[s] ~> s \in asked \/ ~(linkUp /\ seen[s])

(* Once the operator's hands are off, reading ends: a lane that only hears *)
(* its neighbour gives up "rather than storming".                          *)
ReadingEnds == <>[](wire = <<>> /\ walks = <<>>)
=============================================================================
