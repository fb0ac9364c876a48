# TLA+ verification of the ACE 2 Pro Klipper driver

The repository drives Anycubic ACE filament units from Klipper and documents how
their firmware was taken apart. The control logic is `src/klipper/instance.py`: one
class, `AceInstance`, per unit. This directory holds TLA+ modules of that class, the
TLC runs that check them, and TLAPS proofs about them. Paths below are relative to
`src/`; bare line numbers are lines of `klipper/instance.py`.

State of the project: the claims of the assist, the RFID reads, the tandem extract, the
unload and the load with its push are modelled and checked, and every safety property of
theirs that a run checks is also a theorem, some under a hypothesis that section 8 names.
Section 2 says what is left.

## 1. Inventory

### 1.1 The actors

| Actor | What it does | Where |
|---|---|---|
| G-code thread | runs one command at a time; yields in every `reactor.pause`, `dwell` and `wait_ready` | all commands |
| heartbeat callback | takes every status frame, updates the inventory, reconciles and restores assists, starts RFID reads; may itself wait 5 s | 4239-4798 |
| serial queue | executes requests in order and runs their callbacks; a high-priority request goes first | external (`serial_manager`), used at 562-616 |
| raw tag walk | a reactor timer that copies 144 bytes of a tag in paced requests | 3668-3850 |
| connection supervision | drops and re-makes the link; `_on_ace_connect` runs on each connect | external, 4800-4900 |
| manager, macros | tool changes, `toolchange_in_progress`, the current tool index | external (`ace.manager`), used at 4682-4760 |
| unit and operator | firmware, spools, tags, power, cables | `docs/05`, `docs/07`, `docs/09` |

All Python runs on one reactor, so there is no preemption: interleavings happen at the
yields, and between a request and its callback. That is where the hazards are.

### 1.2 Components

| Component | State it keeps | Operations | What makes it correct |
|---|---|---|---|
| Assist claims (1160-1653, 4620-4902, 4922-5062, 5102) | `_feed_assist_index`, `_rollback_assist_index`, `_feed_assist_ack_pending`, topology position, the restore queue, the lost streak, the persisted index | enable, disable, motion guard, rollback start/stop, reset, reconcile, restore, connect, `get_status` | a claim names what the device does; one assist at a time; no motion against an assist; a lost assist is repaired or given up; a restore ends |
| RFID and spool identity (34-160, 618-1058, 3668-4188, part of 4239-4554) | `inventory` (rfid, sku, temperatures), `_pending_rfid_queries`, the refresh queue, `_slot_uid`, `_rfid_xlane_retry`, `_reader_id_owner` | detect, query, live read then cached, refresh after a reconnect, raw walk, UID hand-off, identify by jog | no heater temperature from bytes that are not a tag's; no spool in two lanes; the identity of a lane is that of the spool in it; every hold is released; reading ends |
| Verified starters and retract (1440-1549, 2091-2289, 2914, 3273-3326) | none between calls | retry a START until accepted, wait for the end, verify | a retried START does not run twice; a refusal is never taken for done |
| Tandem extract and load (1683-2045, 2305-2614, 3008-3132) | millimetres queued, the loading slot | crossing, tandem pull, seating | progress is judged against motion that happened; a failed load leaves the path free |
| Extruder push ledger (2616-2832) | delivered and commanded mm, hub encoder base | push in chunks, verify, recover | an encoder reset or jump neither fails nor passes a chunk |
| Unload (2955-3007, 3345-3653) | the captured assist | unload, restore the assist afterwards | what is re-armed is still wanted |
| Status and failure tracking (4239-4618) | inventory, failure streak, `_status_recovery_in_progress` | frame, failure, recovery | one recovery per outage, and another for the next |
| Request transport (413-616) | device ids, the transport | prepare, send, rebind, shared-bus heartbeat | a request reaches the unit it was made for |
| Tag policy and formats (34-160, `klipper/ace_tag_formats.py`) | none | classify, parse | a parser accepts no other vendor's layout |
| Single requests (drying, speeds, feed info) | none | one request each | - |
| Firmware side (`firmware/`), builders, tools, macros, panel mock-up | none, or files | offline | - |

Interactions. The motion of every component goes through the assist guard
(`_ensure_assists_off_for_motion`); every request goes through the serial queue; the
status frame feeds all of them; the walk and the identify hold the same reader; the
load names the lane that the restore may serve; tool changes forbid a restore.

The hard behaviours, each at its line, are the `hazards` of `PROJECT.json`.

## 2. Plan

Order: what moves filament or heats comes first, what only reports comes last.

| Module | What | State |
|---|---|---|
| `AceAssist`, `AceAssistProof`, `AceNominalProof` | assist claims | done |
| `AceRfid`, `AceRfidProof` | reads and spool identity | done |
| `AceUnit`, `AceUnitProof` | the motion channel every blocking command stands on: queue, unit, cached frame, faults | done |
| `AceTandem`, `ExtruderPull`, `AceTandemProof` | verified unwind and tandem pull, the abstract pull, the refinement | done |
| `AceUnload`, `AceUnloadProof` | blocking retract, both unloads, the assist given back | done |
| `AcePush`, `AceLoad`, `AcePushProof`, `AceLoadProof` | the push ledger, composed with the load, its recovery and the unpark | done |
| `AceClaim` | the abstract promise of the assist ("at most one activity, started and ended by somebody") that `AceAssist` without faults should implement | planned |
| `AceStatus` | the failure streak (4583-4618), the persisted inventory, the published outcome of an identify | planned |
| `TagPolicy` | the pure helpers 34-160 as operators against reference definitions over bounded inputs | planned |

`AceTandem`, `AceUnload` and `AcePush` extend `AceUnit`; `AceLoad` extends `AcePush` and
runs its ledger; `AceTandem` instantiates `ExtruderPull`. No module declares a RECURSIVE
operator. Invariants are conjunctions of named parts, one action stands for one operation
between two yields, and bounds are CONSTANTS. There is one run per module and question, a
dozen in all; where a disagreement with a comment is short to tell, the text tells it and
no run is spent on it.

Theorems still wanted: `HoldsInv` of the RFID queries (a hold without a request or a walk
comes only from a lost link), `StopDropsClaims` and the nominal properties of an ACE1, and
the refinement of `AceClaim`.

## 3. `AceAssist`: the assist claims

### 3.1 Model

**Correspondence.** `feedIdx`, `rollIdx`, `ackPending`, `topo`, `pending`, `attempts`,
`streak`, `loading`, `info` are attributes of the class (the comment beside each names
it). `g` is the program counter of the one G-code thread; it rests exactly where the code
yields: `enableWait`, `offWait`, `failWait` are `wait_ready`, `offTail` and `dwell` are
dwells, `await` is the 3 s poll of the verified starter. `restoring` holds the restores
that wait in the heartbeat. `wire` is the serial queue; `Transact` executes its head on
the device and runs the callback with the answer, so a callback always finds the memory
of that moment. `dev` is what the unit really does, per slot; `endedBehind` is history.

Every handler is one action per stretch between yields: `CallEnable`,
`EnableStopsRollback`, `EnableSatisfied`, `EnableClaims`, `EnableSends` are
`_enable_feed_assist` (1213-1319); `StartDisable`, `DisableSends`, `DisableEnds` are
`_disable_feed_assist`; `EnsureFeedOff`, `EnsureRollbackOff`, `MoveGoes` are the guard and
the motion behind it; `StarterGoes`, `StarterAccepted`, `StarterRetries` are
`_start_rollback_assist_verified`; `Heartbeat` is the callback with reconciliation and
restore, in the code's order; `Connect` is `_on_ace_connect`.

**Simplifications.** `feed_assist_active_after_ace_connect` is TRUE (its default). The
branches that fail open when the current tool index cannot be read are left out. A load
names its lane as the tool's in one step. Disconnecting clears the queue without
callbacks, as the driver's comment at 4943 has it. The refusal of commands shortly after
a STOP is one of the refusals a fault may cause. `Prompt` says that a dwell of a second
outlasts the queue and that an answer comes within 3 s: TRUE in the runs about claims
under normal operation, FALSE where late answers matter.

### 3.2 Runs

| Run | Shows |
|---|---|
| `nominal_ace2`, `nominal_ace1` | six calls in any order with the heartbeat and no fault: the feed claim is backed by the device or by a request under way (`FeedClaimBacked`), what `get_status` publishes is never a START that awaits its answer (`PublishedClaimBacked`), never two assists (`OneAssist`), motion reaches a device that does not assist (`MotionMeetsFreeDevice`), a STOP drops both claims of its lane (`StopDropsClaims`) |
| `faults` | an ACE1, three calls of any kind and two faults at any moment: a rollback claim is never forged (`RollbackClaimEarned`); also the inductive invariant of the proof (`RollbackInv`) |
| `live_ace2` | two faults, under fairness: a lost assist is repaired or its claim given up (`LostAssistRepaired`), a queued restore ends (`RestoreSettles`) |
| `toolchange` | counterexample: a restore that passed its tool-change check and waits for `ready` sends its START inside the tool change |

ACE1 and ACE2 differ where it hurts: an ACE2 is busy while it assists, an ACE1 stays
ready, so the same waits order different things. `OneAssist` and `LostAssistRepaired` are
claimed of the ACE2 only: one gear serves the whole ACE1, and its lost assist cannot be
seen in a frame (`_reconcile_feed_assist_state` returns early for it). The run with every
call and faults is an ACE1, whose waits before a STOP an ACE2 does not have; the theorem
of section 8 covers both units.

`_stop_feed` is called in `faults` only. It sends the opcode that ends an assist and
leaves its claim, against the docstring of `_clear_assist_claims_for_slot` ("ONE frame
stops them all", 1161), so `StopDropsClaims` is a property of the other stops.

The code disagrees with its comments in five more places, which no run is spent on. Each
shows as a short trace when the quoted sentence is stated as a property of `AceAssist`:
a claim is published while its enable waits for `ready`, before the START is sent (1236;
`PublishedClaimBacked` allows exactly that case); an enable acknowledged after a disable
leaves the persisted index set and the memory clear (1247); the refused re-enable of an
armed but idle assist drops the claim of a live assist (1284), and so does a lost answer,
after which the motion guard lets motion into the assisting unit; after a klippy restart the
assisting ACE2 is busy, every restore attempt defers, and the claim is never regained
(4784).

**Bounds.** Two slots: every rule tells apart "this lane" and "another". Six calls reach
enable, disable, rollback, stop, motion and one call more on either lane; two faults
at any moment of two or three calls cover a fault in a recovery.
`MaxWire = 2` keeps the heartbeat from queueing restores without end; commands are not
bounded by it. Attempts are two instead of three and more: the loops have a first and a
last round, and a round in between repeats the first. The safety runs are symmetric in the
slots (no operator names one), the liveness runs do not use symmetry.

**Fairness.** Weak fairness of the reactor's timers (thread, heartbeat, waiting restores),
of the queue, of `Connect` (the supervision reconnects), of the end of an RFID read or
preload of the unit, and of the end of a tool change. Nothing forces a call or a fault.

## 4. `AceRfid`: reads and spool identity

### 4.1 Model

**Correspondence.** `inv` keeps, per lane, the status, the `rfid` flag, the sku and where
it came from, and the worth of the temperatures (`heat`): `"default"`, of a `"tag"`, or
`"garbage"`, bytes of another layout read as temperatures. A spool is its tag; `Form` says
what a read of it amounts to, one value per branch of the version classification and the
plausibility gate. `pendingQ`, `refreshDue`, `refresh`, `slotUid`, `xlane`, `syncOn` are
attributes of the class. `walks` are raw images under way, each with the tags its bytes come from: more than
one is a splice. `rec` is the unit's record of the lane's last read, `buffer` its one page
buffer: reads by preload, by identify or by another lane write both.

`HandleInfo` is `_handle_rfid_info_response` (634-972), its disjuncts the branches of the
code in order; `AnswerLive`, `AnswerCached`, `AnswerIdentify`, `AnswerOrphan` run it, or
what else the answer's callback does; `Heartbeat` is the RFID part of
`_status_update_callback` with the refresh of the reconnect; `ApplyRawTagImage` is the end
of a walk; `IdentifyBegins` to `IdentifyGivesUp` are `identify_by_jog`, resting where it
waits for a read or jogs.

**Simplifications.** The antenna, the record and the page buffer are external, modelled
from what the driver says and does about them. A misdelivered answer and a request given
up without a callback are faults of the external serial manager. An identify is asked for
a ready lane; the room to jog is `MaxJogs`, and the motion of the jogs is the matter of
`AceAssist`. The hand-off of a UID to the resolver is `boundUid`. A heat of `"splice"`
(an image of two tags of one format that still parses) is a temperature of that format
and not garbage: `HeatIsFromTag` allows it. Colour, brand and amounts are left out. A klippy restart and
the persisted inventory belong to `AceStatus`. `xlane` counts to one more than the limit, where its value is no longer
told apart.

### 4.2 Runs

| Run | Shows |
|---|---|
| `rfid_untrusted` | three lanes on two antennas; a record whose sku alone is trusted, and a foreign tag whose image is fetched; answers without an index; a fault (lost, late or misdelivered answer, dropped link): no garbage temperature (`HeatIsFromTag`), no sku held twice (`SkuHeldByOneLane`) |
| `rfid_identify` | an identify with its jogs, timeouts and late answers against reads in flight, a UID, a bad injected sku: nothing else is put on the wire (`QuietDuringIdentify`), the jogs stay in their room (`TypeOK`) |
| `rfid_live` | without faults, under fairness: every hold is released, the refresh reaches every tagged lane, and reading ends (a lane that hears its neighbour gives up) |
| `rfid_stale` | counterexample: the refresh gives an emptied lane the record of the spool that left, and the next spool its identity |

Further sentences of the code that it does not keep, seen in traces of this model and not
kept as runs: a refused UID overwrites the evidence of the accepted one, and the
neighbour binds it too (1021); a query lost with the link keeps its hold, and the refresh
after the reconnect never starts (4279); a raw walk holds its own slot only, so another lane's live read starts in
the middle of it (3694), and an identity is written from a spliced image before `intact`
is looked at (3825 before 3834); a lane that adopts its neighbour's tag first makes the
neighbour's own read refused (875); a fresh spool inherits the retry streak of the one
before (877); a late answer without an index is applied to slot 0 (1064); an identify that
only started a walk reports the old identity as its own, and one that binds a lane whose
preload read failed reports it unidentified (4099); a frame during an identify consumes
the refresh request of a reconnect without acting on it (4270). One more is seen in the
code alone: a read trusted for its sku only ("drop everything else", 763) still writes
colour, icon, diameter and amounts (908).

**Bounds.** Two lanes share an antenna; the third, in `rfid_untrusted`, is on another, so
that the sku rule is tried across antennas (the mutant that compares within the antenna
only must be caught there). Two or three spools carry the forms a run is about. Two swaps
fill two lanes or move a spool out of one; the third, where identity goes stale, brings
the next spool. One fault is enough to lose, delay or misdeliver an answer at any moment.
One retry reaches the last try and the give-up. One jog, with the baseline before it,
gives a first and a last read.

**Fairness.** Weak fairness of the heartbeat timer, the queue, the walk's timer, the
identify thread, the reconnect and the end of a preload. Operators, faults and identify
commands are never forced. The order in which the queue serves is the order of the code:
a sequence, not a choice.

## 5. `AceUnit`, `AceTandem`, `ExtruderPull`: the tandem extract

### 5.1 Model

**The channel.** `AceUnit` is what a blocking command of one lane stands on. `motor`,
`window`, `slot` are the unit: what it does on the lane, whether a stop is recent, the
state of the slot. `queue` is the serial queue, its requests marked `live` while somebody
still reads their callback; `answer` is the `response_container` of the attempt that is
awaited; `frame` is `_info`, refreshed by `Heartbeat`. The unit is not in the repository:
`Transact` gives it every behaviour the driver's comments record (FORBIDDEN while a move
runs or after a stop, "acknowledged and IGNORED" in the same while or under an assist, a
second command that disrupts the first). Faults are a lost request, a lost answer, a motor
that stops itself with a slot error, and the end of the spool; `MaxFaults` bounds them.

**The pull.** `AceTandem` is `_tandem_extract` (1683-2045) with `_retract_async_verified`
(1440-1549). `pc` rests where the code yields: `starter` and `await` in the verified
starter, `loop`, `confirm`, `push`, `check`, `margin`, `finish` in the loop and behind it.
Three actors move: the unit, the command, and the toolhead, which executes later what
FORCE_MOVE queued (`Executes1`). `tip` is how far the strand has come back, `at` where the
two switches are; both switches are read off `tip`, never guessed. A window in which the
post-gear switch cannot be read is a fault and counted in `blind`.

**The contract.** `ExtruderPull` is what the docstrings promise a caller: the extruder
stands still until the unit has accepted, draws at most the cap and a margin segment, and
a pull declared free has freed the entry switch. The refinement maps `pc` to a stage,
`pulled - queued` (executed, not commanded) to `drawn`, `~EntryMade` to `free`, and the
verdict to an outcome. `broken` is a FORCE_MOVE that raised: what was queued before it
still runs (`Coast`).

**Simplifications.** A segment is 4 mm, whatever the rate. The hub encoder is left out: it
is logged and, since its rewrite, convicts nobody. The wait for a fresh frame before the
pull is bounded and proceeds either way, so it is part of the call.

### 5.2 Run

`tandem`: two pulls on a second unit, owned, unowned or forced, with the tip on, in or
past the post-gear switch, and two faults anywhere. No pull without an acknowledged unwind
of this very pull (`PullWarranted`); with a readable post-gear switch a ground strand
stops at POSTGEAR_CLEAR_MM and not at the cap (`GroundWitnessed`); a success rests at most
a window past the switch (`OvershootBounded`); verdicts speak of executed motion and of
the switches (`VerdictTrue`); a stopped pull leaves the lane still, with no abandoned
unwind behind the stop (`LaneLeftStill`); only a silent attempt may unwind twice
(`OneUnwindPerSilence`); and the pull implements `ExtruderPull` (`Implements`).

What no property can say: a FORCE_MOVE that raises leaves the loop without a stop
(1946), so the unit unwinds on to the cap; `LaneLeftStill` speaks of the other ends.

**Bounds.** Cap 5, windows of 2, POSTGEAR_CLEAR_MM at 4: the second window boundary lies
before the cap, as in the code. Three places of the switches cover a tip on, before and
past the post-gear switch. The second pull meets the leftovers of the first. The system
stops when its calls are used up, so deadlock is not checked.

## 6. `AceUnload`: the unloads

### 6.1 Model

`_retract` (2091-2289) with both callers, `rmd_triggered_unload_slot` (3345-3440) and
`_smart_unload_slot` (3490-3653). `phase` says for whom the retract runs: `"rmd"`, or
`"smart"`, `"extra"` (the toolhead cleared late) and `"nested"` (the monitored unload
inside a validation that found the path blocked). `pc` is where the retract or its caller
rests; `early`, `cleared`, `first` are the observations it returns on. `rearm` is
`_enable_feed_assist` waiting for the unit inside `_restore_assist_after_unload`;
`arming` is its callback still to come. The RDM, when there is one, and the toolhead
switch are read off `tip` and `stub`.

The dwell lasts as long as the retract, so that a frame arrives in it (`beat`): the wait
for `ready` behind it reads a frame that is newer than the accepted retract. The unload
is an ACE2's, whose assist keeps it busy; the waits of an ACE1 are those of `AceAssist`.

### 6.2 Run

`unload`: two unloads of either kind, standalone or in a tool change, with every claim and
one fault. True means the path is free where it can be seen (`TrueMeansUnloaded`); nothing
keeps winding, however the unload ends (`NothingLeftWinding`); a tool change keeps its
assist off (`ToolchangeOwnsAssist`); a standalone unload gives back what it took, on its
error paths too, or the unit refused (`AssistGivenBack`); every unload ends
(`UnloadEnds`).

Two sentences of the code that hold only with an exception. The docstring of
`_smart_unload_slot` promises a ValueError "If path still blocked after retraction" (3506):
the nested unload returns True on a clear RDM and the toolhead switch is not looked at
again, so a stub that stays at the toolhead is reported as unloaded. And an assist whose
answer is lost runs on while its claim is dropped (`adrift`): the next unload has nothing
to stop.

**Fairness.** Weak fairness of the command's own steps (the reactor runs it on), of the
queue, of the heartbeat, and of the unit ending a move and its stop window. Calls, faults
and the strand are never forced.

**Bounds.** Two attempts have a first and a last one. Two unloads let the second meet the
leftovers of the first: an assist unanswered, a stop queued, a spool gone. One fault hits
any step.

## 7. `AcePush` and `AceLoad`: the load

### 7.1 Model

`AcePush` is the ledger of `_extruder_push_verified` (2616-2832): millimetres pushed and
delivered per chunk, the history of the last chunks, the sticky `under`, the overrun. The
hub counter starts anywhere, moves by what a chunk may show it (`Motions`: nothing, the
dip of a first chunk, all of it, a free-running spool), can be reset in the middle, and a
reading can be swallowed; `truth` remembers what really went past the hub.

`AceLoad` runs it inside the load (2305-2614, 3008-3132) and `unpark_to_nozzle`: the
preparation of a stub (align, nudge), the bowden feed with its retries
(`execute_feed_with_retries`, 2914), the approach with its slot errors confirmed after a
dwell, the late nursing and the bite, the crossing, the release backoff and the handoff
steps of a machine without a seat sensor, the assist that must be confirmed before the
extruder pulls (2840-2907), the seating, the melt-zone door and the hug. `Fails` is every
exception: stop with priority, wait, rewind, raise again. Positions count crossing
segments; `heat` is what the gates of the melt zone tell apart. Between two loads the lane
has been unloaded or has left its stub (`NextLane`).

**Simplifications.** The tail of a consumed spool is a flag (`stub`), with the entry switch
covered or not. Temperatures are three values. The branch of the ledger without a hub
encoder verifies nothing and is left out. The second witness of the ledger (the unit's
assist counters) only words the advice and is left out. `FeedsOutlast` is an
assumption of the run that only `PushUnderAssist` needs: a feed lasts until a heartbeat
has shown it. A bowden approach
does; a bite or crossing that ends within its first second need not, and nothing in the
code makes it. See below what happens then.

### 7.2 Run

`load`: two loads, or a load and an unpark, with and without a post-gear switch and a
stub, at every temperature, with one fault in the unit, the link or the encoder. A failed
load leaves nothing feeding (`NothingLeftFeeding`); no push without an assist the unit has
really shown since the enable (`PushUnderAssist`); every way into the melt zone finds it
hot, the hug without a gate of its own included (`MeltZoneHot`); a hug follows a bite of
this load (`HugFollowsBite`); the crossing never drives past the switch (`CrossingTrue`);
an overrun leaves the assist off and unclaimed (`OverrunStops`); a push that delivered too
little is advised of (`UnderDeliveryAdvised`), and a healthy one is left alone, resets
included (`HealthyPushQuiet`).

A push is healthy when no chunk but the first fell below 90 % and what it is short of in
all stays within what the ledger tolerates: the backstop and its slop of 10 mm, or the
backstop alone once a discontinuity has been resynchronised, which spends the slop (2703).
Chunks of 90 % that add up past the backstop are advised of, and should be. A reset is
seen only on a counter that does not stand at zero.

What the code does beside these:

- A reading swallowed at the start of a push makes the first chunk look like an overrun:
  the counter jumps from 0 to its true value, which is a discontinuity of the other sign
  than the one at 2703. `HealthyPushQuiet` excludes that reading.
- With `FeedsOutlast = FALSE`, `_wait_assist_active` (2886) takes a busy frame that is
  older than the START, together with the claim of a START the unit acknowledged and
  ignored, for the assist: the extruder pushes against a unit that does not assist. The
  comment beside it tells of the same combination on 2026-09-03; the claim it adds is
  optimistic.
- The preparation of a stub load runs before the `try` whose `finally` clears
  `_loading_slot` (3028-3060): a raise there leaves the lane "in flight" for the restore.
- `_stop_feed` is sent with priority. A feed that is still queued when a load fails is
  overtaken by its own stop and runs behind it (3055, 1424); the rewind is then refused
  until the feed ends. `overtaken` marks the case.

**Bounds.** A crossing of 3 segments with the post-gear switch at 2 or 3 has it inside and
at the cap. 45 mm in chunks of 10 give five chunks, enough for a window of three behind
the exempt first one, and a last chunk that is shorter. Each loop cap is 1 or 2, a first
and a last round. Two calls let a flag of the first reach the second. Deadlock is not
checked: the driver is idle when its calls are used up.

## 8. Proofs

`AceAssistProof` proves, for every set of slots, every number of calls, faults and queued
requests, both kinds of unit and prompt or late answers:

- `TypeCorrect`: `Spec => []TypeOK`;
- `QueueHonoursClaim`: `Spec => []RollbackInv`, the strengthening;
- `RollbackEarned`: `Spec => []RollbackClaimEarned`.

`RollbackClaimEarned` speaks of memory and device, but a request in the queue can break
it: a STOP behind the START that earned the claim, or the answer of an abandoned attempt.
So the inductive invariant adds what the queue may hold: while a claim stands, no STOP
of its lane is queued behind what earned it (`ClaimSafe`); an attempt the starter still
listens to is the last START queued, with no STOP after it (`AttemptSafe`); and a disable
that waits stops a lane that has no rollback claim any more (`ThreadSafe`). The proof has a
lemma per way of touching the queue (nothing sent, sent behind, sent first, cleared,
served) and a step per action.
Assumptions: `NoneIsNoSlot`, `AssistIsBusyIs`, `PromptIs`, `BoundsAreNat`.

`AceNominalProof` proves what the nominal runs check. `Nominal` is the operation of those
runs: an ACE2, prompt answers, no faults, and the five calls enable, disable, rollback
start and stop, and motion; for every set of lanes and number of calls
`NominalInvariant`, `FeedBacked`, `PublishedBacked`, `NeverTwoAssists`, `MotionIsFree`.
With faults `MotionMeetsFreeDevice` is false (run `motion`), an ACE1 assists on one gear for
all its lanes, and late answers reorder the waits: the other runs are about those.
The invariant is about the order of the queue: motion comes first, and finds every lane
idle; one START is behind it; a STOP is last, and while one is queued the thread waits in
the dwell behind it (`Ordered`, `Warranted`). So an assist that runs is claimed or its
STOP is queued (`DeviceOK`), and a claim is an assist that runs or a START under way
(`ClaimOK`); `ThreadOK` and `ClearOK` say what the thread has made sure of where it rests.
`StopsDropClaims` has a hypothesis of its own, `ClearingStops`: any faults, restores and
restarts, on an ACE2 of which no plain `_stop_feed` is asked (section 3.2). A frame or an
answer cannot bring a claim back in the step that hands over the STOP. An ACE1
waits for `ready` between dropping the claims and its STOP; there the property is not
proved (TLC finds it to hold on small instances).

`AceRfidProof` proves, for every number of lanes, every set of spools and every form of
their tags, with or without crosstalk, a shared bus, or indices in the answers:

- `TypeCorrect`: `Spec => []TypeOK`;
- `HeatTrusted`: `Spec => []HeatIsFromTag`;
- `SkuExclusive`: `Spec => []SkuHeldByOneLane`;
- `BackgroundPaused`: `Spec => QuietDuringIdentify`.

The inductive invariant of the first three is their conjunction. The types are needed because an
answer must name a lane of the unit before it may be said to change only that lane; the
sku rule is inductive because `HandleInfo` compares with every other lane and an image
marks the sku it writes as one of its own (`src`). `BackgroundPaused` needs `Paused`
besides, that reads are off as long as an identify runs (checked by TLC on the instance of
`rfid_identify` first): then a frame has no lane to ask for, and an answer leaves at most
the fallback of the read it answers. Assumptions: `NumSlotsIsPos`, `FormIs`,
`NoneIsNoThing`, `SwitchesAre`, `LimitsAreNat`.

`AceUnitProof` has the facts about the channel the three motion proofs stand on: a step of
the unit either takes the first request (`Takes`) or leaves the queue alone (`Idles`), and
what each may change; what stopping, sending, orphaning and taking do to the stops behind
a request (`Bounded`, `Calms`); that a refusal moves nothing, and that a unit which accepts
anything else does not feed.

`AceTandemProof` proves, for every cap, window, number of attempts, place of the switches,
pulls and faults: `TypeCorrect`, `PullsWarranted`, `VerdictsTrue`, `LanesLeftStill`,
`GrindingWitnessed`, and `ImplementsContract` (`Spec => Implements`). The invariant is
`TypeOK /\ PullOK /\ ChannelOK /\ EndOK`. Its heart is `ChannelOK`: the awaited request is
the last in the queue, so its answer finds the queue empty, nothing of an earlier attempt
is left while the extruder pulls, and the stop that ends the pull is the only request
behind it. `GrindingWitnessed` needs `GroundOK` besides: windows are judged on multiples
of the window, and one that was read as made lies short of POSTGEAR_CLEAR_MM. That
argument needs POSTGEAR_CLEAR_MM on a window boundary, which the code says it is.
`OvershootsBounded` stands on the same windows: `ReachOK` bounds, stage by stage, how far
the tip and what is still queued can have come since the entry switch was last read as
made. `UnwindsOncePerSilence` counts: `StartsOK` says that the unwinds the unit has begun,
those still queued and the attempt that may still be sent are never more than the pulls
and the silences so far. Both were checked by TLC on the instance of the run first.
Assumptions: `DistancesAreNat`, `WindowsFit`, `IndicesAre`, `FaultsAreNat`.

`AceUnloadProof` proves, for every number of attempts, unloads and faults: `TypeCorrect`,
`TrueIsUnloaded`, `LeavesNothingWinding`, `ToolchangeKeepsAssist`, `GivesAssistBack`. The
four properties speak of an unload that is over, so the invariant says what holds on the
way: `WindOK`, while no retract is under way every wind, queued or running, has its stop
queued behind it unless the link lost it, and a retract that waits for `ready` waits for a
frame newer than its acceptance; `AssistOK`, an assist that runs has its stop queued, or
is claimed, or drifts; `TruthOK`, what was concluded from a sensor cannot go back;
`ControlOK` and `QueueOK`, who holds the claim, and the order of the queue.
Assumptions: `BoundsAreNat`, `FaultsAreNat`.

`AcePushProof` has the lemmas about the ledger, for every length of the push and every
answer of the hub: a beginning, a chunk, an end and a clearing each keep `LedgerOK`. Its
parts are `ShortfallOK`, the ledger is never kinder than the truth unless a first reading
was swallowed, so that a shortfall past the backstop has set `under`; and `HealthOK`, the
ledger of a healthy push is the truth, and its window holds no chunk below 90 % but the
first, so that neither the window nor the backstop convicts it.

`AceLoadProof` proves, for every number of loads, retries, enables, segments and faults,
every place of the post-gear switch or none, and every push: `LoadTyped`,
`NothingFeedsAfter`, `MeltZoneAlwaysHot`, `HugsAfterBite`, `CrossingStaysTrue`,
`OverrunStopsAssist`, `ShortPushAdvised`, `HealthyPushStaysQuiet`, and `PushesUnderAssist`
where `FeedsOutlast`. The invariant follows a load along its program counter:

- `ControlOK`, what the goal of each place may be and which claims it holds; `HeatOK` and
  `StubOK`, what the gates passed so far have shown of the nozzle and the tail; `TipOK`, the
  head and its commanded segment are short of the switch;
- `QueueOK`, the feed that is waited for is the last request; `MotionOK`, once a feed was
  accepted nothing queued moves the lane; `OverrunOK`; and `LedgerOK` from above;
- `ArmOK` and `FeedOK` (`FeedInvariant`): every feed the load is done with has its stop
  queued behind it, unless the link lost that stop or it overtook the feed. The exception
  are the short steps to the nip of a machine without a post-gear switch, which nobody
  stops: a load that goes on to its assist while one runs is refused the assist, and
  fails with a stop, or is granted it, and then the unit no longer feeds;
- `RestOK` (`RestInvariant`), where every feed outlasts a heartbeat: while the load makes
  sure of its assist nothing moves, so a unit that is busy assists.

`PushesUnderAssist` needs the hypothesis: without it TLC finds the trace told in
section 7.2. The others do not: on the instance of the run TLC finds `NothingLeftFeeding`
to hold with `FeedsOutlast = FALSE` as well. Assumptions: `LoadBoundsAreNat`, `PushLengthsAreNat`, `FaultsAreNat`.

Only model-checked: liveness (`LostAssistRepaired`, `RestoreSettles`, `HoldsReleased`,
`RefreshReachesAll`, `ReadingEnds`, `UnloadEnds`), which rests on fairness and ENABLED and
is out of the prover's reach; the ACE1 half
of `FeedClaimBacked` and `MotionMeetsFreeDevice` (`nominal_ace1`), whose order is kept by
waits and not by the queue; and the counterexamples.

## 9. What is not modelled

The failure streak and its recovery (4583-4618), the persisted inventory, the outcome an
identify publishes and the pure tag policy: planned, see section 2. The bus session that
assigns device ids (517) is outside the repository, and a request without one raises
before it is queued; the transport swap (`rebind_transport`) replaces the queue at a
moment no command runs. Single requests (drying, speed changes, feed info) change no
state of the driver. Byte parsing of vendor formats, the firmware's decoder, the patch
builders, the tools, the macros and the panel mock-up are pure data, offline or without
state. The unit, the serial manager, the tool manager and the state store are not in the
repository: they are modelled from how the driver uses them, and marked external in the
map.

## 10. Running

    tlc -workers 2 -config MCAceAssist_nominal_ace2.cfg MCAceAssist
    tlc -workers 2 -config MCAceRfid_untrusted.cfg MCAceRfid
    tlc -workers 2 -config MCAceTandem_tandem.cfg MCAceTandem
    tlc -workers 2 -config MCAceUnload_unload.cfg MCAceUnload
    tlc -workers 2 -config MCAceLoad_load.cfg MCAceLoad
    tlapm AceLoadProof.tla

A run named `x` of the assist uses `MCAceAssist_x.cfg`, a run `rfid_x` uses
`MCAceRfid_x.cfg`, and `tandem`, `unload`, `load` are named as above; every `*Proof.tla`
is proved by `tlapm`. Which configuration checks which properties, and which change of the
code breaks each of them, is in `PROJECT.json`.
