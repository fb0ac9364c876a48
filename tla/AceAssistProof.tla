--------------------------- MODULE AceAssistProof ---------------------------
(***************************************************************************)
(* Proofs about AceAssist: type correctness, and that the rollback claim   *)
(* is earned, for any number of lanes, calls, faults and queued requests.  *)
(*                                                                         *)
(* The claim alone is not inductive: a late answer, an abandoned attempt   *)
(* or a queued STOP could break it in the next step.  RollbackInv says     *)
(* what the queue may hold while a claim stands or an attempt is awaited.  *)
(***************************************************************************)
EXTENDS AceAssist, SequenceTheorems, TLAPS

Inv == TypeOK /\ RollbackInv

-----------------------------------------------------------------------------
(* The queue *)

(* Appending a request to the queue keeps its type and its entries. *)
LEMMA AppendRequest ==
  ASSUME NEW w \in Seq(Request), NEW r \in Request
  PROVE  /\ Append(w, r) \in Seq(Request)
         /\ DOMAIN Append(w, r) = 1 .. Len(w) + 1
         /\ DOMAIN w = 1 .. Len(w)
         /\ Len(w) \in Nat
         /\ Append(w, r)[Len(w) + 1] = r
         /\ \A i \in 1 .. Len(w) : Append(w, r)[i] = w[i]
  OBVIOUS

(* A high-priority request goes first and moves the others one place. *)
LEMMA PrependRequest ==
  ASSUME NEW w \in Seq(Request), NEW r \in Request
  PROVE  /\ <<r>> \o w \in Seq(Request)
         /\ DOMAIN (<<r>> \o w) = 1 .. Len(w) + 1
         /\ DOMAIN w = 1 .. Len(w)
         /\ Len(w) \in Nat
         /\ (<<r>> \o w)[1] = r
         /\ \A i \in 2 .. Len(w) + 1 :
              i - 1 \in 1 .. Len(w) /\ (<<r>> \o w)[i] = w[i - 1]
<1>1. <<r>> \in Seq(Request) /\ Len(<<r>>) = 1 /\ <<r>>[1] = r
  OBVIOUS
<1>2. Len(w) \in Nat /\ DOMAIN w = 1 .. Len(w)
  OBVIOUS
<1> DEFINE c == <<r>> \o w
<1>3. /\ c \in Seq(Request)
      /\ Len(c) = Len(<<r>>) + Len(w)
      /\ \A i \in 1 .. Len(<<r>>) + Len(w) :
           c[i] = IF i <= Len(<<r>>) THEN <<r>>[i] ELSE w[i - Len(<<r>>)]
  BY <1>1, ConcatProperties
<1> HIDE DEF c
<1>4. DOMAIN c = 1 .. Len(w) + 1
  BY <1>1, <1>2, <1>3, LenProperties
<1>5. c[1] = r
  BY <1>1, <1>2, <1>3
<1>6. \A i \in 2 .. Len(w) + 1 : i - 1 \in 1 .. Len(w) /\ c[i] = w[i - 1]
  BY <1>1, <1>2, <1>3
<1>7. QED
  BY <1>2, <1>3, <1>4, <1>5, <1>6 DEF c

(* Serving the head moves the others one place. *)
LEMMA TailRequest ==
  ASSUME NEW w \in Seq(Request), w # <<>>
  PROVE  /\ Tail(w) \in Seq(Request)
         /\ DOMAIN w = 1 .. Len(w)
         /\ Len(w) \in Nat \ {0}
         /\ DOMAIN Tail(w) = 1 .. Len(w) - 1
         /\ Head(w) = w[1] /\ Head(w) \in Request
         /\ \A i \in 1 .. Len(w) - 1 :
              i + 1 \in 1 .. Len(w) /\ Tail(w)[i] = w[i + 1]
  OBVIOUS

(* The reader of an abandoned attempt goes; nothing else changes. *)
LEMMA AbandonedRequests ==
  ASSUME wire \in Seq(Request)
  PROVE  /\ Abandoned \in Seq(Request)
         /\ DOMAIN Abandoned = DOMAIN wire
         /\ \A i \in DOMAIN wire : /\ Abandoned[i].kind = wire[i].kind
                                   /\ Abandoned[i].slot = wire[i].slot
                                   /\ Abandoned[i].cb # "await"
<1>1. DOMAIN wire = 1 .. Len(wire) /\ Len(wire) \in Nat
  OBVIOUS
<1>2. \A i \in DOMAIN wire : wire[i] \in Request
  OBVIOUS
<1>3. \A i \in DOMAIN wire : Abandoned[i] \in Request
  BY <1>2 DEF Abandoned, Request
<1>4. DOMAIN Abandoned = 1 .. Len(wire)
  BY <1>1 DEF Abandoned
<1>5. Abandoned \in [1 .. Len(wire) -> Request]
  BY <1>1, <1>3 DEF Abandoned
<1>6. Abandoned \in Seq(Request)
  BY <1>1, <1>5, SeqDef
<1>7. QED
  BY <1>1, <1>2, <1>4, <1>6 DEF Abandoned, Request

(* The requests the driver builds. *)
LEMMA Requests ==
  ASSUME NEW s \in Slots
  PROVE  /\ \A cb \in {"enable", "restore", "await", "none"} :
              Start2(s, cb) \in Request
         /\ Start3(s) \in Request
         /\ Stop(s) \in Request
         /\ Move(s) \in Request
  BY DEF Request, Start2, Start3, Stop, Move

-----------------------------------------------------------------------------
(* Type correctness *)

Ops == {"none", "enable", "disable", "stopRoll", "move", "startRoll", "recover"}
RestoreQueue == [pending : SlotOrNone, attempts : 0 .. RestoreAttempts + 1,
                 streak : 0 .. 1]

(* The positions the thread is put into have their type. *)
LEMMA ThreadTyped ==
  /\ Idle \in Thread
  /\ \A h \in Thread, pc \in Pcs : [h EXCEPT !.pc = pc] \in Thread
  /\ \A pc \in Pcs, op \in Ops, s \in Slots :
       [Idle EXCEPT !.pc = pc, !.op = op, !.slot = s] \in Thread
  /\ \A pc \in Pcs, op \in Ops, s, t \in Slots :
       [Idle EXCEPT !.pc = pc, !.op = op, !.slot = t, !.off = s] \in Thread
  /\ \A h \in Thread, n \in 0 .. SettleAttempts :
       [h EXCEPT !.pc = "await", !.tries = n, !.got = "none"] \in Thread
  /\ \A h \in Thread, a \in {"ok", "no"} : [h EXCEPT !.got = a] \in Thread
<1>1. Idle \in Thread
  BY BoundsAreNat DEF Thread, Idle, Pcs, SlotOrNone
<1>2. \A h \in Thread, pc \in Pcs : [h EXCEPT !.pc = pc] \in Thread
  BY DEF Thread
<1>3. \A h \in Thread, pc \in Pcs, op \in Ops, s \in SlotOrNone :
        [h EXCEPT !.pc = pc, !.op = op, !.slot = s] \in Thread
  BY DEF Thread, Ops
<1>4. \A h \in Thread, pc \in Pcs, op \in Ops, s, t \in SlotOrNone :
        [h EXCEPT !.pc = pc, !.op = op, !.slot = t, !.off = s] \in Thread
  BY DEF Thread, Ops
<1>5. \A h \in Thread, n \in 0 .. SettleAttempts :
        [h EXCEPT !.pc = "await", !.tries = n, !.got = "none"] \in Thread
  BY DEF Thread, Pcs
<1>6. \A h \in Thread, a \in {"ok", "no"} : [h EXCEPT !.got = a] \in Thread
  BY DEF Thread
<1>7. Slots \subseteq SlotOrNone
  BY DEF SlotOrNone
<1>8. QED
  BY <1>1, <1>2, <1>3, <1>4, <1>5, <1>6, <1>7

(* A driver that has just started satisfies the invariant. *)
LEMMA InitInv == Init => Inv
<1> SUFFICES ASSUME Init PROVE Inv
  OBVIOUS
<1>1. TypeOK
  <2>1. info \in Frame
    BY DEF Init, Frame
  <2>2. g \in Thread
    BY ThreadTyped DEF Init
  <2>3. wire \in Seq(Request)
    BY EmptySeq DEF Init
  <2>4. attempts \in 0 .. RestoreAttempts + 1 /\ streak \in 0 .. 1
    BY BoundsAreNat DEF Init
  <2>5. QED
    BY <2>1, <2>2, <2>3, <2>4 DEF Init, TypeOK, SlotOrNone
<1>2. RollbackInv
  BY NoneIsNoSlot DEF Init, RollbackInv, ThreadSafe, AttemptSafe, Idle
<1>3. QED
  BY <1>1, <1>2 DEF Inv

(* A status frame has its type, whatever part of the assists it shows. *)
LEMMA FrameTyped ==
  ASSUME TypeOK, NewFrame
  PROVE  info' \in Frame
  BY DEF TypeOK, NewFrame, Frame, DeviceReady

(* The restore queue a frame leaves has its type. *)
LEMMA QueueTyped ==
  ASSUME TypeOK
  PROVE  /\ SlotReadyQueue(Queue) \in RestoreQueue
         /\ Reconciled(SlotReadyQueue(Queue)) \in RestoreQueue
<1>1. Queue \in RestoreQueue
  BY DEF TypeOK, Queue, RestoreQueue
<1>2. feedIdx \in SlotOrNone /\ 0 \in 0 .. RestoreAttempts + 1 /\ 0 \in 0 .. 1
  BY BoundsAreNat DEF TypeOK
<1>3. ASSUME NEW q \in RestoreQueue
      PROVE  /\ [q EXCEPT !.streak = 0] \in RestoreQueue
             /\ [q EXCEPT !.streak = 1] \in RestoreQueue
             /\ [q EXCEPT !.pending = feedIdx, !.attempts = 0] \in RestoreQueue
             /\ [pending |-> feedIdx, attempts |-> 0, streak |-> 0] \in RestoreQueue
  <2>1. ASSUME NEW n \in 0 .. 1 PROVE [q EXCEPT !.streak = n] \in RestoreQueue
    BY DEF RestoreQueue
  <2>2. \A s \in SlotOrNone, n \in 0 .. RestoreAttempts + 1 :
          [q EXCEPT !.pending = s, !.attempts = n] \in RestoreQueue
    BY DEF RestoreQueue
  <2>3. \A s \in SlotOrNone, n \in 0 .. RestoreAttempts + 1, k \in 0 .. 1 :
          [pending |-> s, attempts |-> n, streak |-> k] \in RestoreQueue
    BY DEF RestoreQueue
  <2>4. 1 \in 0 .. 1
    OBVIOUS
  <2>5. /\ [q EXCEPT !.streak = 0] \in RestoreQueue
        /\ [q EXCEPT !.streak = 1] \in RestoreQueue
    BY <1>2, <2>1, <2>4
  <2>6. [q EXCEPT !.pending = feedIdx, !.attempts = 0] \in RestoreQueue
    BY <1>2, <2>2, Zenon
  <2>7. [pending |-> feedIdx, attempts |-> 0, streak |-> 0] \in RestoreQueue
    BY <1>2, <2>3, Zenon
  <2>8. QED
    BY <2>5, <2>6, <2>7
<1>4. SlotReadyQueue(Queue) \in RestoreQueue
  BY <1>1, <1>3 DEF SlotReadyQueue
<1>5. \A q \in RestoreQueue : Reconciled(q) \in RestoreQueue
  BY <1>3 DEF Reconciled
<1>6. QED
  BY <1>4, <1>5

(* Every step keeps every variable in its type.  The requests sent name    *)
(* slots because the thread has one while it is not idle (ThreadSafe).     *)
LEMMA TypeStep == Inv /\ [Next]_vars => TypeOK'
<1> SUFFICES ASSUME Inv, [Next]_vars PROVE TypeOK'
  OBVIOUS
<1> USE DEF claims, restore, manager, device
<1>a. TypeOK
  BY DEF Inv
<1>b. /\ g.op \in Ops /\ g.slot \in SlotOrNone /\ g.off \in SlotOrNone
      /\ g.pc \in Pcs /\ g.tries \in 0 .. SettleAttempts
  BY <1>a DEF TypeOK, Thread, Ops
<1>c. ThreadSafe
  BY DEF Inv, RollbackInv
<1>w. /\ \A r \in Request : Append(wire, r) \in Seq(Request)
      /\ \A r \in Request : <<r>> \o wire \in Seq(Request)
      /\ wire # <<>> => Tail(wire) \in Seq(Request) /\ Head(wire) \in Request
      /\ Abandoned \in Seq(Request)
      /\ <<>> \in Seq(Request)
  BY <1>a, AppendRequest, PrependRequest, TailRequest, AbandonedRequests, EmptySeq
     DEF TypeOK
<1>t. /\ Idle \in Thread
      /\ \A pc \in Pcs : [g EXCEPT !.pc = pc] \in Thread
  BY <1>a, ThreadTyped DEF TypeOK
<1>1. ASSUME NEW s \in Slots, CallEnable(s) PROVE TypeOK'
  <2>1. g' \in Thread
    BY <1>1, ThreadTyped DEF CallEnable, Begin, Ops, Pcs
  <2>2. QED
    BY <1>a, <1>1, <2>1 DEF CallEnable, Calling, TypeOK
<1>2. CASE EnableStopsRollback
  BY <1>a, <1>2, <1>w, <1>t, Requests
     DEF EnableStopsRollback, StopRollback, ClearClaims, Send, Goto, TypeOK, Pcs,
         SlotOrNone
<1>3. CASE EnableSatisfied
  BY <1>a, <1>3, <1>t DEF EnableSatisfied, Return, TypeOK
<1>4. CASE EnableClaims
  BY <1>a, <1>c, <1>4, <1>w, <1>t, Requests
     DEF EnableClaims, SendEnable, Send, Goto, Return, TypeOK, Pcs, ThreadSafe, SlotOrNone
<1>5. CASE EnableSends
  BY <1>a, <1>c, <1>5, <1>w, <1>t, Requests
     DEF EnableSends, SendEnable, Send, Goto, Return, TypeOK, Pcs, ThreadSafe
<1>7. CASE DwellEnds
  BY <1>a, <1>7, <1>t DEF DwellEnds, Goto, Return, TypeOK, Pcs
<1>8. ASSUME NEW s \in Slots, NEW t \in Slots, NEW op \in Ops, StartDisable(s, op, t)
      PROVE  /\ g' \in Thread /\ wire' \in Seq(Request)
             /\ feedIdx' \in SlotOrNone /\ rollIdx' \in SlotOrNone
             /\ ackPending' \in BOOLEAN /\ topo' \in {"unset", "same", "other"}
             /\ persisted' \in SlotOrNone
  <2>1. g' \in Thread
    <3>1. \A pc \in Pcs :
            [Idle EXCEPT !.pc = pc, !.op = op, !.slot = t, !.off = s] \in Thread
      BY ThreadTyped
    <3>2. QED
      BY <1>8, <3>1 DEF StartDisable, Pcs
  <2>2. wire' \in Seq(Request)
    BY <1>a, <1>8, <1>w, Requests DEF StartDisable, Send, TypeOK
  <2>3. QED
    BY <1>a, <1>8, <2>1, <2>2 DEF StartDisable, ClearClaims, TypeOK, SlotOrNone
<1>9. ASSUME NEW s \in Slots, CallDisable(s) PROVE TypeOK'
  BY <1>a, <1>8, <1>9 DEF CallDisable, Calling, TypeOK, Ops
<1>10. CASE DisableSends
  BY <1>a, <1>c, <1>10, <1>w, <1>t, Requests
     DEF DisableSends, Send, Goto, TypeOK, Pcs, ThreadSafe
<1>11. CASE DisableEnds
  BY <1>a, <1>11, <1>t DEF DisableEnds, AfterOff, Goto, Return, TypeOK, Pcs
<1>12. ASSUME NEW s \in Slots, CallMove(s) \/ CallStartRollback(s) PROVE TypeOK'
  <2>1. g' \in Thread
    <3>1. \A op \in Ops :
            [Idle EXCEPT !.pc = "ensure", !.op = op, !.slot = s] \in Thread
      BY ThreadTyped DEF Pcs
    <3>2. QED
      BY <1>12, <3>1 DEF CallMove, CallStartRollback, Begin, Ops
  <2>2. QED
    BY <1>a, <1>12, <2>1 DEF CallMove, CallStartRollback, Calling, TypeOK
<1>13. CASE EnsureFeedOff
  <2>1. CASE feedIdx # None
    <3>1. feedIdx \in Slots /\ g.slot \in Slots
      BY <1>a, <1>c, <1>13, <2>1 DEF EnsureFeedOff, TypeOK, ThreadSafe, SlotOrNone
    <3>2. QED
      BY <1>a, <1>b, <1>8, <1>13, <2>1, <3>1 DEF EnsureFeedOff, TypeOK
  <2>2. CASE feedIdx = None
    BY <1>a, <1>13, <1>t, <2>2 DEF EnsureFeedOff, Goto, TypeOK, Pcs
  <2>3. QED
    BY <2>1, <2>2
<1>14. CASE EnsureRollbackOff
  <2>1. g' \in Thread
    BY <1>14, <1>t DEF EnsureRollbackOff, Goto, Pcs
  <2>2. wire' \in Seq(Request)
    BY <1>a, <1>14, <1>w, Requests DEF EnsureRollbackOff, StopRollback, Send, TypeOK, SlotOrNone
  <2>3. /\ feedIdx' \in SlotOrNone /\ rollIdx' \in SlotOrNone
        /\ ackPending' \in BOOLEAN /\ topo' \in {"unset", "same", "other"}
        /\ persisted' \in SlotOrNone
    BY <1>a, <1>14 DEF EnsureRollbackOff, StopRollback, ClearClaims, TypeOK, SlotOrNone
  <2>4. QED
    BY <1>a, <1>14, <2>1, <2>2, <2>3 DEF EnsureRollbackOff, TypeOK
<1>15. CASE MoveGoes
  <2>1. wire' \in Seq(Request)
    BY <1>a, <1>c, <1>15, <1>w, Requests DEF MoveGoes, Send, TypeOK, ThreadSafe
  <2>2. QED
    BY <1>a, <1>15, <1>t, <2>1 DEF MoveGoes, Return, TypeOK, SlotOrNone
<1>16. ASSUME NEW n \in 1 .. SettleAttempts, Attempt(n) PROVE g' \in Thread
  <2>1. g \in Thread /\ n \in 0 .. SettleAttempts
    BY <1>a, BoundsAreNat DEF TypeOK
  <2>2. [g EXCEPT !.pc = "await", !.tries = n, !.got = "none"] \in Thread
    BY <2>1, ThreadTyped
  <2>3. QED
    BY <1>16, <2>2 DEF Attempt
<1>17. CASE StarterGoes
  <2>1. wire' \in Seq(Request)
    BY <1>a, <1>c, <1>17, <1>w, Requests DEF StarterGoes, Send, TypeOK, ThreadSafe
  <2>2. g' \in Thread
    BY <1>16, <1>17, <1>t, BoundsAreNat DEF StarterGoes, Return
  <2>3. QED
    BY <1>a, <1>17, <2>1, <2>2 DEF StarterGoes, TypeOK
<1>18. CASE StarterAccepted
  BY <1>a, <1>b, <1>18, <1>t DEF StarterAccepted, Return, TypeOK
<1>19. CASE StarterRetries
  <2>1. wire' \in Seq(Request)
    BY <1>a, <1>c, <1>19, <1>w, AppendRequest, Requests DEF StarterRetries, ThreadSafe
  <2>2. CASE g.tries < SettleAttempts
    <3>1. g.tries + 1 \in 1 .. SettleAttempts
      BY <1>b, <2>2, BoundsAreNat
    <3>2. QED
      BY <1>a, <1>16, <1>19, <2>1, <2>2, <3>1 DEF StarterRetries, TypeOK
  <2>3. CASE ~(g.tries < SettleAttempts)
    BY <1>a, <1>19, <1>t, <2>1, <2>3 DEF StarterRetries, Return, TypeOK
  <2>4. QED
    BY <2>2, <2>3
<1>20. CASE WaitTimesOut
  <2>1. g' \in Thread /\ loading' \in SlotOrNone
    BY <1>a, <1>20, <1>t DEF WaitTimesOut, Return, TypeOK, SlotOrNone
  <2>2. QED
    BY <1>a, <1>20, <2>1 DEF WaitTimesOut, TypeOK
<1>21. ASSUME NEW s \in Slots, CallStopRollback(s) PROVE TypeOK'
  <2>1. g' \in Thread
    BY <1>21, ThreadTyped DEF CallStopRollback, Begin, Ops, Pcs
  <2>2. wire' \in Seq(Request)
    BY <1>21, <1>w, Requests DEF CallStopRollback, StopRollback, Send
  <2>3. /\ feedIdx' \in SlotOrNone /\ rollIdx' \in SlotOrNone
        /\ ackPending' \in BOOLEAN /\ topo' \in {"unset", "same", "other"}
        /\ persisted' \in SlotOrNone
    BY <1>a, <1>21 DEF CallStopRollback, StopRollback, ClearClaims, TypeOK, SlotOrNone
  <2>4. QED
    BY <1>a, <1>21, <2>1, <2>2, <2>3 DEF CallStopRollback, Calling, TypeOK
<1>22. ASSUME NEW s \in Slots, CallStopFeed(s) PROVE TypeOK'
  BY <1>a, <1>22, <1>w, Requests
     DEF CallStopFeed, Calling, SendFirst, TypeOK, Assists, Modes
<1>23. CASE CallReset
  BY <1>a, <1>23 DEF CallReset, Calling, TypeOK, SlotOrNone
<1>24. CASE ToolchangeBegins
  BY <1>a, <1>24 DEF ToolchangeBegins, Calling, TypeOK
<1>25. CASE ToolchangeEnds
  BY <1>a, <1>25 DEF ToolchangeEnds, TypeOK
<1>26. ASSUME NEW s \in Slots, LoadBegins(s) PROVE TypeOK'
  <2>1. g' \in Thread
    BY <1>26, ThreadTyped DEF LoadBegins, Begin, Ops, Pcs
  <2>2. QED
    BY <1>a, <1>26, <2>1 DEF LoadBegins, Calling, TypeOK, SlotOrNone
<1>27. CASE LoadEnds
  BY <1>a, <1>27 DEF LoadEnds, TypeOK, SlotOrNone
<1>28. CASE LoadFails
  <2>1. loading \in Slots
    BY <1>a, <1>28 DEF LoadFails, TypeOK, SlotOrNone
  <2>2. g' \in Thread
    <3>1. \A pc \in Pcs :
            [Idle EXCEPT !.pc = pc, !.op = "recover", !.slot = loading] \in Thread
      BY <2>1, ThreadTyped DEF Ops
    <3>2. QED
      BY <1>28, <3>1 DEF LoadFails, Begin, Pcs
  <2>3. wire' \in Seq(Request)
    BY <1>28, <1>w, <2>1, Requests DEF LoadFails, SendFirst
  <2>4. QED
    BY <1>a, <1>28, <2>1, <2>2, <2>3 DEF LoadFails, TypeOK, Assists, Modes
<1>29. CASE RecoverReady
  BY <1>a, <1>29, <1>t DEF RecoverReady, Goto, TypeOK, Pcs
<1>30. CASE Heartbeat
  <2> DEFINE q == Reconciled(SlotReadyQueue(Queue))
  <2>1. info' \in Frame
    BY <1>a, <1>30, FrameTyped DEF Heartbeat
  <2>2. q \in RestoreQueue
    BY <1>a, QueueTyped
  <2>3. streak' = q.streak /\ MaybeRestore(q)
    BY <1>30 DEF Heartbeat
  <2> HIDE DEF q
  <2>4. q.pending \in SlotOrNone /\ q.attempts \in 0 .. RestoreAttempts + 1
    BY <2>2 DEF RestoreQueue
  <2>5. attempts' \in 0 .. RestoreAttempts + 1
    BY <2>3, <2>4, BoundsAreNat
       DEF MaybeRestore, NoRestore, SkipEmpty, DropStale, GiveUp, OtherPosition,
           SendOrWait, Restorable
  <2>6. streak' \in 0 .. 1
    BY <2>2, <2>3 DEF RestoreQueue
  <2>7. /\ feedIdx' \in SlotOrNone /\ topo' \in {"unset", "same", "other"}
        /\ persisted' \in SlotOrNone /\ pending' \in SlotOrNone
        /\ ackPending' \in BOOLEAN /\ rollIdx' \in SlotOrNone
    BY <1>a, <2>3, <2>4
       DEF MaybeRestore, NoRestore, SkipEmpty, DropStale, GiveUp, OtherPosition,
           SendOrWait, ForgetFeed, TypeOK, SlotOrNone
  <2>8. wire' \in Seq(Request) /\ restoring' \in SUBSET Slots
    BY <1>a, <1>w, <2>3, <2>4, Requests
       DEF MaybeRestore, NoRestore, SkipEmpty, DropStale, GiveUp, OtherPosition,
           SendOrWait, Restorable, Send, TypeOK, SlotOrNone
  <2>9. QED
    BY <1>a, <1>30, <2>1, <2>5, <2>6, <2>7, <2>8 DEF Heartbeat, TypeOK
<1>31. CASE WaitPolls
  <2>1. info' \in Frame
    BY <1>a, <1>31, FrameTyped DEF WaitPolls
  <2>2. SlotReadyQueue(Queue) \in RestoreQueue
    BY <1>a, QueueTyped
  <2>3. pending' \in SlotOrNone /\ attempts' \in 0 .. RestoreAttempts + 1
    BY <1>31, <2>2 DEF WaitPolls, RestoreQueue
  <2>4. QED
    BY <1>a, <1>31, <2>1, <2>3 DEF WaitPolls, TypeOK
<1>32. ASSUME NEW s \in Slots, RestoreResumes(s) PROVE TypeOK'
  BY <1>a, <1>32, <1>w, Requests DEF RestoreResumes, Send, TypeOK
<1>33. ASSUME NEW s \in Slots, RestoreDefers(s) PROVE TypeOK'
  BY <1>a, <1>33 DEF RestoreDefers, TypeOK, SlotOrNone
<1>34. CASE Transact
  <2> DEFINE r == Head(wire)
  <2>1. r \in Request /\ wire' \in Seq(Request)
    BY <1>34, <1>w DEF Transact
  <2>2. r.slot \in Slots
    BY <2>1 DEF Request
  <2>3. \E ok \in BOOLEAN : Answer(r, ok)
    BY <1>34 DEF Transact, Serve
  <2>4. Execute(r) \/ UNCHANGED <<dev, endedBehind>>
    BY <1>34 DEF Transact, Serve
  <2>5. faults' \in Nat
    <3>1. faults' = faults \/ faults' = faults + 1
      BY <1>34 DEF Transact, Serve
    <3>2. QED
      BY <1>a, <3>1 DEF TypeOK
  <2>6. UNCHANGED <<pending, streak, restoring, owner, toolchange, loading, info,
                    linkUp, devBusy, empty, geared, calls>>
    BY <1>34 DEF Transact
  <2> HIDE DEF r
  <2>7. /\ feedIdx' \in SlotOrNone /\ rollIdx' \in SlotOrNone
        /\ ackPending' \in BOOLEAN /\ topo' \in {"unset", "same", "other"}
        /\ persisted' \in SlotOrNone /\ attempts' \in 0 .. RestoreAttempts + 1
    <3>1. PICK ok \in BOOLEAN : Answer(r, ok)
      BY <2>3
    <3>2. r.cb \in {"enable", "restore", "await", "none"}
      BY <2>1 DEF Request
    <3>3. 0 \in 0 .. RestoreAttempts + 1
      BY BoundsAreNat
    <3>4. CASE r.cb = "enable"
      BY <1>a, <2>2, <3>1, <3>4
         DEF Answer, EnableAnswered, ForgetFeed, TypeOK, SlotOrNone
    <3>5. CASE r.cb = "restore"
      BY <1>a, <2>2, <3>1, <3>3, <3>5 DEF Answer, RestoreAnswered, TypeOK, SlotOrNone
    <3>6. CASE r.cb \in {"await", "none"}
      BY <1>a, <3>1, <3>6 DEF Answer, AttemptAnswered, TypeOK
    <3>7. QED
      BY <3>2, <3>4, <3>5, <3>6
  <2>8. g' \in Thread
    <3>1. PICK ok \in BOOLEAN : Answer(r, ok)
      BY <2>3
    <3>2. r.cb \in {"enable", "restore", "await", "none"}
      BY <2>1 DEF Request
    <3>3. \A a \in {"ok", "no"} : [g EXCEPT !.got = a] \in Thread
      BY <1>a, ThreadTyped DEF TypeOK
    <3>4. QED
      BY <1>a, <3>1, <3>2, <3>3
         DEF Answer, EnableAnswered, RestoreAnswered, AttemptAnswered, TypeOK
  <2>9. /\ dev' \in [Slots -> {"idle", "assist", "rollback"}]
        /\ endedBehind' \in SUBSET Assists
    <3>1. r.kind \in {"start2", "start3", "stop", "move"}
      BY <2>1 DEF Request
    <3>2. Executed(r) \in [Slots -> {"idle", "assist", "rollback"}]
      BY <1>a, <2>2, <3>1 DEF Executed, TypeOK
    <3>3. QED
      BY <1>a, <2>4, <3>2 DEF Execute, TypeOK
  <2>10. QED
    BY <1>a, <2>1, <2>5, <2>6, <2>7, <2>8, <2>9 DEF TypeOK
<1>35. CASE LinkDrops
  <2>1. wire' \in Seq(Request)
    BY <1>35, <1>w DEF LinkDrops
  <2>2. faults' \in Nat
    BY <1>a, <1>35 DEF LinkDrops, Fault, TypeOK
  <2>3. /\ linkUp' = FALSE
        /\ UNCHANGED <<claims, restore, manager, info, g, device, calls>>
    BY <1>35 DEF LinkDrops
  <2>4. QED
    BY <1>a, <2>1, <2>2, <2>3 DEF TypeOK
<1>36. CASE PowerCycles
  <2>1. wire' \in Seq(Request)
    BY <1>36, <1>w DEF PowerCycles
  <2>2. dev' \in [Slots -> {"idle", "assist", "rollback"}]
    BY <1>36 DEF PowerCycles
  <2>3. faults' \in Nat
    BY <1>a, <1>36 DEF PowerCycles, Fault, TypeOK
  <2>4. /\ linkUp' = FALSE /\ devBusy' = FALSE /\ endedBehind' = Assists
        /\ UNCHANGED <<claims, restore, manager, info, g, empty, geared, calls>>
    BY <1>36 DEF PowerCycles
  <2>5. QED
    BY <1>a, <2>1, <2>2, <2>3, <2>4 DEF TypeOK
<1>37. CASE KlippyRestarts
  <2>1. info' \in Frame
    BY <1>37 DEF KlippyRestarts, Frame
  <2>2. attempts' \in 0 .. RestoreAttempts + 1 /\ streak' \in 0 .. 1
    BY <1>37, BoundsAreNat DEF KlippyRestarts
  <2>3. wire' \in Seq(Request) /\ g' \in Thread
    BY <1>37, <1>w, <1>t DEF KlippyRestarts
  <2>4. faults' \in Nat
    BY <1>a, <1>37 DEF KlippyRestarts, Fault, TypeOK
  <2>5. /\ feedIdx' = None /\ rollIdx' = None /\ ackPending' = FALSE /\ topo' = "unset"
        /\ pending' = None /\ restoring' = {} /\ loading' = None
        /\ toolchange' = FALSE /\ linkUp' = FALSE
        /\ UNCHANGED <<persisted, owner, device, calls>>
    BY <1>37 DEF KlippyRestarts
  <2>6. QED
    BY <1>a, <2>1, <2>2, <2>3, <2>4, <2>5 DEF TypeOK, SlotOrNone
<1>38. CASE Connect
  <2>1. /\ feedIdx' \in SlotOrNone /\ topo' \in {"unset", "same", "other"}
        /\ persisted' \in SlotOrNone /\ pending' \in SlotOrNone
        /\ attempts' \in 0 .. RestoreAttempts + 1 /\ linkUp' \in BOOLEAN
    BY <1>a, <1>38, BoundsAreNat DEF Connect, ForgetFeed, TypeOK, SlotOrNone
  <2>2. QED
    BY <1>a, <1>38, <2>1 DEF Connect, TypeOK
<1>39. CASE DeviceStartsWork
  BY <1>a, <1>39 DEF DeviceStartsWork, Fault, TypeOK
<1>40. CASE DeviceEndsWork
  BY <1>a, <1>40 DEF DeviceEndsWork, TypeOK
<1>41. ASSUME NEW s \in Slots, Preload(s) PROVE TypeOK'
  <2>1. /\ dev' \in [Slots -> {"idle", "assist", "rollback"}]
        /\ endedBehind' \in SUBSET Assists
    BY <1>a, <1>41 DEF Preload, TypeOK
  <2>2. QED
    BY <1>a, <1>41, <2>1 DEF Preload, Fault, TypeOK
<1>42. ASSUME NEW s \in Slots, SpoolRunsOut(s) PROVE TypeOK'
  <2>1. /\ dev' \in [Slots -> {"idle", "assist", "rollback"}]
        /\ endedBehind' \in SUBSET Assists
    BY <1>a, <1>42 DEF SpoolRunsOut, TypeOK, Assists
  <2>2. QED
    BY <1>a, <1>42, <2>1 DEF SpoolRunsOut, Fault, TypeOK
<1>43. CASE UNCHANGED vars
  BY <1>a, <1>43 DEF vars, TypeOK
<1>44. QED
  BY <1>1, <1>2, <1>3, <1>4, <1>5, <1>7, <1>9, <1>10, <1>11, <1>12, <1>13,
     <1>14, <1>15, <1>17, <1>18, <1>19, <1>20, <1>21, <1>22, <1>23, <1>24, <1>25,
     <1>26, <1>27, <1>28, <1>29, <1>30, <1>31, <1>32, <1>33, <1>34, <1>35, <1>36,
     <1>37, <1>38, <1>39, <1>40, <1>41, <1>42, <1>43
     DEF Next, Command, ThreadStep, ManagerStep, Environment

-----------------------------------------------------------------------------
(* The rollback claim *)

(* A lane that reels back goes on, or its end is recorded. *)
RollsOn ==
  \A s \in Slots :
    /\ dev[s] = "rollback" =>
         dev'[s] = "rollback" \/ <<"rollback", s>> \in endedBehind'
    /\ <<"rollback", s>> \in endedBehind => <<"rollback", s>> \in endedBehind'

(* The thread is not in a starter's wait, before or after. *)
Unawaited == g.pc # "await" /\ g'.got = "none"

(* An accepted attempt stays accepted while the lane reels on. *)
LEMMA StillRolls ==
  ASSUME Inv, RollsOn, g' = g, g.got = "ok"
  PROVE  Rolls(g.slot)'
<1>1. g.pc = "await" /\ Rolls(g.slot)
  BY DEF Inv, RollbackInv, AttemptSafe
<1>2. g.slot \in Slots
  BY <1>1 DEF Inv, RollbackInv, ThreadSafe
<1>3. Rolls(g.slot)'
  BY <1>1, <1>2 DEF Rolls, RollsOn
<1>4. QED
  BY <1>3

(* What the queue holds, by position. *)
LEMMA QueueIndices ==
  ASSUME Inv
  PROVE  /\ wire \in Seq(Request) /\ Len(wire) \in Nat
         /\ DOMAIN wire = 1 .. Len(wire)
         /\ \A i \in DOMAIN wire : wire[i] \in Request
         /\ g.pc # "await" => \A i \in DOMAIN wire : wire[i].cb # "await"
<1>1. wire \in Seq(Request)
  BY DEF Inv, TypeOK
<1>2. Len(wire) \in Nat /\ DOMAIN wire = 1 .. Len(wire)
      /\ \A i \in DOMAIN wire : wire[i] \in Request
  BY <1>1
<1>3. QED
  BY <1>1, <1>2 DEF Inv, RollbackInv, AttemptSafe

(* Steps that leave the queue alone. *)
LEMMA NothingSent ==
  ASSUME Inv, ThreadSafe', RollsOn, wire' = wire, rollIdx' \in {rollIdx, None},
         g' = g \/ Unawaited
  PROVE  RollbackInv'
<1>1. ASSUME NEW s \in Slots, rollIdx' = s PROVE ClaimSafe(s)'
  <2>1. rollIdx = s
    BY <1>1, NoneIsNoSlot
  <2>2. ClaimSafe(s)
    BY <2>1 DEF Inv, RollbackInv
  <2>3. QED
    BY <2>2 DEF ClaimSafe, NoStopAfterStart, NoStopQueued, RollsOn
<1>2. AttemptSafe'
  <2>1. CASE g' = g
    <3>1. g.got = "ok" => Rolls(g.slot)'
      BY <2>1, StillRolls
    <3>2. QED
      BY <2>1, <3>1 DEF Inv, RollbackInv, AttemptSafe, LastWord
  <2>2. CASE Unawaited
    BY <2>2 DEF Unawaited, Inv, RollbackInv, AttemptSafe
  <2>3. QED
    BY <2>1, <2>2
<1>3. QED
  BY <1>1, <1>2 DEF RollbackInv

(* Steps that queue a request nobody awaits. *)
LEMMA Sent ==
  ASSUME Inv, ThreadSafe', RollsOn, rollIdx' \in {rollIdx, None},
         NEW r \in Request, wire' = Append(wire, r),
         r.cb # "await", r.kind = "stop" => rollIdx' # r.slot,
         (g' = g /\ r.kind # "stop") \/ Unawaited
  PROVE  RollbackInv'
<1>q. /\ wire \in Seq(Request) /\ Len(wire) \in Nat /\ DOMAIN wire = 1 .. Len(wire)
      /\ DOMAIN wire' = 1 .. Len(wire) + 1
      /\ wire'[Len(wire) + 1] = r
      /\ \A i \in 1 .. Len(wire) : wire'[i] = wire[i]
  BY QueueIndices, AppendRequest
<1>1. ASSUME NEW s \in Slots, rollIdx' = s PROVE ClaimSafe(s)'
  <2>1. rollIdx = s /\ ~IsStop(r, s)
    BY <1>1, NoneIsNoSlot DEF IsStop
  <2>2. ClaimSafe(s)
    BY <2>1 DEF Inv, RollbackInv
  <2>3. NoStopAfterStart(s)'
    BY <1>q, <2>1, <2>2 DEF ClaimSafe, NoStopAfterStart, IsStop
  <2>4. NoStopQueued(s) => NoStopQueued(s)'
    BY <1>q, <2>1 DEF NoStopQueued, IsStop
  <2>5. QED
    BY <2>2, <2>3, <2>4 DEF ClaimSafe, RollsOn
<1>2. AttemptSafe'
  <2>1. CASE g' = g /\ r.kind # "stop"
    <3>1. g.got = "ok" => Rolls(g.slot)'
      BY <2>1, StillRolls
    <3>2. \A i \in DOMAIN wire' : wire'[i].cb = "await" =>
            i \in DOMAIN wire /\ wire[i].cb = "await"
      BY <1>q
    <3>3. \A i \in DOMAIN wire : LastWord(i) => LastWord(i)'
      BY <1>q, <2>1 DEF LastWord
    <3>4. QED
      BY <1>q, <2>1, <3>1, <3>2, <3>3 DEF Inv, RollbackInv, AttemptSafe
  <2>2. CASE Unawaited
    <3>1. \A i \in DOMAIN wire' : wire'[i].cb # "await"
      BY <1>q, <2>2, QueueIndices DEF Unawaited
    <3>2. QED
      BY <2>2, <3>1 DEF Unawaited, AttemptSafe
  <2>3. QED
    BY <2>1, <2>2
<1>3. QED
  BY <1>1, <1>2 DEF RollbackInv

(* A STOP sent ahead of the queue by an idle thread; the end of the assist *)
(* is recorded with it.                                                    *)
LEMMA StopFirst ==
  ASSUME Inv, ThreadSafe', RollsOn, rollIdx' = rollIdx,
         NEW s \in Slots, wire' = <<Stop(s)>> \o wire,
         <<"rollback", s>> \in endedBehind',
         Unawaited
  PROVE  RollbackInv'
<1>q. /\ wire \in Seq(Request) /\ Len(wire) \in Nat /\ DOMAIN wire = 1 .. Len(wire)
      /\ DOMAIN wire' = 1 .. Len(wire) + 1
      /\ wire'[1] = Stop(s)
      /\ \A i \in 2 .. Len(wire) + 1 : i - 1 \in 1 .. Len(wire) /\ wire'[i] = wire[i - 1]
  BY QueueIndices, PrependRequest, Requests
<1>1. ASSUME NEW t \in Slots, rollIdx' = t PROVE ClaimSafe(t)'
  <2>1. ClaimSafe(t)
    BY <1>1 DEF Inv, RollbackInv
  <2>2. NoStopAfterStart(t)'
    <3> SUFFICES ASSUME NEW i \in DOMAIN wire', NEW j \in DOMAIN wire',
                        i < j, wire'[i].kind = "start3", wire'[i].slot = t
                 PROVE  ~IsStop(wire'[j], t)
      BY DEF NoStopAfterStart
    <3>1. i # 1
      BY <1>q DEF Stop
    <3>2. i \in 2 .. Len(wire) + 1 /\ j \in 2 .. Len(wire) + 1
      BY <1>q, <3>1
    <3>3. i - 1 \in DOMAIN wire /\ j - 1 \in DOMAIN wire /\ i - 1 < j - 1
      BY <1>q, <3>2
    <3>4. wire'[i] = wire[i - 1] /\ wire'[j] = wire[j - 1]
      BY <1>q, <3>2
    <3>5. QED
      BY <2>1, <3>3, <3>4 DEF ClaimSafe, NoStopAfterStart
  <2>3. CASE t = s
    BY <2>2, <2>3 DEF ClaimSafe
  <2>4. CASE t # s
    <3>1. NoStopQueued(t) => NoStopQueued(t)'
      <4> SUFFICES ASSUME NoStopQueued(t), NEW i \in DOMAIN wire' PROVE ~IsStop(wire'[i], t)
        BY DEF NoStopQueued
      <4>1. CASE i = 1
        BY <1>q, <2>4, <4>1 DEF IsStop, Stop
      <4>2. CASE i # 1
        <5>1. i \in 2 .. Len(wire) + 1
          BY <1>q, <4>2
        <5>2. i - 1 \in DOMAIN wire /\ wire'[i] = wire[i - 1]
          BY <1>q, <5>1
        <5>3. QED
          BY <5>2 DEF NoStopQueued
      <4>3. QED
        BY <4>1, <4>2
    <3>2. QED
      BY <2>1, <2>2, <3>1 DEF ClaimSafe, RollsOn
  <2>5. QED
    BY <2>3, <2>4
<1>2. \A i \in DOMAIN wire' : wire'[i].cb # "await"
  <2> SUFFICES ASSUME NEW i \in DOMAIN wire' PROVE wire'[i].cb # "await"
    OBVIOUS
  <2>1. CASE i = 1
    BY <1>q, <2>1 DEF Stop
  <2>2. CASE i # 1
    <3>1. i \in 2 .. Len(wire) + 1
      BY <1>q, <2>2
    <3>2. i - 1 \in DOMAIN wire /\ wire'[i] = wire[i - 1]
      BY <1>q, <3>1
    <3>3. QED
      BY <3>2, QueueIndices DEF Unawaited
  <2>3. QED
    BY <2>1, <2>2
<1>3. AttemptSafe'
  BY <1>2 DEF AttemptSafe, Unawaited
<1>4. QED
  BY <1>1, <1>3 DEF RollbackInv

(* A lost link empties the queue. *)
LEMMA QueueCleared ==
  ASSUME Inv, ThreadSafe', RollsOn, wire' = <<>>, rollIdx' \in {rollIdx, None},
         g' = g \/ g' = Idle
  PROVE  RollbackInv'
<1>q. DOMAIN wire' = {}
  BY EmptySeq
<1>1. ASSUME NEW s \in Slots, rollIdx' = s PROVE ClaimSafe(s)'
  <2>1. ClaimSafe(s)
    BY <1>1, NoneIsNoSlot DEF Inv, RollbackInv
  <2>2. QED
    BY <1>q, <2>1 DEF ClaimSafe, NoStopAfterStart, NoStopQueued, RollsOn
<1>2. AttemptSafe'
  <2>1. CASE g' = g
    <3>1. g.got = "ok" => Rolls(g.slot)'
      BY <2>1, StillRolls
    <3>2. QED
      BY <1>q, <2>1, <3>1 DEF Inv, RollbackInv, AttemptSafe
  <2>2. CASE g' = Idle
    BY <1>q, <2>2 DEF AttemptSafe, Idle
  <2>3. QED
    BY <2>1, <2>2
<1>3. QED
  BY <1>1, <1>2 DEF RollbackInv

-----------------------------------------------------------------------------
(* Every step preserves the strengthened claim *)

(* A step that leaves the device alone leaves its reeling alone. *)
LEMMA DeviceKept == UNCHANGED <<dev, endedBehind>> => RollsOn
  BY DEF RollsOn

(* The thread's moves keep it on a slot, and off the slot it disables. *)
LEMMA StaySafe ==
  ASSUME Inv, g' = g, rollIdx' \in {rollIdx, None}
  PROVE  ThreadSafe'
  BY NoneIsNoSlot DEF Inv, RollbackInv, ThreadSafe

(* A command that goes on to its next step keeps its lane. *)
LEMMA GotoSafe ==
  ASSUME Inv, NEW pc \in Pcs, Goto(pc), g.pc \notin {"idle", "await"},
         pc # "offWait"
  PROVE  ThreadSafe' /\ Unawaited
<1>1. g \in Thread /\ g.slot \in Slots /\ g.got = "none"
  BY DEF Inv, TypeOK, RollbackInv, ThreadSafe, AttemptSafe, Thread
<1>2. g'.pc = pc /\ g'.slot = g.slot /\ g'.got = g.got
  BY <1>1 DEF Goto, Thread
<1>3. QED
  BY <1>1, <1>2 DEF ThreadSafe, Unawaited

(* A command that ends listens to no reply. *)
LEMMA ReturnSafe ==
  ASSUME g' = Idle
  PROVE  ThreadSafe' /\ g'.got = "none" /\ g'.pc = "idle"
  BY DEF ThreadSafe, Idle

(* A command that begins has its lane and listens to no reply yet. *)
LEMMA BeginSafe ==
  ASSUME NEW pc \in Pcs, NEW op \in Ops, NEW s \in Slots, Begin(pc, op, s),
         pc # "offWait"
  PROVE  ThreadSafe' /\ g'.got = "none"
<1>1. g'.pc = pc /\ g'.slot = s /\ g'.got = "none"
  BY DEF Begin, Idle
<1>2. QED
  BY <1>1 DEF ThreadSafe

(* Disabling: the claim is dropped first, the STOP may have to wait. *)
LEMMA DisableStarts ==
  ASSUME Inv, NEW s \in Slots, NEW a \in Slots, NEW op \in Ops,
         StartDisable(s, op, a), g.pc # "await", UNCHANGED <<dev, endedBehind>>
  PROVE  RollbackInv'
<1>1. rollIdx' \in {rollIdx, None} /\ rollIdx' # s
  BY NoneIsNoSlot DEF StartDisable, ClearClaims
<1>2. g'.slot = a /\ g'.off = s /\ g'.got = "none"
  BY DEF StartDisable, Idle
<1>3. ThreadSafe'
  BY <1>1, <1>2 DEF ThreadSafe
<1>4. Unawaited /\ RollsOn
  BY <1>2, DeviceKept DEF Unawaited
<1>5. CASE wire' = wire
  BY <1>1, <1>3, <1>4, <1>5, NothingSent
<1>6. CASE wire' = Append(wire, Stop(s))
  <2>1. Stop(s) \in Request /\ Stop(s).cb # "await" /\ Stop(s).slot = s
    BY Requests DEF Stop
  <2>2. QED
    BY <1>1, <1>3, <1>4, <1>6, <2>1, Sent
<1>7. QED
  BY <1>5, <1>6 DEF StartDisable, Send

(* A stop of the rollback assist, by the thread. *)
LEMMA RollbackStops ==
  ASSUME Inv, NEW s \in Slots, StopRollback(s), ThreadSafe', Unawaited,
         UNCHANGED <<dev, endedBehind>>
  PROVE  RollbackInv'
<1>1. rollIdx' \in {rollIdx, None} /\ rollIdx' # s
  BY NoneIsNoSlot DEF StopRollback, ClearClaims
<1>2. Stop(s) \in Request /\ Stop(s).cb # "await" /\ Stop(s).slot = s
  BY Requests DEF Stop
<1>3. wire' = Append(wire, Stop(s)) /\ RollsOn
  BY DeviceKept DEF StopRollback, Send
<1>4. QED
  BY <1>1, <1>2, <1>3, Sent

(* A forward START, by the thread or by the heartbeat. *)
LEMMA FeedStarts ==
  ASSUME Inv, NEW s \in Slots, NEW cb \in {"enable", "restore"},
         Send(Start2(s, cb)), ThreadSafe', rollIdx' = rollIdx,
         g' = g \/ Unawaited, UNCHANGED <<dev, endedBehind>>
  PROVE  RollbackInv'
<1>1. /\ Start2(s, cb) \in Request /\ Start2(s, cb).cb # "await"
      /\ Start2(s, cb).kind # "stop"
  BY Requests DEF Start2
<1>2. wire' = Append(wire, Start2(s, cb)) /\ RollsOn
  BY DeviceKept DEF Send
<1>3. QED
  BY <1>1, <1>2, Sent

(* An attempt of the verified starter is queued behind everything else. *)
LEMMA AttemptSent ==
  ASSUME Inv, NEW w \in Seq(Request), DOMAIN w = DOMAIN wire,
         \A i \in DOMAIN wire : /\ w[i].kind = wire[i].kind
                                /\ w[i].slot = wire[i].slot
                                /\ w[i].cb # "await",
         wire' = Append(w, Start3(g.slot)), g.slot \in Slots,
         g'.pc = "await", g'.got = "none", g'.slot = g.slot,
         rollIdx' = rollIdx, UNCHANGED <<dev, endedBehind>>
  PROVE  RollbackInv'
<1> DEFINE r == Start3(g.slot)
           n == Len(w)
<1>r. /\ r \in Request /\ r.kind = "start3" /\ r.slot = g.slot /\ r.cb = "await"
  BY Requests DEF Start3
<1>q. /\ n \in Nat /\ DOMAIN wire = 1 .. n /\ DOMAIN wire' = 1 .. n + 1
      /\ wire'[n + 1] = r
      /\ \A i \in 1 .. n : wire'[i] = w[i]
  BY <1>r, AppendRequest
<1> HIDE DEF r, n
<1>k. \A i \in 1 .. n : /\ wire'[i].kind = wire[i].kind
                        /\ wire'[i].slot = wire[i].slot
                        /\ wire'[i].cb # "await"
  BY <1>q
<1>1. ThreadSafe'
  BY DEF ThreadSafe
<1>2. ASSUME NEW s \in Slots, rollIdx' = s PROVE ClaimSafe(s)'
  <2>1. ClaimSafe(s)
    BY <1>2 DEF Inv, RollbackInv
  <2>2. NoStopAfterStart(s)'
    <3> SUFFICES ASSUME NEW i \in 1 .. n + 1, NEW j \in 1 .. n + 1,
                        i < j, wire'[i].kind = "start3", wire'[i].slot = s
                 PROVE  ~IsStop(wire'[j], s)
      BY <1>q DEF NoStopAfterStart
    <3>1. CASE j = n + 1
      BY <1>r, <1>q, <3>1 DEF IsStop
    <3>2. CASE j # n + 1
      <4>1. i \in 1 .. n /\ j \in 1 .. n
        BY <1>q, <3>2
      <4>2. QED
        BY <1>q, <1>k, <2>1, <4>1 DEF ClaimSafe, NoStopAfterStart, IsStop
    <3>3. QED
      BY <3>1, <3>2
  <2>3. NoStopQueued(s) => NoStopQueued(s)'
    BY <1>r, <1>q, <1>k DEF NoStopQueued, IsStop
  <2>4. QED
    BY <2>1, <2>2, <2>3 DEF ClaimSafe
<1>3. AttemptSafe'
  <2>1. \A i \in DOMAIN wire' : wire'[i].cb = "await" => i = n + 1
    BY <1>q, <1>k
  <2>2. LastWord(n + 1)'
    BY <1>r, <1>q DEF LastWord
  <2>3. QED
    BY <2>1, <2>2 DEF AttemptSafe
<1>4. QED
  BY <1>1, <1>2, <1>3 DEF RollbackInv

(* The claim is taken: the attempt was accepted, no STOP is queued. *)
LEMMA ClaimTaken == Inv /\ StarterAccepted => RollbackInv'
<1> SUFFICES ASSUME Inv, StarterAccepted PROVE RollbackInv'
  OBVIOUS
<1>1. /\ g.slot \in Slots /\ Rolls(g.slot)
      /\ \A i \in DOMAIN wire : wire[i].kind # "stop" /\ wire[i].cb # "await"
  BY DEF Inv, RollbackInv, ThreadSafe, AttemptSafe, StarterAccepted
<1>2. wire' = wire /\ dev' = dev /\ endedBehind' = endedBehind
      /\ rollIdx' = g.slot /\ g' = Idle
  BY DEF StarterAccepted, Return, device
<1>3. ClaimSafe(g.slot)
  BY <1>1 DEF ClaimSafe, NoStopAfterStart, NoStopQueued, IsStop, Rolls
<1>4. \A s \in Slots : rollIdx' = s => ClaimSafe(s)'
  BY <1>2, <1>3 DEF ClaimSafe, NoStopAfterStart, NoStopQueued
<1>5. AttemptSafe'
  BY <1>1, <1>2, ReturnSafe DEF AttemptSafe
<1>6. QED
  BY <1>2, <1>4, <1>5, ReturnSafe DEF RollbackInv

(* Giving up the last attempt: its reply has no reader any more. *)
LEMMA AttemptGivenUp ==
  ASSUME Inv, wire' = Abandoned, g' = Idle, rollIdx' = rollIdx,
         UNCHANGED <<dev, endedBehind>>
  PROVE  RollbackInv'
<1>q. /\ DOMAIN wire' = DOMAIN wire
      /\ \A i \in DOMAIN wire : /\ wire'[i].kind = wire[i].kind
                                /\ wire'[i].slot = wire[i].slot
                                /\ wire'[i].cb # "await"
  BY QueueIndices, AbandonedRequests
<1>1. ASSUME NEW s \in Slots, rollIdx' = s PROVE ClaimSafe(s)'
  <2>1. ClaimSafe(s)
    BY <1>1 DEF Inv, RollbackInv
  <2>2. NoStopAfterStart(s)' /\ (NoStopQueued(s) => NoStopQueued(s)')
    BY <1>q, <2>1 DEF ClaimSafe, NoStopAfterStart, NoStopQueued, IsStop
  <2>3. QED
    BY <2>1, <2>2 DEF ClaimSafe
<1>2. AttemptSafe'
  BY <1>q, ReturnSafe DEF AttemptSafe
<1>3. QED
  BY <1>1, <1>2, ReturnSafe DEF RollbackInv

(* What one served request does to a lane that reels back: it reels on, or *)
(* its end is recorded, unless the request is its STOP.                    *)
LEMMA ServedLane ==
  ASSUME TypeOK, NEW r \in Request, Execute(r) \/ UNCHANGED <<dev, endedBehind>>,
         NEW s \in Slots, ~IsStop(r, s)
  PROVE  /\ dev[s] = "rollback" =>
              dev'[s] = "rollback" \/ <<"rollback", s>> \in endedBehind'
         /\ <<"rollback", s>> \in endedBehind =>
              \/ <<"rollback", s>> \in endedBehind'
              \/ r.kind = "start3" /\ r.slot = s /\ dev'[s] = "rollback"
<1>1. CASE UNCHANGED <<dev, endedBehind>>
  BY <1>1
<1>2. CASE Execute(r)
  <2>1. /\ r.kind \in {"start2", "start3", "stop", "move"} /\ r.slot \in Slots
        /\ dev \in [Slots -> {"idle", "assist", "rollback"}]
    BY DEF Request, TypeOK
  <2>2. <<"rollback", s>> \in Assists
    BY DEF Assists, Modes
  <2>3. CASE r.kind = "start2"
    <3>1. Executed(r)[r.slot] = "assist" /\ dev' = Executed(r)
      BY <1>2, <2>1, <2>3 DEF Execute, Executed
    <3>2. endedBehind' =
            (endedBehind \cup {a \in Assists : /\ dev[a[2]] = a[1]
                                               /\ Executed(r)[a[2]] # a[1]})
            \ {<<"assist", r.slot>>}
      BY <1>2, <2>3, <3>1 DEF Execute
    <3>3. <<"rollback", s>> # <<"assist", r.slot>>
      OBVIOUS
    <3>4. dev[s] = "rollback" /\ Executed(r)[s] # "rollback" =>
            <<"rollback", s>> \in {a \in Assists : /\ dev[a[2]] = a[1]
                                                   /\ Executed(r)[a[2]] # a[1]}
      BY <2>2
    <3>5. QED
      BY <3>1, <3>2, <3>3, <3>4
  <2>4. CASE r.kind = "start3"
    <3>1. dev' = [dev EXCEPT ![r.slot] = "rollback"] /\ dev' = Executed(r)
      BY <1>2, <2>4 DEF Execute, Executed
    <3>2. dev'[s] = IF s = r.slot THEN "rollback" ELSE dev[s]
      BY <2>1, <3>1
    <3>3. dev'[r.slot] = "rollback"
      BY <2>1, <3>1
    <3>4. <<"rollback", s>> \in endedBehind /\ s # r.slot =>
            <<"rollback", s>> \in endedBehind'
      BY <1>2, <2>4, <3>1 DEF Execute
    <3>5. QED
      BY <2>4, <3>2, <3>3, <3>4
  <2>5. CASE r.kind \in {"stop", "move"}
    BY <1>2, <2>1, <2>5 DEF Execute, Executed, IsStop
  <2>6. QED
    BY <2>1, <2>3, <2>4, <2>5
<1>3. QED
  BY <1>1, <1>2

(* Serving the head of the queue. *)
LEMMA RequestServed == Inv /\ Transact => RollbackInv'
<1> SUFFICES ASSUME Inv, Transact PROVE RollbackInv'
  OBVIOUS
<1> DEFINE r == Head(wire)
           n == Len(wire)
<1>q. /\ wire \in Seq(Request) /\ n \in Nat \ {0} /\ DOMAIN wire = 1 .. n
      /\ r = wire[1] /\ r \in Request
      /\ DOMAIN wire' = 1 .. n - 1
      /\ \A i \in 1 .. n - 1 : i + 1 \in 1 .. n /\ wire'[i] = wire[i + 1]
  BY QueueIndices, TailRequest DEF Transact
<1>s. Serve(r)
  BY DEF Transact
<1> HIDE DEF r, n
<1>e. Execute(r) \/ UNCHANGED <<dev, endedBehind>>
  BY <1>s DEF Serve
<1>a. \E ok \in BOOLEAN : Answer(r, ok) /\ (ok => Execute(r))
  BY <1>s DEF Serve
<1>c. /\ rollIdx' = rollIdx
      /\ r.cb # "await" => g' = g
      /\ r.cb = "await" =>
           \/ g' = [g EXCEPT !.got = "no"]
           \/ g' = [g EXCEPT !.got = "ok"] /\ Execute(r)
  <2>1. PICK ok \in BOOLEAN : Answer(r, ok) /\ (ok => Execute(r))
    BY <1>a
  <2>2. r.cb \in {"enable", "restore", "await", "none"}
    BY <1>q DEF Request
  <2>3. QED
    BY <2>1, <2>2
       DEF Answer, EnableAnswered, RestoreAnswered, AttemptAnswered, claims
<1>t. TypeOK /\ g \in Thread
  BY DEF Inv, TypeOK
<1>1. ThreadSafe'
  <2>1. g'.pc = g.pc /\ g'.slot = g.slot /\ g'.off = g.off
    BY <1>c, <1>t DEF Thread
  <2>2. QED
    BY <1>c, <2>1 DEF Inv, RollbackInv, ThreadSafe
<1>2. ASSUME NEW s \in Slots, rollIdx' = s PROVE ClaimSafe(s)'
  <2>1. ClaimSafe(s)
    BY <1>2, <1>c DEF Inv, RollbackInv
  <2>2. NoStopAfterStart(s)'
    <3> SUFFICES ASSUME NEW i \in 1 .. n - 1, NEW j \in 1 .. n - 1,
                        i < j, wire'[i].kind = "start3", wire'[i].slot = s
                 PROVE  ~IsStop(wire'[j], s)
      BY <1>q DEF NoStopAfterStart
    <3>1. i + 1 \in 1 .. n /\ j + 1 \in 1 .. n /\ i + 1 < j + 1
      BY <1>q
    <3>2. wire'[i] = wire[i + 1] /\ wire'[j] = wire[j + 1]
      BY <1>q
    <3>3. QED
      BY <1>q, <2>1, <3>1, <3>2 DEF ClaimSafe, NoStopAfterStart
  <2>3. NoStopQueued(s) => NoStopQueued(s)' /\ ~IsStop(r, s)
    BY <1>q DEF NoStopQueued
  <2>4. CASE dev[s] = "rollback" /\ NoStopQueued(s)
    BY <1>q, <1>e, <1>t, <2>2, <2>3, <2>4, ServedLane DEF ClaimSafe
  <2>5. CASE <<"rollback", s>> \in endedBehind
    <3>1. CASE IsStop(r, s)
      <4>1. r.kind = "stop"
        BY <3>1 DEF IsStop
      <4>2. endedBehind' = endedBehind
        BY <1>e, <4>1 DEF Execute
      <4>3. QED
        BY <2>2, <2>5, <4>2 DEF ClaimSafe
    <3>2. CASE r.kind = "start3" /\ r.slot = s
      <4>1. NoStopQueued(s)'
        <5> SUFFICES ASSUME NEW j \in 1 .. n - 1 PROVE ~IsStop(wire'[j], s)
          BY <1>q DEF NoStopQueued
        <5>1. 1 \in 1 .. n /\ j + 1 \in 1 .. n /\ 1 < j + 1 /\ wire'[j] = wire[j + 1]
          BY <1>q
        <5>2. QED
          BY <1>q, <2>1, <3>2, <5>1 DEF ClaimSafe, NoStopAfterStart
      <4>2. <<"rollback", s>> \in endedBehind' \/ dev'[s] = "rollback"
        BY <1>q, <1>e, <1>t, <2>5, <3>2, ServedLane DEF IsStop
      <4>3. QED
        BY <2>2, <4>1, <4>2 DEF ClaimSafe
    <3>3. CASE ~IsStop(r, s) /\ ~(r.kind = "start3" /\ r.slot = s)
      BY <1>q, <1>e, <1>t, <2>2, <2>5, <3>3, ServedLane DEF ClaimSafe
    <3>4. QED
      BY <3>1, <3>2, <3>3
  <2>6. QED
    BY <2>1, <2>4, <2>5 DEF ClaimSafe
<1>3. AttemptSafe'
  <2>1. CASE r.cb = "await"
    <3>1. g.pc = "await" /\ LastWord(1)
      BY <1>q, <2>1 DEF Inv, RollbackInv, AttemptSafe
    <3>2. r.kind = "start3" /\ r.slot = g.slot
      BY <1>q, <3>1 DEF LastWord
    <3>3. \A i \in DOMAIN wire' : wire'[i].kind # "stop" /\ wire'[i].cb # "await"
      <4> SUFFICES ASSUME NEW i \in 1 .. n - 1
                   PROVE  wire'[i].kind # "stop" /\ wire'[i].cb # "await"
        BY <1>q
      <4>1. i + 1 \in 1 .. n /\ i + 1 > 1 /\ wire'[i] = wire[i + 1]
        BY <1>q
      <4>2. QED
        BY <1>q, <3>1, <4>1 DEF LastWord
    <3>4. g'.pc = "await" /\ g'.slot = g.slot
      BY <1>c, <1>t, <2>1, <3>1 DEF Thread
    <3>5. g'.got = "ok" => Execute(r)
      BY <1>c, <1>t, <2>1 DEF Thread
    <3>6. ASSUME Execute(r) PROVE dev'[g'.slot] = "rollback"
      <4>1. dev \in [Slots -> {"idle", "assist", "rollback"}] /\ r.slot \in Slots
        BY <1>q, <1>t DEF TypeOK, Request
      <4>2. dev' = [dev EXCEPT ![r.slot] = "rollback"]
        BY <3>2, <3>6 DEF Execute, Executed
      <4>3. QED
        BY <3>2, <3>4, <4>1, <4>2
    <3>7. QED
      BY <3>3, <3>4, <3>5, <3>6 DEF AttemptSafe, Rolls
  <2>2. CASE r.cb # "await"
    <3>1. g' = g
      BY <1>c, <2>2
    <3>2. ASSUME g.got = "ok" PROVE Rolls(g.slot)'
      <4>1. g.pc = "await" /\ Rolls(g.slot) /\ r.kind # "stop"
        BY <1>q, <3>2 DEF Inv, RollbackInv, AttemptSafe
      <4>2. g.slot \in Slots
        BY <4>1 DEF Inv, RollbackInv, ThreadSafe
      <4>3. dev'[g.slot] = "rollback" \/ <<"rollback", g.slot>> \in endedBehind'
        BY <1>q, <1>e, <1>t, <4>1, <4>2, ServedLane DEF Rolls, IsStop
      <4>4. QED
        BY <3>1, <4>3 DEF Rolls
    <3>3. g.got = "ok" => \A i \in DOMAIN wire' : wire'[i].kind # "stop"
      BY <1>q DEF Inv, RollbackInv, AttemptSafe
    <3>4. ASSUME NEW i \in DOMAIN wire', wire'[i].cb = "await"
          PROVE  g.pc = "await" /\ g.got = "none" /\ LastWord(i)'
      <4>1. i \in 1 .. n - 1 /\ i + 1 \in DOMAIN wire /\ wire'[i] = wire[i + 1]
        BY <1>q
      <4>2. g.pc = "await" /\ g.got = "none" /\ LastWord(i + 1)
        BY <3>4, <4>1 DEF Inv, RollbackInv, AttemptSafe
      <4>3. \A j \in DOMAIN wire' :
              j > i => wire'[j].kind # "stop" /\ wire'[j].cb # "await"
        <5> SUFFICES ASSUME NEW j \in 1 .. n - 1, j > i
                     PROVE  wire'[j].kind # "stop" /\ wire'[j].cb # "await"
          BY <1>q
        <5>1. j + 1 \in DOMAIN wire /\ j + 1 > i + 1 /\ wire'[j] = wire[j + 1]
          BY <1>q, <4>1
        <5>2. QED
          BY <4>2, <5>1 DEF LastWord
      <4>4. QED
        BY <3>1, <4>1, <4>2, <4>3 DEF LastWord
    <3>5. g.got # "none" => g.pc = "await"
      BY DEF Inv, RollbackInv, AttemptSafe
    <3>6. QED
      BY <3>1, <3>2, <3>3, <3>4, <3>5 DEF AttemptSafe
  <2>3. QED
    BY <2>1, <2>2
<1>4. QED
  BY <1>1, <1>2, <1>3 DEF RollbackInv

(* RollbackInv is preserved by every step of the driver, of the queue, of  *)
(* the device and of the operator.                                         *)
LEMMA RollStep == Inv /\ [Next]_vars => RollbackInv'
<1> SUFFICES ASSUME Inv, [Next]_vars PROVE RollbackInv'
  OBVIOUS
<1> USE DEF claims, restore, manager, device
<1>a. /\ g \in Thread /\ feedIdx \in SlotOrNone /\ rollIdx \in SlotOrNone
      /\ g.pc # "idle" => g.slot \in Slots
      /\ g.pc = "offWait" => g.off \in Slots /\ g.off # rollIdx
      /\ g.pc # "await" => g.got = "none"
      /\ g.op \in Ops
  BY DEF Inv, TypeOK, RollbackInv, ThreadSafe, AttemptSafe, Thread, Ops
<1>1. ASSUME NEW s \in Slots,
             CallEnable(s) \/ CallMove(s) \/ CallStartRollback(s) \/ LoadBegins(s)
      PROVE  RollbackInv'
  <2>1. \E pc \in Pcs, op \in Ops : pc # "offWait" /\ Begin(pc, op, s)
    BY <1>1 DEF CallEnable, CallMove, CallStartRollback, LoadBegins, Pcs, Ops
  <2>2. ThreadSafe' /\ g'.got = "none"
    BY <2>1, BeginSafe
  <2>3. g.pc = "idle" /\ rollIdx' = rollIdx /\ wire' = wire
        /\ UNCHANGED <<dev, endedBehind>>
    BY <1>1 DEF CallEnable, CallMove, CallStartRollback, LoadBegins, Calling
  <2>4. QED
    BY <2>2, <2>3, DeviceKept, NothingSent DEF Unawaited
<1>2. CASE EnableStopsRollback
  <2>1. rollIdx \in Slots /\ StopRollback(rollIdx) /\ UNCHANGED <<dev, endedBehind>>
    BY <1>a, <1>2 DEF EnableStopsRollback, SlotOrNone
  <2>2. ThreadSafe' /\ Unawaited
    BY <1>2, GotoSafe DEF EnableStopsRollback, Pcs
  <2>3. QED
    BY <2>1, <2>2, RollbackStops
<1>3. CASE EnableSatisfied
  <2>1. g' = Idle /\ g.pc # "await" /\ rollIdx' = rollIdx /\ wire' = wire
        /\ UNCHANGED <<dev, endedBehind>>
    BY <1>3 DEF EnableSatisfied, Return
  <2>2. QED
    BY <2>1, ReturnSafe, DeviceKept, NothingSent DEF Unawaited
<1>4. CASE EnableClaims \/ EnableSends
  <2>1. /\ g.pc \in {"enable", "enableWait"} /\ g.slot \in Slots
        /\ rollIdx' = rollIdx /\ UNCHANGED <<dev, endedBehind>>
    BY <1>a, <1>4 DEF EnableClaims, EnableSends
  <2>2. Return \/ Goto("enableWait")
    BY <1>4 DEF EnableClaims, EnableSends, SendEnable
  <2>3. ThreadSafe' /\ Unawaited
    BY <2>1, <2>2, GotoSafe, ReturnSafe DEF Return, Unawaited, Pcs
  <2>4. Send(Start2(g.slot, "enable")) \/ wire' = wire
    BY <1>4 DEF EnableClaims, EnableSends, SendEnable
  <2>5. QED
    BY <2>1, <2>3, <2>4, FeedStarts, NothingSent, DeviceKept
<1>5. CASE DwellEnds \/ RecoverReady \/ DisableEnds
  <2>1. /\ g.pc \in {"dwell", "failWait", "offTail"}
        /\ rollIdx' = rollIdx /\ wire' = wire /\ UNCHANGED <<dev, endedBehind>>
    BY <1>5 DEF DwellEnds, RecoverReady, DisableEnds
  <2>2. Return \/ \E pc \in {"enable", "go", "ensure", "ensureRoll"} : Goto(pc)
    BY <1>5 DEF DwellEnds, RecoverReady, DisableEnds, AfterOff
  <2>3. ThreadSafe' /\ Unawaited
    BY <2>1, <2>2, GotoSafe, ReturnSafe DEF Return, Unawaited, Pcs
  <2>4. QED
    BY <2>1, <2>3, NothingSent, DeviceKept
<1>6. ASSUME NEW s \in Slots, CallDisable(s) PROVE RollbackInv'
  BY <1>6, DisableStarts DEF CallDisable, Calling, Ops
<1>7. CASE DisableSends
  <2>1. /\ g.pc = "offWait" /\ g.off \in Slots /\ g.off # rollIdx
        /\ rollIdx' = rollIdx /\ UNCHANGED <<dev, endedBehind>>
        /\ wire' = Append(wire, Stop(g.off)) /\ Goto("offTail")
    BY <1>a, <1>7 DEF DisableSends, Send
  <2>2. ThreadSafe' /\ Unawaited
    BY <2>1, GotoSafe DEF Pcs
  <2>3. Stop(g.off) \in Request /\ Stop(g.off).cb # "await" /\ Stop(g.off).slot = g.off
    BY <2>1, Requests DEF Stop
  <2>4. QED
    BY <2>1, <2>2, <2>3, DeviceKept, Sent
<1>8. CASE EnsureFeedOff
  <2>1. CASE feedIdx # None
    <3>1. feedIdx \in Slots /\ g.slot \in Slots /\ g.pc # "await"
          /\ StartDisable(feedIdx, g.op, g.slot) /\ UNCHANGED <<dev, endedBehind>>
      BY <1>a, <1>8, <2>1 DEF EnsureFeedOff, SlotOrNone
    <3>2. QED
      BY <1>a, <3>1, DisableStarts
  <2>2. CASE feedIdx = None
    <3>1. Goto("ensureRoll") /\ g.pc = "ensure" /\ rollIdx' = rollIdx
          /\ wire' = wire /\ UNCHANGED <<dev, endedBehind>>
      BY <1>8, <2>2 DEF EnsureFeedOff
    <3>2. ThreadSafe' /\ Unawaited
      BY <3>1, GotoSafe DEF Pcs
    <3>3. QED
      BY <3>1, <3>2, NothingSent, DeviceKept
  <2>3. QED
    BY <2>1, <2>2
<1>9. CASE EnsureRollbackOff
  <2>1. g.pc = "ensureRoll" /\ UNCHANGED <<dev, endedBehind>>
    BY <1>9 DEF EnsureRollbackOff
  <2>2. \/ rollIdx \in Slots /\ StopRollback(rollIdx) /\ Goto("dwell")
        \/ Goto("go") /\ rollIdx' = rollIdx /\ wire' = wire
    BY <1>a, <1>9 DEF EnsureRollbackOff, SlotOrNone
  <2>3. ThreadSafe' /\ Unawaited
    BY <2>1, <2>2, GotoSafe DEF Pcs
  <2>4. QED
    BY <2>1, <2>2, <2>3, RollbackStops, NothingSent, DeviceKept
<1>10. CASE MoveGoes
  <2>1. g.pc = "go" /\ g.slot \in Slots /\ g' = Idle /\ rollIdx' = rollIdx
        /\ UNCHANGED <<dev, endedBehind>>
        /\ (wire' = Append(wire, Move(g.slot)) \/ wire' = wire)
    BY <1>a, <1>10 DEF MoveGoes, Return, Send
  <2>2. ThreadSafe' /\ Unawaited /\ RollsOn
    BY <2>1, ReturnSafe, DeviceKept DEF Unawaited
  <2>3. /\ Move(g.slot) \in Request /\ Move(g.slot).cb # "await"
        /\ Move(g.slot).kind # "stop"
    BY <2>1, Requests DEF Move
  <2>4. QED
    BY <2>1, <2>2, <2>3, NothingSent, Sent
<1>11. ASSUME NEW n \in Nat, Attempt(n)
       PROVE  g'.pc = "await" /\ g'.got = "none" /\ g'.slot = g.slot
  BY <1>a, <1>11 DEF Attempt, Thread
<1>12. CASE StarterGoes
  <2>1. g.pc = "go" /\ g.slot \in Slots /\ rollIdx' = rollIdx
        /\ UNCHANGED <<dev, endedBehind>>
    BY <1>a, <1>12 DEF StarterGoes
  <2>2. CASE ShownEmpty(g.slot)
    <3>1. g' = Idle /\ wire' = wire
      BY <1>12, <2>2 DEF StarterGoes, Return
    <3>2. QED
      BY <2>1, <3>1, ReturnSafe, DeviceKept, NothingSent DEF Unawaited
  <2>3. CASE ~ShownEmpty(g.slot)
    <3>1. Attempt(1) /\ wire' = Append(wire, Start3(g.slot))
      BY <1>12, <2>3 DEF StarterGoes, Send
    <3>2. g'.pc = "await" /\ g'.got = "none" /\ g'.slot = g.slot
      BY <1>11, <3>1
    <3>3. wire \in Seq(Request) /\ \A i \in DOMAIN wire : wire[i].cb # "await"
      BY <2>1, QueueIndices
    <3>4. QED
      BY <2>1, <3>1, <3>2, <3>3, AttemptSent
  <2>4. QED
    BY <2>2, <2>3
<1>13. CASE StarterAccepted
  BY <1>13, ClaimTaken
<1>14. CASE StarterRetries
  <2>1. g.pc = "await" /\ g.slot \in Slots /\ rollIdx' = rollIdx
        /\ UNCHANGED <<dev, endedBehind>>
    BY <1>a, <1>14 DEF StarterRetries
  <2>2. CASE g.tries < SettleAttempts
    <3>1. Attempt(g.tries + 1) /\ wire' = Append(Abandoned, Start3(g.slot))
      BY <1>14, <2>2 DEF StarterRetries
    <3>2. g.tries + 1 \in Nat
      BY <1>a DEF Thread
    <3>3. g'.pc = "await" /\ g'.got = "none" /\ g'.slot = g.slot
      BY <1>11, <3>1, <3>2
    <3>4. QED
      BY <2>1, <3>1, <3>3, QueueIndices, AbandonedRequests, AttemptSent
  <2>3. CASE ~(g.tries < SettleAttempts)
    BY <1>14, <2>1, <2>3, AttemptGivenUp DEF StarterRetries, Return
  <2>4. QED
    BY <2>2, <2>3
<1>15. CASE WaitTimesOut
  <2>1. g' = Idle /\ g.pc # "await" /\ rollIdx' = rollIdx /\ wire' = wire
        /\ UNCHANGED <<dev, endedBehind>>
    BY <1>15 DEF WaitTimesOut, Return, WaitPcs
  <2>2. QED
    BY <2>1, ReturnSafe, DeviceKept, NothingSent DEF Unawaited
<1>16. ASSUME NEW s \in Slots, CallStopRollback(s) PROVE RollbackInv'
  <2>1. g.pc = "idle" /\ StopRollback(s) /\ Begin("dwell", "stopRoll", s)
        /\ UNCHANGED <<dev, endedBehind>>
    BY <1>16 DEF CallStopRollback, Calling
  <2>2. ThreadSafe' /\ g'.got = "none"
    BY <2>1, BeginSafe DEF Pcs, Ops
  <2>3. QED
    BY <2>1, <2>2, RollbackStops DEF Unawaited
<1>17. ASSUME NEW s \in Slots, g.pc = "idle", SendFirst(Stop(s)), dev' = dev,
              endedBehind' = endedBehind \cup (Modes \X {s}), rollIdx' = rollIdx,
              ThreadSafe', g'.got = "none"
       PROVE  RollbackInv'
  <2>1. RollsOn /\ <<"rollback", s>> \in endedBehind'
    BY <1>17 DEF RollsOn, Modes
  <2>2. QED
    BY <1>17, <2>1, StopFirst DEF Unawaited, SendFirst
<1>18. ASSUME NEW s \in Slots, CallStopFeed(s) PROVE RollbackInv'
  <2>1. ThreadSafe' /\ g'.got = "none"
    BY <1>a, <1>18, StaySafe DEF CallStopFeed, Calling
  <2>2. QED
    BY <1>17, <1>18, <2>1 DEF CallStopFeed, Calling
<1>19. CASE LoadFails
  <2>1. loading \in Slots
    BY <1>19 DEF LoadFails, Inv, TypeOK, SlotOrNone
  <2>2. ThreadSafe' /\ g'.got = "none"
    BY <1>19, <2>1, BeginSafe DEF LoadFails, Pcs, Ops
  <2>3. QED
    BY <1>17, <1>19, <2>1, <2>2 DEF LoadFails
<1>20. CASE CallReset \/ ToolchangeBegins \/ ToolchangeEnds \/ LoadEnds
            \/ DeviceEndsWork \/ WaitPolls \/ DeviceStartsWork \/ Connect
            \/ UNCHANGED vars
  <2>1. g' = g /\ wire' = wire /\ rollIdx' = rollIdx /\ UNCHANGED <<dev, endedBehind>>
    <3>1. CASE CallReset \/ ToolchangeBegins \/ ToolchangeEnds \/ LoadEnds
      BY <3>1 DEF CallReset, ToolchangeBegins, ToolchangeEnds, LoadEnds
    <3>2. CASE DeviceEndsWork \/ WaitPolls \/ DeviceStartsWork \/ Connect
      BY <3>2 DEF DeviceEndsWork, WaitPolls, DeviceStartsWork, Connect
    <3>3. QED
      BY <1>20, <3>1, <3>2 DEF vars
  <2>2. QED
    BY <2>1, StaySafe, DeviceKept, NothingSent
<1>21. CASE Heartbeat
  <2> DEFINE q == Reconciled(SlotReadyQueue(Queue))
  <2>1. q \in RestoreQueue
    BY QueueTyped DEF Inv
  <2>2. MaybeRestore(q) /\ g' = g /\ UNCHANGED <<dev, endedBehind>>
    BY <1>21 DEF Heartbeat
  <2> HIDE DEF q
  <2>3. rollIdx' = rollIdx
    BY <2>2 DEF MaybeRestore, NoRestore, SkipEmpty, DropStale, GiveUp,
                OtherPosition, SendOrWait
  <2>4. wire' = wire \/ (q.pending # None /\ Send(Start2(q.pending, "restore")))
    BY <2>2 DEF MaybeRestore, NoRestore, SkipEmpty, DropStale, GiveUp,
                OtherPosition, SendOrWait, Restorable
  <2>5. q.pending # None => q.pending \in Slots
    BY <2>1 DEF RestoreQueue, SlotOrNone
  <2>6. QED
    BY <2>2, <2>3, <2>4, <2>5, StaySafe, DeviceKept, NothingSent, FeedStarts
<1>22. ASSUME NEW s \in Slots, RestoreResumes(s) PROVE RollbackInv'
  BY <1>22, StaySafe, FeedStarts DEF RestoreResumes
<1>23. ASSUME NEW s \in Slots, RestoreDefers(s) PROVE RollbackInv'
  BY <1>23, StaySafe, DeviceKept, NothingSent DEF RestoreDefers
<1>24. CASE Transact
  BY <1>24, RequestServed
<1>25. CASE LinkDrops \/ PowerCycles
  <2>1. RollsOn /\ wire' = <<>> /\ g' = g /\ rollIdx' = rollIdx
    BY <1>25 DEF LinkDrops, PowerCycles, RollsOn, Assists, Modes
  <2>2. QED
    BY <2>1, StaySafe, QueueCleared
<1>26. CASE KlippyRestarts
  <2>1. RollsOn /\ wire' = <<>> /\ g' = Idle /\ rollIdx' = None
    BY <1>26, DeviceKept DEF KlippyRestarts
  <2>2. QED
    BY <2>1, ReturnSafe, QueueCleared
<1>27. ASSUME NEW s \in Slots, Preload(s) \/ SpoolRunsOut(s) PROVE RollbackInv'
  <2>1. g' = g /\ wire' = wire /\ rollIdx' = rollIdx
    BY <1>27 DEF Preload, SpoolRunsOut
  <2>2. dev \in [Slots -> {"idle", "assist", "rollback"}]
    BY DEF Inv, TypeOK
  <2>3. RollsOn
    BY <1>27, <2>2 DEF RollsOn, Preload, SpoolRunsOut, Modes
  <2>4. QED
    BY <2>1, <2>3, StaySafe, NothingSent
<1>28. QED
  BY <1>1, <1>2, <1>3, <1>4, <1>5, <1>6, <1>7, <1>8, <1>9, <1>10, <1>12, <1>13,
     <1>14, <1>15, <1>16, <1>18, <1>19, <1>20, <1>21, <1>22, <1>23, <1>24, <1>25,
     <1>26, <1>27
     DEF Next, Command, ThreadStep, ManagerStep, Environment

-----------------------------------------------------------------------------
(* The theorems *)

(* Typing and the strengthened rollback claim hold in every reachable      *)
(* state: the two halves need each other, a step is well typed because     *)
(* the thread names a slot.                                                *)
THEOREM Invariant == Spec => []Inv
<1>1. Init => Inv
  BY InitInv
<1>2. Inv /\ [Next]_vars => Inv'
  BY TypeStep, RollStep DEF Inv
<1>3. QED
  BY <1>1, <1>2, PTL DEF Spec

(* Every variable keeps its type.                                          *)
THEOREM TypeCorrect == Spec => []TypeOK
<1>1. Inv => TypeOK
  BY DEF Inv
<1>2. QED
  BY <1>1, Invariant, PTL

(* While a rollback claim stands no STOP of its lane is queued behind the  *)
(* request that earned it, and the attempt a starter listens to is the     *)
(* last word in the queue.                                                 *)
THEOREM QueueHonoursClaim == Spec => []RollbackInv
<1>1. Inv => RollbackInv
  BY DEF Inv
<1>2. QED
  BY <1>1, Invariant, PTL

(* The claim the macro layer gates its retracts on is never forged:        *)
(* whatever is retried, answered late, lost, restored or restarted, a lane *)
(* named by _rollback_assist_index was accepted into mode 3 and nobody     *)
(* stopped it through a path that clears the claim.                        *)
THEOREM RollbackEarned == Spec => []RollbackClaimEarned
<1>1. RollbackInv => RollbackClaimEarned
  BY DEF RollbackInv, ClaimSafe, RollbackClaimEarned, Rolls
<1>2. QED
  BY <1>1, QueueHonoursClaim, PTL

=============================================================================
