-------------------------- MODULE WarRoomInboxProofs --------------------------
(* Theorems about WarRoomInbox, for every set of agents and of messages and *)
(* every choice of the streams they go to.                                  *)
EXTENDS WarRoomInbox, FiniteSetTheorems, SequenceTheorems, TLAPS

(* A goroutine is up exactly while the running flag says so; one about to   *)
(* drain has something to drain.                                            *)
PumpsOK ==
    \A s \in Streams :
        /\ batchRunning[s] <=> pump[s] # "off"
        /\ pump[s] = "drain" => batchPending[s] # <<>>

(* What is in a stream's batch was sent to it. *)
BatchesOK ==
    \A s \in Streams, m \in Msgs :
        /\ Contains(batchPending[s], m) => Target[m] = s
        /\ pump[s] = "register" /\ Contains(batch[s], m) => Target[m] = s

(* The four places of a message, as predicates. *)
InPending(m) == Contains(batchPending[Target[m]], m)
InTaken(m)   == pump[Target[m]] = "register" /\ Contains(batch[Target[m]], m)
InOffline(m) == Contains(pendingDMs, m)
InCarried(m) == carried[m] # None

Nowhere(m) == ~InPending(m) /\ ~InTaken(m) /\ ~InOffline(m) /\ ~InCarried(m)
OnePlace(m) ==
    \/ InPending(m) /\ ~InTaken(m) /\ ~InOffline(m) /\ ~InCarried(m)
    \/ ~InPending(m) /\ InTaken(m) /\ ~InOffline(m) /\ ~InCarried(m)
    \/ ~InPending(m) /\ ~InTaken(m) /\ InOffline(m) /\ ~InCarried(m)
    \/ ~InPending(m) /\ ~InTaken(m) /\ ~InOffline(m) /\ InCarried(m)
PlacesOK ==
    \A m \in Msgs : IF sender[m] = "sent" THEN OnePlace(m) ELSE Nowhere(m)

InboxInv == PumpsOK /\ BatchesOK /\ PlacesOK /\ NoStrandedBatch /\ CancelSlotFresh

-----------------------------------------------------------------------------
(* Sequences. *)

LEMMA ContainsAppend ==
    ASSUME NEW q \in Seq(Msgs), NEW m \in Msgs, NEW x
    PROVE  Contains(Append(q, m), x) <=> Contains(q, x) \/ x = m
<1>1. Len(Append(q, m)) = Len(q) + 1 /\ Len(q) \in Nat
  OBVIOUS
<1>2. \A i \in 1..Len(q) : Append(q, m)[i] = q[i]
  OBVIOUS
<1>3. Append(q, m)[Len(q) + 1] = m
  OBVIOUS
<1>4. \A i : i \in 1..(Len(q) + 1) <=> i \in 1..Len(q) \/ i = Len(q) + 1
  BY <1>1
<1> QED
  BY <1>1, <1>2, <1>3, <1>4 DEF Contains

LEMMA ContainsEmpty == \A x : ~Contains(<<>>, x)
BY DEF Contains

LEMMA OpTyped ==
    ASSUME TypeOK, NEW s \in Streams, pump[s] \in {"register", "handling", "clear"}
    PROVE  Op(s) \in Msgs /\ Contains(batch[s], Op(s))
<1>1. batch[s] \in Seq(Msgs) /\ batch[s] # <<>>
  BY DEF TypeOK
<1>2. 1 \in 1..Len(batch[s]) /\ Head(batch[s]) = batch[s][1] /\ Head(batch[s]) \in Msgs
  BY <1>1
<1> QED
  BY <1>2 DEF Op, Contains

-----------------------------------------------------------------------------
LEMMA InitInbox == Init => TypeOK /\ InboxInv
<1> SUFFICES ASSUME Init PROVE TypeOK /\ InboxInv
  OBVIOUS
<1> USE DEF Init, Queue!SInit
<1>1. TypeOK
  BY DEF TypeOK, PumpStates, HandlerStates, Queue!Phases, Queue!Replies
<1>2. PumpsOK /\ NoStrandedBatch /\ CancelSlotFresh
  BY DEF PumpsOK, NoStrandedBatch, CancelSlotFresh
<1>3. BatchesOK /\ PlacesOK
  BY ContainsEmpty, TargetAssumption
     DEF BatchesOK, PlacesOK, Nowhere, InPending, InTaken, InOffline, InCarried
<1> QED
  BY <1>1, <1>2, <1>3 DEF InboxInv

(* The steps that leave the batches, the goroutines and the slot alone.     *)
LEMMA QuietStep ==
    ASSUME TypeOK, InboxInv,
           UNCHANGED <<sender, batchPending, batchRunning, pendingDMs, pump, batch,
                       carried, cancelOp>>
    PROVE  InboxInv'
BY DEF InboxInv, PumpsOK, BatchesOK, PlacesOK, Nowhere, OnePlace, InPending, InTaken,
       InOffline, InCarried, NoStrandedBatch, CancelSlotFresh, Op

LEMMA TypeStep == TypeOK /\ InboxInv /\ [Next]_vars => TypeOK'
<1> SUFFICES ASSUME TypeOK, InboxInv, [Next]_vars PROVE TypeOK'
  OBVIOUS
<1> USE DEF inboxVars, pumpVars, cancelVars, healthVars, queueVars
<1>1. ASSUME NEW m \in Msgs, AddToBatch(m),
             UNCHANGED <<cancelVars, healthVars, handler, queueVars>>
      PROVE  TypeOK'
  <2>1. Target[m] \in Streams
    BY TargetAssumption
  <2>2. Append(batchPending[Target[m]], m) \in Seq(Msgs)
    BY <2>1 DEF TypeOK
  <2>3. batchPending' \in [Streams -> Seq(Msgs)] /\ batchRunning' \in [Streams -> BOOLEAN]
    BY <1>1, <2>1, <2>2 DEF AddToBatch, TypeOK
  <2>4. pump' \in [Streams -> PumpStates] /\ UNCHANGED batch
        /\ \A s \in Streams :
              pump'[s] \in {"register", "handling", "clear"} => pump'[s] = pump[s]
    BY <1>1, <2>1 DEF AddToBatch, TypeOK, PumpStates
  <2>5. \A s \in Streams :
           pump'[s] \in {"register", "handling", "clear"} => batch'[s] # <<>>
    BY <2>4 DEF TypeOK
  <2> QED
    BY <1>1, <2>3, <2>4, <2>5 DEF AddToBatch, TypeOK
<1>2. ASSUME NEW m \in Msgs, SendBossCommand(m) \/ BatchDirectMessage(m) PROVE TypeOK'
  BY <1>1, <1>2 DEF SendBossCommand, BatchDirectMessage
<1>3. ASSUME NEW m \in Msgs, SendDirectMessage(m) PROVE TypeOK'
  BY <1>3 DEF SendDirectMessage, TypeOK
<1>4. ASSUME NEW m \in Msgs, HoldDirectMessage(m) PROVE TypeOK'
  <2>1. Append(pendingDMs, m) \in Seq(Msgs)
    BY DEF TypeOK
  <2> QED
    BY <1>4, <2>1 DEF HoldDirectMessage, TypeOK
<1>5. ASSUME NEW s \in Streams, Drain(s) PROVE TypeOK'
  <2>1. batchPending[s] # <<>> /\ batchPending[s] \in Seq(Msgs)
    BY <1>5 DEF Drain, InboxInv, PumpsOK, TypeOK
  <2>2. batch' \in [Streams -> Seq(Msgs)] /\ batchPending' \in [Streams -> Seq(Msgs)]
    BY <1>5, <2>1 DEF Drain, TypeOK
  <2>3. pump' \in [Streams -> PumpStates]
    BY <1>5 DEF Drain, TypeOK, PumpStates
  <2>4. \A z \in Streams : pump'[z] \in {"register", "handling", "clear"} => batch'[z] # <<>>
    BY <1>5, <2>1 DEF Drain, TypeOK
  <2> QED
    BY <1>5, <2>2, <2>3, <2>4 DEF Drain, TypeOK
<1>6. ASSUME NEW s \in Streams, Register(s) PROVE TypeOK'
  <2>1. Op(s) \in Msgs
    BY <1>6, OpTyped DEF Register
  <2>2. cancelled' \in [Msgs -> BOOLEAN] /\ cancelOp' \in Msgs \cup {None}
    BY <1>6, <2>1 DEF Register, TypeOK
  <2>3. pump' \in [Streams -> PumpStates] /\ handler' \in [Msgs -> HandlerStates]
    BY <1>6 DEF Register, TypeOK, PumpStates, HandlerStates
  <2>4. carried' \in [Msgs -> Msgs \cup {None}]
    BY <1>6, <2>1 DEF Register, TypeOK
  <2>5. \A z \in Streams : pump'[z] \in {"register", "handling", "clear"} => batch'[z] # <<>>
    BY <1>6 DEF Register, TypeOK
  <2> QED
    BY <1>6, <2>2, <2>3, <2>4, <2>5 DEF Register, TypeOK
<1>7. ASSUME NEW s \in Streams, OperationReturns(s) PROVE TypeOK'
  <2>1. pump' \in [Streams -> PumpStates]
    BY <1>7 DEF OperationReturns, TypeOK, PumpStates
  <2>2. \A z \in Streams : pump'[z] \in {"register", "handling", "clear"} => batch'[z] # <<>>
    BY <1>7 DEF OperationReturns, TypeOK
  <2> QED
    BY <1>7, <2>1, <2>2 DEF OperationReturns, TypeOK
<1>8. ASSUME NEW s \in Streams, Clear(s) PROVE TypeOK'
  <2>1. pump' \in [Streams -> PumpStates]
    BY <1>8 DEF Clear, TypeOK, PumpStates
  <2>2. \A z \in Streams : pump'[z] \in {"register", "handling", "clear"} => batch'[z] # <<>>
    BY <1>8 DEF Clear, TypeOK
  <2> QED
    BY <1>8, <2>1, <2>2 DEF Clear, TypeOK
<1>9. ASSUME NEW s \in Streams, Recheck(s) PROVE TypeOK'
  <2>1. pump' \in [Streams -> PumpStates] /\ batchRunning' \in [Streams -> BOOLEAN]
    BY <1>9 DEF Recheck, TypeOK, PumpStates
  <2>2. batch' \in [Streams -> Seq(Msgs)]
    BY <1>9 DEF Recheck, TypeOK
  <2>3. \A z \in Streams : pump'[z] \in {"register", "handling", "clear"} => batch'[z] # <<>>
    BY <1>9 DEF Recheck, TypeOK
  <2> QED
    BY <1>9, <2>1, <2>2, <2>3 DEF Recheck, TypeOK
<1>10. CASE StopRequested \/ StopFires \/ Probe \/ StoreHealth
  BY <1>10 DEF StopRequested, StopFires, Probe, StoreHealth, TypeOK
<1>11. CASE FlushPendingDMs
  <2>1. handler' \in [Msgs -> HandlerStates] /\ carried' \in [Msgs -> Msgs \cup {None}]
    BY <1>11 DEF FlushPendingDMs, TypeOK, HandlerStates
  <2>2. pendingDMs' \in Seq(Msgs) /\ monitor' = "idle"
    BY <1>11 DEF FlushPendingDMs
  <2> QED
    BY <1>11, <2>1, <2>2 DEF FlushPendingDMs, TypeOK
<1>12. ASSUME NEW h \in Msgs, HandlerStep(h) PROVE TypeOK'
  <2>1. handler' \in [Msgs -> HandlerStates]
    BY <1>12 DEF HandlerStep, SubmitTurn, SubmitReturnsResult, SubmitCancelled,
                 BossCommandEnds, TypeOK, HandlerStates
  <2>2. /\ phase' \in [Msgs -> Queue!Phases]
        /\ reply' \in [Msgs -> Queue!Replies]
        /\ UNCHANGED cancelled
    BY <1>12 DEF HandlerStep, SubmitTurn, SubmitReturnsResult, SubmitCancelled,
                 BossCommandEnds, TypeOK, Queue!Accept, Queue!Return, Queue!Withdraw,
                 Queue!Phases, Queue!Replies
  <2>3. UNCHANGED <<inboxVars, pumpVars, cancelVars, healthVars>>
    BY <1>12 DEF HandlerStep, SubmitTurn, SubmitReturnsResult, SubmitCancelled, BossCommandEnds
  <2> QED
    BY <2>1, <2>2, <2>3 DEF TypeOK
<1>13. ASSUME NEW h \in Msgs, QueueStep(h) PROVE TypeOK'
  <2>1. phase' \in [Msgs -> Queue!Phases] /\ UNCHANGED <<cancelled, reply>>
    BY <1>13 DEF QueueStep, QueueBegins, QueueSkips, TurnEnds, TypeOK, Queue!Begin,
                 Queue!Skip, Queue!End, Queue!Phases
  <2>2. UNCHANGED <<inboxVars, pumpVars, cancelVars, healthVars, handler>>
    BY <1>13 DEF QueueStep, QueueBegins, QueueSkips, TurnEnds
  <2> QED
    BY <2>1, <2>2 DEF TypeOK
<1>14. CASE UNCHANGED vars
  BY <1>14 DEF vars, TypeOK
<1> QED
  BY <1>2, <1>3, <1>4, <1>5, <1>6, <1>7, <1>8, <1>9, <1>10, <1>11, <1>12, <1>13, <1>14
     DEF Next, SendStep, PumpStep, MonitorStep

-----------------------------------------------------------------------------
LEMMA BatchStep ==
    ASSUME TypeOK, InboxInv, NEW m \in Msgs, sender[m] # "sent", AddToBatch(m),
           UNCHANGED cancelOp
    PROVE  InboxInv'
<1> DEFINE s == Target[m]
<1>1. s \in Streams
  BY TargetAssumption
<1>2. /\ batchPending'[s] = Append(batchPending[s], m) /\ batchPending[s] \in Seq(Msgs)
      /\ \A z \in Streams \ {s} : batchPending'[z] = batchPending[z]
      /\ \A z \in Streams \ {s} : batchRunning'[z] = batchRunning[z]
      /\ batchRunning'[s] = TRUE
      /\ UNCHANGED <<batch, carried, pendingDMs>>
  BY <1>1 DEF AddToBatch, TypeOK
<1>3. \A z \in Streams : pump'[z] = IF z = s /\ pump[s] = "off" THEN "drain" ELSE pump[z]
  BY <1>1 DEF AddToBatch, TypeOK, InboxInv, PumpsOK
<1>4. \A x \in Msgs : Contains(batchPending'[s], x) <=> Contains(batchPending[s], x) \/ x = m
  BY <1>2, ContainsAppend
<1>5. batchPending'[s] # <<>>
  BY <1>2
<1>6. PumpsOK' /\ NoStrandedBatch'
  BY <1>1, <1>2, <1>3, <1>5 DEF InboxInv, PumpsOK, NoStrandedBatch
<1>7. BatchesOK'
  <2> SUFFICES ASSUME NEW z \in Streams, NEW x \in Msgs
               PROVE  /\ Contains(batchPending'[z], x) => Target[x] = z
                      /\ pump'[z] = "register" /\ Contains(batch'[z], x) => Target[x] = z
    BY DEF BatchesOK
  <2>1. /\ Contains(batchPending[z], x) => Target[x] = z
        /\ pump[z] = "register" /\ Contains(batch[z], x) => Target[x] = z
    BY DEF InboxInv, BatchesOK
  <2>2. Contains(batchPending'[z], x) => Contains(batchPending[z], x) \/ (z = s /\ x = m)
    BY <1>2, <1>4
  <2>3. pump'[z] = "register" => pump[z] = "register"
    BY <1>3
  <2>4. UNCHANGED batch
    BY <1>2
  <2> QED
    BY <2>1, <2>2, <2>3, <2>4
<1>8. CancelSlotFresh'
  BY <1>1, <1>2, <1>3 DEF InboxInv, CancelSlotFresh, Op
<1>9. PlacesOK'
  <2> SUFFICES ASSUME NEW x \in Msgs
               PROVE  (IF sender[x] = "sent" THEN OnePlace(x) ELSE Nowhere(x))'
    BY DEF PlacesOK
  <2>1. IF sender[x] = "sent" THEN OnePlace(x) ELSE Nowhere(x)
    BY DEF InboxInv, PlacesOK
  <2>2. Target[x] \in Streams
    BY TargetAssumption
  <2>3. /\ InTaken(x)' <=> InTaken(x)
        /\ InOffline(x)' <=> InOffline(x)
        /\ InCarried(x)' <=> InCarried(x)
    BY <1>2, <1>3, <2>2 DEF InTaken, InOffline, InCarried
  <2>4. InPending(x)' <=> InPending(x) \/ x = m
    BY <1>1, <1>2, <1>4, <2>2 DEF InPending
  <2>5. sender'[x] = IF x = m THEN "sent" ELSE sender[x]
    BY DEF AddToBatch, TypeOK
  <2> QED
    BY <2>1, <2>3, <2>4, <2>5 DEF OnePlace, Nowhere
<1> QED
  BY <1>6, <1>7, <1>8, <1>9 DEF InboxInv

LEMMA PumpKeeps ==
    ASSUME TypeOK, InboxInv, NEW s \in Streams, PumpStep(s)
    PROVE  InboxInv'
<1> USE DEF inboxVars, pumpVars, cancelVars, healthVars, queueVars
<1>0. \A x \in Msgs : Target[x] \in Streams
  BY TargetAssumption
<1>1. CASE Drain(s)
  <2>1. /\ pump[s] = "drain" /\ pump'[s] = "register"
        /\ batch'[s] = batchPending[s] /\ batchPending'[s] = <<>>
        /\ \A z \in Streams \ {s} :
              pump'[z] = pump[z] /\ batch'[z] = batch[z] /\ batchPending'[z] = batchPending[z]
        /\ UNCHANGED <<carried, sender, batchRunning, pendingDMs, cancelOp>>
    BY <1>1 DEF Drain, TypeOK
  <2>2. PumpsOK' /\ NoStrandedBatch'
    BY <2>1 DEF InboxInv, PumpsOK, NoStrandedBatch
  <2>3. CancelSlotFresh'
    BY <2>1 DEF InboxInv, CancelSlotFresh, Op
  <2>4. BatchesOK'
    BY <2>1, ContainsEmpty DEF InboxInv, BatchesOK
  <2>5. PlacesOK'
    <3> SUFFICES ASSUME NEW x \in Msgs
                 PROVE  (IF sender[x] = "sent" THEN OnePlace(x) ELSE Nowhere(x))'
      BY DEF PlacesOK
    <3>1. IF sender[x] = "sent" THEN OnePlace(x) ELSE Nowhere(x)
      BY DEF InboxInv, PlacesOK
    <3>2. CASE Target[x] = s
      <4>1. ~InPending(x)' /\ ~InTaken(x) /\ (InTaken(x)' <=> InPending(x))
        BY <2>1, <3>2, ContainsEmpty DEF InPending, InTaken
      <4> QED
        BY <2>1, <3>1, <4>1 DEF OnePlace, Nowhere, InOffline, InCarried
    <3>3. CASE Target[x] # s
      <4>1. (InPending(x)' <=> InPending(x)) /\ (InTaken(x)' <=> InTaken(x))
        BY <1>0, <2>1, <3>3 DEF InPending, InTaken
      <4> QED
        BY <2>1, <3>1, <4>1 DEF OnePlace, Nowhere, InOffline, InCarried
    <3> QED
      BY <3>2, <3>3
  <2> QED
    BY <2>2, <2>3, <2>4, <2>5 DEF InboxInv
<1>2. CASE Register(s)
  <2>1. /\ pump[s] = "register" /\ pump'[s] = "handling"
        /\ \A z \in Streams \ {s} : pump'[z] = pump[z]
        /\ cancelOp' = Op(s) /\ Op(s) \in Msgs
        /\ \A x \in Msgs : carried'[x] = IF Contains(batch[s], x) THEN Op(s) ELSE carried[x]
        /\ UNCHANGED <<inboxVars, batch>>
    BY <1>2, OpTyped DEF Register, TypeOK
  <2>2. PumpsOK' /\ NoStrandedBatch'
    BY <2>1 DEF InboxInv, PumpsOK, NoStrandedBatch
  <2>3. CancelSlotFresh'
    BY <2>1 DEF CancelSlotFresh, Op
  <2>4. BatchesOK'
    BY <2>1 DEF InboxInv, BatchesOK
  <2>5. PlacesOK'
    <3> SUFFICES ASSUME NEW x \in Msgs
                 PROVE  (IF sender[x] = "sent" THEN OnePlace(x) ELSE Nowhere(x))'
      BY DEF PlacesOK
    <3>1. IF sender[x] = "sent" THEN OnePlace(x) ELSE Nowhere(x)
      BY DEF InboxInv, PlacesOK
    <3>2. CASE Contains(batch[s], x)
      <4>1. InTaken(x) /\ ~InTaken(x)' /\ InCarried(x)'
        BY <2>1, <3>2, StreamAssumption DEF InTaken, InCarried, InboxInv, BatchesOK
      <4> QED
        BY <2>1, <3>1, <4>1 DEF OnePlace, Nowhere, InOffline, InPending
    <3>3. CASE ~Contains(batch[s], x)
      <4>1. (InTaken(x)' <=> InTaken(x)) /\ (InCarried(x)' <=> InCarried(x))
        BY <1>0, <2>1, <3>3 DEF InTaken, InCarried
      <4> QED
        BY <2>1, <3>1, <4>1 DEF OnePlace, Nowhere, InOffline, InPending
    <3> QED
      BY <3>2, <3>3
  <2> QED
    BY <2>2, <2>3, <2>4, <2>5 DEF InboxInv
<1>3. CASE OperationReturns(s) \/ Clear(s)
  <2>1. /\ pump[s] \in {"handling", "clear"} /\ pump'[s] \in {"clear", "recheck"}
        /\ \A z \in Streams \ {s} : pump'[z] = pump[z]
        /\ cancelOp' = IF pump'[s] = "clear" THEN cancelOp ELSE None
        /\ UNCHANGED <<inboxVars, batch, carried>>
    BY <1>3 DEF OperationReturns, Clear, TypeOK
  <2>2. PumpsOK' /\ NoStrandedBatch'
    BY <2>1 DEF InboxInv, PumpsOK, NoStrandedBatch
  <2>3. CancelSlotFresh'
    BY <2>1 DEF InboxInv, CancelSlotFresh, Op
  <2>4. BatchesOK'
    BY <2>1 DEF InboxInv, BatchesOK
  <2>5. \A x \in Msgs : InTaken(x)' <=> InTaken(x)
    BY <1>0, <2>1 DEF InTaken
  <2>6. PlacesOK'
    BY <2>1, <2>5 DEF InboxInv, PlacesOK, OnePlace, Nowhere, InPending, InOffline, InCarried
  <2> QED
    BY <2>2, <2>3, <2>4, <2>6 DEF InboxInv
<1>4. CASE Recheck(s)
  <2>1. /\ pump[s] = "recheck"
        /\ \/ pump'[s] = "off" /\ batchPending[s] = <<>> /\ batchRunning'[s] = FALSE
           \/ pump'[s] = "drain" /\ batchPending[s] # <<>> /\ UNCHANGED batchRunning
        /\ \A z \in Streams \ {s} :
              /\ pump'[z] = pump[z]
              /\ batch'[z] = batch[z]
              /\ batchRunning'[z] = batchRunning[z]
        /\ UNCHANGED <<sender, batchPending, pendingDMs, carried, cancelOp>>
    BY <1>4 DEF Recheck, TypeOK
  <2>2. PumpsOK' /\ NoStrandedBatch'
    BY <2>1 DEF InboxInv, PumpsOK, NoStrandedBatch
  <2>3. CancelSlotFresh'
    BY <2>1 DEF InboxInv, CancelSlotFresh, Op
  <2>4. BatchesOK'
    BY <2>1 DEF InboxInv, BatchesOK
  <2>5. \A x \in Msgs : InTaken(x)' <=> InTaken(x)
    BY <1>0, <2>1 DEF InTaken
  <2>6. PlacesOK'
    BY <2>1, <2>5 DEF InboxInv, PlacesOK, OnePlace, Nowhere, InPending, InOffline, InCarried
  <2> QED
    BY <2>2, <2>3, <2>4, <2>6 DEF InboxInv
<1> QED
  BY <1>1, <1>2, <1>3, <1>4 DEF PumpStep

LEMMA OfflineStep ==
    ASSUME TypeOK, InboxInv,
           UNCHANGED <<batchPending, batchRunning, pump, batch, cancelOp>>,
           PlacesOK'
    PROVE  InboxInv'
BY DEF InboxInv, PumpsOK, BatchesOK, NoStrandedBatch, CancelSlotFresh, Op

LEMMA InboxStep == TypeOK /\ InboxInv /\ [Next]_vars => InboxInv'
<1> SUFFICES ASSUME TypeOK, InboxInv, [Next]_vars PROVE InboxInv'
  OBVIOUS
<1> USE DEF inboxVars, pumpVars, cancelVars, healthVars, queueVars
<1>1. ASSUME NEW m \in Msgs, SendBossCommand(m) \/ BatchDirectMessage(m) PROVE InboxInv'
  BY <1>1, BatchStep DEF SendBossCommand, BatchDirectMessage
<1>2. ASSUME NEW m \in Msgs, SendDirectMessage(m) PROVE InboxInv'
  <2>1. sender[m] # "sent" /\ sender'[m] # "sent"
        /\ \A x \in Msgs \ {m} : sender'[x] = sender[x]
    BY <1>2 DEF SendDirectMessage, TypeOK
  <2>2. UNCHANGED <<batchPending, batchRunning, pendingDMs, pump, batch, carried, cancelOp>>
    BY <1>2 DEF SendDirectMessage
  <2>3. PlacesOK'
    BY <2>1, <2>2 DEF InboxInv, PlacesOK, OnePlace, Nowhere, InPending, InTaken,
                      InOffline, InCarried
  <2> QED
    BY <2>2, <2>3, OfflineStep
<1>3. ASSUME NEW m \in Msgs, HoldDirectMessage(m) PROVE InboxInv'
  <2>1. /\ sender[m] # "sent" /\ sender'[m] = "sent"
        /\ \A x \in Msgs \ {m} : sender'[x] = sender[x]
        /\ pendingDMs' = Append(pendingDMs, m) /\ pendingDMs \in Seq(Msgs)
        /\ UNCHANGED <<batchPending, batchRunning, pump, batch, carried, cancelOp>>
    BY <1>3 DEF HoldDirectMessage, TypeOK
  <2>2. \A x \in Msgs : InOffline(x)' <=> InOffline(x) \/ x = m
    BY <2>1, ContainsAppend DEF InOffline
  <2>3. PlacesOK'
    BY <2>1, <2>2 DEF InboxInv, PlacesOK, OnePlace, Nowhere, InPending, InTaken, InCarried
  <2> QED
    BY <2>1, <2>3, OfflineStep
<1>4. ASSUME NEW s \in Streams, PumpStep(s) PROVE InboxInv'
  BY <1>4, PumpKeeps
<1>5. CASE StopRequested \/ StopFires \/ Probe \/ StoreHealth
  BY <1>5, QuietStep DEF StopRequested, StopFires, Probe, StoreHealth
<1>6. CASE FlushPendingDMs
  <2>1. /\ pendingDMs' = <<>>
        /\ \A x \in Msgs : carried'[x] = IF InOffline(x) THEN x ELSE carried[x]
        /\ UNCHANGED <<sender, batchPending, batchRunning, pump, batch, cancelOp>>
    BY <1>6 DEF FlushPendingDMs, InOffline
  <2>2. \A x \in Msgs : ~InOffline(x)' /\ (InCarried(x)' <=> InCarried(x) \/ InOffline(x))
    BY <2>1, ContainsEmpty, StreamAssumption DEF InOffline, InCarried
  <2>3. PlacesOK'
    BY <2>1, <2>2 DEF InboxInv, PlacesOK, OnePlace, Nowhere, InPending, InTaken
  <2> QED
    BY <2>1, <2>3, OfflineStep
<1>7. ASSUME NEW h \in Msgs, HandlerStep(h) \/ QueueStep(h) PROVE InboxInv'
  BY <1>7, QuietStep DEF HandlerStep, SubmitTurn, SubmitReturnsResult, SubmitCancelled,
                         BossCommandEnds, QueueStep, QueueBegins, QueueSkips, TurnEnds
<1>8. CASE UNCHANGED vars
  BY <1>8, QuietStep DEF vars
<1> QED
  BY <1>1, <1>2, <1>3, <1>4, <1>5, <1>6, <1>7, <1>8 DEF Next, SendStep, MonitorStep

-----------------------------------------------------------------------------
(* What the goroutines keep true of the batches, the queue and the slot.    *)
THEOREM InboxInvariance == Spec => [](TypeOK /\ InboxInv)
<1> QED
  BY InitInbox, TypeStep, InboxStep, PTL DEF Spec

(* TypeOK is an invariant, for every instance.                              *)
THEOREM TypeCorrect == Spec => []TypeOK
<1> QED
  BY InboxInvariance, PTL

(* A batch with messages in it always has a goroutine that looks again.     *)
THEOREM NoBatchStranded == Spec => []NoStrandedBatch
<1>1. InboxInv => NoStrandedBatch
  BY DEF InboxInv
<1> QED
  BY <1>1, InboxInvariance, PTL

(* The cancel slot never outlives its operation.                            *)
THEOREM SlotFresh == Spec => []CancelSlotFresh
<1>1. InboxInv => CancelSlotFresh
  BY DEF InboxInv
<1> QED
  BY <1>1, InboxInvariance, PTL

(* Every message that was sent is in exactly one place, none before.        *)
THEOREM MessagesAccounted == Spec => []EveryMessageAccounted
<1>1. InboxInv => EveryMessageAccounted
  <2> SUFFICES ASSUME InboxInv, NEW m \in Msgs
               PROVE  Cardinality(Holders(m)) = IF sender[m] = "sent" THEN 1 ELSE 0
    BY DEF EveryMessageAccounted
  <2>1. Holders(m) = {p \in {"pending", "taken", "offline", "carried"} :
                         \/ p = "pending" /\ InPending(m)
                         \/ p = "taken" /\ InTaken(m)
                         \/ p = "offline" /\ InOffline(m)
                         \/ p = "carried" /\ InCarried(m)}
    BY DEF Holders, InPending, InTaken, InOffline, InCarried
  <2>2. IF sender[m] = "sent" THEN OnePlace(m) ELSE Nowhere(m)
    BY DEF InboxInv, PlacesOK
  <2>3. CASE sender[m] = "sent"
    <3>1. \E p : Holders(m) = {p}
      BY <2>1, <2>2, <2>3 DEF OnePlace
    <3> QED
      BY <2>3, <3>1, FS_Singleton
  <2>4. CASE sender[m] # "sent"
    <3>1. Holders(m) = {}
      BY <2>1, <2>2, <2>4 DEF Nowhere
    <3> QED
      BY <2>4, <3>1, FS_EmptySet
  <2> QED
    BY <2>3, <2>4
<1> QED
  BY <1>1, InboxInvariance, PTL

-----------------------------------------------------------------------------
(* The promises of Mailbox.                                                 *)

(* An operation that has begun handles its own first message, the one a     *)
(* goroutine waits for is one of these, and a Boss command is in the hands  *)
(* of the channel's goroutine.                                              *)
HandlersOK ==
    /\ \A m \in Msgs : handler[m] # "none" => carried[m] # None
    /\ \A s \in Streams : pump[s] = "handling" => carried[Op(s)] # None
    /\ \A h \in Msgs : handler[h] = "boss" => pump[Channel] = "handling" /\ Op(Channel) = h

LEMMA HandlersSame ==
    ASSUME HandlersOK, UNCHANGED <<handler, carried, batch>>,
           \A s \in Streams : pump'[s] = "handling" <=> pump[s] = "handling"
    PROVE  HandlersOK'
BY DEF HandlersOK, Op, Streams

(* The first message of a batch just taken has been handled by nobody.      *)
LEMMA TakenIsNew ==
    ASSUME TypeOK, InboxInv, NEW s \in Streams, pump[s] = "register",
           NEW m \in Msgs, Contains(batch[s], m)
    PROVE  carried[m] = None
<1>1. sender[m] = "sent" /\ InTaken(m)
  BY DEF InboxInv, BatchesOK, PlacesOK, Nowhere, InTaken
<1> QED
  BY <1>1 DEF InboxInv, PlacesOK, OnePlace, InCarried

LEMMA HeldIsNew ==
    ASSUME TypeOK, InboxInv, NEW m \in Msgs, Contains(pendingDMs, m)
    PROVE  carried[m] = None
BY DEF InboxInv, PlacesOK, OnePlace, Nowhere, InOffline, InCarried

LEMMA HandlersStep == TypeOK /\ InboxInv /\ HandlersOK /\ [Next]_vars => HandlersOK'
<1> SUFFICES ASSUME TypeOK, InboxInv, HandlersOK, [Next]_vars PROVE HandlersOK'
  OBVIOUS
<1> USE DEF inboxVars, pumpVars, cancelVars, healthVars, queueVars
<1>1. ASSUME NEW m \in Msgs, SendBossCommand(m) \/ BatchDirectMessage(m) PROVE HandlersOK'
  <2>1. AddToBatch(m) /\ UNCHANGED handler
    BY <1>1 DEF SendBossCommand, BatchDirectMessage
  <2>2. Target[m] \in Streams
    BY TargetAssumption
  <2>3. \A s \in Streams : pump'[s] = "handling" <=> pump[s] = "handling"
    BY <2>1, <2>2 DEF AddToBatch, InboxInv, PumpsOK, TypeOK
  <2>4. UNCHANGED <<carried, batch>>
    BY <2>1 DEF AddToBatch
  <2> QED
    BY <2>1, <2>3, <2>4, HandlersSame
<1>2. ASSUME NEW m \in Msgs, SendDirectMessage(m) \/ HoldDirectMessage(m) PROVE HandlersOK'
  BY <1>2, HandlersSame DEF SendDirectMessage, HoldDirectMessage
<1>3. ASSUME NEW s \in Streams, Drain(s) PROVE HandlersOK'
  <2>1. /\ \A z \in Streams : pump'[z] = "handling" <=> pump[z] = "handling"
        /\ \A z \in Streams : pump[z] = "handling" => batch'[z] = batch[z]
        /\ UNCHANGED <<handler, carried>>
    BY <1>3 DEF Drain, TypeOK
  <2> QED
    BY <2>1 DEF HandlersOK, Op, Streams
<1>4. ASSUME NEW s \in Streams, Register(s) PROVE HandlersOK'
  <2> DEFINE o == Op(s)
  <2>1. o \in Msgs /\ o # None /\ Contains(batch[s], o) /\ pump[s] = "register"
    BY <1>4, OpTyped, StreamAssumption DEF Register
  <2>2. /\ \A z \in Streams : pump'[z] = IF z = s THEN "handling" ELSE pump[z]
        /\ \A m \in Msgs : carried'[m] = IF Contains(batch[s], m) THEN o ELSE carried[m]
        /\ \A m \in Msgs : handler'[m] = IF m = o THEN (IF s = Channel THEN "boss" ELSE "called")
                                         ELSE handler[m]
        /\ UNCHANGED batch
    BY <1>4, <2>1 DEF Register, TypeOK
  <2>3. \A z \in Streams : Op(z)' = Op(z)
    BY <2>2 DEF Op
  <2>4. \A z \in Streams : pump[z] = "handling" => Op(z) \in Msgs
    BY OpTyped
  <2> HIDE DEF o
  <2>5. \A m \in Msgs : handler'[m] # "none" => carried'[m] # None
    BY <2>1, <2>2 DEF HandlersOK
  <2>6. \A z \in Streams : pump'[z] = "handling" => carried'[Op(z)'] # None
    BY <2>1, <2>2, <2>3, <2>4 DEF HandlersOK, o
  <2>7. ASSUME NEW h \in Msgs, handler'[h] = "boss"
        PROVE  pump'[Channel] = "handling" /\ Op(Channel)' = h
    <3>1. Channel \in Streams
      BY DEF Streams
    <3>2. CASE h = o
      BY <2>2, <2>3, <2>7, <3>1, <3>2 DEF o, HandlersOK
    <3>3. CASE h # o
      <4>1. pump[Channel] = "handling" /\ Op(Channel) = h
        BY <2>2, <2>7, <3>3 DEF HandlersOK
      <4> QED
        BY <2>1, <2>2, <2>3, <3>1, <4>1
    <3> QED
      BY <3>2, <3>3
  <2> QED
    BY <2>5, <2>6, <2>7 DEF HandlersOK
<1>5. ASSUME NEW s \in Streams, OperationReturns(s) PROVE HandlersOK'
  <2>1. /\ \A z \in Streams : pump'[z] = IF z = s THEN "clear" ELSE pump[z]
        /\ handler[Op(s)] = "returned"
        /\ UNCHANGED <<handler, carried, batch>>
    BY <1>5 DEF OperationReturns, TypeOK
  <2> QED
    BY <2>1 DEF HandlersOK, Op, Streams
<1>6. ASSUME NEW s \in Streams, Clear(s) PROVE HandlersOK'
  <2>1. \A z \in Streams : pump'[z] = "handling" <=> pump[z] = "handling"
    BY <1>6 DEF Clear, TypeOK
  <2> QED
    BY <1>6, <2>1, HandlersSame DEF Clear
<1>7. ASSUME NEW s \in Streams, Recheck(s) PROVE HandlersOK'
  <2>1. /\ \A z \in Streams : pump'[z] = "handling" <=> pump[z] = "handling"
        /\ \A z \in Streams : pump[z] = "handling" => batch'[z] = batch[z]
        /\ UNCHANGED <<handler, carried>>
    BY <1>7 DEF Recheck, TypeOK
  <2> QED
    BY <2>1 DEF HandlersOK, Op, Streams
<1>8. CASE StopRequested \/ StopFires \/ Probe \/ StoreHealth
  BY <1>8, HandlersSame DEF StopRequested, StopFires, Probe, StoreHealth
<1>9. CASE FlushPendingDMs
  <2>1. /\ \A m \in Msgs : handler'[m] = IF Contains(pendingDMs, m) THEN "flushed" ELSE handler[m]
        /\ \A m \in Msgs : carried'[m] = IF Contains(pendingDMs, m) THEN m ELSE carried[m]
        /\ UNCHANGED <<pump, batch>>
    BY <1>9 DEF FlushPendingDMs
  <2>2. \A z \in Streams : pump[z] = "handling" => Op(z) \in Msgs
    BY OpTyped
  <2>3. \A z \in Streams : Op(z)' = Op(z)
    BY <2>1 DEF Op
  <2>4. Channel \in Streams /\ None \notin Msgs
    BY StreamAssumption DEF Streams
  <2> QED
    BY <2>1, <2>2, <2>3, <2>4 DEF HandlersOK
<1>10. ASSUME NEW h \in Msgs, HandlerStep(h) PROVE HandlersOK'
  <2>1. /\ handler[h] # "none"
        /\ \A m \in Msgs : handler'[m] # "none" => handler[m] # "none"
        /\ \A m \in Msgs : handler'[m] = "boss" => handler[m] = "boss"
        /\ UNCHANGED <<pump, batch, carried>>
    BY <1>10 DEF HandlerStep, SubmitTurn, SubmitReturnsResult, SubmitCancelled,
                 BossCommandEnds, TypeOK
  <2> QED
    BY <2>1 DEF HandlersOK, Op
<1>11. ASSUME NEW h \in Msgs, QueueStep(h) PROVE HandlersOK'
  BY <1>11, HandlersSame DEF QueueStep, QueueBegins, QueueSkips, TurnEnds
<1>12. CASE UNCHANGED vars
  BY <1>12, HandlersSame DEF vars
<1> QED
  BY <1>1, <1>2, <1>3, <1>4, <1>5, <1>6, <1>7, <1>8, <1>9, <1>10, <1>11, <1>12
     DEF Next, SendStep, PumpStep, MonitorStep

THEOREM HandlersInvariance == Spec => []HandlersOK
<1>1. Init => HandlersOK
  BY DEF Init, HandlersOK
<1> QED
  BY <1>1, HandlersStep, InboxInvariance, PTL DEF Spec

(* One Boss command runs at a time: HandleBossCommand is called by the      *)
(* channel's goroutine alone, which waits for it.                           *)
CommandsAlone == \A h, k \in Msgs : handler[h] = "boss" /\ handler[k] = "boss" => h = k

THEOREM OneCommandAtATime == Spec => []CommandsAlone
<1>1. HandlersOK => CommandsAlone
  BY DEF HandlersOK, CommandsAlone
<1> QED
  BY <1>1, HandlersInvariance, PTL


(* Steps that change nothing Mailbox speaks of.                             *)
LEMMA SameMail ==
    ASSUME \A s \in Streams : Line(s)' = Line(s),
           \A m \in Msgs : Stage(m)' = Stage(m),
           \A s \in Streams : Busy(s)' = Busy(s),
           \A m \in Msgs : sender'[m] = "sent" <=> sender[m] = "sent",
           UNCHANGED <<pendingDMs, carried>>
    PROVE  UNCHANGED Mail!mvars
<1>1. {m \in Msgs : sender[m] = "sent"}' = {m \in Msgs : sender[m] = "sent"}
  OBVIOUS
<1>2. [s \in Streams |-> Line(s)]' = [s \in Streams |-> Line(s)]
  OBVIOUS
<1>3. [m \in Msgs |-> Stage(m)]' = [m \in Msgs |-> Stage(m)]
  OBVIOUS
<1>4. [s \in Streams |-> Busy(s)]' = [s \in Streams |-> Busy(s)]
  OBVIOUS
<1> QED
  BY <1>1, <1>2, <1>3, <1>4 DEF Mail!mvars

(* What a message's batch, goroutine and handler are decides how it looks.  *)
LEMMA SameBusy ==
    ASSUME UNCHANGED <<pump, batch, handler>>
    PROVE  /\ \A m \in Msgs : Stage(m)' = Stage(m)
           /\ \A s \in Streams : Busy(s)' = Busy(s)
BY DEF Stage, Busy, Op

LEMMA ConcatAppend ==
    ASSUME NEW S, NEW a \in Seq(S), NEW b \in Seq(S), NEW m \in S
    PROVE  a \o Append(b, m) = Append(a \o b, m)
<1>1. Append(b, m) \in Seq(S) /\ a \o b \in Seq(S) /\ Append(a \o b, m) \in Seq(S)
  BY ConcatProperties
<1>2. a \o Append(b, m) \in Seq(S)
  BY <1>1, ConcatProperties
<1>3. Len(a) \in Nat /\ Len(b) \in Nat /\ Len(Append(b, m)) = Len(b) + 1
  OBVIOUS
<1>4. Len(a \o Append(b, m)) = Len(a) + Len(b) + 1
  BY <1>1, <1>3, ConcatProperties
<1>5. Len(a \o b) = Len(a) + Len(b)
  BY ConcatProperties
<1>6. Len(Append(a \o b, m)) = Len(a) + Len(b) + 1
  BY <1>1, <1>3, <1>5
<1>7. ASSUME NEW i \in 1..(Len(a) + Len(b) + 1)
      PROVE  (a \o Append(b, m))[i] = Append(a \o b, m)[i]
  <2>1. (a \o Append(b, m))[i] = IF i <= Len(a) THEN a[i] ELSE Append(b, m)[i - Len(a)]
    <3>1. i \in 1..(Len(a) + Len(Append(b, m)))
      BY <1>3
    <3> QED
      BY <1>1, <3>1, ConcatProperties
  <2>2. CASE i = Len(a) + Len(b) + 1
    <3>1. Append(a \o b, m)[i] = m
      BY <1>1, <1>3, <1>5, <2>2
    <3>2. i - Len(a) = Len(b) + 1 /\ ~(i <= Len(a)) /\ Append(b, m)[Len(b) + 1] = m
      BY <1>3, <2>2
    <3> QED
      BY <2>1, <3>1, <3>2
  <2>3. CASE i # Len(a) + Len(b) + 1
    <3>1. i \in 1..(Len(a) + Len(b))
      BY <1>3, <2>3
    <3>2. Append(a \o b, m)[i] = (a \o b)[i]
      BY <1>1, <1>3, <1>5, <3>1
    <3>3. (a \o b)[i] = IF i <= Len(a) THEN a[i] ELSE b[i - Len(a)]
      BY <3>1, ConcatProperties
    <3>4. ~(i <= Len(a)) => Append(b, m)[i - Len(a)] = b[i - Len(a)]
      BY <1>3, <3>1
    <3> QED
      BY <2>1, <3>2, <3>3, <3>4
  <2> QED
    BY <2>2, <2>3
<1> QED
  BY <1>1, <1>2, <1>4, <1>6, <1>7, SeqEqual

(* A message put into a batch is posted.                                    *)
LEMMA AddPosts ==
    ASSUME TypeOK, InboxInv, NEW m \in Msgs, sender[m] # "sent", AddToBatch(m),
           UNCHANGED handler
    PROVE  Mail!Post(m)
<1> DEFINE s == Target[m]
<1>1. s \in Streams
  BY TargetAssumption
<1>2. /\ \A z \in Streams : pump'[z] = pump[z] \/ (pump[z] = "off" /\ pump'[z] = "drain")
      /\ \A z \in Streams : batchPending'[z] = IF z = s THEN Append(batchPending[z], m)
                                               ELSE batchPending[z]
      /\ \A x \in Msgs : sender'[x] = IF x = m THEN "sent" ELSE sender[x]
      /\ UNCHANGED <<batch, carried, pendingDMs>>
  BY <1>1 DEF AddToBatch, InboxInv, PumpsOK, TypeOK
<1>3. \A z \in Streams : batch[z] \in Seq(Msgs) /\ batchPending[z] \in Seq(Msgs)
  BY DEF TypeOK
<1> HIDE DEF s
<1>4. \A z \in Streams : Line(z)' = IF z = s THEN Append(Line(z), m) ELSE Line(z)
  <2> SUFFICES ASSUME NEW z \in Streams
               PROVE  Line(z)' = IF z = s THEN Append(Line(z), m) ELSE Line(z)
    OBVIOUS
  <2>1. (pump'[z] = "register") <=> (pump[z] = "register")
    BY <1>2
  <2>2. batch[z] \o Append(batchPending[z], m) = Append(batch[z] \o batchPending[z], m)
    <3>1. batch[z] \in Seq(Msgs) /\ batchPending[z] \in Seq(Msgs)
      BY <1>3
    <3>2. \A a \in Seq(Msgs) : \A b \in Seq(Msgs) : a \o Append(b, m) = Append(a \o b, m)
      BY ConcatAppend
    <3> QED
      BY <3>1, <3>2
  <2> QED
    BY <1>2, <2>1, <2>2 DEF Line
<1>5. [z \in Streams |-> Line(z)]' = [[z \in Streams |-> Line(z)] EXCEPT ![s] = Append(@, m)]
  BY <1>1, <1>4
<1>6. \A x \in Msgs : Stage(x)' = Stage(x)
  BY DEF Stage
<1>7. \A z \in Streams : Busy(z)' = Busy(z)
  BY <1>2, <1>6 DEF Busy, Op, Stage
<1>8. {x \in Msgs : sender[x] = "sent"}' = {x \in Msgs : sender[x] = "sent"} \cup {m}
  BY <1>2
<1>9. [x \in Msgs |-> Stage(x)]' = [x \in Msgs |-> Stage(x)]
      /\ [z \in Streams |-> Busy(z)]' = [z \in Streams |-> Busy(z)]
  BY <1>6, <1>7
<1> QED
  BY <1>2, <1>5, <1>8, <1>9 DEF Mail!Post, s

(* A goroutine that takes its batch leaves it first in line.                *)
LEMMA DrainIsQuiet ==
    ASSUME TypeOK, InboxInv, NEW s \in Streams, Drain(s)
    PROVE  UNCHANGED Mail!mvars
<1>1. /\ pump[s] = "drain" /\ pump'[s] = "register"
      /\ batch'[s] = batchPending[s] /\ batchPending'[s] = <<>>
      /\ \A z \in Streams \ {s} :
            pump'[z] = pump[z] /\ batch'[z] = batch[z] /\ batchPending'[z] = batchPending[z]
      /\ UNCHANGED <<carried, sender, pendingDMs, handler>>
  BY DEF Drain, TypeOK, inboxVars, cancelVars, healthVars, queueVars
<1>2. batchPending[s] \in Seq(Msgs)
  BY DEF TypeOK
<1>3. batchPending[s] \o <<>> = batchPending[s]
  BY <1>2
<1>4. \A z \in Streams : Line(z)' = Line(z)
  BY <1>1, <1>3 DEF Line
<1>5. \A m \in Msgs : Stage(m)' = Stage(m)
  BY <1>1 DEF Stage
<1>6. \A z \in Streams : Busy(z)' = Busy(z)
  BY <1>1 DEF Busy, Stage, Op
<1> QED
  BY <1>1, <1>4, <1>5, <1>6, SameMail

(* The registered operation takes what stands first in its line.            *)
LEMMA PartsOfLine ==
    ASSUME NEW S, NEW a \in Seq(S), NEW b \in Seq(S), a # <<>>
    PROVE  /\ Len(a) \in 1..Len(a \o b)
           /\ SubSeq(a \o b, 1, Len(a)) = a
           /\ SubSeq(a \o b, Len(a) + 1, Len(a \o b)) = b
           /\ Head(a \o b) = Head(a)
<1>1. Len(a) \in Nat \ {0} /\ Len(b) \in Nat /\ Len(a \o b) = Len(a) + Len(b)
  OBVIOUS
<1>2. SubSeq(a \o b, 1, Len(a)) = a
  BY <1>1
<1>3. SubSeq(a \o b, Len(a) + 1, Len(a \o b)) = b
  BY <1>1
<1>4. Head(a \o b) = Head(a)
  BY <1>1
<1> QED
  BY <1>1, <1>2, <1>3, <1>4

LEMMA RegisterTakes ==
    ASSUME TypeOK, InboxInv, HandlersOK, NEW s \in Streams, Register(s)
    PROVE  Mail!Take(s)
<1> DEFINE o == Op(s)
           k == Len(batch[s])
<1>1. o \in Msgs /\ o # None /\ Contains(batch[s], o) /\ pump[s] = "register" /\ o = Head(batch[s])
  BY OpTyped, StreamAssumption DEF Register, Op
<1>2. /\ \A z \in Streams : pump'[z] = IF z = s THEN "handling" ELSE pump[z]
      /\ carried' = [m \in Msgs |-> IF Contains(batch[s], m) THEN o ELSE carried[m]]
      /\ \A m \in Msgs : handler'[m] = IF m = o THEN (IF s = Channel THEN "boss" ELSE "called")
                                       ELSE handler[m]
      /\ UNCHANGED <<batch, batchPending, sender, pendingDMs>>
  BY <1>1 DEF Register, TypeOK, inboxVars, healthVars
<1>3. batch[s] \in Seq(Msgs) /\ batch[s] # <<>> /\ batchPending[s] \in Seq(Msgs)
  BY <1>1 DEF TypeOK
<1>4. \A z \in Streams : pump[z] = "handling" => Op(z) \in Msgs /\ Op(z) # o
  <2>1. carried[o] = None
    BY <1>1, TakenIsNew
  <2> QED
    BY <2>1, OpTyped DEF HandlersOK
<1>5. handler[o] = "none"
  <2>1. carried[o] = None
    BY <1>1, TakenIsNew
  <2> QED
    BY <1>1, <2>1 DEF HandlersOK
<1>6. \A z \in Streams : Op(z)' = Op(z)
  BY <1>2 DEF Op
<1>7. \A m \in Msgs : Stage(m)' = IF m = o THEN "open" ELSE Stage(m)
  BY <1>2 DEF Stage
<1>8. \A z \in Streams : Busy(z)' = IF z = s THEN o ELSE Busy(z)
  <2> SUFFICES ASSUME NEW z \in Streams PROVE Busy(z)' = IF z = s THEN o ELSE Busy(z)
    OBVIOUS
  <2>1. CASE z = s
    <3>1. pump'[z] = "handling" /\ Op(z)' = o
      BY <1>2, <1>6, <2>1
    <3>2. handler'[Op(z)'] # "none" /\ handler'[Op(z)'] # "returned"
      BY <1>1, <1>2, <3>1
    <3> QED
      BY <2>1, <3>1, <3>2 DEF Busy, Stage
  <2>2. CASE z # s
    <3>1. pump'[z] = pump[z] /\ Op(z)' = Op(z)
      BY <1>2, <1>6, <2>2
    <3>2. pump[z] = "handling" => handler'[Op(z)] = handler[Op(z)]
      BY <1>2, <1>4
    <3> QED
      BY <2>2, <3>1, <3>2 DEF Busy, Stage
  <2> QED
    BY <2>1, <2>2
<1>9. Busy(s) = None
  BY <1>1 DEF Busy
<1>10. Line(s) = batch[s] \o batchPending[s] /\ Line(s)' = batchPending[s]
       /\ \A z \in Streams \ {s} : Line(z)' = Line(z)
  BY <1>1, <1>2 DEF Line
<1>11. /\ k \in 1..Len(Line(s)) /\ SubSeq(Line(s), 1, k) = batch[s]
       /\ SubSeq(Line(s), k + 1, Len(Line(s))) = batchPending[s] /\ Head(Line(s)) = o
  <2>1. /\ Len(batch[s]) \in 1..Len(batch[s] \o batchPending[s])
        /\ SubSeq(batch[s] \o batchPending[s], 1, Len(batch[s])) = batch[s]
        /\ SubSeq(batch[s] \o batchPending[s], Len(batch[s]) + 1,
                  Len(batch[s] \o batchPending[s])) = batchPending[s]
        /\ Head(batch[s] \o batchPending[s]) = Head(batch[s])
    BY <1>3, PartsOfLine
  <2> QED
    BY <1>1, <1>10, <2>1
<1>12. \A m \in Msgs : Contains(batch[s], m) => carried[m] = None
  BY <1>1, TakenIsNew
<1>13. Stage(o) = "none"
  BY <1>5 DEF Stage
<1> HIDE DEF o, k
<1>14. [z \in Streams |-> Line(z)]'
         = [[z \in Streams |-> Line(z)] EXCEPT ![s] = SubSeq(@, k + 1, Len(@))]
  BY <1>10, <1>11
<1>15. [m \in Msgs |-> Stage(m)]' = [[m \in Msgs |-> Stage(m)] EXCEPT ![o] = "open"]
  BY <1>1, <1>7
<1>16. [z \in Streams |-> Busy(z)]' = [[z \in Streams |-> Busy(z)] EXCEPT ![s] = o]
  BY <1>8
<1>17. {m \in Msgs : sender[m] = "sent"}' = {m \in Msgs : sender[m] = "sent"}
  BY <1>2
<1>18. /\ [z \in Streams |-> Line(z)][s] = Line(s)
       /\ [z \in Streams |-> Busy(z)][s] = None
       /\ [m \in Msgs |-> Stage(m)][o] = "none"
  BY <1>1, <1>9, <1>13
<1>19. carried' = [m \in Msgs |-> IF Contains(SubSeq(Line(s), 1, k), m) THEN o ELSE carried[m]]
  BY <1>2, <1>11
<1>20. \A m \in Msgs : Contains(SubSeq(Line(s), 1, k), m) => carried[m] = None
  BY <1>11, <1>12
<1>21. k \in 1..Len(Line(s)) /\ Head(Line(s)) = o /\ UNCHANGED pendingDMs
  BY <1>2, <1>11
<1> HIDE DEF Line, Busy, Stage
<1>22. \E j \in 1..Len([z \in Streams |-> Line(z)][s]) :
         LET lot == SubSeq([z \in Streams |-> Line(z)][s], 1, j)
             p   == Head([z \in Streams |-> Line(z)][s])
         IN  /\ [m \in Msgs |-> Stage(m)][p] = "none"
             /\ \A m \in Msgs : Contains(lot, m) => carried[m] = None
             /\ [m \in Msgs |-> Stage(m)]' = [[m \in Msgs |-> Stage(m)] EXCEPT ![p] = "open"]
             /\ carried' = [m \in Msgs |-> IF Contains(lot, m) THEN p ELSE carried[m]]
             /\ [z \in Streams |-> Line(z)]'
                   = [[z \in Streams |-> Line(z)] EXCEPT ![s] = SubSeq(@, j + 1, Len(@))]
             /\ [z \in Streams |-> Busy(z)]' = [[z \in Streams |-> Busy(z)] EXCEPT ![s] = p]
  BY <1>14, <1>15, <1>16, <1>18, <1>19, <1>20, <1>21
<1> QED
  BY <1>17, <1>18, <1>21, <1>22 DEF Mail!Take, Mail!Contains, Contains


(* A flush hands over all that is held.                                     *)
LEMMA FlushTakesHeld ==
    ASSUME TypeOK, InboxInv, HandlersOK, FlushPendingDMs
    PROVE  Mail!TakeHeld
<1>1. /\ pendingDMs' = <<>>
      /\ \A m \in Msgs : handler'[m] = IF Contains(pendingDMs, m) THEN "flushed" ELSE handler[m]
      /\ carried' = [m \in Msgs |-> IF Contains(pendingDMs, m) THEN m ELSE carried[m]]
      /\ UNCHANGED <<sender, batchPending, pump, batch>>
  BY DEF FlushPendingDMs
<1>2. \A m \in Msgs : Contains(pendingDMs, m) => carried[m] = None /\ handler[m] = "none"
  BY HeldIsNew DEF HandlersOK
<1>3. \A m \in Msgs : Stage(m)' = IF Contains(pendingDMs, m) THEN "open" ELSE Stage(m)
  BY <1>1 DEF Stage
<1>4. \A s \in Streams : Line(s)' = Line(s)
  BY <1>1 DEF Line
<1>5. \A s \in Streams : Busy(s)' = Busy(s)
  <2> SUFFICES ASSUME NEW s \in Streams PROVE Busy(s)' = Busy(s)
    OBVIOUS
  <2>1. Op(s)' = Op(s) /\ pump'[s] = pump[s]
    BY <1>1 DEF Op
  <2>2. pump[s] = "handling" => Op(s) \in Msgs /\ ~Contains(pendingDMs, Op(s))
    BY OpTyped, <1>2 DEF HandlersOK
  <2>3. pump[s] = "handling" => handler'[Op(s)] = handler[Op(s)]
    BY <1>1, <2>2
  <2> QED
    BY <2>1, <2>3 DEF Busy, Stage
<1>6. \A m \in Msgs : Contains(pendingDMs, m) =>
         [x \in Msgs |-> Stage(x)][m] = "none" /\ carried[m] = None
  BY <1>2 DEF Stage
<1> HIDE DEF Line, Busy, Stage
<1>7. [x \in Msgs |-> Stage(x)]' =
         [m \in Msgs |-> IF Contains(pendingDMs, m) THEN "open" ELSE [x \in Msgs |-> Stage(x)][m]]
  BY <1>3
<1>8. [z \in Streams |-> Line(z)]' = [z \in Streams |-> Line(z)]
      /\ [z \in Streams |-> Busy(z)]' = [z \in Streams |-> Busy(z)]
  BY <1>4, <1>5
<1>9. {m \in Msgs : sender[m] = "sent"}' = {m \in Msgs : sender[m] = "sent"}
  BY <1>1
<1> QED
  BY <1>1, <1>6, <1>7, <1>8, <1>9 DEF Mail!TakeHeld, Mail!Contains, Contains

(* An operation that returns is over, and its stream free.                  *)
LEMMA ReturnFinishes ==
    ASSUME TypeOK, NEW h \in Msgs, handler[h] \in {"waiting", "boss"},
           handler' = [handler EXCEPT ![h] = "returned"],
           UNCHANGED <<inboxVars, pumpVars>>
    PROVE  Mail!Finish(h)
<1>1. /\ \A m \in Msgs : handler'[m] = IF m = h THEN "returned" ELSE handler[m]
      /\ UNCHANGED <<sender, batchPending, pendingDMs, pump, batch, carried>>
  BY DEF TypeOK, inboxVars, pumpVars
<1>2. Stage(h) = "open" /\ \A m \in Msgs : Stage(m)' = IF m = h THEN "over" ELSE Stage(m)
  BY <1>1 DEF Stage
<1>3. \A s \in Streams : Line(s)' = Line(s)
  BY <1>1 DEF Line
<1>4. \A s \in Streams : Busy(s)' = IF Busy(s) = h THEN None ELSE Busy(s)
  <2> SUFFICES ASSUME NEW s \in Streams
               PROVE  Busy(s)' = IF Busy(s) = h THEN None ELSE Busy(s)
    OBVIOUS
  <2>1. Op(s)' = Op(s) /\ pump'[s] = pump[s]
    BY <1>1 DEF Op
  <2>2. pump[s] = "handling" => Op(s) \in Msgs
    BY OpTyped
  <2>3. CASE pump[s] = "handling" /\ Op(s) = h
    BY <1>1, <2>1, <2>3 DEF Busy, Stage
  <2>4. CASE pump[s] = "handling" /\ Op(s) # h
    BY <1>1, <2>1, <2>2, <2>4, StreamAssumption DEF Busy, Stage
  <2>5. CASE pump[s] # "handling"
    BY <2>1, <2>5, StreamAssumption DEF Busy
  <2> QED
    BY <2>3, <2>4, <2>5
<1> HIDE DEF Line, Busy, Stage
<1>5. [m \in Msgs |-> Stage(m)]' = [[m \in Msgs |-> Stage(m)] EXCEPT ![h] = "over"]
      /\ [m \in Msgs |-> Stage(m)][h] = "open"
  BY <1>2
<1>6. [s \in Streams |-> Busy(s)]'
        = [s \in DOMAIN [z \in Streams |-> Busy(z)] |->
              IF [z \in Streams |-> Busy(z)][s] = h THEN None ELSE [z \in Streams |-> Busy(z)][s]]
  BY <1>4
<1>7. [z \in Streams |-> Line(z)]' = [z \in Streams |-> Line(z)]
      /\ {m \in Msgs : sender[m] = "sent"}' = {m \in Msgs : sender[m] = "sent"}
  BY <1>1, <1>3
<1> QED
  BY <1>1, <1>5, <1>6, <1>7 DEF Mail!Finish

(* A message that is held is posted with those that wait for Ollama.        *)
LEMMA HoldHolds ==
    ASSUME TypeOK, NEW m \in Msgs, HoldDirectMessage(m), Target[m] \in Agents
    PROVE  Mail!Hold(m)
<1>1. /\ sender[m] = "offline" /\ pendingDMs' = Append(pendingDMs, m)
      /\ \A x \in Msgs : sender'[x] = IF x = m THEN "sent" ELSE sender[x]
      /\ UNCHANGED <<batchPending, pump, batch, carried, handler>>
  BY DEF HoldDirectMessage, TypeOK, pumpVars
<1>2. /\ \A s \in Streams : Line(s)' = Line(s)
      /\ \A x \in Msgs : Stage(x)' = Stage(x)
      /\ \A s \in Streams : Busy(s)' = Busy(s)
  BY <1>1, SameBusy DEF Line
<1> HIDE DEF Line, Busy, Stage
<1>3. [z \in Streams |-> Line(z)]' = [z \in Streams |-> Line(z)]
      /\ [x \in Msgs |-> Stage(x)]' = [x \in Msgs |-> Stage(x)]
      /\ [z \in Streams |-> Busy(z)]' = [z \in Streams |-> Busy(z)]
  BY <1>2
<1>4. {x \in Msgs : sender[x] = "sent"}' = {x \in Msgs : sender[x] = "sent"} \cup {m}
  BY <1>1
<1> QED
  BY <1>1, <1>3, <1>4 DEF Mail!Hold

(* Only a message to an agent is ever found to be for later.                *)
HoldsOK == \A m \in Msgs : sender[m] = "offline" => Target[m] \in Agents

LEMMA HoldsStep == TypeOK /\ HoldsOK /\ [Next]_vars => HoldsOK'
<1> SUFFICES ASSUME TypeOK, HoldsOK, [Next]_vars PROVE HoldsOK'
  OBVIOUS
<1> USE DEF inboxVars, pumpVars, cancelVars, healthVars, queueVars
<1>1. ASSUME NEW m \in Msgs, SendDirectMessage(m) PROVE HoldsOK'
  BY <1>1 DEF SendDirectMessage, HoldsOK, TypeOK
<1>2. ASSUME NEW m \in Msgs, SendBossCommand(m) \/ SendStep(m) PROVE HoldsOK'
  BY <1>2 DEF SendBossCommand, SendStep, BatchDirectMessage, HoldDirectMessage, AddToBatch,
              HoldsOK, TypeOK
<1>3. ASSUME UNCHANGED sender PROVE HoldsOK'
  BY <1>3 DEF HoldsOK
<1>4. ASSUME NEW m \in Msgs, HandlerStep(m) \/ QueueStep(m) PROVE UNCHANGED sender
  BY <1>4 DEF HandlerStep, SubmitTurn, SubmitReturnsResult, SubmitCancelled, BossCommandEnds,
              QueueStep, QueueBegins, QueueSkips, TurnEnds
<1>5. ASSUME NEW s \in Streams, PumpStep(s) PROVE UNCHANGED sender
  BY <1>5 DEF PumpStep, Drain, Register, OperationReturns, Clear, Recheck
<1>6. CASE StopRequested \/ StopFires \/ MonitorStep \/ UNCHANGED vars
  BY <1>3, <1>6 DEF StopRequested, StopFires, MonitorStep, Probe, StoreHealth,
                    FlushPendingDMs, vars
<1> QED
  BY <1>1, <1>2, <1>3, <1>4, <1>5, <1>6 DEF Next

THEOREM HoldsInvariance == Spec => []HoldsOK
<1>1. Init => HoldsOK
  BY DEF Init, HoldsOK
<1> QED
  BY <1>1, HoldsStep, InboxInvariance, PTL DEF Spec

LEMMA MailStep ==
    TypeOK /\ InboxInv /\ HandlersOK /\ HoldsOK /\ [Next]_vars
        => [Mail!MNext]_(Mail!mvars)
<1> SUFFICES ASSUME TypeOK, InboxInv, HandlersOK, HoldsOK, [Next]_vars
             PROVE  Mail!MNext \/ UNCHANGED Mail!mvars
  OBVIOUS
<1>0. Streams = Agents \cup {Channel}
  BY DEF Streams
<1>1. ASSUME NEW m \in Msgs, SendBossCommand(m) \/ BatchDirectMessage(m) PROVE Mail!MNext
  <2>1. AddToBatch(m) /\ UNCHANGED handler /\ sender[m] # "sent"
    BY <1>1 DEF SendBossCommand, BatchDirectMessage
  <2> QED
    BY <2>1, AddPosts DEF Mail!MNext
<1>2. ASSUME NEW m \in Msgs, SendDirectMessage(m) PROVE UNCHANGED Mail!mvars
  <2>1. /\ \A x \in Msgs : sender'[x] = "sent" <=> sender[x] = "sent"
        /\ UNCHANGED <<batchPending, pendingDMs, pump, batch, carried, handler>>
    BY <1>2 DEF SendDirectMessage, TypeOK, pumpVars
  <2>2. \A s \in Streams : Line(s)' = Line(s)
    BY <2>1 DEF Line
  <2> QED
    BY <2>1, <2>2, SameBusy, SameMail
<1>3. ASSUME NEW m \in Msgs, HoldDirectMessage(m) PROVE Mail!MNext
  <2>1. Target[m] \in Agents
    BY <1>3 DEF HoldDirectMessage, HoldsOK
  <2> QED
    BY <1>3, <2>1, HoldHolds DEF Mail!MNext
<1>4. ASSUME NEW s \in Streams, Drain(s) PROVE UNCHANGED Mail!mvars
  BY <1>4, DrainIsQuiet
<1>5. ASSUME NEW s \in Streams, Register(s) PROVE Mail!MNext
  BY <1>0, <1>5, RegisterTakes DEF Mail!MNext
<1>6. ASSUME NEW s \in Streams, OperationReturns(s) \/ Clear(s) \/ Recheck(s)
      PROVE  UNCHANGED Mail!mvars
  <2>1. /\ UNCHANGED <<sender, batchPending, pendingDMs, carried, handler>>
        /\ \A z \in Streams : pump'[z] = "register" <=> pump[z] = "register"
        /\ \A z \in Streams : pump[z] = "register" => batch'[z] = batch[z]
        /\ \A z \in Streams : pump'[z] = "handling" => pump[z] = "handling" /\ batch'[z] = batch[z]
        /\ \A z \in Streams : pump[z] = "handling" /\ pump'[z] # "handling" =>
              handler[Op(z)] = "returned"
    BY <1>6 DEF OperationReturns, Clear, Recheck, inboxVars, cancelVars, healthVars, queueVars, TypeOK
  <2>2. \A z \in Streams : Line(z)' = Line(z)
    BY <2>1 DEF Line
  <2>3. \A m \in Msgs : Stage(m)' = Stage(m)
    BY <2>1 DEF Stage
  <2>4. \A z \in Streams : Busy(z)' = Busy(z)
    BY <2>1 DEF Busy, Stage, Op
  <2> QED
    BY <2>1, <2>2, <2>3, <2>4, SameMail
<1>7. ASSUME UNCHANGED <<inboxVars, pumpVars, handler>> PROVE UNCHANGED Mail!mvars
  <2>1. UNCHANGED <<sender, batchPending, pendingDMs, pump, batch, carried, handler>>
    BY <1>7 DEF inboxVars, pumpVars
  <2>2. \A s \in Streams : Line(s)' = Line(s)
    BY <2>1 DEF Line
  <2> QED
    BY <2>1, <2>2, SameBusy, SameMail
<1>8. CASE StopRequested \/ StopFires \/ Probe \/ StoreHealth \/ UNCHANGED vars
  BY <1>7, <1>8 DEF StopRequested, StopFires, Probe, StoreHealth, vars
<1>9. CASE FlushPendingDMs
  BY <1>9, FlushTakesHeld DEF Mail!MNext
<1>10. ASSUME NEW h \in Msgs, SubmitTurn(h) PROVE UNCHANGED Mail!mvars
  <2>1. /\ UNCHANGED <<sender, batchPending, pendingDMs, pump, batch, carried>>
        /\ handler[h] \in {"called", "flushed"}
        /\ \A m \in Msgs : handler'[m] = IF m = h THEN "waiting" ELSE handler[m]
    BY <1>10 DEF SubmitTurn, inboxVars, pumpVars, TypeOK
  <2>2. \A s \in Streams : Line(s)' = Line(s)
    BY <2>1 DEF Line
  <2>3. \A m \in Msgs : Stage(m)' = Stage(m)
    BY <2>1 DEF Stage
  <2>4. \A s \in Streams : Busy(s)' = Busy(s)
    <3>1. \A s \in Streams : pump[s] = "handling" => Op(s) \in Msgs
      BY OpTyped
    <3> QED
      BY <2>1, <2>3, <3>1 DEF Busy, Op
  <2> QED
    BY <2>1, <2>2, <2>3, <2>4, SameMail
<1>11. ASSUME NEW h \in Msgs,
              SubmitReturnsResult(h) \/ SubmitCancelled(h) \/ BossCommandEnds(h)
       PROVE  Mail!MNext
  <2>1. /\ handler[h] \in {"waiting", "boss"}
        /\ handler' = [handler EXCEPT ![h] = "returned"]
        /\ UNCHANGED <<inboxVars, pumpVars>>
    BY <1>11 DEF SubmitReturnsResult, SubmitCancelled, BossCommandEnds
  <2>2. Mail!Finish(h)
    BY <2>1, ReturnFinishes
  <2> QED
    BY <2>2 DEF Mail!MNext
<1>12. ASSUME NEW h \in Msgs, QueueStep(h) PROVE UNCHANGED Mail!mvars
  BY <1>7, <1>12 DEF QueueStep, QueueBegins, QueueSkips, TurnEnds
<1> QED
  BY <1>1, <1>2, <1>3, <1>4, <1>5, <1>6, <1>8, <1>9, <1>10, <1>11, <1>12
     DEF Next, SendStep, HandlerStep, PumpStep, MonitorStep

(* The goroutines, flags and locks keep the promises of Mailbox.            *)
THEOREM InboxRefinesMailbox == Spec => ImplementsMailbox
<1>1. Init => Mail!MInit
  <2> SUFFICES ASSUME Init PROVE Mail!MInit
    OBVIOUS
  <2>1. /\ \A s \in Streams : Line(s) = <<>> /\ Busy(s) = None
        /\ \A m \in Msgs : Stage(m) = "none" /\ sender[m] = "unsent"
        /\ pendingDMs = <<>> /\ carried = [m \in Msgs |-> None]
    BY DEF Init, Line, Busy, Stage
  <2>2. [s \in Streams |-> Line(s)] = [s \in Agents \cup {Channel} |-> <<>>]
        /\ [s \in Streams |-> Busy(s)] = [s \in Agents \cup {Channel} |-> None]
    BY <2>1 DEF Streams
  <2>3. [m \in Msgs |-> Stage(m)] = [m \in Msgs |-> "none"]
        /\ {m \in Msgs : sender[m] = "sent"} = {}
    BY <2>1
  <2> QED
    BY <2>1, <2>2, <2>3 DEF Mail!MInit
<1> QED
  BY <1>1, MailStep, InboxInvariance, HandlersInvariance, HoldsInvariance, PTL
     DEF Spec, ImplementsMailbox, Mail!MSpec


(* The war room keeps to the contract of the cognition queue, and asks      *)
(* nothing else of it: what CogQueue implements may stand in its place.     *)
THEOREM InboxUsesQueue == Spec => Queue!SSpec
<1>1. Init => Queue!SInit
  BY DEF Init
<1>2. TypeOK /\ [Next]_vars => [Queue!SNext]_(Queue!svars)
  <2> SUFFICES ASSUME TypeOK, [Next]_vars PROVE Queue!SNext \/ UNCHANGED Queue!svars
    OBVIOUS
  <2>1. ASSUME NEW m \in Msgs, cancelled' = [cancelled EXCEPT ![m] = TRUE], UNCHANGED <<phase, reply>>
        PROVE  Queue!SNext \/ UNCHANGED Queue!svars
    <3>1. CASE cancelled[m]
      <4>1. cancelled' = cancelled
        BY <2>1, <3>1 DEF TypeOK
      <4> QED
        BY <2>1, <4>1 DEF Queue!svars
    <3>2. CASE ~cancelled[m]
      BY <2>1, <3>2 DEF Queue!SNext, Queue!CancelContext
    <3> QED
      BY <3>1, <3>2
  <2>2. ASSUME NEW m \in Msgs, SendBossCommand(m) \/ SendDirectMessage(m) \/ SendStep(m)
        PROVE  UNCHANGED Queue!svars
    BY <2>2 DEF SendBossCommand, SendDirectMessage, SendStep, BatchDirectMessage,
                HoldDirectMessage, queueVars, Queue!svars
  <2>3. ASSUME NEW h \in Msgs, HandlerStep(h) \/ QueueStep(h)
        PROVE  Queue!SNext \/ UNCHANGED Queue!svars
    <3>1. CASE SubmitTurn(h)
      BY <3>1 DEF SubmitTurn, Queue!SNext
    <3>2. CASE SubmitReturnsResult(h) \/ SubmitCancelled(h)
      <4>1. {"fn", "ctx"} \subseteq Queue!Replies \ {"none"}
        BY DEF Queue!Replies
      <4> QED
        BY <3>2, <4>1 DEF SubmitReturnsResult, SubmitCancelled, Queue!SNext
    <3>3. CASE BossCommandEnds(h)
      BY <3>3 DEF BossCommandEnds, queueVars, Queue!svars
    <3>4. CASE QueueStep(h)
      BY <3>4 DEF QueueStep, QueueBegins, QueueSkips, TurnEnds, Queue!SNext
    <3> QED
      BY <2>3, <3>1, <3>2, <3>3, <3>4 DEF HandlerStep
  <2>4. ASSUME NEW s \in Streams, Register(s) PROVE Queue!SNext \/ UNCHANGED Queue!svars
    <3>1. CASE cancelOp = None
      BY <2>4, <3>1 DEF Register, Queue!svars
    <3>2. CASE cancelOp # None
      <4>1. cancelOp \in Msgs /\ cancelled' = [cancelled EXCEPT ![cancelOp] = TRUE]
            /\ UNCHANGED <<phase, reply>>
        BY <2>4, <3>2 DEF Register, TypeOK
      <4> QED
        BY <2>1, <4>1
    <3> QED
      BY <3>1, <3>2
  <2>5. ASSUME NEW s \in Streams, Clear(s) PROVE Queue!SNext \/ UNCHANGED Queue!svars
    <3>1. Op(s) \in Msgs /\ cancelled' = [cancelled EXCEPT ![Op(s)] = TRUE]
          /\ UNCHANGED <<phase, reply>>
      BY <2>5, OpTyped DEF Clear
    <3> QED
      BY <2>1, <3>1
  <2>6. ASSUME NEW s \in Streams, Drain(s) \/ OperationReturns(s) \/ Recheck(s)
        PROVE  UNCHANGED Queue!svars
    BY <2>6 DEF Drain, OperationReturns, Recheck, queueVars, Queue!svars
  <2>7. CASE StopFires
    <3>1. stopping \in Msgs /\ cancelled' = [cancelled EXCEPT ![stopping] = TRUE]
          /\ UNCHANGED <<phase, reply>>
      BY <2>7 DEF StopFires, TypeOK
    <3> QED
      BY <2>1, <3>1
  <2>8. CASE StopRequested \/ MonitorStep \/ UNCHANGED vars
    BY <2>8 DEF StopRequested, MonitorStep, Probe, StoreHealth, FlushPendingDMs, vars,
                queueVars, Queue!svars
  <2> QED
    BY <2>2, <2>3, <2>4, <2>5, <2>6, <2>7, <2>8 DEF Next, PumpStep
<1> QED
  BY <1>1, <1>2, TypeCorrect, PTL DEF Spec, Queue!SSpec

=============================================================================
