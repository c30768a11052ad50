---------------------------- MODULE WarRoomInbox ----------------------------
(***************************************************************************)
(* How a Boss message travels from the war room (internal/warroom/         *)
(* service.go) to the agents: the channel batch of SendBossCommand, the    *)
(* per-agent batches of SendDirectMessage, the messages held while Ollama  *)
(* is offline and flushed when the health monitor sees it again, the one   *)
(* slot that holds the cancel function of the current operation, and       *)
(* HandleDirectMessage (internal/orchestrator/orchestrator.go), whose turn *)
(* runs in the cognition queue.  The queue appears through the contract    *)
(* CogService, which CogQueue implements.                                  *)
(*                                                                         *)
(* An operation (one call of HandleBossCommand or HandleDirectMessage) is  *)
(* named by the first message of the batch it handles.                     *)
(***************************************************************************)
EXTENDS Naturals, Sequences, FiniteSets, SequencesExt

CONSTANTS
    Agents,      \* agents the Boss can write to directly
    Channel,     \* the war-room channel
    Msgs,        \* messages, each sent once
    Target,      \* the agent or the channel each message goes to
    None

Streams == Agents \cup {Channel}

ASSUME StreamAssumption == Channel \notin Agents /\ None \notin Msgs
ASSUME TargetAssumption == Target \in [Msgs -> Streams]

VARIABLES
    sender,        \* progress of each Send call
    batchPending,  \* chBatchPending and dmBatchPending
    batchRunning,  \* chBatchRunning and dmBatchRunning
    pump,          \* where each stream's batch goroutine is
    batch,         \* the batch it took
    cancelOp,      \* cancelCurrentOp, as the operation it cancels
    stopping,      \* the operation a CancelCurrentOperation call has read
    healthy,       \* ollamaHealthy
    monitor,       \* where the health monitor is
    pendingDMs,    \* the offline queue
    handler,       \* where each HandleX call is
    carried,       \* history: the operation that handles each message
    phase, cancelled, reply   \* the cognition queue and the contexts

inboxVars  == <<sender, batchPending, batchRunning, pendingDMs>>
pumpVars   == <<pump, batch, carried>>
cancelVars == <<cancelOp, stopping>>
healthVars == <<healthy, monitor>>
queueVars  == <<phase, cancelled, reply>>
vars == <<inboxVars, pumpVars, cancelVars, healthVars, handler, queueVars>>

(* No direct message is background work: the queue never drops one. *)
Queue == INSTANCE CogService WITH Requests <- Msgs, Background <- {}

PumpStates    == {"off", "drain", "register", "handling", "clear", "recheck"}
HandlerStates == {"none", "flushed", "called", "waiting", "boss", "returned"}

TypeOK ==
    /\ sender \in [Msgs -> {"unsent", "online", "offline", "sent"}]
    /\ batchPending \in [Streams -> Seq(Msgs)]
    /\ batchRunning \in [Streams -> BOOLEAN]
    /\ pump \in [Streams -> PumpStates]
    /\ batch \in [Streams -> Seq(Msgs)]
    /\ \A s \in Streams :
          pump[s] \in {"register", "handling", "clear"} => batch[s] # <<>>
    /\ cancelOp \in Msgs \cup {None}
    /\ stopping \in Msgs \cup {None}
    /\ healthy \in BOOLEAN
    /\ monitor \in {"idle", "up", "down", "flush"}
    /\ pendingDMs \in Seq(Msgs)
    /\ handler \in [Msgs -> HandlerStates]
    /\ carried \in [Msgs -> Msgs \cup {None}]
    /\ phase \in [Msgs -> Queue!Phases]
    /\ cancelled \in [Msgs -> BOOLEAN]
    /\ reply \in [Msgs -> Queue!Replies]

Init ==
    /\ sender = [m \in Msgs |-> "unsent"]
    /\ batchPending = [s \in Streams |-> <<>>]
    /\ batchRunning = [s \in Streams |-> FALSE]
    /\ pump = [s \in Streams |-> "off"]
    /\ batch = [s \in Streams |-> <<>>]
    /\ cancelOp = None
    /\ stopping = None
    /\ healthy = TRUE
    /\ monitor = "idle"
    /\ pendingDMs = <<>>
    /\ handler = [m \in Msgs |-> "none"]
    /\ carried = [m \in Msgs |-> None]
    /\ Queue!SInit

Op(s) == Head(batch[s])

-----------------------------------------------------------------------------
(* Sending. *)

(* Mutant: every call launches a goroutine. *)
AddToBatchAndLaunch(m) ==
    LET s == Target[m] IN
    /\ batchPending' = [batchPending EXCEPT ![s] = Append(@, m)]
    /\ batchRunning' = [batchRunning EXCEPT ![s] = TRUE]
    /\ pump' = [pump EXCEPT ![s] = "drain"]
    /\ sender' = [sender EXCEPT ![m] = "sent"]
    /\ UNCHANGED <<batch, carried, pendingDMs>>

(* Append to the stream's batch and launch its goroutine if none is running, *)
(* in one critical section of the batch mutex.                              *)
AddToBatch(m) ==
    LET s == Target[m] IN
    /\ batchPending' = [batchPending EXCEPT ![s] = Append(@, m)]
    /\ batchRunning' = [batchRunning EXCEPT ![s] = TRUE]
    /\ pump' = IF batchRunning[s] THEN pump ELSE [pump EXCEPT ![s] = "drain"]
    /\ sender' = [sender EXCEPT ![m] = "sent"]
    /\ UNCHANGED <<batch, carried, pendingDMs>>

SendBossCommand(m) ==
    /\ Target[m] = Channel
    /\ sender[m] = "unsent"
    /\ AddToBatch(m)
    /\ UNCHANGED <<cancelVars, healthVars, handler, queueVars>>

(* SendDirectMessage persists and emits the message, then reads            *)
(* ollamaHealthy under its own lock ...                                    *)
SendDirectMessage(m) ==
    /\ Target[m] \in Agents
    /\ sender[m] = "unsent"
    /\ sender' = [sender EXCEPT ![m] = IF healthy THEN "online" ELSE "offline"]
    /\ UNCHANGED <<batchPending, batchRunning, pendingDMs, pumpVars, cancelVars,
                   healthVars, handler, queueVars>>

(* ... and acts on what it read: the batch, or the offline queue. *)
BatchDirectMessage(m) ==
    /\ sender[m] = "online"
    /\ AddToBatch(m)
    /\ UNCHANGED <<cancelVars, healthVars, handler, queueVars>>

HoldDirectMessage(m) ==
    /\ sender[m] = "offline"
    /\ pendingDMs' = Append(pendingDMs, m)
    /\ sender' = [sender EXCEPT ![m] = "sent"]
    /\ UNCHANGED <<batchPending, batchRunning, pumpVars, cancelVars, healthVars,
                   handler, queueVars>>

-----------------------------------------------------------------------------
(* The batch goroutine of a stream. *)

Drain(s) ==
    /\ pump[s] = "drain"
    /\ batch' = [batch EXCEPT ![s] = batchPending[s]]
    /\ batchPending' = [batchPending EXCEPT ![s] = <<>>]
    /\ pump' = [pump EXCEPT ![s] = "register"]
    /\ UNCHANGED <<carried, sender, batchRunning, pendingDMs, cancelVars, healthVars,
                   handler, queueVars>>

(* setCurrentCancel aborts the registered operation, whosever it is, then   *)
(* the operation is called.                                                 *)
Register(s) ==
    /\ pump[s] = "register"
    /\ cancelled' = IF cancelOp = None THEN cancelled
                    ELSE [cancelled EXCEPT ![cancelOp] = TRUE]
    /\ cancelOp' = Op(s)
    /\ pump' = [pump EXCEPT ![s] = "handling"]
    /\ handler' = [handler EXCEPT ![Op(s)] = IF s = Channel THEN "boss" ELSE "called"]
    /\ carried' = [m \in Msgs |-> IF Contains(batch[s], m) THEN Op(s) ELSE carried[m]]
    /\ UNCHANGED <<inboxVars, batch, stopping, healthVars, phase, reply>>

(* HandleX has returned. *)
OperationReturns(s) ==
    /\ pump[s] = "handling"
    /\ handler[Op(s)] = "returned"
    /\ pump' = [pump EXCEPT ![s] = "clear"]
    /\ UNCHANGED <<inboxVars, batch, carried, cancelVars, healthVars, handler,
                   queueVars>>

(* Mutant: the slot keeps the finished operation. *)
ClearForgotten(s) ==
    /\ pump[s] = "clear"
    /\ pump' = [pump EXCEPT ![s] = "recheck"]
    /\ UNCHANGED <<inboxVars, batch, carried, cancelVars, healthVars, handler,
                   queueVars>>

(* clearCurrentCancel, then opCancel on the finished operation's context. *)
Clear(s) ==
    /\ pump[s] = "clear"
    /\ cancelOp' = None
    /\ cancelled' = [cancelled EXCEPT ![Op(s)] = TRUE]
    /\ pump' = [pump EXCEPT ![s] = "recheck"]
    /\ UNCHANGED <<inboxVars, batch, carried, stopping, healthVars, handler,
                   phase, reply>>

(* Mutant: the goroutine ends without looking for late messages. *)
RecheckForgotten(s) ==
    /\ pump[s] = "recheck"
    /\ pump' = [pump EXCEPT ![s] = "off"]
    /\ batchRunning' = [batchRunning EXCEPT ![s] = FALSE]
    /\ batch' = [batch EXCEPT ![s] = <<>>]
    /\ UNCHANGED <<sender, batchPending, pendingDMs, carried, cancelVars,
                   healthVars, handler, queueVars>>

(* Mutant: the goroutine always loops once more. *)
RecheckAlwaysLoops(s) ==
    /\ pump[s] = "recheck"
    /\ pump' = [pump EXCEPT ![s] = "drain"]
    /\ batch' = [batch EXCEPT ![s] = <<>>]
    /\ UNCHANGED <<sender, batchPending, batchRunning, pendingDMs, carried,
                   cancelVars, healthVars, handler, queueVars>>

(* Loop while messages arrived meanwhile; otherwise the goroutine ends. *)
Recheck(s) ==
    /\ pump[s] = "recheck"
    /\ \/ /\ batchPending[s] = <<>>
          /\ pump' = [pump EXCEPT ![s] = "off"]
          /\ batchRunning' = [batchRunning EXCEPT ![s] = FALSE]
       \/ /\ batchPending[s] # <<>>
          /\ pump' = [pump EXCEPT ![s] = "drain"]
          /\ UNCHANGED batchRunning
    /\ batch' = [batch EXCEPT ![s] = <<>>]
    /\ UNCHANGED <<sender, batchPending, pendingDMs, carried, cancelVars,
                   healthVars, handler, queueVars>>

-----------------------------------------------------------------------------
(* CancelCurrentOperation reads the slot under the lock and calls the       *)
(* function after releasing it.                                             *)

StopRequested ==
    /\ stopping = None
    /\ cancelOp # None
    /\ stopping' = cancelOp
    /\ UNCHANGED <<inboxVars, pumpVars, cancelOp, healthVars, handler, queueVars>>

StopFires ==
    /\ stopping # None
    /\ cancelled' = [cancelled EXCEPT ![stopping] = TRUE]
    /\ stopping' = None
    /\ UNCHANGED <<inboxVars, pumpVars, cancelOp, healthVars, handler, phase, reply>>

-----------------------------------------------------------------------------
(* The health monitor. *)

(* OllamaHealthy probes the server; any answer may come at any time. *)
Probe ==
    /\ monitor = "idle"
    /\ monitor' \in {"up", "down"}
    /\ UNCHANGED <<inboxVars, pumpVars, cancelVars, healthy, handler, queueVars>>

(* Mutant: the change is looked for after the new value has been stored. *)
StoreHealthSeesNoChange ==
    /\ monitor \in {"up", "down"}
    /\ healthy' = (monitor = "up")
    /\ monitor' = "idle"
    /\ UNCHANGED <<inboxVars, pumpVars, cancelVars, handler, queueVars>>

(* checkOllamaHealth stores the result; a change to healthy goes on to flush. *)
StoreHealth ==
    /\ monitor \in {"up", "down"}
    /\ healthy' = (monitor = "up")
    /\ monitor' = IF monitor = "up" /\ ~healthy THEN "flush" ELSE "idle"
    /\ UNCHANGED <<inboxVars, pumpVars, cancelVars, handler, queueVars>>

(* Mutant: the queue is not emptied, and its messages are sent again next   *)
(* time.                                                                    *)
FlushKeepsQueue ==
    /\ monitor = "flush"
    /\ monitor' = "idle"
    /\ handler' = [m \in Msgs |->
                      IF Contains(pendingDMs, m) THEN "flushed" ELSE handler[m]]
    /\ carried' = [m \in Msgs |-> IF Contains(pendingDMs, m) THEN m ELSE carried[m]]
    /\ UNCHANGED <<inboxVars, pump, batch, cancelVars, healthy,
                   queueVars>>

(* flushPendingDMs takes the queue and starts one goroutine per message,    *)
(* outside the batches and without registering a cancel function.           *)
FlushPendingDMs ==
    /\ monitor = "flush"
    /\ monitor' = "idle"
    /\ pendingDMs' = <<>>
    /\ handler' = [m \in Msgs |->
                      IF Contains(pendingDMs, m) THEN "flushed" ELSE handler[m]]
    /\ carried' = [m \in Msgs |-> IF Contains(pendingDMs, m) THEN m ELSE carried[m]]
    /\ UNCHANGED <<sender, batchPending, batchRunning, pump, batch, cancelVars,
                   healthy, queueVars>>

-----------------------------------------------------------------------------
(* HandleDirectMessage and the turn it submits. *)

(* Everything up to Submit; the agent's own history is left out here. *)
SubmitTurn(h) ==
    /\ handler[h] \in {"called", "flushed"}
    /\ handler' = [handler EXCEPT ![h] = "waiting"]
    /\ Queue!Accept(h)
    /\ UNCHANGED <<inboxVars, pumpVars, cancelVars, healthVars>>

(* The dispatcher starts the turn ... *)
QueueBegins(h) ==
    /\ Queue!Begin(h)
    /\ UNCHANGED <<inboxVars, pumpVars, cancelVars, healthVars, handler>>

(* ... or discards a cancelled one. *)
QueueSkips(h) ==
    /\ Queue!Skip(h)
    /\ UNCHANGED <<inboxVars, pumpVars, cancelVars, healthVars, handler>>

(* The turn ends, with a message, a question or a notice to the Boss, or    *)
(* with an error; DMSession tells these apart.                              *)
TurnEnds(h) ==
    /\ phase[h] = "running"
    /\ Queue!End(h)
    /\ UNCHANGED <<inboxVars, pumpVars, cancelVars, healthVars, handler>>

(* Submit returns the function's result ... *)
SubmitReturnsResult(h) ==
    /\ handler[h] = "waiting"
    /\ Queue!Return(h, "fn")
    /\ handler' = [handler EXCEPT ![h] = "returned"]
    /\ UNCHANGED <<inboxVars, pumpVars, cancelVars, healthVars>>

(* ... or the context's error. *)
SubmitCancelled(h) ==
    /\ handler[h] = "waiting"
    /\ Queue!Return(h, "ctx") \/ Queue!Withdraw(h)
    /\ handler' = [handler EXCEPT ![h] = "returned"]
    /\ UNCHANGED <<inboxVars, pumpVars, cancelVars, healthVars>>

(* HandleBossCommand runs its own turns beside the queue (WorkPipeline): here *)
(* only that it returns matters.                                              *)
BossCommandEnds(h) ==
    /\ handler[h] = "boss"
    /\ handler' = [handler EXCEPT ![h] = "returned"]
    /\ UNCHANGED <<inboxVars, pumpVars, cancelVars, healthVars, queueVars>>

-----------------------------------------------------------------------------
PumpStep(s) ==
    \/ Drain(s)
    \/ Register(s)
    \/ OperationReturns(s)
    \/ Clear(s)
    \/ Recheck(s)

SendStep(m) == BatchDirectMessage(m) \/ HoldDirectMessage(m)

MonitorStep == Probe \/ StoreHealth \/ FlushPendingDMs

HandlerStep(h) ==
    \/ SubmitTurn(h)
    \/ SubmitReturnsResult(h)
    \/ SubmitCancelled(h)
    \/ BossCommandEnds(h)

QueueStep(h) ==
    \/ QueueBegins(h)
    \/ QueueSkips(h)
    \/ TurnEnds(h)

Next ==
    \/ \E m \in Msgs :
          \/ SendBossCommand(m)
          \/ SendDirectMessage(m)
          \/ SendStep(m)
          \/ HandlerStep(m)
          \/ QueueStep(m)
    \/ \E s \in Streams : PumpStep(s)
    \/ StopRequested
    \/ StopFires
    \/ MonitorStep

Spec == Init /\ [][Next]_vars

(* Goroutines keep running, handlers and turns end (each has a watchdog),   *)
(* the ticker polls; the Boss and Ollama owe nothing.                       *)
Fairness ==
    /\ WF_vars(MonitorStep)
    /\ \A s \in Streams : WF_vars(PumpStep(s))
    /\ \A m \in Msgs : WF_vars(SendStep(m)) /\ WF_vars(HandlerStep(m))
    /\ WF_vars(\E m \in Msgs : QueueStep(m))

FairSpec == Spec /\ Fairness

-----------------------------------------------------------------------------
(* Properties. *)

(* Every message whose Send call has returned is in exactly one place: its  *)
(* stream's batch, the batch a goroutine has just taken, the offline queue, *)
(* or one operation.  Nothing is lost or sent twice between the two locks,  *)
(* the goroutine launches and the flush.                                    *)
Holders(m) ==
    LET s == Target[m] IN
    {p \in {"pending", "taken", "offline", "carried"} :
        \/ p = "pending" /\ Contains(batchPending[s], m)
        \/ p = "taken" /\ pump[s] = "register" /\ Contains(batch[s], m)
        \/ p = "offline" /\ Contains(pendingDMs, m)
        \/ p = "carried" /\ carried[m] # None}
EveryMessageAccounted ==
    \A m \in Msgs : Cardinality(Holders(m)) = IF sender[m] = "sent" THEN 1 ELSE 0

(* A batch with messages in it always has a goroutine that will look again, *)
(* however a Send call falls between the recheck and the unlock.            *)
NoStrandedBatch ==
    \A s \in Streams : batchPending[s] # <<>> => pump[s] # "off"

(* The cancel slot never outlives its operation: what a Stop reads there is *)
(* an operation some goroutine is still handling or about to clear.         *)
CancelSlotFresh ==
    cancelOp # None =>
        \E s \in Streams : pump[s] \in {"handling", "clear"} /\ Op(s) = cancelOp

(* The goroutines, flags and locks keep the promises of Mailbox.  What a    *)
(* goroutine has taken and not yet handed over is still first in line.      *)
Line(s) == IF pump[s] = "register" THEN batch[s] \o batchPending[s] ELSE batchPending[s]

Stage(m) ==
    IF handler[m] = "none" THEN "none"
    ELSE IF handler[m] = "returned" THEN "over"
    ELSE "open"

Busy(s) == IF pump[s] = "handling" /\ Stage(Op(s)) = "open" THEN Op(s) ELSE None

Mail == INSTANCE Mailbox WITH
    posted <- {m \in Msgs : sender[m] = "sent"},
    line   <- [s \in Streams |-> Line(s)],
    held   <- pendingDMs,
    stage  <- [m \in Msgs |-> Stage(m)],
    busy   <- [s \in Streams |-> Busy(s)]

ImplementsMailbox == Mail!MSpec

(* Every message of a batch is handled in the end.                          *)
BatchedHandled ==
    \A m \in Msgs :
        Contains(batchPending[Target[m]], m)
            ~> carried[m] # None /\ handler[carried[m]] = "returned"

(* A held message is handled if Ollama keeps going away and coming back:    *)
(* each return flushes the queue.                                           *)
HeldHandledOnReturn ==
    \A m \in Msgs :
        []<>~healthy /\ []<>healthy =>
            (Contains(pendingDMs, m) ~> handler[m] = "returned")

(* What SendDirectMessage tells the Boss (see the README): a queued message *)
(* is delivered when the agent comes back online.                           *)
HeldDeliveredOnceOnline ==
    \A m \in Msgs :
        <>[]healthy => (Contains(pendingDMs, m) ~> handler[m] = "returned")

=============================================================================
