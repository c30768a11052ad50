------------------------------ MODULE CogQueue ------------------------------
(***************************************************************************)
(* The cognition queue: internal/orchestrator/cogqueue.go.  Callers block  *)
(* in Submit, one dispatcher goroutine (run) takes requests from four      *)
(* buffered channels, one per priority tier, and executes them one by one. *)
(* A step is one operation on shared state: a channel operation or select, *)
(* an atomic counter, or the read of a context or of the system monitor.   *)
(***************************************************************************)
EXTENDS Integers, Sequences, FiniteSets

CONSTANTS
    Requests,    \* identities of cogRequest values
    Prio,        \* the CogPriority each one is submitted with
    Capacity,    \* the buffer size of each tier's channel
    NoReq        \* the dispatcher holds no request

P0Emergency   == 0
P1Lead        == 1
P2Interactive == 2
P3Background  == 3
Tiers == P0Emergency .. P3Background

ASSUME PrioAssumption     == Prio \in [Requests -> Tiers]
ASSUME CapacityAssumption == Capacity \in [Tiers -> Nat \ {0}]
ASSUME NoReqAssumption    == NoReq \notin Requests

VARIABLES
    caller,      \* where each Submit call is
    cancelled,   \* whether each request's ctx is done
    reply,       \* the error Submit returned, "none" before it returns
    doneCh,      \* each request's buffered(1) result channel
    chan,        \* p0..p3
    waiting,     \* the waiting counter of each tier
    disp,        \* where the dispatcher goroutine is
    pass,        \* which select of dequeue it is about to evaluate
    cur,         \* the request the dispatcher owns
    verdict,     \* the error it is about to deliver
    active,      \* the active flag shown by State()
    pressure,    \* SystemMonitor.IsUnderPressure()
    queueDone,   \* whether the queue's own context is done
    ran,         \* history: the request's fn has been started
    older        \* history: the tiers that were non-empty when the scan began

callerVars == <<caller, cancelled, reply>>
dispVars   == <<disp, pass, cur, verdict, active, ran, older>>
envVars    == <<pressure, queueDone>>
vars == <<caller, cancelled, reply, doneCh, chan, waiting, disp, pass, cur,
          verdict, active, pressure, queueDone, ran, older>>

CallerStates == {"idle", "sending", "awaiting", "returned"}
DispStates   == {"dequeue", "took", "check", "gate", "throttle", "run",
                 "deliver", "stopped"}
Errors       == {"fn", "ctx", "dropped", "stopped"}

TypeOK ==
    /\ caller \in [Requests -> CallerStates]
    /\ cancelled \in [Requests -> BOOLEAN]
    /\ reply \in [Requests -> Errors \cup {"none"}]
    /\ doneCh \in [Requests -> Errors \cup {"empty"}]
    /\ chan \in [Tiers -> Seq(Requests)]
    /\ \A p \in Tiers : Len(chan[p]) <= Capacity[p]
    /\ waiting \in [Tiers -> Int]
    /\ disp \in DispStates
    /\ pass \in 1..4
    /\ cur \in Requests \cup {NoReq}
    /\ verdict \in Errors
    /\ active \in BOOLEAN
    /\ pressure \in BOOLEAN
    /\ queueDone \in BOOLEAN
    /\ ran \in [Requests -> BOOLEAN]
    /\ older \in SUBSET Tiers

Init ==
    /\ caller = [r \in Requests |-> "idle"]
    /\ cancelled = [r \in Requests |-> FALSE]
    /\ reply = [r \in Requests |-> "none"]
    /\ doneCh = [r \in Requests |-> "empty"]
    /\ chan = [p \in Tiers |-> <<>>]
    /\ waiting = [p \in Tiers |-> 0]
    /\ disp = "dequeue"
    /\ pass = 1
    /\ cur = NoReq
    /\ verdict = "fn"
    /\ active = FALSE
    /\ pressure = FALSE
    /\ queueDone = FALSE
    /\ ran = [r \in Requests |-> FALSE]
    /\ older = {}

InChan(r) == \E i \in 1..Len(chan[Prio[r]]) : chan[Prio[r]][i] = r

-----------------------------------------------------------------------------
(* Submit, the caller's side. *)

(* The counter is incremented before the request is in the channel. *)
Submit(r) ==
    /\ caller[r] = "idle"
    /\ caller' = [caller EXCEPT ![r] = "sending"]
    /\ waiting' = [waiting EXCEPT ![Prio[r]] = @ + 1]
    /\ UNCHANGED <<cancelled, reply, doneCh, chan, dispVars, envVars>>

(* Mutant: the send does not wait for room in the buffer. *)
EnqueueUnbounded(r) ==
    /\ caller[r] = "sending"
    /\ caller' = [caller EXCEPT ![r] = "awaiting"]
    /\ chan' = [chan EXCEPT ![Prio[r]] = Append(@, r)]
    /\ UNCHANGED <<cancelled, reply, doneCh, waiting, dispVars, envVars>>

(* First select, case ch <- req: blocks while the tier's buffer is full. *)
Enqueue(r) ==
    /\ caller[r] = "sending"
    /\ Len(chan[Prio[r]]) < Capacity[Prio[r]]
    /\ caller' = [caller EXCEPT ![r] = "awaiting"]
    /\ chan' = [chan EXCEPT ![Prio[r]] = Append(@, r)]
    /\ UNCHANGED <<cancelled, reply, doneCh, waiting, dispVars, envVars>>

(* Mutant: the counter is not given back. *)
AbandonLeaksCounter(r) ==
    /\ caller[r] = "sending"
    /\ cancelled[r]
    /\ caller' = [caller EXCEPT ![r] = "returned"]
    /\ reply' = [reply EXCEPT ![r] = "ctx"]
    /\ UNCHANGED <<cancelled, doneCh, chan, waiting, dispVars, envVars>>

(* First select, case <-ctx.Done(). *)
Abandon(r) ==
    /\ caller[r] = "sending"
    /\ cancelled[r]
    /\ caller' = [caller EXCEPT ![r] = "returned"]
    /\ reply' = [reply EXCEPT ![r] = "ctx"]
    /\ waiting' = [waiting EXCEPT ![Prio[r]] = @ - 1]
    /\ UNCHANGED <<cancelled, doneCh, chan, dispVars, envVars>>

(* Second select, case err = <-req.doneCh. *)
ReceiveResult(r) ==
    /\ caller[r] = "awaiting"
    /\ doneCh[r] # "empty"
    /\ caller' = [caller EXCEPT ![r] = "returned"]
    /\ reply' = [reply EXCEPT ![r] = doneCh[r]]
    /\ doneCh' = [doneCh EXCEPT ![r] = "empty"]
    /\ UNCHANGED <<cancelled, chan, waiting, dispVars, envVars>>

(* Second select, case <-ctx.Done(): the request stays where it is. *)
GiveUp(r) ==
    /\ caller[r] = "awaiting"
    /\ cancelled[r]
    /\ caller' = [caller EXCEPT ![r] = "returned"]
    /\ reply' = [reply EXCEPT ![r] = "ctx"]
    /\ UNCHANGED <<cancelled, doneCh, chan, waiting, dispVars, envVars>>

(* The caller's context is cancelled: before, during or after Submit. *)
Cancel(r) ==
    /\ ~cancelled[r]
    /\ cancelled' = [cancelled EXCEPT ![r] = TRUE]
    /\ UNCHANGED <<caller, reply, doneCh, chan, waiting, dispVars, envVars>>

(* A returned request that neither the channels nor the dispatcher refer to *)
(* is garbage; its identity stands for a later Submit call.                 *)
Forget(r) ==
    /\ caller[r] = "returned"
    /\ ~InChan(r)
    /\ cur # r
    /\ caller' = [caller EXCEPT ![r] = "idle"]
    /\ cancelled' = [cancelled EXCEPT ![r] = FALSE]
    /\ reply' = [reply EXCEPT ![r] = "none"]
    /\ doneCh' = [doneCh EXCEPT ![r] = "empty"]
    /\ ran' = [ran EXCEPT ![r] = FALSE]
    /\ UNCHANGED <<chan, waiting, disp, pass, cur, verdict, active, older, envVars>>

-----------------------------------------------------------------------------
(* dequeue: three non-blocking selects over the first 1, 2 and 3 tiers, then *)
(* a blocking one over all four.  A select picks any ready case.            *)

Take(p) ==
    /\ cur' = Head(chan[p])
    /\ chan' = [chan EXCEPT ![p] = Tail(@)]
    /\ disp' = "took"
    /\ pass' = 1
    /\ older' = {}
    /\ UNCHANGED <<callerVars, doneCh, waiting, verdict, active, ran, envVars>>

(* Mutant: one select over all tiers, without the passes. *)
DequeueFromAnyTier(p) ==
    /\ disp = "dequeue"
    /\ chan[p] # <<>>
    /\ Take(p)

(* Mutant: the last select forgets the background channel. *)
DequeueThreeTiers(p) ==
    /\ disp = "dequeue"
    /\ p < pass /\ p < P3Background
    /\ chan[p] # <<>>
    /\ Take(p)

Dequeue(p) ==
    /\ disp = "dequeue"
    /\ p < pass
    /\ chan[p] # <<>>
    /\ Take(p)

(* The default case of passes 1 to 3. *)
NextPass ==
    /\ disp = "dequeue"
    /\ pass < 4
    /\ \A p \in Tiers : p < pass => chan[p] = <<>>
    /\ pass' = pass + 1
    /\ UNCHANGED <<callerVars, doneCh, chan, waiting, disp, cur, verdict,
                   active, ran, older, envVars>>

(* Pass 4, case <-ctx.Done(). *)
Stop ==
    /\ disp = "dequeue"
    /\ pass = 4
    /\ queueDone
    /\ disp' = "stopped"
    /\ UNCHANGED <<callerVars, doneCh, chan, waiting, pass, cur, verdict,
                   active, ran, older, envVars>>

-----------------------------------------------------------------------------
(* run, after dequeue returned a request. *)

TakeOwnership ==
    /\ disp = "took"
    /\ waiting' = [waiting EXCEPT ![Prio[cur]] = @ - 1]
    /\ disp' = "check"
    /\ UNCHANGED <<callerVars, doneCh, chan, pass, cur, verdict, active, ran,
                   older, envVars>>

(* Mutant: a cancelled request is dropped without a word to its caller. *)
CheckSkipsSilently ==
    /\ disp = "check"
    /\ IF cancelled[cur]
       THEN /\ disp' = "dequeue" /\ cur' = NoReq
            /\ older' = {p \in Tiers : chan[p] # <<>>}
       ELSE disp' = "gate" /\ UNCHANGED <<cur, older>>
    /\ UNCHANGED <<callerVars, doneCh, chan, waiting, pass, verdict, active,
                   ran, envVars>>

(* if req.ctx.Err() != nil: the request is skipped and its caller told. *)
CheckCancelled ==
    /\ disp = "check"
    /\ \/ /\ cancelled[cur]
          /\ disp' = "deliver"
          /\ verdict' = "ctx"
       \/ /\ ~cancelled[cur]
          /\ disp' = "gate"
          /\ UNCHANGED verdict
    /\ UNCHANGED <<callerVars, doneCh, chan, waiting, pass, cur, active, ran,
                   older, envVars>>

StartFn ==
    /\ disp' = "run"
    /\ active' = TRUE
    /\ ran' = [ran EXCEPT ![cur] = TRUE]
    /\ UNCHANGED <<callerVars, doneCh, chan, waiting, pass, cur, verdict,
                   older, envVars>>

(* Background work waits in waitPressureRelief; anything else starts. *)
Gate ==
    /\ disp = "gate"
    /\ ~(Prio[cur] = P3Background /\ pressure)
    /\ StartFn

(* Mutant: pressure holds every tier back. *)
ThrottleAnyTier ==
    /\ disp = "gate"
    /\ pressure
    /\ disp' = "throttle"
    /\ UNCHANGED <<callerVars, doneCh, chan, waiting, pass, cur, verdict,
                   active, ran, older, envVars>>

Throttle ==
    /\ disp = "gate"
    /\ Prio[cur] = P3Background
    /\ pressure
    /\ disp' = "throttle"
    /\ UNCHANGED <<callerVars, doneCh, chan, waiting, pass, cur, verdict,
                   active, ran, older, envVars>>

PressureRelieved ==
    /\ disp = "throttle"
    /\ ~pressure
    /\ StartFn

(* Mutant: every way out of the wait is reported as the caller's own ctx. *)
ThrottleEndsAsCtx(err) ==
    /\ disp = "throttle"
    /\ err = "ctx"
    /\ disp' = "deliver"
    /\ verdict' = err
    /\ UNCHANGED <<callerVars, doneCh, chan, waiting, pass, cur, active, ran,
                   older, envVars>>

(* The error returns of waitPressureRelief.  Elapsed time is abstract: the  *)
(* p3MaxPressureWait deadline may pass at any moment of the wait.           *)
ThrottleFails(err) ==
    /\ disp = "throttle"
    /\ \/ err = "dropped"
       \/ err = "stopped" /\ queueDone
       \/ err = "ctx" /\ cancelled[cur]
    /\ disp' = "deliver"
    /\ verdict' = err
    /\ UNCHANGED <<callerVars, doneCh, chan, waiting, pass, cur, active, ran,
                   older, envVars>>

(* req.fn returns; its own error is not distinguished from success. *)
FinishFn ==
    /\ disp = "run"
    /\ active' = FALSE
    /\ disp' = "deliver"
    /\ verdict' = "fn"
    /\ UNCHANGED <<callerVars, doneCh, chan, waiting, pass, cur, ran, older, envVars>>

(* req.doneCh <- err, then the next round of the loop. *)
Deliver ==
    /\ disp = "deliver"
    /\ doneCh' = [doneCh EXCEPT ![cur] = verdict]
    /\ disp' = "dequeue"
    /\ cur' = NoReq
    /\ verdict' = "fn"
    /\ older' = {p \in Tiers : chan[p] # <<>>}
    /\ UNCHANGED <<callerVars, chan, waiting, pass, active, ran, envVars>>

-----------------------------------------------------------------------------
(* The environment. *)

(* SystemMonitor stores a new sample. *)
PressureSample ==
    /\ pressure' = ~pressure
    /\ UNCHANGED <<callerVars, doneCh, chan, waiting, dispVars, queueDone>>

(* The context passed to Start is cancelled. *)
Shutdown ==
    /\ ~queueDone
    /\ queueDone' = TRUE
    /\ UNCHANGED <<callerVars, doneCh, chan, waiting, dispVars, pressure>>

CallerStep(r) ==
    \/ Submit(r)
    \/ Enqueue(r)
    \/ Abandon(r)
    \/ ReceiveResult(r)
    \/ GiveUp(r)
    \/ Cancel(r)
    \/ Forget(r)

Dispatch ==
    \/ \E p \in Tiers : Dequeue(p)
    \/ NextPass
    \/ TakeOwnership
    \/ CheckCancelled
    \/ Gate
    \/ Throttle
    \/ PressureRelieved
    \/ \E err \in Errors \ {"fn"} : ThrottleFails(err)
    \/ FinishFn
    \/ Deliver

Next ==
    \/ \E r \in Requests : CallerStep(r)
    \/ Dispatch
    \/ Stop
    \/ PressureSample
    \/ Shutdown

Spec == Init /\ [][Next]_vars

(* The dispatcher goroutine keeps running, CogFns return (every inference   *)
(* runs under a watchdog), a goroutine whose select is ready is resumed, and *)
(* Go hands a freed slot to the senders blocked on the channel in turn.     *)
Fairness ==
    /\ WF_vars(Dispatch)
    /\ \A r \in Requests :
          /\ SF_vars(Enqueue(r))
          /\ WF_vars(ReceiveResult(r) \/ Abandon(r) \/ GiveUp(r))

FairSpec == Spec /\ Fairness

-----------------------------------------------------------------------------
(* Properties. *)

(* A caller blocked in Submit always has someone who will answer it: its    *)
(* request is in a channel, with the dispatcher, or already answered.       *)
NoLostRequest ==
    \A r \in Requests :
        caller[r] = "awaiting" => InChan(r) \/ cur = r \/ doneCh[r] # "empty"

(* What Submit returns is true of the function: a result means it ran, a    *)
(* context error means the context is done, and only background requests    *)
(* that never ran are dropped.                                              *)
ReplyHonest ==
    \A r \in Requests :
        /\ reply[r] = "fn" => ran[r]
        /\ reply[r] = "ctx" => cancelled[r]
        /\ reply[r] \in {"dropped", "stopped"} =>
              Prio[r] = P3Background /\ ~ran[r]

(* The counters shown to the Boss never drift: each one is the number of    *)
(* its tier's callers still sending, requests buffered, and the request the *)
(* dispatcher has received but not yet counted out.                         *)
Unclaimed(p) ==
    {r \in Requests : /\ Prio[r] = p
                      /\ \/ caller[r] = "sending"
                         \/ InChan(r)
                         \/ disp = "took" /\ cur = r}
WaitingExact == \A p \in Tiers : waiting[p] = Cardinality(Unclaimed(p))

(* No function is started twice, whatever callers, cancellations and        *)
(* throttling do.                                                           *)
AtMostOnce == [][disp' = "run" /\ disp # "run" => ~ran[cur]]_vars

(* The inversion the four selects allow is bounded: a request is never      *)
(* overtaken by one of a lower tier if its tier was non-empty when the scan *)
(* that chose the other began.                                              *)
BoundedInversion ==
    [][disp = "dequeue" /\ disp' = "took" => \A q \in older : Prio[cur'] <= q]_vars

(* Refinement: the queue implements CogService. *)
Phase(r) ==
    IF caller[r] = "idle" THEN "idle"
    ELSE IF \/ caller[r] = "sending"
            \/ InChan(r)
            \/ cur = r /\ disp \in {"took", "check", "gate", "throttle"}
         THEN "queued"
    ELSE IF cur = r /\ disp = "run" THEN "running"
    ELSE IF ran[r] THEN "executed"
    ELSE "skipped"

Service == INSTANCE CogService WITH
    Background <- {r \in Requests : Prio[r] = P3Background},
    phase <- [r \in Requests |-> Phase(r)]

ImplementsCogService == Service!SSpec

(* A request is answered although others keep coming, provided that from    *)
(* some moment on nobody submits in a higher tier and the queue is not shut *)
(* down: starvation comes from higher tiers alone.                          *)
HigherTiersQuiet(r) ==
    \A q \in Requests : Prio[q] < Prio[r] => caller[q] # "sending"

EveryRequestAnswered ==
    \A r \in Requests :
        []~queueDone /\ <>[]HigherTiersQuiet(r)
            => (caller[r] = "sending" ~> caller[r] = "returned")

=============================================================================
