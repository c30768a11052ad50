------------------------------- MODULE Relay -------------------------------
(***************************************************************************)
(* Commands from a phone in headless mode: the start and the shutdown of   *)
(* the headless backend (main.go), the Telegram relay that polls for       *)
(* updates (internal/relay/telegram.go), the webhooks Slack and WhatsApp   *)
(* call (webhook.go, slack.go, whatsapp.go) and the commands that come in  *)
(* through them (commands.go).                                             *)
(*                                                                         *)
(* Telegram holds an update until a poll asks for a later one; Slack and   *)
(* Meta deliver an event again until it is acknowledged.  These services   *)
(* are external, and modelled by what the relays rely on.  An update is    *)
(* its update_id.  What a command reads or decides in the database is left *)
(* to module Approvals: here a command has run, with its context alive, or *)
(* has not.                                                                *)
(***************************************************************************)
EXTENDS Integers, Sequences, FiniteSets, SequencesExt

CONSTANTS
    NumUpdates,   \* bound: updates sent to the bot
    Plain,        \* the updates that are no command
    SlackEvents,  \* message events of Slack
    WhatsApp,     \* message events of WhatsApp
    Tries,        \* bound: deliveries of one event
    MaxFails,     \* bound: requests that fail, answers that are lost
    MaxStarts     \* bound: starts after the first

ASSUME RelayAssumption ==
    /\ NumUpdates \in Nat
    /\ Plain \subseteq 1..NumUpdates
    /\ SlackEvents \cap WhatsApp = {}
    /\ Tries \in Nat \ {0}
    /\ MaxFails \in Nat
    /\ MaxStarts \in Nat

Events == SlackEvents \cup WhatsApp
Deliveries == Events \X (1..Tries)

VARIABLES
    main,       \* where runHeadless is
    listening,  \* whether the webhook server accepts requests
    poller,     \* TelegramRelay: its loop, offset and batch
    stopping,   \* whether the poller's context is cancelled
    sent,       \* updates sent to the bot so far
    confirmed,  \* updates Telegram no longer holds
    hook,       \* where each delivery of an event is
    job,        \* where the goroutine is that each delivery starts
    acked,      \* the events acknowledged
    ran,        \* history: the updates whose command ran, or that were none
    served,     \* history: the deliveries whose command ran
    count       \* failures and starts so far

telegramVars == <<poller, stopping, sent, confirmed>>
webhookVars == <<listening, hook, job, acked>>
histVars == <<ran, served>>
vars == <<main, telegramVars, webhookVars, histVars, count>>

Updates == 1..NumUpdates
IsCommand(u) == u \notin Plain
Idle == [at |-> "stopped", offset |-> 0, batch |-> <<>>]

TypeOK ==
    /\ main \in {"down", "telegram", "webhooks", "ready", "stop_webhooks", "stop_telegram", "wait"}
    /\ listening \in BOOLEAN
    /\ poller \in [at : {"stopped", "loop", "poll", "answer", "pause", "run", "reply"},
                   offset : 0..(NumUpdates + 1), batch : Seq(Updates)]
    /\ poller.at = "reply" => poller.batch # <<>>
    /\ stopping \in BOOLEAN
    /\ sent \in 0..NumUpdates
    /\ confirmed \in 0..sent
    /\ hook \in [Deliveries -> {"none", "arrived", "handled", "ended"}]
    /\ job \in [Deliveries -> {"none", "run", "reply", "ended"}]
    /\ acked \subseteq Events
    /\ ran \subseteq Updates
    /\ served \subseteq Deliveries
    /\ count \in [fails : 0..MaxFails, starts : 0..MaxStarts]

Init ==
    /\ main = "telegram"
    /\ listening = FALSE
    /\ poller = Idle /\ stopping = FALSE
    /\ sent = 0 /\ confirmed = 0
    /\ hook = [d \in Deliveries |-> "none"]
    /\ job = [d \in Deliveries |-> "none"]
    /\ acked = {}
    /\ ran = {} /\ served = {}
    /\ count = [fails |-> 0, starts |-> 0]

Fail == count.fails < MaxFails /\ count' = [count EXCEPT !.fails = @ + 1]

-----------------------------------------------------------------------------
(* runHeadless: the relays are started one after the other ...             *)

StartTelegram ==
    /\ main = "telegram"
    /\ main' = "webhooks"
    /\ poller' = [Idle EXCEPT !.at = "loop"]
    /\ UNCHANGED <<stopping, sent, confirmed, webhookVars, histVars, count>>

(* ... the webhook server last; if the port is taken it goes on without. *)
StartWebhooks ==
    /\ main = "webhooks"
    /\ main' = "ready"
    /\ \/ listening' = TRUE /\ UNCHANGED count
       \/ Fail /\ UNCHANGED listening
    /\ UNCHANGED <<telegramVars, hook, job, acked, histVars>>

(* The signal to end; the deferred calls run in the opposite order. *)
Signal ==
    /\ main = "ready"
    /\ main' = "stop_webhooks"
    /\ UNCHANGED <<telegramVars, webhookVars, histVars, count>>

(* WebhookServer.Stop waits for the handlers, ten seconds at most; the     *)
(* goroutines they started are waited for by nobody.                       *)
StopWebhooks ==
    /\ main = "stop_webhooks"
    /\ main' = "stop_telegram"
    /\ listening' = FALSE
    /\ UNCHANGED <<telegramVars, hook, job, acked, histVars, count>>

(* Mutant: Stop waits without cancelling. *)
WaitForLoop ==
    /\ main = "stop_telegram"
    /\ main' = "wait"
    /\ UNCHANGED <<telegramVars, webhookVars, histVars, count>>

(* TelegramRelay.Stop cancels the loop ... *)
CancelLoop ==
    /\ main = "stop_telegram"
    /\ main' = "wait"
    /\ stopping' = TRUE
    /\ UNCHANGED <<poller, sent, confirmed, webhookVars, histVars, count>>

(* The process ends, and what was running ends with it. *)
ProcessEnds ==
    /\ main' = "down"
    /\ listening' = FALSE
    /\ poller' = Idle /\ stopping' = FALSE
    /\ hook' = [d \in Deliveries |-> IF hook[d] = "none" THEN "none" ELSE "ended"]
    /\ job' = [d \in Deliveries |-> IF job[d] = "none" THEN "none" ELSE "ended"]
    /\ UNCHANGED <<sent, confirmed, acked, histVars>>

(* ... and waits for it. *)
StopEnds == main = "wait" /\ poller.at = "stopped" /\ ProcessEnds /\ UNCHANGED count

Crash == main # "down" /\ count.starts < MaxStarts /\ ProcessEnds /\ UNCHANGED count

Restart ==
    /\ main = "down" /\ count.starts < MaxStarts
    /\ main' = "telegram"
    /\ count' = [count EXCEPT !.starts = @ + 1]
    /\ UNCHANGED <<telegramVars, webhookVars, histVars>>

-----------------------------------------------------------------------------
(* TelegramRelay.pollLoop.                                                 *)

SendUpdate ==
    /\ sent < NumUpdates
    /\ sent' = sent + 1
    /\ UNCHANGED <<main, poller, stopping, confirmed, webhookVars, histVars, count>>

Poll(at) == poller' = [poller EXCEPT !.at = at]

Loop ==
    /\ poller.at = "loop"
    /\ Poll(IF stopping THEN "stopped" ELSE "poll")
    /\ UNCHANGED <<main, stopping, sent, confirmed, webhookVars, histVars, count>>

(* Telegram forgets what is below the offset and answers with the rest; an  *)
(* empty answer is a long poll that ran out.                               *)
ServePoll ==
    /\ poller.at = "poll" /\ ~stopping
    /\ confirmed' = IF poller.offset > confirmed + 1 THEN poller.offset - 1 ELSE confirmed
    /\ poller' = [poller EXCEPT !.at = "answer",
                                !.batch = [i \in 1..(sent - confirmed') |-> confirmed' + i]]
    /\ UNCHANGED <<main, stopping, sent, webhookVars, histVars, count>>

(* Mutant: one too far. *)
NextOffsetTwo(batch) == Last(batch) + 2

(* Mutant: everything sent so far, whether it is in the batch or not. *)
NextOffsetLatest(batch) == sent + 1

NextOffset(batch) == Last(batch) + 1

(* getUpdates returns: the offset is moved before the batch is handled. *)
GetUpdates ==
    /\ poller.at = "answer" /\ ~stopping
    /\ poller' = [poller EXCEPT !.at = "run",
                                !.offset = IF poller.batch = <<>> THEN @ ELSE NextOffset(poller.batch)]
    /\ UNCHANGED <<main, stopping, sent, confirmed, webhookVars, histVars, count>>

(* Mutant: a failed request ends the loop. *)
PollFailsForGood ==
    /\ poller.at \in {"poll", "answer"}
    /\ IF stopping THEN UNCHANGED count ELSE Fail
    /\ poller' = [poller EXCEPT !.at = "stopped", !.batch = <<>>]
    /\ UNCHANGED <<main, stopping, sent, confirmed, webhookVars, histVars>>

(* The request fails, or its answer is lost; the loop pauses, or ends if   *)
(* it was cancelled.                                                       *)
PollFails ==
    /\ poller.at \in {"poll", "answer"}
    /\ IF stopping THEN UNCHANGED count ELSE Fail
    /\ poller' = [poller EXCEPT !.at = IF stopping THEN "stopped" ELSE "pause", !.batch = <<>>]
    /\ UNCHANGED <<main, stopping, sent, confirmed, webhookVars, histVars>>

PauseEnds ==
    /\ poller.at = "pause"
    /\ Poll(IF stopping THEN "stopped" ELSE "loop")
    /\ UNCHANGED <<main, stopping, sent, confirmed, webhookVars, histVars, count>>

BatchDone ==
    /\ poller.at = "run" /\ poller.batch = <<>>
    /\ Poll("loop")
    /\ UNCHANGED <<main, stopping, sent, confirmed, webhookVars, histVars, count>>

(* handleUpdate: a message that is no command is passed over; a command     *)
(* runs, unless its context was cancelled, and has a reply in any case,    *)
(* which arrives or does not.                                              *)
HandleUpdate ==
    /\ poller.at = "run" /\ poller.batch # <<>>
    /\ LET u == Head(poller.batch)
       IN  /\ ran' = IF stopping /\ IsCommand(u) THEN ran ELSE ran \cup {u}
           /\ poller' = IF IsCommand(u) THEN [poller EXCEPT !.at = "reply"]
                                          ELSE [poller EXCEPT !.batch = Tail(@)]
    /\ UNCHANGED <<main, stopping, sent, confirmed, webhookVars, served, count>>

SendReply ==
    /\ poller.at = "reply"
    /\ UNCHANGED count \/ (~stopping /\ Fail)
    /\ poller' = [poller EXCEPT !.at = "run", !.batch = Tail(@)]
    /\ UNCHANGED <<main, stopping, sent, confirmed, webhookVars, histVars>>

-----------------------------------------------------------------------------
(* The webhooks.                                                           *)

(* Slack or Meta delivers an event, the first time or again. *)
Deliver(e, n) ==
    /\ listening
    /\ hook[<<e, n>>] = "none"
    /\ n > 1 => hook[<<e, n - 1>>] = "ended" /\ e \notin acked
    /\ hook' = [hook EXCEPT ![<<e, n>>] = "arrived"]
    /\ UNCHANGED <<main, telegramVars, listening, job, acked, histVars, count>>

(* A body that cannot be read or whose signature does not match is refused. *)
Refuse(d) == hook' = [hook EXCEPT ![d] = "ended"] /\ UNCHANGED job

StartJob(d) ==
    /\ hook' = [hook EXCEPT ![d] = "handled"]
    /\ job' = [job EXCEPT ![d] = "run"]

(* SlackRelay.HandleWebhook: a command gets a goroutine of its own. *)
SlackEvent(d) ==
    /\ d[1] \in SlackEvents /\ hook[d] = "arrived"
    /\ Refuse(d) \/ StartJob(d)
    /\ UNCHANGED <<main, telegramVars, listening, acked, histVars, count>>

(* WhatsAppRelay.handleEvent: the same; its status is sent when it returns. *)
WhatsAppEvent(d) ==
    /\ d[1] \in WhatsApp /\ hook[d] = "arrived"
    /\ Refuse(d) \/ StartJob(d)
    /\ UNCHANGED <<main, telegramVars, listening, acked, histVars, count>>

(* The handler returns; its answer, 200, arrives or is lost. *)
HandlerReturns(d) ==
    /\ hook[d] = "handled"
    /\ hook' = [hook EXCEPT ![d] = "ended"]
    /\ \/ acked' = acked \cup {d[1]} /\ UNCHANGED count
       \/ Fail /\ UNCHANGED acked
    /\ UNCHANGED <<main, telegramVars, listening, job, histVars>>

(* Slack's goroutine works under the context of the request, which net/http *)
(* cancels when the handler has returned; WhatsApp's has one of its own.    *)
Alive(d) == d[1] \in SlackEvents => hook[d] = "handled"

(* A command whose context is dead finds no database. *)
RunCommand(d) ==
    /\ job[d] = "run"
    /\ job' = [job EXCEPT ![d] = "reply"]
    /\ served' = IF Alive(d) THEN served \cup {d} ELSE served
    /\ UNCHANGED <<main, telegramVars, listening, hook, acked, ran, count>>

(* The reply is accepted, refused or, with a dead context, not sent. *)
PostReply(d) ==
    /\ job[d] = "reply"
    /\ job' = [job EXCEPT ![d] = "ended"]
    /\ UNCHANGED count \/ (Alive(d) /\ Fail)
    /\ UNCHANGED <<main, telegramVars, listening, hook, acked, histVars>>

-----------------------------------------------------------------------------
Starting == StartTelegram \/ StartWebhooks
Stopping == StopWebhooks \/ CancelLoop \/ StopEnds
Polling ==
    \/ Loop \/ ServePoll \/ GetUpdates \/ PollFails \/ PauseEnds
    \/ BatchDone \/ HandleUpdate \/ SendReply
Serving(d) == SlackEvent(d) \/ WhatsAppEvent(d) \/ HandlerReturns(d) \/ RunCommand(d) \/ PostReply(d)

Next ==
    \/ Starting \/ Signal \/ Stopping \/ Crash \/ Restart
    \/ SendUpdate \/ Polling
    \/ \E e \in Events, n \in 1..Tries : Deliver(e, n)
    \/ \E d \in Deliveries : Serving(d)

Spec == Init /\ [][Next]_vars

(* The loop, the goroutines and runHeadless go on when they can; nobody is  *)
(* obliged to send, to deliver, to stop or to start anything.               *)
FairSpec ==
    /\ Spec
    /\ WF_vars(Starting) /\ WF_vars(Stopping) /\ WF_vars(Polling)
    /\ \A d \in Deliveries : WF_vars(Serving(d))

-----------------------------------------------------------------------------
(* Properties.                                                             *)

(* Telegram has forgotten no update whose command has not run, whatever is  *)
(* lost, cancelled or crashes: getUpdates moves the offset before the batch *)
(* is handled, but only the next poll, after the batch, tells Telegram.     *)
NoUpdateLost == \A u \in Updates : u <= confirmed => u \in ran

(* A command sent to the bot, or delivered by Meta, runs, unless the        *)
(* backend stops.                                                          *)
CommandsRun ==
    /\ \A u \in Updates : (u <= sent /\ main = "ready") ~> (u \in ran \/ main # "ready")
    /\ \A d \in WhatsApp \X (1..Tries) : (job[d] = "run") ~> (d \in served \/ main = "down")

(* A shutdown ends: Stop waits for a loop that leaves a poll, a pause, a    *)
(* batch and a command when it is cancelled.                               *)
ShutdownEnds == (main = "stop_webhooks") ~> (main = "down")

=============================================================================
