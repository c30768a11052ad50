------------------------------ MODULE DMSession ------------------------------
(***************************************************************************)
(* The direct-message session with one agent: HandleDirectMessage of       *)
(* orchestrator.go and the turn it runs (TurnStream of agent_loop.go), the *)
(* cached RunningAgent with its history, and the persisted conversation it *)
(* is seeded from.                                                         *)
(*                                                                         *)
(* Messages reach HandleDirectMessage from the agent's batch goroutine,    *)
(* one at a time, or from the flush of the messages held while Ollama was  *)
(* away, each in a goroutine of its own (WarRoomInbox).  The cognition     *)
(* queue runs one turn at a time (CogQueue).  A step ends where another    *)
(* goroutine can come between: a lock, the queue, an inference, a tool, a  *)
(* statement on the database.                                              *)
(***************************************************************************)
EXTENDS Signals, FiniteSets

CONSTANTS
    Msgs,          \* messages of the Boss to this agent
    Held,          \* those held while Ollama was away, and flushed
    Responses,     \* what the model may answer
    MaxToolLoops,  \* maxToolLoops
    HistoryLimit,  \* how many stored messages a new object is seeded with
    MaxDrops,      \* bound: invalidations and restarts
    None

ASSUME SessionAssumption ==
    /\ Held \subseteq Msgs
    /\ None \notin Msgs
    /\ MaxToolLoops \in Nat \ {0}
    /\ HistoryLimit \in Nat
    /\ MaxDrops \in Nat

VARIABLES
    log,      \* messages: what the Boss and the agent said, without the system's notices
    cache,    \* dmAgents: the agent's present object, 0 if there is none
    made,     \* objects made so far
    hist,     \* the history of each object
    entry,    \* its pendingHistoryEntry
    blank,    \* history: the objects whose conversation could not be read
    step,     \* where the call for each message is
    obj,      \* the object it works on
    loop,     \* the iteration of its tool loop
    shown,    \* what became of it: what the Boss saw or the caller got
    stored,   \* history: what its turn put into the object's history
    late,     \* history: its object left the cache before it was over
    crossed   \* history: it was prepared beside another call on its object

convVars == <<log, shown>>
agentVars == <<cache, made, hist, entry, blank>>
callVars == <<step, obj, loop>>
vars == <<convVars, agentVars, callVars, stored, late, crossed>>

Objs == 1..(MaxDrops + 1)
Steps == {"idle", "sent", "resolved", "queued", "infer", "tool", "reply", "ended"}
Outcomes == {"none", "reply", "consult", "timeout", "stopped", "error", "lost"}
Kinds == {"boss_command", "agent_message", "consultation"}
Entries == {"user", "wrapped", "call", "result", "assistant"} \X Msgs

TypeOK ==
    /\ log \in Seq(Kinds \X Msgs)
    /\ cache \in 0..made
    /\ made \in 0..Cardinality(Objs)
    /\ hist \in [Objs -> Seq(Entries)]
    /\ entry \in [Objs -> Msgs \cup {None}]
    /\ blank \subseteq Objs
    /\ step \in [Msgs -> Steps]
    /\ obj \in [Msgs -> 0..made]
    /\ loop \in [Msgs -> 0..MaxToolLoops]
    /\ shown \in [Msgs -> Outcomes]
    /\ stored \in [Msgs -> Msgs \cup {None, "wrapped"}]
    /\ late \subseteq Msgs
    /\ crossed \subseteq Msgs

Init ==
    /\ log = <<>>
    /\ cache = 0
    /\ made = 0
    /\ hist = [o \in Objs |-> <<>>]
    /\ entry = [o \in Objs |-> None]
    /\ blank = {}
    /\ step = [m \in Msgs |-> "idle"]
    /\ obj = [m \in Msgs |-> 0]
    /\ loop = [m \in Msgs |-> 0]
    /\ shown = [m \in Msgs |-> "none"]
    /\ stored = [m \in Msgs |-> None]
    /\ late = {}
    /\ crossed = {}

Range_(s) == {s[i] : i \in DOMAIN s}
InHand(m) == step[m] \notin {"idle", "sent", "ended"}

(* The call is over: what it leaves is told, returned or lost. *)
End(m, outcome) ==
    /\ step' = [step EXCEPT ![m] = "ended"]
    /\ shown' = [shown EXCEPT ![m] = outcome]

-----------------------------------------------------------------------------

(* SendDirectMessage stores the message before it is handed on. *)
Send(m) ==
    /\ step[m] = "idle"
    /\ step' = [step EXCEPT ![m] = "sent"]
    /\ log' = Append(log, <<"boss_command", m>>)
    /\ UNCHANGED <<shown, agentVars, obj, loop, stored, late, crossed>>

(* ListConversationHistory: the last messages of the Boss and the agent. *)
ListConversationHistory(limit) ==
    SubSeq(log, IF Len(log) > limit THEN Len(log) - limit + 1 ELSE 1, Len(log))

(* messagesToChatHistory: a role for each of them. *)
messagesToChatHistory(msgs) ==
    [i \in DOMAIN msgs |->
        <<IF msgs[i][1] = "boss_command" THEN "user" ELSE "assistant", msgs[i][2]>>]

(* Mutant: a new object starts without a history. *)
SeedNothing(o, msgs) == UNCHANGED hist

(* SeedHistory puts the persisted messages before what is there. *)
SeedHistory(o, msgs) == hist' = [hist EXCEPT ![o] = msgs \o @]

(* Under dmAgentsMu: the cached object, or a new one with the conversation  *)
(* as it is now.  The queries run in the context of the call: when Stop has *)
(* cancelled it while the call waited for the lock, or the database fails,  *)
(* the object is cached without a history and nobody is told.  The batch    *)
(* goroutine has one call at a time.                                        *)
Resolve(m) ==
    /\ step[m] = "sent"
    /\ m \notin Held => \A n \in Msgs \ Held : ~InHand(n)
    /\ step' = [step EXCEPT ![m] = "resolved"]
    /\ \/ /\ cache # 0
          /\ obj' = [obj EXCEPT ![m] = cache]
          /\ UNCHANGED agentVars
       \/ /\ cache = 0
          /\ made' = made + 1
          /\ cache' = made + 1
          /\ obj' = [obj EXCEPT ![m] = made + 1]
          /\ \/ /\ SeedHistory(made + 1, messagesToChatHistory(ListConversationHistory(HistoryLimit)))
                /\ UNCHANGED blank
             \/ /\ blank' = blank \cup {made + 1}
                /\ UNCHANGED hist
          /\ UNCHANGED entry
    /\ UNCHANGED <<convVars, loop, stored, late, crossed>>

(* Mutant: the entry is kept until it is used. *)
InjectIfEmpty(o, m) == entry' = [entry EXCEPT ![o] = IF @ = None THEN m ELSE @]

(* InjectHistoryEntry: one place per object, overwritten. *)
InjectHistoryEntry(o, m) == entry' = [entry EXCEPT ![o] = m]

(* The raw message is set aside for the history, and the call submitted. *)
Prepare(m) ==
    /\ step[m] = "resolved"
    /\ step' = [step EXCEPT ![m] = "queued"]
    /\ InjectHistoryEntry(obj[m], m)
    /\ LET others == {n \in Msgs : step[n] = "queued" /\ obj[n] = obj[m]}
       IN crossed' = IF others = {} THEN crossed ELSE crossed \cup others \cup {m}
    /\ UNCHANGED <<convVars, cache, made, hist, blank, obj, loop, stored, late>>

(* Stop reaches the call while it still waits in the queue. *)
StoppedInQueue(m) ==
    /\ step[m] = "queued"
    /\ m \notin Held
    /\ End(m, "error")
    /\ UNCHANGED <<log, agentVars, obj, loop, stored, late, crossed>>

(* TurnStream begins: the entry set aside, or the prompt itself, goes into *)
(* the history.                                                            *)
BeginTurn(m) ==
    LET o == obj[m] IN
    /\ step[m] = "queued"
    /\ \A n \in Msgs : step[n] \notin {"infer", "tool", "reply"}
    /\ step' = [step EXCEPT ![m] = "infer"]
    /\ hist' = [hist EXCEPT ![o] =
                  Append(@, IF entry[o] # None THEN <<"user", entry[o]>> ELSE <<"wrapped", m>>)]
    /\ stored' = [stored EXCEPT ![m] = IF entry[o] # None THEN entry[o] ELSE "wrapped"]
    /\ entry' = [entry EXCEPT ![o] = None]
    /\ UNCHANGED <<convVars, cache, made, blank, obj, loop, late, crossed>>

(* The inference cannot start or ends empty, which is an error of the call; *)
(* or it is stopped or runs out of time, which the Boss is told.            *)
InferFails(m) ==
    /\ step[m] = "infer"
    /\ \E outcome \in {"error", "timeout", "stopped"} :
          /\ outcome = "stopped" => m \notin Held
          /\ End(m, outcome)
    /\ UNCHANGED <<log, agentVars, obj, loop, stored, late, crossed>>

(* What the agent asked stays in its history, if any prose is left of it. *)
RememberVisible(m, resp) ==
    hist' = IF stripToolCallLines(resp) = <<>> THEN hist
            ELSE [hist EXCEPT ![obj[m]] = Append(@, <<"assistant", m>>)]

(* Low confidence: the Boss is consulted. *)
Consult(m, resp) ==
    /\ parseConfidenceSignal(resp) = "cs_low"
    /\ RememberVisible(m, resp)
    /\ End(m, "consult")
    /\ log' = Append(log, <<"consultation", m>>)

(* An escalation is an error of a direct message. *)
Escalate(m, resp) ==
    /\ parseConfidenceSignal(resp) # "cs_low"
    /\ parseEscalation(resp)
    /\ RememberVisible(m, resp)
    /\ End(m, "error")
    /\ UNCHANGED log

(* Signals are looked at in this order; a response with no tool call is the *)
(* reply.                                                                   *)
CallTool(m, resp) ==
    /\ parseConfidenceSignal(resp) # "cs_low"
    /\ ~parseEscalation(resp)
    /\ parseToolCall(resp)
    /\ step' = [step EXCEPT ![m] = "tool"]
    /\ UNCHANGED <<convVars, hist>>

Reply(m, resp) ==
    /\ parseConfidenceSignal(resp) # "cs_low"
    /\ ~parseEscalation(resp)
    /\ ~parseToolCall(resp)
    /\ hist' = [hist EXCEPT ![obj[m]] = Append(@, <<"assistant", m>>)]
    /\ step' = [step EXCEPT ![m] = "reply"]
    /\ UNCHANGED convVars

(* The stream ends, whole or cut by an error that is not a context's. *)
Respond(m, raw) ==
    LET resp == extractThinkBlocks(raw) IN
    /\ step[m] = "infer"
    /\ Consult(m, resp) \/ Escalate(m, resp) \/ CallTool(m, resp) \/ Reply(m, resp)
    /\ UNCHANGED <<cache, made, entry, blank, obj, loop, stored, late, crossed>>

(* Mutant: one iteration more. *)
NextLoopOffByOne(m) ==
    /\ loop' = [loop EXCEPT ![m] = @ + 1]
    /\ IF loop[m] < MaxToolLoops
       THEN /\ step' = [step EXCEPT ![m] = "infer"]
            /\ UNCHANGED shown
       ELSE End(m, "error")

(* The next iteration, or the end of them. *)
NextLoop(m) ==
    /\ loop' = [loop EXCEPT ![m] = @ + 1]
    /\ IF loop[m] + 1 < MaxToolLoops
       THEN /\ step' = [step EXCEPT ![m] = "infer"]
            /\ UNCHANGED shown
       ELSE End(m, "error")

(* The tool has run, well or not; call and result go into the history. *)
ToolDone(m) ==
    /\ step[m] = "tool"
    /\ hist' = [hist EXCEPT ![obj[m]] = @ \o <<<<"call", m>>, <<"result", m>>>>]
    /\ NextLoop(m)
    /\ UNCHANGED <<log, cache, made, entry, blank, obj, stored, late, crossed>>

(* The reply is dispatched, which stores it.  The reflection that may be    *)
(* queued then only reads the history (Brain has what it writes).           *)
Deliver(m) ==
    /\ step[m] = "reply"
    /\ End(m, "reply")
    /\ log' = Append(log, <<"agent_message", m>>)
    /\ UNCHANGED <<agentVars, obj, loop, stored, late, crossed>>

-----------------------------------------------------------------------------

Dropped == late' = late \cup {m \in Msgs : InHand(m)}

(* InvalidateDMAgent, after an edit of the agent's brain files. *)
InvalidateDMAgent ==
    /\ cache # 0
    /\ made <= MaxDrops
    /\ cache' = 0
    /\ Dropped
    /\ UNCHANGED <<convVars, made, hist, entry, blank, callVars, stored, crossed>>

(* The application stops and starts again: the conversation is what is left. *)
Restart ==
    /\ cache # 0
    /\ made <= MaxDrops
    /\ cache' = 0
    /\ Dropped
    /\ step' = [m \in Msgs |-> IF InHand(m) \/ step[m] = "sent" THEN "ended" ELSE step[m]]
    /\ shown' = [m \in Msgs |-> IF InHand(m) \/ step[m] = "sent" THEN "lost" ELSE shown[m]]
    /\ UNCHANGED <<log, made, hist, entry, blank, obj, loop, stored, crossed>>

CallStep(m) ==
    \/ Resolve(m) \/ Prepare(m) \/ BeginTurn(m) \/ InferFails(m) \/ ToolDone(m) \/ Deliver(m)
    \/ \E resp \in Responses : Respond(m, resp)

Next ==
    \/ \E m \in Msgs : Send(m) \/ CallStep(m) \/ StoppedInQueue(m)
    \/ InvalidateDMAgent
    \/ Restart

Spec == Init /\ [][Next]_vars

-----------------------------------------------------------------------------
(* Properties.                                                             *)

(* A turn puts its own message into the history, as the Boss wrote it: not  *)
(* one that an earlier call left behind when it was stopped in the queue,   *)
(* nor the prompt around it.  Two calls that wait on one object at once, of *)
(* which one was held and flushed, do take each other's entry.              *)
OwnMessageStored ==
    \A m \in Msgs : stored[m] # None => stored[m] = m \/ m \in crossed

(* The agent that will get the next message remembers every reply the Boss  *)
(* has of it, unless it was made anew while the reply was on its way, or    *)
(* HistoryLimit messages have followed the reply.  An object that was made  *)
(* without its history remembers the replies it gave itself.                *)
RepliesRemembered ==
    cache # 0 =>
        \A m \in Msgs \ late :
            shown[m] = "reply" /\ (cache \in blank => obj[m] = cache) =>
                \/ <<"assistant", m>> \in Range_(hist[cache])
                \/ \E i \in 1..(Len(log) - HistoryLimit) : log[i] = <<"agent_message", m>>

=============================================================================
