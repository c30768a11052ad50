------------------------------- MODULE Brain -------------------------------
(***************************************************************************)
(* The identity of the agents: the brain files of each agent on disk       *)
(* (internal/agent/identity.go), the company's own files (the company      *)
(* identity and the handbook), the prompts composed from both              *)
(* (composer.go), the cache the brain panel is served from (registry.go)   *)
(* and the prompts in use: the Lead's and the one each direct-message      *)
(* agent was made with.  They are written by the Boss's saves, by the      *)
(* update_self tool and by an agent's reflection, and deleted when the     *)
(* Boss resets the application (warroom/service.go).                       *)
(*                                                                         *)
(* A file is its version: versions grow with every write, a default        *)
(* document's too, and a write truncates the file before it fills it.  A   *)
(* prompt is the version of each file it was composed from; composing      *)
(* reads the files one at a time.  instruction.md is written with every    *)
(* composed prompt and read by nothing: only that its directory must be    *)
(* there is kept.  The display names are left out.                         *)
(***************************************************************************)
EXTENDS Integers, Sequences, FiniteSets, SequencesExt

CONSTANTS
    Agents,      \* identifiers of agents, "lead" among them
    BrainFiles,  \* the files of an agent, in the order they are read
    HouseFiles,  \* the files of the company, in the order they are read
    Slots,       \* calls that may be under way at once
    MaxCalls,    \* bound: calls, and starts after the first
    None

ASSUME BrainAssumption ==
    /\ "lead" \in Agents
    /\ None \notin Slots /\ None \notin Agents
    /\ BrainFiles \in Seq(ToSet(BrainFiles)) /\ HouseFiles \in Seq(ToSet(HouseFiles))
    /\ {"soul", "persona"} \subseteq ToSet(BrainFiles)
    /\ "company" \in ToSet(HouseFiles)
    /\ ToSet(BrainFiles) \cap ToSet(HouseFiles) = {}
    /\ None \notin ToSet(BrainFiles) \cup ToSet(HouseFiles)
    /\ MaxCalls \in Nat

VARIABLES
    disk,      \* the brain files of each agent
    dirs,      \* the agents whose directory exists
    house,     \* COMPANY_IDENTITY.md and handbook.md
    written,   \* the version written last
    registry,  \* IdentityRegistry.entries: the agents with one that is not dirty
    prompt,    \* the Lead's prompt: Orchestrator.leadAgent and lead
    dm,        \* Orchestrator.dmAgents: the prompt each was made with
    leadMu,    \* who holds Orchestrator.leadMu
    dmAgentsMu, \* who holds Orchestrator.dmAgentsMu
    met,       \* history: the agents a direct message has been sent to since the start
    call,      \* what each call is at
    kept,      \* history: the version of each file the Boss saved last, when the save ended
    failed,    \* history: the last broadcast could not compose the Lead's prompt
    count      \* calls and starts so far

fileVars == <<disk, dirs, house, written>>
cacheVars == <<registry, prompt, dm>>
lockVars == <<leadMu, dmAgentsMu>>
vars == <<fileVars, cacheVars, lockVars, met, call, kept, failed, count>>

-----------------------------------------------------------------------------
(* Files, prompts and calls.                                               *)

Brain == ToSet(BrainFiles)
House == ToSet(HouseFiles)

Absent == -1    \* no file, for which the company's and the handbook have stand-ins
Empty == 0      \* truncated
Default == 1    \* the default documents of a first start
Versions == {Absent} \cup Nat

(* What compose has read so far, Absent where nothing yet. *)
Unread == [f \in Brain \cup House |-> Absent]

(* No entry in dmAgents. *)
NoEntry == [f \in {} |-> Absent]
Prompts == [Brain \cup House -> Versions]

(* The plain prompt of an agent that could not be spawned, made of no file. *)
Fallback == Unread

Ops == {"panel", "save", "update_self", "summary", "reflect", "broadcast", "resolve", "reset"}
Ats == {"mkdir", "ensure", "get", "load", "write", "fill", "unlinked", "invalidate", "drop", "emit",
        "lock_dm", "lock_lead", "compose", "infer", "rewrite", "agents", "company"}

Call(op, at, a, f) ==
    [op |-> op, at |-> at, agent |-> a, file |-> f, ver |-> Absent, todo |-> <<>>, seen |-> Unread]
NoCall == Call("none", "none", None, None)

(* Inferences run one at a time (module CogQueue), and what they write with them. *)
QueueOps == {"update_self", "summary", "reflect"}
QueueFree == \A s \in Slots : call[s].op \notin QueueOps

TypeOK ==
    /\ disk \in [Agents -> [Brain -> Versions]]
    /\ dirs \subseteq Agents
    /\ house \in [House -> Versions]
    /\ written \in Nat
    /\ registry \subseteq Agents
    /\ prompt \in Prompts
    /\ dm \in [Agents -> Prompts \cup {NoEntry}]
    /\ met \subseteq Agents
    /\ kept \in [Agents -> [Brain -> Versions]]
    /\ call \in [Slots -> [op : Ops \cup {"none"}, at : Ats \cup {"none"}, agent : Agents \cup {None},
                           file : Brain \cup House \cup {None}, ver : Versions,
                           todo : Seq(Brain \cup House), seen : Prompts]]
    /\ leadMu \in Slots \cup {None} /\ dmAgentsMu \in Slots \cup {None}
    /\ leadMu # None => call[leadMu].op \in {"summary", "broadcast", "resolve"}
    /\ dmAgentsMu # None => call[dmAgentsMu].op = "resolve"
    /\ failed \in BOOLEAN
    /\ count \in 0..MaxCalls

(* The prompt compose makes of an agent's files and the company's. *)
Composed(d, h) == [f \in Brain \cup House |-> IF f \in Brain THEN d[f] ELSE h[f]]

(* A first start. *)
Init ==
    /\ disk = [a \in Agents |-> [f \in Brain |-> IF a = "lead" THEN Default ELSE Absent]]
    /\ dirs = {"lead"}
    /\ house = [f \in House |-> Absent]
    /\ written = Default
    /\ registry = {}
    /\ prompt = Composed(disk["lead"], house)
    /\ dm = [a \in Agents |-> NoEntry]
    /\ leadMu = None /\ dmAgentsMu = None
    /\ met = {}
    /\ call = [s \in Slots |-> NoCall]
    /\ kept = [a \in Agents |-> [f \in Brain |-> Absent]]
    /\ failed = FALSE
    /\ count = 0

-----------------------------------------------------------------------------
(* Steps shared by the calls.                                              *)

At(s, op, at) == call[s].op = op /\ call[s].at = at
Goto(s, at) == call' = [call EXCEPT ![s].at = at]
End(s) == call' = [call EXCEPT ![s] = NoCall]
ReadNext(s, at, files) == call' = [call EXCEPT ![s].at = at, ![s].todo = files]

BeginCall(s, c) ==
    /\ call[s] = NoCall
    /\ count < MaxCalls
    /\ call' = [call EXCEPT ![s] = c]
    /\ count' = count + 1
    /\ UNCHANGED <<fileVars, cacheVars, lockVars, met, kept, failed>>

(* initIdentity: the agent's directory is made ... *)
MakeDir(s) ==
    /\ call[s].at = "mkdir"
    /\ dirs' = dirs \cup {call[s].agent}
    /\ ReadNext(s, "ensure", BrainFiles)
    /\ UNCHANGED <<disk, house, written, cacheVars, lockVars, met, kept, failed, count>>

(* ... and writeIfAbsent looks for each file, and writes the default of one *)
(* it has not found: whatever is there by then is overwritten.             *)
WriteIfAbsent(s) ==
    /\ call[s].at = "ensure" /\ call[s].todo # <<>>
    /\ LET f == Head(call[s].todo)
           next == [call[s] EXCEPT !.todo = Tail(@)]
       IN  call' = [call EXCEPT ![s] = IF disk[call[s].agent][f] # Absent
                                         THEN next
                                         ELSE [next EXCEPT !.at = "write", !.file = f]]
    /\ UNCHANGED <<fileVars, cacheVars, lockVars, met, kept, failed, count>>

Ensured(s) == call[s].at = "ensure" /\ call[s].todo = <<>>

(* os.WriteFile on a brain file or a file of the company. *)
Truncate(s) ==
    /\ call[s].at = "write"
    /\ call[s].file \in House \/ call[s].agent \in dirs
    /\ IF call[s].file \in House
         THEN house' = [house EXCEPT ![call[s].file] = Empty] /\ UNCHANGED disk
         ELSE disk' = [disk EXCEPT ![call[s].agent][call[s].file] = Empty] /\ UNCHANGED house
    /\ Goto(s, "fill")
    /\ UNCHANGED <<dirs, written, cacheVars, lockVars, met, kept, failed, count>>

AfterWrite(op) ==
    CASE op = "save" -> "invalidate"
      [] op \in {"update_self", "summary"} -> "emit"
      [] op = "broadcast" -> "lock_lead"
      [] op = "reflect" -> "rewrite"
      [] op \in {"panel", "resolve"} -> "ensure"

Fill(s) ==
    /\ call[s].at = "fill"
    /\ written' = written + 1
    /\ IF call[s].file \in House
         THEN house' = [house EXCEPT ![call[s].file] = written'] /\ UNCHANGED disk
         ELSE disk' = [disk EXCEPT ![call[s].agent][call[s].file] = written'] /\ UNCHANGED house
    /\ call' = [call EXCEPT ![s].at = AfterWrite(call[s].op), ![s].ver = written']
    /\ UNCHANGED <<dirs, cacheVars, lockVars, met, kept, failed, count>>

(* The file was deleted while it was open: what is written is lost. *)
FillUnlinked(s) ==
    /\ call[s].at = "unlinked"
    /\ Goto(s, AfterWrite(call[s].op))
    /\ UNCHANGED <<fileVars, cacheVars, lockVars, met, kept, failed, count>>

(* The next file of compose, of loadFromDisk or of a reflection is read; a  *)
(* file of the company that is not there has a stand-in.  Only what goes    *)
(* into a prompt is kept.                                                  *)
ReadFile(s) ==
    /\ call[s].at \in {"compose", "load"}
    /\ call[s].todo # <<>>
    /\ LET f == Head(call[s].todo)
           v == IF f \in House THEN house[f] ELSE disk[call[s].agent][f]
       IN  /\ f \in Brain => v # Absent
           /\ call' = [call EXCEPT ![s].todo = Tail(@),
                                   ![s].seen = IF call[s].at = "compose" THEN [@ EXCEPT ![f] = v] ELSE @]
    /\ UNCHANGED <<fileVars, cacheVars, lockVars, met, kept, failed, count>>

(* A brain file to read is not there; or the prompt is composed, and the    *)
(* directory for its instruction.md is not.                                *)
Unreadable(s) ==
    \/ /\ call[s].at \in {"compose", "load"}
       /\ call[s].todo # <<>>
       /\ Head(call[s].todo) \in Brain
       /\ disk[call[s].agent][Head(call[s].todo)] = Absent
    \/ /\ call[s].at = "compose" /\ call[s].todo = <<>>
       /\ call[s].agent \notin dirs

(* The directory of a brain file to write is not there. *)
Unwritable(s) ==
    /\ call[s].at = "write"
    /\ call[s].file \notin House
    /\ call[s].agent \notin dirs

(* A panel, a save, the tool and a reflection return the error; a summary   *)
(* goes on with it.  What a broadcast and a direct message do, see below.  *)
Fails(s) ==
    /\ Unreadable(s) \/ Unwritable(s)
    /\ call[s].op \notin {"broadcast", "resolve"}
    /\ IF call[s].op = "summary" THEN Goto(s, "infer") ELSE End(s)
    /\ UNCHANGED <<fileVars, cacheVars, lockVars, met, kept, failed, count>>

(* IdentityRegistry.Invalidate. *)
Invalidate(a) == registry' = registry \ {a}

-----------------------------------------------------------------------------
(* GetAgentBrainFiles: what the brain panel shows.                         *)

Panel(s) == \E a \in Agents : BeginCall(s, Call("panel", "mkdir", a, None))

PanelEnsured(s) ==
    /\ call[s].op = "panel" /\ Ensured(s)
    /\ Goto(s, "get")
    /\ UNCHANGED <<fileVars, cacheVars, lockVars, met, kept, failed, count>>

(* IdentityRegistry.Get: a hit is returned, a miss reads the files ... *)
Get(s) ==
    /\ At(s, "panel", "get")
    /\ IF call[s].agent \in registry THEN End(s) ELSE ReadNext(s, "load", BrainFiles)
    /\ UNCHANGED <<fileVars, cacheVars, lockVars, met, kept, failed, count>>

(* ... and stores what it has read, whatever was invalidated meanwhile. *)
Store(s) ==
    /\ At(s, "panel", "load") /\ call[s].todo = <<>>
    /\ registry' = registry \cup {call[s].agent}
    /\ End(s)
    /\ UNCHANGED <<fileVars, prompt, dm, lockVars, met, kept, failed, count>>

-----------------------------------------------------------------------------
(* SaveAgentBrainFile: the Boss saves a file.  Without the agent's          *)
(* directory the write fails and nothing happens.                          *)

Save(s) ==
    \E a \in Agents, f \in Brain :
        a \in dirs /\ BeginCall(s, Call("save", "write", a, f))

SaveInvalidates(s) ==
    /\ At(s, "save", "invalidate")
    /\ Invalidate(call[s].agent)
    /\ Goto(s, "drop")
    /\ UNCHANGED <<fileVars, prompt, dm, lockVars, met, kept, failed, count>>

(* Mutant: the map is changed without the lock. *)
DropUnlocked(s) ==
    /\ At(s, "save", "drop")
    /\ dm' = [dm EXCEPT ![call[s].agent] = NoEntry]
    /\ Goto(s, "emit")
    /\ UNCHANGED <<fileVars, registry, prompt, lockVars, met, kept, failed, count>>

(* InvalidateDMAgent: the next direct message makes the agent anew. *)
DropDMAgent(s) ==
    /\ At(s, "save", "drop")
    /\ dmAgentsMu = None
    /\ dm' = [dm EXCEPT ![call[s].agent] = NoEntry]
    /\ Goto(s, "emit")
    /\ UNCHANGED <<fileVars, registry, prompt, lockVars, met, kept, failed, count>>

(* EmitBrainUpdate ends a save and a call of update_self; a Lead that is    *)
(* writing its summary goes on with it.                                    *)
EmitBrainUpdate(s) ==
    /\ call[s].at = "emit"
    /\ Invalidate(call[s].agent)
    /\ IF call[s].op = "summary" THEN Goto(s, "infer") ELSE End(s)
    /\ kept' = IF call[s].op = "save" /\ call[s].ver > kept[call[s].agent][call[s].file]
                  THEN [kept EXCEPT ![call[s].agent][call[s].file] = call[s].ver]
                  ELSE kept
    /\ UNCHANGED <<fileVars, prompt, dm, lockVars, met, failed, count>>

-----------------------------------------------------------------------------
(* What the agents write.                                                  *)

(* The update_self tool: whichever agent_id the Lead names. *)
UpdateSelf(s) ==
    /\ QueueFree
    /\ \E a \in Agents, f \in Brain :
           a \in dirs /\ BeginCall(s, Call("update_self", "write", a, f))

(* The summary that ends a command holds leadMu for the whole turn. *)
Summary(s) == QueueFree /\ BeginCall(s, Call("summary", "lock_lead", None, None))

SummaryLocks(s) ==
    /\ At(s, "summary", "lock_lead") /\ leadMu = None
    /\ leadMu' = s
    /\ Goto(s, "infer")
    /\ UNCHANGED <<fileVars, cacheVars, dmAgentsMu, met, kept, failed, count>>

SummaryWrites(s) ==
    /\ At(s, "summary", "infer") /\ call[s].file = None
    /\ \E a \in Agents, f \in Brain :
           a \in dirs /\ call' = [call EXCEPT ![s] = Call("summary", "write", a, f)]
    /\ UNCHANGED <<fileVars, cacheVars, lockVars, met, kept, failed, count>>

SummaryEnds(s) ==
    /\ At(s, "summary", "infer")
    /\ leadMu' = None
    /\ End(s)
    /\ UNCHANGED <<fileVars, cacheVars, dmAgentsMu, met, kept, failed, count>>

(* RunningAgent.Reflect: soul.md and persona.md are read, the model is      *)
(* asked, and the ones it changes are written back.                        *)
Reflect(s) ==
    /\ QueueFree
    /\ \E a \in met :
           BeginCall(s, [Call("reflect", "load", a, None) EXCEPT !.todo = <<"soul", "persona">>])

Reflected(s) ==
    /\ At(s, "reflect", "load") /\ call[s].todo = <<>>
    /\ \E changed \in {<<>>, <<"soul">>, <<"persona">>, <<"soul", "persona">>} :
           ReadNext(s, "rewrite", changed)
    /\ UNCHANGED <<fileVars, cacheVars, lockVars, met, kept, failed, count>>

Rewrite(s) ==
    /\ At(s, "reflect", "rewrite")
    /\ IF call[s].todo = <<>>
         THEN End(s)
         ELSE call' = [call EXCEPT ![s].at = "write", ![s].file = Head(call[s].todo), ![s].todo = Tail(@)]
    /\ UNCHANGED <<fileVars, cacheVars, lockVars, met, kept, failed, count>>

-----------------------------------------------------------------------------
(* SaveCompanyIdentity and SaveHandbook, and the broadcast they end with.  *)

Broadcast(s) == \E f \in House : BeginCall(s, Call("broadcast", "write", "lead", f))

(* Mutant: nobody waits for the lock. *)
TakeLeadAnyway(s) == leadMu' = s

TakeLead(s) == leadMu = None /\ leadMu' = s

BroadcastLocks(s) ==
    /\ At(s, "broadcast", "lock_lead")
    /\ TakeLead(s)
    /\ ReadNext(s, "compose", HouseFiles \o BrainFiles)
    /\ UNCHANGED <<fileVars, cacheVars, dmAgentsMu, met, kept, failed, count>>

(* Mutant: the direct-message agents are dropped too, under both locks. *)
CultureUpdateOfAll(s) ==
    /\ At(s, "broadcast", "compose") /\ call[s].todo = <<>> /\ "lead" \in dirs
    /\ dmAgentsMu = None
    /\ prompt' = call[s].seen
    /\ failed' = FALSE
    /\ dm' = [a \in Agents |-> NoEntry]
    /\ leadMu' = None
    /\ End(s)
    /\ UNCHANGED <<fileVars, registry, dmAgentsMu, met, kept, count>>

(* CultureUpdate replaces the Lead's prompt; no other agent's ... *)
CultureUpdate(s) ==
    /\ At(s, "broadcast", "compose") /\ call[s].todo = <<>> /\ "lead" \in dirs
    /\ prompt' = call[s].seen
    /\ failed' = FALSE
    /\ leadMu' = None
    /\ End(s)
    /\ UNCHANGED <<fileVars, registry, dm, dmAgentsMu, met, kept, count>>

(* ... and leaves it as it is when it cannot compose the new one. *)
CannotUpdate(s) ==
    /\ call[s].op = "broadcast" /\ Unreadable(s)
    /\ failed' = TRUE
    /\ leadMu' = None
    /\ End(s)
    /\ UNCHANGED <<fileVars, cacheVars, dmAgentsMu, met, kept, count>>

-----------------------------------------------------------------------------
(* ResetAppData deletes the agents' directories, then the company identity; *)
(* the handbook stays.  It tells neither the orchestrator nor the registry. *)

Reset(s) == BeginCall(s, Call("reset", "agents", None, None))

(* What a deleted file is being filled with is lost. *)
Unlinks(s, at, files) ==
    call' = [t \in Slots |->
               IF t = s THEN IF at = "none" THEN NoCall ELSE [call[t] EXCEPT !.at = at]
               ELSE IF call[t].at = "fill" /\ call[t].file \in files THEN [call[t] EXCEPT !.at = "unlinked"]
               ELSE call[t]]

RemoveAgents(s) ==
    /\ At(s, "reset", "agents")
    /\ disk' = [a \in Agents |-> [f \in Brain |-> Absent]]
    /\ dirs' = {}
    /\ Unlinks(s, "company", Brain)
    /\ UNCHANGED <<house, written, cacheVars, lockVars, met, kept, failed, count>>

RemoveCompany(s) ==
    /\ At(s, "reset", "company")
    /\ house' = [house EXCEPT !["company"] = Absent]
    /\ Unlinks(s, "none", {"company"})
    /\ UNCHANGED <<disk, dirs, written, cacheVars, lockVars, met, kept, failed, count>>

-----------------------------------------------------------------------------
(* HandleDirectMessage resolves its agent under dmAgentsMu.                *)

Resolve(s) == \E a \in Agents : BeginCall(s, Call("resolve", "lock_dm", a, None))

Found(s) ==
    /\ At(s, "resolve", "lock_dm") /\ dmAgentsMu = None
    /\ dm[call[s].agent] # NoEntry
    /\ met' = met \cup {call[s].agent}
    /\ End(s)
    /\ UNCHANGED <<fileVars, cacheVars, lockVars, kept, failed, count>>

NotFound(s) ==
    /\ At(s, "resolve", "lock_dm") /\ dmAgentsMu = None
    /\ dm[call[s].agent] = NoEntry
    /\ dmAgentsMu' = s
    /\ Goto(s, IF call[s].agent = "lead" THEN "lock_lead" ELSE "mkdir")
    /\ UNCHANGED <<fileVars, cacheVars, leadMu, met, kept, failed, count>>

(* Mutant: the lock is kept when the agent has been made. *)
MakeAgentLocked(s, p) ==
    /\ dm' = [dm EXCEPT ![call[s].agent] = p]
    /\ met' = met \cup {call[s].agent}
    /\ UNCHANGED dmAgentsMu
    /\ End(s)

MakeAgent(s, p) ==
    /\ dm' = [dm EXCEPT ![call[s].agent] = p]
    /\ met' = met \cup {call[s].agent}
    /\ dmAgentsMu' = None
    /\ End(s)

(* agentIdentityForDM: the Lead's is the prompt in use ... *)
LeadIdentity(s) ==
    /\ At(s, "resolve", "lock_lead") /\ leadMu = None
    /\ MakeAgent(s, prompt)
    /\ UNCHANGED <<fileVars, registry, prompt, leadMu, kept, failed, count>>

(* ... and any other agent is spawned, from its files. *)
Spawn(s) ==
    /\ call[s].op = "resolve" /\ Ensured(s)
    /\ ReadNext(s, "compose", HouseFiles \o BrainFiles)
    /\ UNCHANGED <<fileVars, cacheVars, lockVars, met, kept, failed, count>>

Spawned(s) ==
    /\ At(s, "resolve", "compose") /\ call[s].todo = <<>> /\ call[s].agent \in dirs
    /\ MakeAgent(s, call[s].seen)
    /\ UNCHANGED <<fileVars, registry, prompt, leadMu, kept, failed, count>>

CannotSpawn(s) ==
    /\ call[s].op = "resolve" /\ (Unreadable(s) \/ Unwritable(s))
    /\ MakeAgent(s, Fallback)
    /\ UNCHANGED <<fileVars, registry, prompt, leadMu, kept, failed, count>>

-----------------------------------------------------------------------------
(* The application stops at any moment and starts again: orchestrator.New  *)
(* spawns the Lead, whose missing files are written, from its files.       *)

Restart ==
    /\ count < MaxCalls
    /\ count' = count + 1
    /\ call' = [s \in Slots |-> NoCall]
    /\ registry' = {}
    /\ dm' = [a \in Agents |-> NoEntry]
    /\ leadMu' = None /\ dmAgentsMu' = None
    /\ met' = {}
    /\ dirs' = dirs \cup {"lead"}
    /\ written' = written + 1
    /\ disk' = [disk EXCEPT !["lead"] = [f \in Brain |-> IF @[f] = Absent THEN written' ELSE @[f]]]
    /\ prompt' = Composed(disk'["lead"], house)
    /\ failed' = FALSE
    /\ UNCHANGED <<house, kept>>

Begin(s) ==
    \/ Panel(s) \/ Save(s) \/ UpdateSelf(s) \/ Summary(s)
    \/ Reflect(s) \/ Broadcast(s) \/ Resolve(s) \/ Reset(s)

Step(s) ==
    \/ MakeDir(s) \/ WriteIfAbsent(s)
    \/ Truncate(s) \/ Fill(s) \/ FillUnlinked(s) \/ ReadFile(s) \/ Fails(s)
    \/ PanelEnsured(s) \/ Get(s) \/ Store(s)
    \/ SaveInvalidates(s) \/ DropDMAgent(s) \/ EmitBrainUpdate(s)
    \/ SummaryLocks(s) \/ SummaryWrites(s) \/ SummaryEnds(s)
    \/ Reflected(s) \/ Rewrite(s)
    \/ BroadcastLocks(s) \/ CultureUpdate(s) \/ CannotUpdate(s)
    \/ RemoveAgents(s) \/ RemoveCompany(s)
    \/ Found(s) \/ NotFound(s) \/ LeadIdentity(s) \/ Spawn(s) \/ Spawned(s) \/ CannotSpawn(s)

Next == (\E s \in Slots : Begin(s) \/ Step(s)) \/ Restart

Spec == Init /\ [][Next]_vars

(* A goroutine that can go on does, and the model answers. *)
FairSpec == Spec /\ \A s \in Slots : WF_vars(Step(s))

-----------------------------------------------------------------------------
(* Properties.                                                             *)

(* Once a save of the Boss has ended, no agent answers direct messages with *)
(* an older version of the file in its prompt: InvalidateDMAgent waits for  *)
(* an agent that is being made and drops it.  A file read between the       *)
(* truncation and the write of another writer is Empty, and not older; and  *)
(* an agent that could not be spawned has none of the files in its prompt.  *)
PromptFollowsSave(a) ==
    dm[a] # NoEntry => \A f \in Brain : dm[a][f] > Empty => dm[a][f] >= kept[a][f]

SaveReachesWorkers == \A a \in Agents \ {"lead"} : PromptFollowsSave(a)

(* The same of the Lead, the agent whose files the brain panel edits        *)
(* (service.go:1145-1147).  Its direct messages are answered with the       *)
(* prompt composed at the start or at the last broadcast.                   *)
SaveReachesLead == PromptFollowsSave("lead")

(* When no save of the company's files is under way, the Lead's prompt has  *)
(* their present content: HandbookBroadcast and CultureBroadcast compose    *)
(* it under leadMu, so of two saves the later one to compose reads both.    *)
(* The two ways it can miss it: the last broadcast found no files of the    *)
(* Lead to compose from, or the file has been deleted by a reset.           *)
HouseReachesLead ==
    (\A s \in Slots : call[s].op # "broadcast") /\ ~failed
       => \A f \in House : house[f] \in {Absent, prompt[f]}

(* Every call ends: the two locks are always taken in the same order, and   *)
(* nothing that holds one waits for the queue.                             *)
CallEnds == \A s \in Slots : (call[s] # NoCall) ~> (call[s] = NoCall)

=============================================================================
