----------------------------- MODULE Workspace -----------------------------
(***************************************************************************)
(* Projects and the conversations in them: the calls of the window that    *)
(* create, switch and archive projects (WarRoomService), the rows behind   *)
(* them (internal/store/project.go, message.go), the context the           *)
(* orchestrator and the dispatcher keep (Orchestrator.SetProject), the     *)
(* Lead's history that is seeded from it and emptied by a broadcast, the   *)
(* configuration in memory and on disk, the boss commands whose messages   *)
(* land in the present conversation, and the start of the application      *)
(* (gui.go).                                                               *)
(*                                                                         *)
(* Every call of the window runs in a goroutine of its own.  The database  *)
(* has one connection, so a statement or a transaction is one step; a step *)
(* ends after each of them, at a lock and before the configuration is      *)
(* written.  A conversation is the position of its row.  Of the Lead's     *)
(* history only what is stored as well is kept: a command and the reply to *)
(* it, not the plans, tool calls and summaries.                            *)
(***************************************************************************)
EXTENDS Integers, Sequences, FiniteSets, Functions

CONSTANTS
    Projects,      \* identifiers of projects
    Cmds,          \* commands of the Boss
    Slots,         \* calls of the window that may be under way at once
    HistoryLimit,  \* how many stored messages the Lead is seeded with
    CrashMidCall,  \* whether the application may stop while a call runs
    MaxCalls,      \* bound: calls of the window
    MaxFails,      \* bound: statements and file writes that fail
    MaxStarts,     \* bound: starts after the first
    MaxNotes,      \* bound: messages of a command at work, and critiques
    None

ASSUME WorkspaceAssumption ==
    /\ None \notin Projects
    /\ HistoryLimit \in Nat
    /\ CrashMidCall \in BOOLEAN
    /\ MaxCalls \in Nat
    /\ MaxFails \in Nat
    /\ MaxStarts \in Nat
    /\ MaxNotes \in Nat

VARIABLES
    listed,      \* projects: the rows in the order they were made
    archived,    \* the rows with archived = 1
    active,      \* the rows with active = 1
    convs,       \* conversations: the project and title of each row ever made
    deleted,     \* how many of them a reset has deleted
    saved,       \* messages
    activeConv,  \* WarRoomService.activeConvID, 0 for none
    cfg,         \* WarRoomService.cfg
    file,        \* config.toml
    orch,        \* the orchestrator's projectID and convID, the dispatcher's projectID
    lead,        \* the Lead's history
    critique,    \* the context a critique of the Watchman was started with
    call,        \* what each call of the window is at
    cmd,         \* where each command is
    last,        \* history: the call that ended last, and how
    forgotten,   \* history: what the Lead had been told when its history was last emptied
    count        \* calls, failures, starts and notes so far

dbVars == <<listed, archived, active, convs, deleted, saved>>
serviceVars == <<activeConv, cfg, file>>
orchVars == <<orch, lead, forgotten>>
cmdVars == <<cmd, critique>>
vars == <<dbVars, serviceVars, orchVars, call, cmdVars, last, count>>

Ops == {"create", "switch", "archive", "conversation", "dm", "first_run", "save", "reset",
        "broadcast"}
Ats == {"insert", "activate", "archive", "find", "make", "set", "seed", "write", "seek", "lookup",
        "open", "read", "greet", "lock",
        "wipe_messages", "wipe_conversations", "wipe_projects", "defaults",
        "empty", "tell"}
Titles == {"war-room", "dm"}
Settings == {"default", "own"}
Configs == [project : Projects \cup {None}, settings : Settings]
Defaults == [project |-> None, settings |-> "default"]

(* What is stored: a command, the reply that ends it, other messages of     *)
(* agents and their questions, events, and notices sent without a           *)
(* conversation.                                                           *)
Kinds == {"boss_command", "agent_message", "note", "event", "notice"}
Recalled == {"boss_command", "agent_message", "note"}
Messages == [project : Projects \cup {None}, conv : Nat, kind : Kinds, cmd : Cmds \cup {None}]
Entries == {"user", "assistant"} \X Recalled \X (Cmds \cup {None})
NoCritique == [project |-> None, conv |-> 0]

Call(op, at, id) == [op |-> op, at |-> at, by |-> "none", id |-> id, conv |-> 0, copy |-> Defaults]
NoCall == Call("none", "none", None)

TypeOK ==
    /\ listed \in Seq(Projects)
    /\ archived \subseteq Range(listed)
    /\ active \subseteq Range(listed)
    /\ convs \in Seq(Projects \X Titles)
    /\ deleted \in 0..Len(convs)
    /\ saved \in Seq(Messages)
    /\ \A i \in DOMAIN saved : saved[i].conv <= Len(convs)
    /\ activeConv \in 0..Len(convs)
    /\ cfg \in Configs
    /\ file \in Configs
    /\ orch \in [project : Projects \cup {None}, conv : 0..Len(convs), bus : Projects \cup {None}]
    /\ lead \in Seq(Entries) /\ forgotten \subseteq Entries
    /\ critique \in [project : Projects \cup {None}, conv : 0..Len(convs)]
    /\ call \in [Slots -> [op : Ops \cup {"none"}, at : Ats \cup {"none"},
                           by : {"none", "orch", "service", "cache"},
                           id : Projects \cup {None}, conv : 0..Len(convs), copy : Configs]]
    /\ cmd \in [Cmds -> {"idle", "classify", "infer", "reply", "work", "ended"}]
    /\ last \in [op : Ops \cup {"none"}, id : Projects \cup {None}, ok : BOOLEAN]
    /\ count \in [calls : 0..MaxCalls, fails : 0..MaxFails, starts : 0..MaxStarts,
                 notes : 0..MaxNotes]

(* The first start, with no configuration file and an empty database. *)
Init ==
    /\ listed = <<>> /\ archived = {} /\ active = {}
    /\ convs = <<>> /\ deleted = 0 /\ saved = <<>>
    /\ activeConv = 0 /\ cfg = Defaults /\ file = Defaults
    /\ orch = [project |-> None, conv |-> 0, bus |-> None]
    /\ lead = <<>> /\ forgotten = {}
    /\ critique = NoCritique
    /\ call = [s \in Slots |-> NoCall]
    /\ cmd = [k \in Cmds |-> "idle"]
    /\ last = [op |-> "none", id |-> None, ok |-> FALSE]
    /\ count = [calls |-> 0, fails |-> 0, starts |-> 0, notes |-> 0]

-----------------------------------------------------------------------------
(* The store.                                                              *)

(* The rows of a table at some positions, the oldest first. *)
Nth(S, k) == CHOOSE i \in S : Cardinality({j \in S : j <= i}) = k
RowsAt(rows, S) == [k \in 1..Cardinality(S) |-> rows[Nth(S, k)]]

(* ListProjects: what is not archived, oldest first. *)
ListProjects == RowsAt(listed, {i \in DOMAIN listed : listed[i] \notin archived})

Rows(p, title) == {i \in (deleted + 1)..Len(convs) : convs[i] = <<p, title>>}

(* GetDMConversation: the oldest, whatever its project. *)
DMConversations == {i \in (deleted + 1)..Len(convs) : convs[i][2] = "dm"}

(* What was said in a conversation: commands, messages and questions of     *)
(* agents.                                                                 *)
Said(conv) == {i \in DOMAIN saved : saved[i].conv = conv /\ saved[i].kind \in Recalled}

(* ORDER BY created_at DESC LIMIT n. *)
Latest(S, n) == {i \in S : Cardinality({j \in S : j >= i}) <= n}

(* ListConversationHistory: the last messages of a conversation. *)
ListConversationHistory(conv, limit) == RowsAt(saved, Latest(Said(conv), limit))

(* An entry of a history, for what is stored. *)
Role(kind) == IF kind = "boss_command" THEN "user" ELSE "assistant"
Entry(msg) == <<Role(msg.kind), msg.kind, msg.cmd>>

(* Mutant: the kind is taken for the role. *)
KindsForRoles(msgs) == [i \in DOMAIN msgs |-> <<msgs[i].kind, msgs[i].kind, msgs[i].cmd>>]

(* A role for each message. *)
messagesToChatHistory(msgs) == [i \in DOMAIN msgs |-> Entry(msgs[i])]

(* What the history of any conversation would be seeded with. *)
Stored == {Entry(saved[i]) : i \in {j \in DOMAIN saved : saved[j].kind \in Recalled}}

(* The persister stores what is dispatched. *)
Handle(msg) == saved' = Append(saved, msg)

(* A message without a project is given the dispatcher's. *)
Dispatch(msg) == Handle([msg EXCEPT !.project = IF @ = None THEN orch.bus ELSE @])

(* A message of the channel, in the orchestrator's context of the moment. *)
Say(kind, k) ==
    Dispatch([project |-> orch.project, conv |-> orch.conv, kind |-> kind, cmd |-> k])

(* A notice of a broadcast or of an escalation names a project only. *)
Notify(k) == Dispatch([project |-> orch.project, conv |-> 0, kind |-> "notice", cmd |-> k])

-----------------------------------------------------------------------------
(* The steps of a call.                                                    *)

At(s, op, at) == call[s].op \in op /\ call[s].at = at

Goto(s, at) == call' = [call EXCEPT ![s] = [@ EXCEPT !.at = at]]
Enter(s, at, by) == call' = [call EXCEPT ![s] = [@ EXCEPT !.at = at, !.by = by]]

End(s, ok) ==
    /\ call' = [call EXCEPT ![s] = NoCall]
    /\ last' = [op |-> call[s].op, id |-> call[s].id, ok |-> ok]

(* CreateProject of the service: a new identifier for it. *)
NewProject(s) ==
    \E p \in Projects \ Range(listed) : call' = [call EXCEPT ![s] = Call("create", "insert", p)]

(* The window calls; a call that names a project names one the window lists. *)
Open(s) ==
    /\ call[s] = NoCall
    /\ count.calls < MaxCalls
    /\ count' = [count EXCEPT !.calls = @ + 1]
    /\ \/ NewProject(s)
       \/ \E p \in Range(ListProjects) :
             \/ call' = [call EXCEPT ![s] = Call("switch", "activate", p)]
             \/ call' = [call EXCEPT ![s] = Call("archive", "archive", p)]
       \/ call' = [call EXCEPT ![s] = Call("dm", "seek", None)]
       \/ call' = [call EXCEPT ![s] = Call("first_run", "lookup", None)]
       \/ call' = [call EXCEPT ![s] = Call("save", "lock", None)]
       \/ call' = [call EXCEPT ![s] = Call("reset", "wipe_messages", None)]
       \/ call' = [call EXCEPT ![s] = Call("broadcast", "empty", None)]
       \/ /\ activeConv = 0
          /\ call' = [call EXCEPT ![s] = Call("conversation", "read", None)]
    /\ UNCHANGED <<dbVars, serviceVars, orchVars, cmdVars, last>>

(* CreateProject of the store: one transaction.  A project that has the     *)
(* name already, archived or not, is its error.                            *)
CreateProject(s) ==
    /\ At(s, {"create", "first_run"}, "insert")
    /\ call[s].id \notin Range(listed)
    /\ \/ /\ listed' = Append(listed, call[s].id)
          /\ active' = {call[s].id}
          /\ Goto(s, "activate")
          /\ UNCHANGED last
       \/ /\ listed # <<>>
          /\ End(s, FALSE)
          /\ UNCHANGED <<listed, active>>
    /\ UNCHANGED <<archived, convs, deleted, saved, serviceVars, orchVars, cmdVars, count>>

(* Mutant: the projects active before stay so. *)
AddActive(p) == active' = active \cup {p}

(* SetActiveProject: one transaction, an archived project not excepted. *)
SetActiveProject(p) == active' = {p}

(* SwitchProject begins; a project that is gone is its error.  SetProject   *)
(* of the orchestrator has no lock around what it assigns.                  *)
Activate(s) ==
    LET p == call[s].id IN
    /\ At(s, {"create", "first_run", "switch"}, "activate")
    /\ \/ /\ p \in Range(listed)
          /\ SetActiveProject(p)
          /\ orch' = [orch EXCEPT !.project = p, !.bus = p]
          /\ Enter(s, "find", "orch")
          /\ UNCHANGED last
       \/ /\ p \notin Range(listed)
          /\ End(s, FALSE)
          /\ UNCHANGED <<active, orch>>
    /\ UNCHANGED <<listed, archived, convs, deleted, saved, serviceVars, lead, forgotten, cmdVars, count>>

(* GetConversationByTitle; of rows of one second any may be the latest. *)
GetConversationByTitle(p) == Rows(p, "war-room")

(* GetOrCreateWarRoomConversation, called three times: the query ... *)
Find(s) ==
    LET found == GetConversationByTitle(call[s].id) IN
    /\ call[s].at = "find"
    /\ \/ \E i \in found : call' = [call EXCEPT ![s] = [@ EXCEPT !.at = "set", !.conv = i]]
       \/ found = {} /\ Goto(s, "make")
    /\ UNCHANGED <<dbVars, serviceVars, orchVars, cmdVars, last, count>>

(* ... and the insertion. *)
Make(s) ==
    /\ call[s].at = "make"
    /\ convs' = Append(convs, <<call[s].id, "war-room">>)
    /\ call' = [call EXCEPT ![s] = [@ EXCEPT !.at = "set", !.conv = Len(convs) + 1]]
    /\ UNCHANGED <<listed, archived, active, deleted, saved, serviceVars, orchVars, cmdVars, last, count>>

(* SetProject of the orchestrator has the conversation ... *)
SetOrchestrator(s) ==
    /\ call[s].at = "set" /\ call[s].by = "orch"
    /\ orch' = [orch EXCEPT !.conv = call[s].conv]
    /\ Goto(s, "seed")
    /\ UNCHANGED <<dbVars, serviceVars, lead, forgotten, cmdVars, last, count>>

Seeds(conv) == messagesToChatHistory(ListConversationHistory(conv, HistoryLimit))

(* Mutant: the Lead keeps only what it has. *)
SeedNothing(conv) == UNCHANGED <<lead, forgotten>>

(* The Lead's history is put after what is stored of the conversation. *)
SeedHistory(conv) ==
    /\ lead' = Seeds(conv) \o lead
    /\ forgotten' = forgotten \ Range(Seeds(conv))

(* ... and ends with the Lead's history, as it was if the query fails. *)
SeedLead(s) ==
    /\ call[s].at = "seed"
    /\ \/ SeedHistory(call[s].conv) /\ UNCHANGED count
       \/ /\ count.fails < MaxFails
          /\ count' = [count EXCEPT !.fails = @ + 1]
          /\ forgotten' = forgotten \cup Range(Seeds(call[s].conv))
          /\ UNCHANGED lead
    /\ Enter(s, "find", "service")
    /\ UNCHANGED <<dbVars, serviceVars, orch, cmdVars, last>>

(* Under the service's lock. *)
SetService(s) ==
    LET new == [cfg EXCEPT !.project = call[s].id] IN
    /\ call[s].at = "set" /\ call[s].by = "service"
    /\ activeConv' = call[s].conv
    /\ cfg' = new
    /\ call' = [call EXCEPT ![s] = [@ EXCEPT !.at = "write", !.copy = new]]
    /\ UNCHANGED <<dbVars, file, orchVars, cmdVars, last, count>>

(* Mutant: the file gets what it had. *)
WriteNothing(copy) == UNCHANGED file

WriteFile(copy) == file' = copy

(* The copy is written outside the lock; switching ignores an error of it.  *)
(* InitFirstRun goes on to the direct conversation with the Lead.           *)
WriteConfig(s) ==
    /\ call[s].at = "write"
    /\ \/ WriteFile(call[s].copy) /\ UNCHANGED count
       \/ /\ call[s].op \notin {"save", "reset"}
          /\ count.fails < MaxFails
          /\ count' = [count EXCEPT !.fails = @ + 1]
          /\ UNCHANGED file
    /\ IF call[s].op = "first_run"
       THEN Goto(s, "open") /\ UNCHANGED last
       ELSE End(s, TRUE)
    /\ UNCHANGED <<dbVars, activeConv, cfg, orchVars, cmdVars>>

(* GetActiveConversation: with nothing cached, the conversation of the      *)
(* active project, which is then cached.                                    *)
GetActiveProject(s) ==
    /\ At(s, {"conversation"}, "read")
    /\ \/ /\ active = {}
          /\ End(s, TRUE)
       \/ \E p \in active :
             /\ call' = [call EXCEPT ![s] = [@ EXCEPT !.at = "find", !.by = "cache", !.id = p]]
             /\ UNCHANGED last
    /\ UNCHANGED <<dbVars, serviceVars, orchVars, cmdVars, count>>

SetCache(s) ==
    /\ call[s].at = "set" /\ call[s].by = "cache"
    /\ activeConv' = call[s].conv
    /\ End(s, TRUE)
    /\ UNCHANGED <<dbVars, cfg, file, orchVars, cmdVars, count>>

(* The archived row is not active. *)
Archive(p) ==
    /\ archived' = archived \cup ({p} \cap Range(listed))
    /\ active' = active \ {p}

(* ArchiveProject of the service: the row it reads back is never active, so *)
(* nothing else becomes active.                                             *)
ArchiveProject(s) ==
    /\ At(s, {"archive"}, "archive")
    /\ Archive(call[s].id)
    /\ End(s, TRUE)
    /\ UNCHANGED <<listed, convs, deleted, saved, serviceVars, orchVars, cmdVars, count>>

(* GetOrCreateDirectConversation of the Lead. *)
SeekDM(s) ==
    /\ At(s, {"dm"}, "seek")
    /\ IF DMConversations # {} THEN End(s, TRUE)
       ELSE IF active = {} THEN End(s, FALSE)
       ELSE /\ call' = [call EXCEPT ![s] = [@ EXCEPT !.at = "open", !.id = CHOOSE p \in active : TRUE]]
            /\ UNCHANGED last
    /\ UNCHANGED <<dbVars, serviceVars, orchVars, cmdVars, count>>

OpenDM(s) ==
    /\ call[s].at = "open"
    /\ convs' = Append(convs, <<call[s].id, "dm">>)
    /\ IF call[s].op = "first_run"
       THEN /\ call' = [call EXCEPT ![s] = [@ EXCEPT !.at = "greet", !.conv = Len(convs) + 1]]
            /\ UNCHANGED last
       ELSE End(s, TRUE)
    /\ UNCHANGED <<listed, archived, active, deleted, saved, serviceVars, orchVars, cmdVars, count>>

(* InitFirstRun: nothing is listed, so a project is made, switched to, and  *)
(* the Lead's greeting stored in a new direct conversation.                 *)
InitFirstRun(s) ==
    /\ At(s, {"first_run"}, "lookup")
    /\ IF ListProjects = <<>>
       THEN /\ \E p \in Projects \ Range(listed) :
                  call' = [call EXCEPT ![s] = [@ EXCEPT !.at = "insert", !.id = p]]
            /\ UNCHANGED last
       ELSE End(s, TRUE)
    /\ UNCHANGED <<dbVars, serviceVars, orchVars, cmdVars, count>>

Greet(s) ==
    /\ call[s].at = "greet"
    /\ saved' = Append(saved, [project |-> call[s].id, conv |-> call[s].conv,
                               kind |-> "agent_message", cmd |-> None])
    /\ End(s, TRUE)
    /\ UNCHANGED <<listed, archived, active, convs, deleted, serviceVars, orchVars, cmdVars, count>>

(* SaveConfig: the settings of the window's form, under the lock. *)
SaveConfig(s) ==
    LET new == [cfg EXCEPT !.settings = "own"] IN
    /\ At(s, {"save"}, "lock")
    /\ cfg' = new
    /\ call' = [call EXCEPT ![s] = [@ EXCEPT !.at = "write", !.copy = new]]
    /\ UNCHANGED <<dbVars, activeConv, file, orchVars, cmdVars, last, count>>

(* Reset of the store: table after table. *)
Wipe(s) ==
    /\ \/ /\ At(s, {"reset"}, "wipe_messages")
          /\ saved' = <<>>
          /\ Goto(s, "wipe_conversations")
          /\ UNCHANGED <<deleted, listed, archived, active>>
       \/ /\ At(s, {"reset"}, "wipe_conversations")
          /\ deleted' = Len(convs)
          /\ Goto(s, "wipe_projects")
          /\ UNCHANGED <<saved, listed, archived, active>>
       \/ /\ At(s, {"reset"}, "wipe_projects")
          /\ listed' = <<>> /\ archived' = {} /\ active' = {}
          /\ Goto(s, "defaults")
          /\ UNCHANGED <<saved, deleted>>
    /\ UNCHANGED <<convs, serviceVars, orchVars, cmdVars, last, count>>

(* ResetAppData goes on to the configuration file; what is in memory stays. *)
ResetConfig(s) ==
    /\ At(s, {"reset"}, "defaults")
    /\ call' = [call EXCEPT ![s] = [@ EXCEPT !.at = "write", !.copy = Defaults]]
    /\ UNCHANGED <<dbVars, serviceVars, orchVars, cmdVars, last, count>>

(* SaveCompanyIdentity and SaveHandbook: the broadcast they end with        *)
(* empties the Lead's history ...                                          *)
ResetContext(s) ==
    /\ At(s, {"broadcast"}, "empty")
    /\ lead' = <<>>
    /\ forgotten' = forgotten \cup Range(lead) \cup Stored
    /\ Goto(s, "tell")
    /\ UNCHANGED <<dbVars, serviceVars, orch, cmdVars, last, count>>

(* ... and tells the Boss. *)
Broadcast(s) ==
    /\ At(s, {"broadcast"}, "tell")
    /\ Notify(None)
    /\ End(s, TRUE)
    /\ UNCHANGED <<listed, archived, active, convs, deleted, serviceVars, orchVars, cmdVars, count>>

(* A statement or the write of a company file fails: the call ends with its *)
(* error, what is done is done.                                            *)
Fail(s) ==
    /\ call[s].at \notin {"none", "set", "seed", "write", "lock", "defaults", "tell"}
    /\ count.fails < MaxFails
    /\ count' = [count EXCEPT !.fails = @ + 1]
    /\ End(s, FALSE)
    /\ UNCHANGED <<dbVars, serviceVars, orchVars, cmdVars>>

-----------------------------------------------------------------------------
(* Commands of the Boss.                                                   *)

(* HandleBossCommand begins, from a window that shows a channel: the        *)
(* command is dispatched.  One command runs at a time (WarRoomInbox).      *)
SendBossCommand(k) ==
    /\ cmd[k] = "idle"
    /\ \A j \in Cmds : cmd[j] \in {"idle", "ended"}
    /\ activeConv # 0
    /\ Say("boss_command", k)
    /\ cmd' = [cmd EXCEPT ![k] = "classify"]
    /\ UNCHANGED <<listed, archived, active, convs, deleted, serviceVars, orchVars, critique, call, last, count>>

(* An inference has classified it, and the Lead's turn begins. *)
BeginTurn(k) ==
    /\ cmd[k] = "classify"
    /\ lead' = Append(lead, <<"user", "boss_command", k>>)
    /\ cmd' = [cmd EXCEPT ![k] = "infer"]
    /\ UNCHANGED <<dbVars, serviceVars, orch, forgotten, critique, call, last, count>>

(* The turn ends with an answer, or with a plan. *)
Answer(k) ==
    /\ cmd[k] = "infer"
    /\ lead' = Append(lead, <<"assistant", "agent_message", k>>)
    /\ cmd' = [cmd EXCEPT ![k] = "reply"]
    /\ UNCHANGED <<dbVars, serviceVars, orch, forgotten, critique, call, last, count>>

Plan(k) ==
    /\ cmd[k] = "infer"
    /\ cmd' = [cmd EXCEPT ![k] = "work"]
    /\ UNCHANGED <<dbVars, serviceVars, orchVars, critique, call, last, count>>

(* The answer is dispatched in the context of that moment. *)
Reply(k) ==
    /\ cmd[k] = "reply"
    /\ Say("agent_message", k)
    /\ cmd' = [cmd EXCEPT ![k] = "ended"]
    /\ UNCHANGED <<listed, archived, active, convs, deleted, serviceVars, orchVars, critique, call, last, count>>

(* What the Lead writes above its plan, and as it hands a task over. *)
HandOver(k) ==
    /\ cmd[k] = "work"
    /\ count.notes < MaxNotes
    /\ Say("note", k)
    /\ count' = [count EXCEPT !.notes = @ + 1]
    /\ UNCHANGED <<listed, archived, active, convs, deleted, serviceVars, orchVars, cmdVars, call, last>>

(* The end of a task may start a critique, one at a time, ... *)
NotifyTaskDone(k) ==
    /\ cmd[k] = "work"
    /\ critique = NoCritique
    /\ orch.project # None /\ orch.conv # 0
    /\ count.notes < MaxNotes
    /\ critique' = [project |-> orch.project, conv |-> orch.conv]
    /\ count' = [count EXCEPT !.notes = @ + 1]
    /\ UNCHANGED <<dbVars, serviceVars, orchVars, call, cmd, last>>

(* ... which posts what it has found where it was started. *)
RunCritique ==
    /\ critique # NoCritique
    /\ \/ Dispatch([project |-> critique.project, conv |-> critique.conv, kind |-> "note", cmd |-> None])
       \/ UNCHANGED saved
    /\ critique' = NoCritique
    /\ UNCHANGED <<listed, archived, active, convs, deleted, serviceVars, orchVars, call, cmd, last, count>>

(* The summary ends the work.  A turn may end the command with a question, *)
(* an event, the notice of an escalation, or nothing but an error.         *)
Finish(k) ==
    /\ cmd[k] \in {"infer", "work"}
    /\ \/ Say("event", k)
       \/ cmd[k] = "infer" /\ Say("note", k)
       \/ Notify(k)
       \/ UNCHANGED saved
    /\ cmd' = [cmd EXCEPT ![k] = "ended"]
    /\ UNCHANGED <<listed, archived, active, convs, deleted, serviceVars, orchVars, critique, call, last, count>>

-----------------------------------------------------------------------------

(* The application stops and starts: the configuration is read, and the     *)
(* orchestrator set to its project before the window is there.              *)
Start ==
    LET p == file.project
        rows == Rows(p, "war-room")
        new == rows = {} /\ p # None
    IN
    /\ count.starts < MaxStarts
    /\ CrashMidCall \/ \A s \in Slots : call[s] = NoCall
    /\ count' = [count EXCEPT !.starts = @ + 1]
    /\ cfg' = file
    /\ activeConv' = 0
    /\ convs' = IF new THEN Append(convs, <<p, "war-room">>) ELSE convs
    /\ \E conv \in IF p = None THEN {0} ELSE IF new THEN {Len(convs) + 1} ELSE rows :
          /\ orch' = [project |-> p, conv |-> conv, bus |-> p]
          /\ lead' = IF conv = 0 THEN <<>> ELSE Seeds(conv)
    /\ forgotten' = {}
    /\ critique' = NoCritique
    /\ call' = [s \in Slots |-> NoCall]
    /\ cmd' = [k \in Cmds |-> IF cmd[k] = "idle" THEN "idle" ELSE "ended"]
    /\ last' = [op |-> "none", id |-> None, ok |-> FALSE]
    /\ UNCHANGED <<listed, archived, active, deleted, saved, file>>

Step(s) ==
    \/ CreateProject(s) \/ Activate(s) \/ Find(s) \/ Make(s) \/ SetOrchestrator(s) \/ SeedLead(s)
    \/ SetService(s)
    \/ WriteConfig(s) \/ GetActiveProject(s) \/ SetCache(s) \/ ArchiveProject(s) \/ SeekDM(s)
    \/ OpenDM(s) \/ InitFirstRun(s) \/ Greet(s) \/ SaveConfig(s) \/ Wipe(s)
    \/ ResetConfig(s) \/ ResetContext(s) \/ Broadcast(s) \/ Fail(s)

Next ==
    \/ \E s \in Slots : Open(s) \/ Step(s)
    \/ \E k \in Cmds :
          \/ SendBossCommand(k) \/ BeginTurn(k) \/ Answer(k) \/ Plan(k) \/ Reply(k)
          \/ HandOver(k) \/ NotifyTaskDone(k) \/ Finish(k)
    \/ RunCritique
    \/ Start

Spec == Init /\ [][Next]_vars

-----------------------------------------------------------------------------
(* Properties.                                                             *)

Quiet == \A s \in Slots : call[s] = NoCall

(* After a switch that succeeded all sides agree on the project: the rows,  *)
(* the window's conversation, the context of the orchestrator and of the    *)
(* dispatcher, and the configuration.                                       *)
SwitchTakesEffect ==
    Quiet /\ last.ok /\ last.op \in {"switch", "create", "first_run"} /\ last.id # None =>
        /\ active = {last.id}
        /\ orch.project = last.id /\ orch.bus = last.id /\ orch.conv = activeConv
        /\ activeConv \in Rows(last.id, "war-room")
        /\ cfg.project = last.id

(* What the configuration holds the active project for: a window that shows *)
(* a channel has an orchestrator that stores its messages in one, unless a  *)
(* statement or a write has failed; the notices of broadcasts and           *)
(* escalations, which are never given one, apart.                          *)
MessageHasConversation ==
    count.fails = 0 => \A i \in DOMAIN saved : saved[i].conv = 0 => saved[i].kind = "notice"

(* The Lead remembers the last messages of the channel that the next        *)
(* command will be stored in, once a switch has seeded its history with     *)
(* them: each command whose turn has begun, and each reply.  What it is     *)
(* told to forget by a broadcast, or could not be read, is excepted.        *)
ChannelRecalled ==
    orch.conv # 0 /\ (\A s \in Slots : call[s].at = "seed" => call[s].conv # orch.conv) =>
        \A msg \in Range(ListConversationHistory(orch.conv, HistoryLimit)) :
            \/ msg.kind = "note"
            \/ msg.kind = "boss_command" /\ cmd[msg.cmd] = "classify"
            \/ Entry(msg) \in forgotten \cup Range(lead)

=============================================================================
