------------------------------ MODULE Approvals ------------------------------
(***************************************************************************)
(* Commands that need the Boss: a tool call of the shell executor on its   *)
(* way through the tool engine (internal/mcp/executor.go, registry.go,     *)
(* permission.go), the handler (internal/tools/shell.go) and the sudo gate *)
(* (internal/tools/sudogate.go); the approval rows                         *)
(* (internal/store/approval.go); the callback that writes them             *)
(* (gui.go); the Boss's decisions (WarRoomService.DecideApproval) and      *)
(* those that come by chat (internal/relay/commands.go).                   *)
(*                                                                         *)
(* A worker's call and a direct-message turn's call can be under way at    *)
(* once.  A step ends at a lock, a channel operation or a statement on the *)
(* database.  The cards the Boss sees are a copy of the rows that may be   *)
(* out of date, so any row that exists may be decided at any time.         *)
(***************************************************************************)
EXTENDS Naturals, FiniteSets

CONSTANTS
    Calls,        \* tool calls of the shell executor
    Cmds,         \* shell commands; a command stands for its sudoApprovalID
    SudoCmds,     \* the commands with a sudo token
    Clearance,    \* the clearance of the agent that makes the call
    MaxAttempts,  \* maxAttempts of the executor
    Deciders,     \* DecideApproval calls that may be under way at once
    None

ASSUME CallsAssumption ==
    /\ SudoCmds \subseteq Cmds
    /\ Clearance \in [Calls -> 0..2]
    /\ MaxAttempts \in Nat \ {0}
ASSUME NamesAssumption == None \notin Calls \cup Cmds

VARIABLES
    step,       \* where each call is
    cmd,        \* its command
    attempt,    \* the attempt of the executor's loop
    channel,    \* the one-place channel of the call's request
    pending,    \* SudoGate.pending: the call whose channel an identifier has
    callbacks,  \* onRequest goroutines that have not written their row yet
    rows,       \* the approvals table: the status of each row
    decider,    \* DecideApproval: where it is, the row, the decision, the waiter
    granted,    \* history: calls whose present request the Boss said yes to
    asked,      \* history: requests made for a command, counted up to two
    byChat      \* history: commands approved by chat

callVars == <<step, cmd, attempt>>
gateVars == <<channel, pending>>
history  == <<granted, asked, byChat>>
vars == <<callVars, gateVars, callbacks, rows, decider, history>>

Statuses == {"absent", "pending", "approved", "rejected"}
Steps    == {"idle", "try", "asked", "run", "ended"}
Idle     == [at |-> "idle", row |-> None, yes |-> FALSE, waiter |-> None]

ShellClearance == 1   \* ClearanceSpecialist

TypeOK ==
    /\ step \in [Calls -> Steps]
    /\ cmd \in [Calls -> Cmds \cup {None}]
    /\ attempt \in [Calls -> 0..MaxAttempts]
    /\ channel \in [Calls -> {"empty", "yes", "no"}]
    /\ pending \in [Cmds -> Calls \cup {None}]
    /\ callbacks \subseteq Calls \X Cmds
    /\ rows \in [Cmds -> Statuses]
    /\ decider \in [Deciders -> [at : {"idle", "send", "record"},
                                 row : Cmds \cup {None}, yes : BOOLEAN,
                                 waiter : Calls \cup {None}]]
    /\ granted \subseteq Calls
    /\ asked \in [Cmds -> 0..2]
    /\ byChat \subseteq Cmds

Init ==
    /\ step = [c \in Calls |-> "idle"]
    /\ cmd = [c \in Calls |-> None]
    /\ attempt = [c \in Calls |-> 0]
    /\ channel = [c \in Calls |-> "empty"]
    /\ pending = [k \in Cmds |-> None]
    /\ callbacks = {}
    /\ rows = [r \in Cmds |-> "absent"]
    /\ decider = [d \in Deciders |-> Idle]
    /\ granted = {}
    /\ asked = [k \in Cmds |-> 0]
    /\ byChat = {}

-----------------------------------------------------------------------------
(* The approvals table.                                                    *)

(* CreateApproval: an insert; a repeated identifier is an error, which the   *)
(* callback ignores.                                                         *)
CreateApproval(r) ==
    rows' = IF rows[r] = "absent" THEN [rows EXCEPT ![r] = "pending"] ELSE rows

(* Mutant: the update does not ask for a pending row. *)
RecordAnyDecision(r, yes) ==
    rows' = [rows EXCEPT ![r] = IF yes THEN "approved" ELSE "rejected"]

(* DecideApproval of the store: only a pending row changes. *)
RecordDecision(r, yes) ==
    rows' = IF rows[r] = "pending"
            THEN [rows EXCEPT ![r] = IF yes THEN "approved" ELSE "rejected"]
            ELSE rows

-----------------------------------------------------------------------------
(* The tool engine.                                                        *)

(* The call is over: its frame and its channel are gone. *)
End(c) ==
    /\ step' = [step EXCEPT ![c] = "ended"]
    /\ cmd' = [cmd EXCEPT ![c] = None]
    /\ attempt' = [attempt EXCEPT ![c] = 0]

(* The permission gate. *)
Permitted(c) == Clearance[c] >= ShellClearance

(* Permission is denied, or the arguments do not fit the tool's schema. *)
Refused(c) == End(c)

(* execute: the permission gate and the arguments are checked once. *)
Execute(c, k) ==
    /\ step[c] = "idle"
    /\ \/ /\ Permitted(c)
          /\ step' = [step EXCEPT ![c] = "try"]
          /\ cmd' = [cmd EXCEPT ![c] = k]
          /\ attempt' = [attempt EXCEPT ![c] = 1]
       \/ Refused(c)
    /\ UNCHANGED <<gateVars, callbacks, rows, decider, history>>

(* Mutant: one attempt more than the maximum. *)
NextAttemptOffByOne(c) ==
    \/ /\ attempt[c] <= MaxAttempts
       /\ attempt' = [attempt EXCEPT ![c] = @ + 1]
       /\ step' = [step EXCEPT ![c] = "try"]
       /\ UNCHANGED cmd
    \/ /\ attempt[c] > MaxAttempts
       /\ End(c)

(* Mutant: the retry of a command that ran does not pass the gate again. *)
NextAttemptRunsAgain(c) ==
    \/ /\ attempt[c] < MaxAttempts
       /\ attempt' = [attempt EXCEPT ![c] = @ + 1]
       /\ step' = [step EXCEPT ![c] = IF @ = "run" THEN "run" ELSE "try"]
       /\ UNCHANGED cmd
    \/ /\ attempt[c] = MaxAttempts
       /\ End(c)

(* The handler failed with an error that may be retried. *)
NextAttempt(c) ==
    \/ /\ attempt[c] < MaxAttempts
       /\ attempt' = [attempt EXCEPT ![c] = @ + 1]
       /\ step' = [step EXCEPT ![c] = "try"]
       /\ UNCHANGED cmd
    \/ /\ attempt[c] = MaxAttempts
       /\ End(c)

(* The context is done before the attempt, or the handler refuses the      *)
(* arguments itself: a sudo flag, an empty command.                        *)
TryFails(c) ==
    /\ step[c] = "try"
    /\ End(c) \/ NextAttempt(c)
    /\ UNCHANGED <<gateVars, callbacks, rows, decider, history>>

(* The command ends well, or in a way that cannot be retried; or its working *)
(* directory is refused, it fails or it is killed at its timeout.            *)
RunEnds(c) ==
    /\ step[c] = "run"
    /\ End(c) \/ NextAttempt(c)
    /\ granted' = granted \ {c}
    /\ UNCHANGED <<gateVars, callbacks, rows, decider, asked, byChat>>

-----------------------------------------------------------------------------
(* The shell handler and the sudo gate.                                    *)

RunPlain(c) ==
    /\ step[c] = "try"
    /\ cmd[c] \notin SudoCmds
    /\ step' = [step EXCEPT ![c] = "run"]
    /\ UNCHANGED <<cmd, attempt, gateVars, callbacks, rows, decider, history>>

(* Mutant: only a request whose row is there already is registered. *)
RegisterIfRow(c) ==
    pending' = IF rows[cmd[c]] = "absent" THEN pending ELSE [pending EXCEPT ![cmd[c]] = c]

(* Request: a channel of its own in the place of the identifier's earlier  *)
(* one, and the callback in a goroutine.                                   *)
Register(c) == pending' = [pending EXCEPT ![cmd[c]] = c]

Request(c) ==
    /\ step[c] = "try"
    /\ cmd[c] \in SudoCmds
    /\ step' = [step EXCEPT ![c] = "asked"]
    /\ Register(c)
    /\ callbacks' = callbacks \cup {<<c, cmd[c]>>}
    /\ asked' = [asked EXCEPT ![cmd[c]] = IF @ < 2 THEN @ + 1 ELSE @]
    /\ UNCHANGED <<cmd, attempt, channel, rows, decider, granted, byChat>>

(* The callback of gui.go: the row, in whatever project is open, or in none. *)
OnRequest(c, k) ==
    /\ <<c, k>> \in callbacks
    /\ callbacks' = callbacks \ {<<c, k>>}
    /\ CreateApproval(k)
    /\ UNCHANGED <<callVars, gateVars, decider, history>>

(* The deferred delete of Request: whosever channel is there now goes. *)
Deregister(c) == pending' = [pending EXCEPT ![cmd[c]] = None]

(* The select of Request takes the decision, or ten minutes or the context. *)
(* Both may be ready; it then takes either.  The delete follows at once:    *)
(* what falls between the two could as well come before.  The handler runs  *)
(* the command, or gives up with an error the executor does not retry.      *)
Hear(c) ==
    /\ step[c] = "asked"
    /\ channel[c] # "empty"
    /\ Deregister(c)
    /\ channel' = [channel EXCEPT ![c] = "empty"]
    /\ IF channel[c] = "yes"
       THEN /\ step' = [step EXCEPT ![c] = "run"]
            /\ UNCHANGED <<cmd, attempt>>
       ELSE End(c)
    /\ UNCHANGED <<callbacks, rows, decider, history>>

TimeOut(c) ==
    /\ step[c] = "asked"
    /\ Deregister(c)
    /\ channel' = [channel EXCEPT ![c] = "empty"]
    /\ End(c)
    /\ granted' = granted \ {c}
    /\ UNCHANGED <<callbacks, rows, decider, asked, byChat>>

-----------------------------------------------------------------------------
(* Decisions.                                                              *)

(* Mutant: the channel stays in the map. *)
TakeWaiterKeeps(r) == UNCHANGED pending

(* Resolve takes the channel out of the map under its lock. *)
TakeWaiter(r) == pending' = [pending EXCEPT ![r] = None]

(* DecideApproval finds the row, which need not be pending and never goes    *)
(* away, and has the gate look for a call that waits under its identifier.   *)
Decide(d, r, yes) ==
    /\ decider[d].at = "idle"
    /\ rows[r] # "absent"
    /\ decider' = [decider EXCEPT ![d] =
                      [at |-> IF pending[r] = None THEN "record" ELSE "send",
                       row |-> r, yes |-> yes, waiter |-> pending[r]]]
    /\ TakeWaiter(r)
    /\ UNCHANGED <<callVars, channel, callbacks, rows, history>>

(* Resolve sends after the unlock; the send blocks while the place is taken. *)
SendVerdict(d) ==
    LET c == decider[d].waiter IN
    /\ decider[d].at = "send"
    /\ channel[c] = "empty"
    /\ IF step[c] = "asked"
       THEN /\ channel' = [channel EXCEPT ![c] = IF decider[d].yes THEN "yes" ELSE "no"]
            /\ granted' = IF decider[d].yes THEN granted \cup {c} ELSE granted
       ELSE UNCHANGED <<channel, granted>>   \* nobody reads that channel any more
    /\ decider' = [decider EXCEPT ![d] =
                      [at |-> "record", row |-> @.row, yes |-> @.yes, waiter |-> None]]
    /\ UNCHANGED <<callVars, pending, callbacks, rows, asked, byChat>>

(* The decision is recorded, or found already recorded. *)
Record(d) ==
    /\ decider[d].at = "record"
    /\ RecordDecision(decider[d].row, decider[d].yes)
    /\ decider' = [decider EXCEPT ![d] = Idle]
    /\ UNCHANGED <<callVars, gateVars, callbacks, history>>

(* The chat relay writes the row only.  It lists the pending rows of no      *)
(* project; the model leaves the project of a row out and lets any be there. *)
ApproveByChat(r) ==
    /\ rows[r] = "pending"
    /\ RecordDecision(r, TRUE)
    /\ byChat' = byChat \cup {r}
    /\ UNCHANGED <<callVars, gateVars, callbacks, decider, granted, asked>>

(* The application stops and starts again: the rows are what is left. *)
Restart ==
    /\ \E c \in Calls : step[c] \notin {"idle", "ended"}
    /\ step' = [c \in Calls |-> IF step[c] = "idle" THEN "idle" ELSE "ended"]
    /\ cmd' = [c \in Calls |-> None]
    /\ attempt' = [c \in Calls |-> 0]
    /\ channel' = [c \in Calls |-> "empty"]
    /\ pending' = [k \in Cmds |-> None]
    /\ callbacks' = {}
    /\ decider' = [d \in Deciders |-> Idle]
    /\ granted' = {}
    /\ UNCHANGED <<rows, asked, byChat>>

CallStep(c) ==
    \/ TryFails(c) \/ RunPlain(c) \/ Request(c)
    \/ Hear(c) \/ TimeOut(c) \/ RunEnds(c)

DeciderStep(d) == SendVerdict(d) \/ Record(d)

Next ==
    \/ \E c \in Calls :
          \/ CallStep(c)
          \/ \E k \in Cmds : Execute(c, k) \/ OnRequest(c, k)
    \/ \E d \in Deciders :
          \/ DeciderStep(d)
          \/ \E r \in Cmds, yes \in BOOLEAN : Decide(d, r, yes)
    \/ \E r \in Cmds : ApproveByChat(r)
    \/ Restart

Spec == Init /\ [][Next]_vars

-----------------------------------------------------------------------------
(* Properties.                                                             *)

(* A sudo command runs only when the Boss said yes to this very attempt, not *)
(* to an earlier one, to another call of the same command, or before.        *)
RunNeedsOwnYes ==
    \A c \in Calls :
        step[c] = "run" /\ cmd[c] \in SudoCmds => c \in granted

(* Resolve sends outside its lock, and to a channel with one place; nobody   *)
(* else has sent or will send there, so the Boss's call is never blocked.    *)
ResolverNeverBlocks ==
    \A d \in Deciders :
        decider[d].at = "send" =>
            /\ channel[decider[d].waiter] = "empty"
            /\ \A e \in Deciders \ {d} :
                   decider[e].at = "send" => decider[e].waiter # decider[d].waiter

(* The request waits, its callback is done and no decision is on its way. *)
Unheard(c) ==
    /\ step[c] = "asked"
    /\ <<c, cmd[c]>> \notin callbacks
    /\ channel[c] = "empty"
    /\ \A d \in Deciders : decider[d].at = "send" => decider[d].waiter # c

(* The Boss can still end the wait: there is a card, and it leads to the call. *)
Decidable(c) == rows[cmd[c]] = "pending" /\ pending[cmd[c]] = c

(* The first request for a command can be decided for as long as it waits,    *)
(* whatever decisions, other calls and timeouts do, unless a chat user has    *)
(* approved the row.                                                          *)
FirstRequestDecidable ==
    \A c \in Calls :
        Unheard(c) /\ asked[cmd[c]] = 1 /\ cmd[c] \notin byChat => Decidable(c)

(* A decision once recorded stands: two decisions at once, a late one or one  *)
(* by chat do not change it.                                                  *)
DecisionStands ==
    [][\A r \in Cmds : rows[r] \in {"approved", "rejected"} => rows'[r] = rows[r]]_vars

=============================================================================
