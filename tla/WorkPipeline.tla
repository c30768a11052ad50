---------------------------- MODULE WorkPipeline ----------------------------
(***************************************************************************)
(* A channel command on its way through the Lead and its workers:          *)
(* HandleBossCommand (internal/orchestrator/orchestrator.go), the worker   *)
(* and verification loop runWorkerTask (worker.go), the slots and parking  *)
(* of VRAMCoordinator (vram.go), the task rows (internal/store/task.go),   *)
(* and the background reviews that completed tasks set off (optimizer.go,  *)
(* curiosity.go).  Commands run one after another: WarRoomInbox shows that *)
(* the channel has one goroutine.  A step ends where the code waits for an *)
(* inference, for the worker slot, or touches the database.                *)
(***************************************************************************)
EXTENDS Integers, Sequences, FiniteSets

CONSTANTS
    TaskIDs,             \* the identifiers the model gives to tasks
    Plans,               \* the task lists the Lead may answer with
    MaxCommands,         \* bound on the number of commands
    MaxRetries,          \* verifyMaxRetries
    Swap,                \* whether the VRAM profile is VRAMSwap
    OptimizerThreshold,
    CuriosityThreshold

Tasks == [id : TaskIDs, specialist : BOOLEAN]

ASSUME PlansAssumption == Plans \subseteq Seq(Tasks)
ASSUME BoundAssumption ==
    /\ MaxCommands \in Nat \ {0}
    /\ MaxRetries \in Nat
    /\ Swap \in BOOLEAN
    /\ OptimizerThreshold \in Nat \ {0}
    /\ CuriosityThreshold \in Nat \ {0}

VARIABLES
    step,        \* where the command's goroutine is
    cmd,         \* the number of the command, 0 before the first
    stopped,     \* the command's context is done: Stop or the watchdog
    plan,        \* tasks
    at,          \* index of the task in hand
    attempt,     \* attempt of its worker
    output,      \* what the worker of this attempt returned
    lastOutput,  \* lastOutput of runWorkerTask
    told,        \* what the Boss was told of each task of the plan
    slot,        \* the one-slot queue channel holds its token
    parked, workerHot, usedBefore,  \* VRAMCoordinator; currentWorkerModel is set
    parkErr,     \* history: the last park request failed
    resident,    \* the models Ollama holds in VRAM
    rows,        \* the tasks table: the status of each row
    tasksDone, reviewing, reviews,  \* LeadOptimizer, and its goroutines
    seen, watching, watches         \* CuriosityLoop, and its goroutines

taskVars   == <<plan, at, attempt, output, lastOutput, told>>
vramVars   == <<slot, parked, workerHot, usedBefore, parkErr>>
reviewVars == <<tasksDone, reviewing, reviews, seen, watching, watches>>
vars == <<step, cmd, stopped, taskVars, vramVars, resident, rows, reviewVars>>

Outputs == {"none", "text", "empty", "error"}
RowStates == {"absent", "pending", "in_progress", "done", "failed"}
Steps   == {"idle", "lead", "persist", "next", "acquire", "park", "start",
            "spawn", "worker", "verify", "approved", "settle", "summary"}

(* The steps of runWorkerTask that hold the worker slot. *)
SlotSteps == {"park", "start", "spawn", "worker", "verify", "approved", "settle"}

TypeOK ==
    /\ step \in Steps
    /\ cmd \in 0..MaxCommands
    /\ stopped \in BOOLEAN
    /\ plan \in Seq(Tasks)
    /\ at \in 1..(Len(plan) + 1)
    /\ step \in SlotSteps \cup {"acquire"} => at <= Len(plan)
    /\ attempt \in 0..MaxRetries
    /\ output \in Outputs
    /\ lastOutput \in Outputs
    /\ told \in [1..Len(plan) -> {"nothing", "done", "failed"}]
    /\ slot \in BOOLEAN
    /\ parked \in BOOLEAN
    /\ workerHot \in BOOLEAN
    /\ usedBefore \in BOOLEAN
    /\ parkErr \in BOOLEAN
    /\ resident \subseteq {"lead", "worker"}
    /\ rows \in [TaskIDs -> RowStates]
    /\ tasksDone \in Nat
    /\ reviewing \in BOOLEAN
    /\ reviews \in Nat
    /\ seen \in Nat
    /\ watching \in BOOLEAN
    /\ watches \in Nat

Init ==
    /\ step = "idle"
    /\ cmd = 0
    /\ stopped = FALSE
    /\ plan = <<>>
    /\ at = 1
    /\ attempt = 0
    /\ output = "none"
    /\ lastOutput = "none"
    /\ told = <<>>
    /\ slot = TRUE
    /\ parked = FALSE
    /\ workerHot = FALSE
    /\ usedBefore = FALSE
    /\ parkErr = FALSE
    /\ resident = {}
    /\ rows = [t \in TaskIDs |-> "absent"]
    /\ tasksDone = 0
    /\ reviewing = FALSE
    /\ reviews = 0
    /\ seen = 0
    /\ watching = FALSE
    /\ watches = 0

Task == plan[at]

-----------------------------------------------------------------------------
(* The Lead's own turns. *)

(* Classification, then NotifyLeadRunning and the Lead's decomposition turn. *)
BossCommand ==
    /\ step = "idle"
    /\ cmd < MaxCommands
    /\ step' = "lead"
    /\ cmd' = cmd + 1
    /\ stopped' = FALSE
    /\ plan' = <<>>
    /\ at' = 1
    /\ told' = <<>>
    /\ workerHot' = FALSE
    /\ resident' = resident \cup {"lead"}
    /\ UNCHANGED <<attempt, output, lastOutput, slot, parked, usedBefore,
                   parkErr, rows, reviewVars>>

(* The Boss's Stop, or the watchdog. *)
StopCommand ==
    /\ step # "idle"
    /\ ~stopped
    /\ stopped' = TRUE
    /\ UNCHANGED <<step, cmd, taskVars, vramVars, resident, rows, reviewVars>>

(* The turn fails (low confidence, escalation, timeout, Stop, an error), or  *)
(* answers directly: the command is over.                                   *)
LeadEnds ==
    /\ step = "lead"
    /\ step' = "idle"
    /\ UNCHANGED <<cmd, stopped, taskVars, vramVars, resident, rows, reviewVars>>

(* The answer holds a task list, perhaps after a repair turn. *)
LeadPlans(p) ==
    /\ step = "lead"
    /\ ~stopped
    /\ p # <<>>
    /\ plan' = p
    /\ told' = [i \in 1..Len(p) |-> "nothing"]
    /\ step' = "persist"
    /\ UNCHANGED <<cmd, stopped, at, attempt, output, lastOutput, vramVars,
                   resident, rows, reviewVars>>

(* CreateTask for every task; an insert that meets an existing key, or a    *)
(* context that is done, fails without a trace.                             *)
PersistTasks ==
    /\ step = "persist"
    /\ step' = "next"
    /\ LET created == {t \in TaskIDs : /\ ~stopped
                                      /\ rows[t] = "absent"
                                      /\ \E i \in 1..Len(plan) : plan[i].id = t}
       IN rows' = [t \in TaskIDs |-> IF t \in created THEN "pending" ELSE rows[t]]
    /\ UNCHANGED <<cmd, stopped, taskVars, vramVars, resident, reviewVars>>

NextTask ==
    /\ step = "next"
    /\ at <= Len(plan)
    /\ \/ /\ ~Task.specialist
          /\ at' = at + 1
          /\ UNCHANGED step
       \/ /\ Task.specialist
          /\ step' = "acquire"
          /\ UNCHANGED at
    /\ UNCHANGED <<cmd, stopped, plan, attempt, output, lastOutput, told,
                   vramVars, resident, rows, reviewVars>>

(* NotifyLeadRunning and the Lead's summary turn begin. *)
AllTasksHandled ==
    /\ step = "next"
    /\ at > Len(plan)
    /\ step' = "summary"
    /\ workerHot' = FALSE
    /\ resident' = IF stopped THEN resident ELSE resident \cup {"lead"}
    /\ UNCHANGED <<cmd, stopped, taskVars, slot, parked, usedBefore, parkErr,
                   rows, reviewVars>>

(* Shown to the Boss, or given up in silence. *)
SummaryEnds ==
    /\ step = "summary"
    /\ step' = "idle"
    /\ UNCHANGED <<cmd, stopped, taskVars, vramVars, resident, rows, reviewVars>>

-----------------------------------------------------------------------------
(* runWorkerTask: the worker slot. *)

(* The task is left: its outcome is shown and the loop goes on. *)
TellAndGoOn(outcome) ==
    /\ told' = [told EXCEPT ![at] = outcome]
    /\ at' = at + 1
    /\ step' = "next"

AcquireSlot ==
    /\ step = "acquire"
    /\ slot
    /\ slot' = FALSE
    /\ step' = IF Swap /\ ~(usedBefore /\ workerHot) /\ ~parked THEN "park" ELSE "start"
    /\ UNCHANGED <<cmd, stopped, taskVars, parked, workerHot, usedBefore,
                   parkErr, resident, rows, reviewVars>>

AcquireCancelled ==
    /\ step = "acquire"
    /\ stopped
    /\ TellAndGoOn("failed")
    /\ UNCHANGED <<cmd, stopped, plan, attempt, output, lastOutput, vramVars,
                   resident, rows, reviewVars>>

(* parkLead: a chat with keep_alive 0; its error is ignored. *)
ParkLead ==
    /\ step = "park"
    /\ parked' = TRUE
    /\ \/ /\ ~stopped
          /\ resident' = resident \ {"lead"}
          /\ parkErr' = FALSE
       \/ /\ parkErr' = TRUE
          /\ UNCHANGED resident
    /\ step' = "start"
    /\ UNCHANGED <<cmd, stopped, taskVars, slot, workerHot, usedBefore, rows, reviewVars>>

(* UpdateTaskStatus: an update by key; its error is ignored. *)
UpdateTaskStatus(id, status) ==
    rows' = IF stopped \/ rows[id] = "absent" THEN rows
            ELSE [rows EXCEPT ![id] = status]

StartTask ==
    /\ step = "start"
    /\ usedBefore' = TRUE
    /\ workerHot' = FALSE
    /\ UpdateTaskStatus(Task.id, "in_progress")
    /\ attempt' = 0
    /\ output' = "none"
    /\ lastOutput' = "none"
    /\ step' = "spawn"
    /\ UNCHANGED <<cmd, stopped, plan, at, told, slot, parked, parkErr,
                   resident, reviewVars>>

(* Mutant: an early return that keeps the slot. *)
ReleaseForgotten ==
    /\ slot' = slot
    /\ UNCHANGED <<parked, workerHot, usedBefore, parkErr>>

(* The deferred ReleaseWorkerSlot. *)
ReleaseWorkerSlot ==
    /\ slot' = TRUE
    /\ parked' = IF Swap THEN FALSE ELSE parked
    /\ workerHot' = IF Swap THEN TRUE ELSE workerHot
    /\ UNCHANGED <<usedBefore, parkErr>>

-----------------------------------------------------------------------------
(* runWorkerTask: attempts and verification. *)

(* Mutant: the Boss does not hear of the failed spawn. *)
SpawnFailsSilently ==
    /\ step = "spawn"
    /\ at' = at + 1
    /\ step' = "next"
    /\ ReleaseWorkerSlot
    /\ UNCHANGED <<cmd, stopped, plan, attempt, output, lastOutput, told,
                   resident, rows, reviewVars>>

SpawnFails ==
    /\ step = "spawn"
    /\ TellAndGoOn("failed")
    /\ ReleaseWorkerSlot
    /\ UNCHANGED <<cmd, stopped, plan, attempt, output, lastOutput, resident,
                   rows, reviewVars>>

(* The worker is spawned and its turn begins. *)
SpawnWorker ==
    /\ step = "spawn"
    /\ step' = "worker"
    /\ resident' = IF stopped THEN resident ELSE resident \cup {"worker"}
    /\ UNCHANGED <<cmd, stopped, taskVars, vramVars, rows, reviewVars>>

(* The worker's model leaves VRAM after every request (keep_alive 0); the   *)
(* Lead's verification turn begins.                                         *)
WorkerAnswers(o) ==
    /\ step = "worker"
    /\ ~stopped
    /\ o \in {"text", "empty"}
    /\ output' = o
    /\ step' = "verify"
    /\ resident' = {"lead"}
    /\ UNCHANGED <<cmd, stopped, plan, at, attempt, lastOutput, told, vramVars,
                   rows, reviewVars>>

(* Mutant: one attempt too many. *)
AttemptOffByOne ==
    IF attempt <= MaxRetries
    THEN step' = "spawn" /\ attempt' = attempt + 1
    ELSE step' = "settle" /\ UNCHANGED attempt

(* Another attempt, or none left. *)
NextAttempt ==
    IF attempt < MaxRetries
    THEN step' = "spawn" /\ attempt' = attempt + 1
    ELSE step' = "settle" /\ UNCHANGED attempt

(* An error of the worker's turn becomes the last output. *)
WorkerFails ==
    /\ step = "worker"
    /\ lastOutput' = "error"
    /\ resident' = resident \ {"worker"}
    /\ NextAttempt
    /\ UNCHANGED <<cmd, stopped, plan, at, output, told, vramVars, rows, reviewVars>>

(* Mutant: a failed verification returns at once. *)
VerifyFailsAndReturns ==
    /\ step = "verify"
    /\ lastOutput' = output
    /\ TellAndGoOn("done")
    /\ ReleaseWorkerSlot
    /\ UNCHANGED <<cmd, stopped, plan, attempt, output, resident, rows, reviewVars>>

(* An error of the verification turn: the output is accepted. *)
VerifyFails ==
    /\ step = "verify"
    /\ lastOutput' = output
    /\ step' = "settle"
    /\ UNCHANGED <<cmd, stopped, plan, at, attempt, output, told, vramVars,
                   resident, rows, reviewVars>>

(* isApproved(verdict). *)
VerdictApproved ==
    /\ step = "verify"
    /\ ~stopped
    /\ step' = "approved"
    /\ UNCHANGED <<cmd, stopped, taskVars, vramVars, resident, rows, reviewVars>>

(* Any other verdict is a correction. *)
VerdictCorrection ==
    /\ step = "verify"
    /\ ~stopped
    /\ lastOutput' = output
    /\ NextAttempt
    /\ UNCHANGED <<cmd, stopped, plan, at, output, told, vramVars, resident,
                   rows, reviewVars>>

-----------------------------------------------------------------------------
(* The end of a task. *)

(* Mutant: a review is started whenever one is due, beside a running one. *)
ReviewsOverlap ==
    /\ LET due == tasksDone + 1 >= OptimizerThreshold
       IN /\ tasksDone' = IF due THEN 0 ELSE tasksDone + 1
          /\ reviewing' = (reviewing \/ due)
          /\ reviews' = IF due THEN reviews + 1 ELSE reviews
    /\ UNCHANGED <<seen, watching, watches>>

(* optimizer.NotifyTaskDone and curiosity.NotifyTaskDone. *)
NotifyTaskDone ==
    /\ LET due == tasksDone + 1 >= OptimizerThreshold /\ ~reviewing
       IN /\ tasksDone' = IF due THEN 0 ELSE tasksDone + 1
          /\ reviewing' = (reviewing \/ due)
          /\ reviews' = IF due THEN reviews + 1 ELSE reviews
    /\ LET due == (seen + 1) % CuriosityThreshold = 0 /\ ~watching
       IN /\ seen' = seen + 1
          /\ watching' = (watching \/ due)
          /\ watches' = IF due THEN watches + 1 ELSE watches

TaskApproved ==
    /\ step = "approved"
    /\ UpdateTaskStatus(Task.id, "done")
    /\ TellAndGoOn("done")
    /\ ReleaseWorkerSlot
    /\ NotifyTaskDone
    /\ UNCHANGED <<cmd, stopped, plan, attempt, output, lastOutput, resident>>

(* Retries exhausted or verification failed: any last output at all is      *)
(* accepted.                                                                *)
TaskAccepted ==
    /\ step = "settle"
    /\ lastOutput \in {"text", "error"}
    /\ UpdateTaskStatus(Task.id, "done")
    /\ TellAndGoOn("done")
    /\ ReleaseWorkerSlot
    /\ NotifyTaskDone
    /\ UNCHANGED <<cmd, stopped, plan, attempt, output, lastOutput, resident>>

TaskFailed ==
    /\ step = "settle"
    /\ lastOutput \notin {"text", "error"}
    /\ UpdateTaskStatus(Task.id, "failed")
    /\ TellAndGoOn("failed")
    /\ ReleaseWorkerSlot
    /\ UNCHANGED <<cmd, stopped, plan, attempt, output, lastOutput, resident,
                   reviewVars>>

(* runReview and runCritique end, and clear their flags. *)
ReviewEnds ==
    /\ reviews > 0
    /\ reviews' = reviews - 1
    /\ reviewing' = FALSE
    /\ UNCHANGED <<step, cmd, stopped, taskVars, vramVars, resident, rows,
                   tasksDone, seen, watching, watches>>

CritiqueEnds ==
    /\ watches > 0
    /\ watches' = watches - 1
    /\ watching' = FALSE
    /\ UNCHANGED <<step, cmd, stopped, taskVars, vramVars, resident, rows,
                   tasksDone, reviewing, reviews, seen>>

-----------------------------------------------------------------------------
LeadStep ==
    \/ LeadEnds
    \/ \E p \in Plans : LeadPlans(p)
    \/ PersistTasks
    \/ NextTask
    \/ AllTasksHandled
    \/ SummaryEnds

WorkerStep ==
    \/ AcquireSlot
    \/ AcquireCancelled
    \/ ParkLead
    \/ StartTask
    \/ SpawnFails
    \/ SpawnWorker
    \/ \E o \in Outputs : WorkerAnswers(o)
    \/ WorkerFails
    \/ VerifyFails
    \/ VerdictApproved
    \/ VerdictCorrection
    \/ TaskApproved
    \/ TaskAccepted
    \/ TaskFailed

Next ==
    \/ BossCommand
    \/ StopCommand
    \/ LeadStep
    \/ WorkerStep
    \/ ReviewEnds
    \/ CritiqueEnds

Spec == Init /\ [][Next]_vars

(* The command's goroutine keeps running: every inference it waits for ends, *)
(* at the latest when the thirty-minute watchdog cancels it.                *)
FairSpec == Spec /\ WF_vars(LeadStep \/ WorkerStep)

-----------------------------------------------------------------------------
(* Properties. *)

(* The worker slot is taken exactly while a task is with its worker, on     *)
(* every error path: a leaked slot would block every later task for ever.   *)
SlotBalance == slot <=> step \notin SlotSteps

(* The Boss hears of every specialist task once and in order: the tasks     *)
(* behind the one in hand have an outcome, the others have none, and Lead   *)
(* tasks never do.                                                          *)
OutcomesTold ==
    \A i \in 1..Len(plan) :
        told[i] # "nothing" <=> i < at /\ plan[i].specialist

(* A task the Boss was told is done is not left open in the database, and   *)
(* one told failed is not recorded as done, unless the command was stopped  *)
(* or another task of the plan has the same identifier.                     *)
ToldAgrees ==
    ~stopped =>
        \A i \in 1..Len(plan) :
            (\A j \in 1..Len(plan) : plan[j].id = plan[i].id => j = i) =>
                /\ told[i] = "done" => rows[plan[i].id] = "done"
                /\ told[i] = "failed" => rows[plan[i].id] \in {"in_progress", "failed"}

(* At most one review and one critique run at a time, whatever tasks        *)
(* complete meanwhile.                                                      *)
OneReview == reviews <= 1 /\ watches <= 1

(* Every command ends, also after spawn errors, failed verifications and    *)
(* Stop in an earlier one.                                                  *)
CommandEnds == step # "idle" ~> step = "idle"

(* What VRAMCoordinator's comment says (see the README): in swap mode the   *)
(* Lead is out of VRAM when a worker is loaded, unless parking it failed.   *)
LeadParkedBeforeWorker ==
    [][Swap /\ step = "spawn" /\ step' = "worker" /\ "worker" \in resident'
          => "lead" \notin resident' \/ parkErr]_vars

=============================================================================
