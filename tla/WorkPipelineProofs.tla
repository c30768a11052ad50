------------------------- MODULE WorkPipelineProofs -------------------------
(* Theorems about WorkPipeline, for every set of plans, number of commands, *)
(* retry bound, VRAM profile and review threshold.                          *)
EXTENDS WorkPipeline, TLAPS

(* The steps between taking a task in hand and telling its outcome, and     *)
(* those after its row was set to in_progress.                              *)
HandSteps == SlotSteps \cup {"acquire"}
OpenSteps == {"spawn", "worker", "verify", "approved", "settle"}

(* The task in hand is a specialist's. *)
HandOK == step \in HandSteps => Task.specialist

(* Nothing is left of the previous command when the Lead plans. *)
LeadOK == step = "lead" => plan = <<>> /\ at = 1 /\ told = <<>>

(* The flags say whether a review and a critique run. *)
FlagsOK ==
    /\ reviews = IF reviewing THEN 1 ELSE 0
    /\ watches = IF watching THEN 1 ELSE 0

(* Unless the command was stopped, every task has a row, its own or an      *)
(* earlier task's.                                                          *)
RowsOK ==
    ~stopped /\ step # "persist" =>
        \A i \in 1..Len(plan) : rows[plan[i].id] # "absent"

(* The row of the task in hand is open while its worker has it. *)
OpenOK == ~stopped /\ step \in OpenSteps => rows[Task.id] = "in_progress"

IInv ==
    /\ TypeOK
    /\ SlotBalance
    /\ HandOK
    /\ LeadOK
    /\ FlagsOK
    /\ OutcomesTold
    /\ RowsOK
    /\ OpenOK
    /\ ToldAgrees

-----------------------------------------------------------------------------
(* A status update keeps the table's type and touches one row at most. *)
LEMMA UpdateFacts ==
    ASSUME rows \in [TaskIDs -> RowStates],
           NEW id \in TaskIDs,
           NEW status \in {"in_progress", "done", "failed"},
           UpdateTaskStatus(id, status)
    PROVE  /\ rows' \in [TaskIDs -> RowStates]
           /\ \A t \in TaskIDs : t # id => rows'[t] = rows[t]
           /\ ~stopped /\ rows[id] # "absent" => rows'[id] = status
           /\ \A t \in TaskIDs :
                 rows[t] # "absent" => rows'[t] # "absent"
  BY DEF UpdateTaskStatus, RowStates

(* A completed task starts a review or critique only when none runs. *)
LEMMA NotifyFacts ==
    ASSUME tasksDone \in Nat, reviews \in Nat, seen \in Nat, watches \in Nat,
           reviewing \in BOOLEAN, watching \in BOOLEAN,
           NotifyTaskDone
    PROVE  /\ tasksDone' \in Nat /\ reviews' \in Nat
           /\ seen' \in Nat /\ watches' \in Nat
           /\ reviewing' \in BOOLEAN /\ watching' \in BOOLEAN
           /\ FlagsOK => FlagsOK'
<1> DEFINE dueR == tasksDone + 1 >= OptimizerThreshold /\ ~reviewing
           dueW == (seen + 1) % CuriosityThreshold = 0 /\ ~watching
<1>1. /\ dueR \in BOOLEAN /\ (dueR => ~reviewing)
      /\ dueW \in BOOLEAN /\ (dueW => ~watching)
  OBVIOUS
<1>2. /\ tasksDone' = IF dueR THEN 0 ELSE tasksDone + 1
      /\ reviewing' = (reviewing \/ dueR)
      /\ reviews' = IF dueR THEN reviews + 1 ELSE reviews
      /\ seen' = seen + 1
      /\ watching' = (watching \/ dueW)
      /\ watches' = IF dueW THEN watches + 1 ELSE watches
  BY DEF NotifyTaskDone
<1> HIDE DEF dueR, dueW
<1> QED
  BY <1>1, <1>2 DEF FlagsOK

(* Every task of the plan has an identifier. *)
LEMMA PlanTyped == TypeOK => \A i \in 1..Len(plan) : plan[i].id \in TaskIDs
<1> SUFFICES ASSUME TypeOK, NEW i \in 1..Len(plan) PROVE plan[i].id \in TaskIDs
  OBVIOUS
<1>1. plan[i] \in Tasks
  BY DEF TypeOK
<1> QED
  BY <1>1 DEF Tasks

(* The task in hand is one of the plan. *)
LEMMA TaskTyped ==
    TypeOK /\ at <= Len(plan) => Task \in Tasks /\ Task.id \in TaskIDs
<1> SUFFICES ASSUME TypeOK, at <= Len(plan) PROVE Task \in Tasks
  BY DEF Tasks
<1>1. at \in 1..Len(plan)
  BY DEF TypeOK
<1> QED
  BY <1>1 DEF TypeOK, Task

(* Every variable keeps its type. *)
LEMMA TypeStep == TypeOK /\ LeadOK /\ [Next]_vars => TypeOK'
<1> SUFFICES ASSUME TypeOK, LeadOK, [Next]_vars PROVE TypeOK'
  OBVIOUS
<1> USE DEF TypeOK, Steps, SlotSteps, Outputs, RowStates, Task,
           taskVars, vramVars, reviewVars
<1>1. CASE BossCommand
  <2>1. cmd' \in 0..MaxCommands
    BY <1>1, BoundAssumption DEF BossCommand
  <2>2. plan' = <<>> /\ told' = <<>> /\ at' = 1 /\ step' = "lead"
    BY <1>1 DEF BossCommand
  <2>3. plan' \in Seq(Tasks) /\ Len(plan') = 0
    BY <2>2
  <2>4. told' \in [1..Len(plan') -> {"nothing", "done", "failed"}]
    BY <2>2, <2>3
  <2>5. /\ resident' \subseteq {"lead", "worker"}
        /\ stopped' \in BOOLEAN /\ workerHot' \in BOOLEAN
    BY <1>1 DEF BossCommand
  <2> QED
    BY <1>1, <2>1, <2>2, <2>3, <2>4, <2>5 DEF BossCommand
<1>2. CASE StopCommand
  BY <1>2 DEF StopCommand
<1>3. CASE LeadEnds
  BY <1>3 DEF LeadEnds
<1>4. ASSUME NEW p \in Plans, LeadPlans(p) PROVE TypeOK'
  <2>1. plan' = p /\ p \in Seq(Tasks) /\ Len(p) \in Nat
    BY <1>4, PlansAssumption DEF LeadPlans
  <2>2. told' \in [1..Len(plan') -> {"nothing", "done", "failed"}]
    BY <1>4, <2>1 DEF LeadPlans
  <2>3. step' = "persist" /\ at' = 1
    BY <1>4 DEF LeadPlans, LeadOK
  <2> QED
    BY <1>4, <2>1, <2>2, <2>3 DEF LeadPlans
<1>5. CASE PersistTasks
  BY <1>5 DEF PersistTasks
<1>6. CASE NextTask
  BY <1>6 DEF NextTask
<1>7. CASE AllTasksHandled
  <2>1. workerHot' \in BOOLEAN /\ resident' \subseteq {"lead", "worker"}
    BY <1>7 DEF AllTasksHandled
  <2> QED
    BY <1>7, <2>1 DEF AllTasksHandled
<1>8. CASE SummaryEnds
  BY <1>8 DEF SummaryEnds
<1>9. CASE AcquireSlot
  <2>1. step' \in {"park", "start"} /\ slot' \in BOOLEAN
    BY <1>9 DEF AcquireSlot
  <2> QED
    BY <1>9, <2>1 DEF AcquireSlot
<1>10. CASE AcquireCancelled
  BY <1>10 DEF AcquireCancelled, TellAndGoOn
<1>11. CASE ParkLead
  <2>1. /\ resident' \subseteq {"lead", "worker"}
        /\ parked' \in BOOLEAN /\ parkErr' \in BOOLEAN
    BY <1>11 DEF ParkLead
  <2> QED
    BY <1>11, <2>1 DEF ParkLead
<1>12. CASE StartTask
  <2>1. Task.id \in TaskIDs
    BY <1>12, TaskTyped DEF StartTask
  <2>2. /\ rows' \in [TaskIDs -> RowStates]
        /\ usedBefore' \in BOOLEAN /\ workerHot' \in BOOLEAN
    BY <1>12, <2>1, UpdateFacts DEF StartTask, UpdateTaskStatus
  <2> QED
    BY <1>12, <2>2, BoundAssumption DEF StartTask
<1>13. CASE SpawnFails
  <2>1. /\ told' \in [1..Len(plan) -> {"nothing", "done", "failed"}]
        /\ at' \in 1..(Len(plan) + 1)
        /\ step' = "next"
    BY <1>13 DEF SpawnFails, TellAndGoOn
  <2>2. /\ slot' \in BOOLEAN /\ parked' \in BOOLEAN /\ workerHot' \in BOOLEAN
        /\ UNCHANGED <<usedBefore, parkErr>>
    BY <1>13 DEF SpawnFails, ReleaseWorkerSlot
  <2> QED
    BY <1>13, <2>1, <2>2 DEF SpawnFails
<1>14. CASE SpawnWorker
  BY <1>14 DEF SpawnWorker
<1>15. ASSUME NEW o \in Outputs, WorkerAnswers(o) PROVE TypeOK'
  BY <1>15 DEF WorkerAnswers
<1>16. CASE WorkerFails
  BY <1>16, BoundAssumption DEF WorkerFails, NextAttempt
<1>17. CASE VerifyFails
  BY <1>17 DEF VerifyFails
<1>18. CASE VerdictApproved
  BY <1>18 DEF VerdictApproved
<1>19. CASE VerdictCorrection
  BY <1>19, BoundAssumption DEF VerdictCorrection, NextAttempt
<1>20. CASE TaskApproved
  <2>1. Task.id \in TaskIDs
    BY <1>20, TaskTyped DEF TaskApproved
  <2>2. rows' \in [TaskIDs -> RowStates]
    BY <1>20, <2>1, UpdateFacts DEF TaskApproved, UpdateTaskStatus
  <2>3. /\ told' \in [1..Len(plan) -> {"nothing", "done", "failed"}]
        /\ at' \in 1..(Len(plan) + 1)
        /\ step' = "next"
    BY <1>20 DEF TaskApproved, TellAndGoOn
  <2>4. /\ slot' \in BOOLEAN /\ parked' \in BOOLEAN /\ workerHot' \in BOOLEAN
        /\ UNCHANGED <<usedBefore, parkErr>>
    BY <1>20 DEF TaskApproved, ReleaseWorkerSlot
  <2>5. /\ tasksDone' \in Nat /\ reviews' \in Nat
        /\ seen' \in Nat /\ watches' \in Nat
        /\ reviewing' \in BOOLEAN /\ watching' \in BOOLEAN
    BY <1>20, NotifyFacts DEF TaskApproved
  <2> QED
    BY <1>20, <2>2, <2>3, <2>4, <2>5 DEF TaskApproved, taskVars
<1>21. CASE TaskAccepted
  <2>1. Task.id \in TaskIDs
    BY <1>21, TaskTyped DEF TaskAccepted
  <2>2. rows' \in [TaskIDs -> RowStates]
    BY <1>21, <2>1, UpdateFacts DEF TaskAccepted, UpdateTaskStatus
  <2>3. /\ told' \in [1..Len(plan) -> {"nothing", "done", "failed"}]
        /\ at' \in 1..(Len(plan) + 1)
        /\ step' = "next"
    BY <1>21 DEF TaskAccepted, TellAndGoOn
  <2>4. /\ slot' \in BOOLEAN /\ parked' \in BOOLEAN /\ workerHot' \in BOOLEAN
        /\ UNCHANGED <<usedBefore, parkErr>>
    BY <1>21 DEF TaskAccepted, ReleaseWorkerSlot
  <2>5. /\ tasksDone' \in Nat /\ reviews' \in Nat
        /\ seen' \in Nat /\ watches' \in Nat
        /\ reviewing' \in BOOLEAN /\ watching' \in BOOLEAN
    BY <1>21, NotifyFacts DEF TaskAccepted
  <2> QED
    BY <1>21, <2>2, <2>3, <2>4, <2>5 DEF TaskAccepted, taskVars
<1>22. CASE TaskFailed
  <2>1. Task.id \in TaskIDs
    BY <1>22, TaskTyped DEF TaskFailed
  <2>2. rows' \in [TaskIDs -> RowStates]
    BY <1>22, <2>1, UpdateFacts DEF TaskFailed, UpdateTaskStatus
  <2>3. /\ told' \in [1..Len(plan) -> {"nothing", "done", "failed"}]
        /\ at' \in 1..(Len(plan) + 1)
        /\ step' = "next"
    BY <1>22 DEF TaskFailed, TellAndGoOn
  <2>4. /\ slot' \in BOOLEAN /\ parked' \in BOOLEAN /\ workerHot' \in BOOLEAN
        /\ UNCHANGED <<usedBefore, parkErr>>
    BY <1>22 DEF TaskFailed, ReleaseWorkerSlot
  <2> QED
    BY <1>22, <2>2, <2>3, <2>4 DEF TaskFailed
<1>23. CASE ReviewEnds
  <2>1. reviews' \in Nat
    BY <1>23 DEF ReviewEnds
  <2>2. reviewing' \in BOOLEAN
    BY <1>23 DEF ReviewEnds
  <2> QED
    BY <1>23, <2>1, <2>2 DEF ReviewEnds
<1>24. CASE CritiqueEnds
  <2>1. watches' \in Nat
    BY <1>24 DEF CritiqueEnds
  <2>2. watching' \in BOOLEAN
    BY <1>24 DEF CritiqueEnds
  <2> QED
    BY <1>24, <2>1, <2>2 DEF CritiqueEnds
<1>25. CASE UNCHANGED vars
  BY <1>25 DEF vars
<1>26. QED
  BY <1>1, <1>2, <1>3, <1>4, <1>5, <1>6, <1>7, <1>8, <1>9, <1>10,
     <1>11, <1>12, <1>13, <1>14, <1>15, <1>16, <1>17, <1>18, <1>19,
     <1>20, <1>21, <1>22, <1>23, <1>24, <1>25
  DEF Next, LeadStep, WorkerStep

(* The slot, the task in hand and the planning step. *)
LEMMA ControlStep ==
    TypeOK /\ SlotBalance /\ HandOK /\ LeadOK /\ [Next]_vars
        => SlotBalance' /\ HandOK' /\ LeadOK'
<1> SUFFICES ASSUME TypeOK, SlotBalance, HandOK, LeadOK, [Next]_vars
             PROVE  SlotBalance' /\ HandOK' /\ LeadOK'
  OBVIOUS
<1> USE DEF TypeOK, SlotBalance, HandOK, LeadOK, HandSteps, SlotSteps, Steps, Task,
           taskVars, vramVars, reviewVars
<1>1. CASE BossCommand
  BY <1>1 DEF BossCommand
<1>2. CASE StopCommand
  BY <1>2 DEF StopCommand
<1>3. CASE LeadEnds
  BY <1>3 DEF LeadEnds
<1>4. ASSUME NEW p \in Plans, LeadPlans(p) PROVE SlotBalance' /\ HandOK' /\ LeadOK'
  BY <1>4 DEF LeadPlans
<1>5. CASE PersistTasks
  BY <1>5 DEF PersistTasks
<1>6. CASE NextTask
  BY <1>6 DEF NextTask
<1>7. CASE AllTasksHandled
  BY <1>7 DEF AllTasksHandled
<1>8. CASE SummaryEnds
  BY <1>8 DEF SummaryEnds
<1>9. CASE AcquireSlot
  BY <1>9 DEF AcquireSlot
<1>10. CASE AcquireCancelled
  BY <1>10 DEF AcquireCancelled, TellAndGoOn
<1>11. CASE ParkLead
  BY <1>11 DEF ParkLead
<1>12. CASE StartTask
  BY <1>12 DEF StartTask, UpdateTaskStatus
<1>13. CASE SpawnFails
  BY <1>13 DEF SpawnFails, TellAndGoOn, ReleaseWorkerSlot
<1>14. CASE SpawnWorker
  BY <1>14 DEF SpawnWorker
<1>15. ASSUME NEW o \in Outputs, WorkerAnswers(o) PROVE SlotBalance' /\ HandOK' /\ LeadOK'
  BY <1>15 DEF WorkerAnswers
<1>16. CASE WorkerFails
  BY <1>16 DEF WorkerFails, NextAttempt
<1>17. CASE VerifyFails
  BY <1>17 DEF VerifyFails
<1>18. CASE VerdictApproved
  BY <1>18 DEF VerdictApproved
<1>19. CASE VerdictCorrection
  BY <1>19 DEF VerdictCorrection, NextAttempt
<1>20. CASE TaskApproved
  BY <1>20 DEF TaskApproved, TellAndGoOn, ReleaseWorkerSlot,
              UpdateTaskStatus
<1>21. CASE TaskAccepted
  BY <1>21 DEF TaskAccepted, TellAndGoOn, ReleaseWorkerSlot,
              UpdateTaskStatus
<1>22. CASE TaskFailed
  BY <1>22 DEF TaskFailed, TellAndGoOn, ReleaseWorkerSlot, UpdateTaskStatus
<1>23. CASE ReviewEnds
  BY <1>23 DEF ReviewEnds
<1>24. CASE CritiqueEnds
  BY <1>24 DEF CritiqueEnds
<1>25. CASE UNCHANGED vars
  BY <1>25 DEF vars
<1>26. QED
  BY <1>1, <1>2, <1>3, <1>4, <1>5, <1>6, <1>7, <1>8, <1>9, <1>10,
     <1>11, <1>12, <1>13, <1>14, <1>15, <1>16, <1>17, <1>18, <1>19,
     <1>20, <1>21, <1>22, <1>23, <1>24, <1>25
  DEF Next, LeadStep, WorkerStep

(* The flags of the two background loops. *)
LEMMA FlagsStep == TypeOK /\ FlagsOK /\ [Next]_vars => FlagsOK'
<1> SUFFICES ASSUME TypeOK, FlagsOK, [Next]_vars PROVE FlagsOK'
  OBVIOUS
<1> USE DEF TypeOK, FlagsOK,
           taskVars, vramVars, reviewVars
<1>1. CASE BossCommand
  BY <1>1 DEF BossCommand
<1>2. CASE StopCommand
  BY <1>2 DEF StopCommand
<1>3. CASE LeadEnds
  BY <1>3 DEF LeadEnds
<1>4. ASSUME NEW p \in Plans, LeadPlans(p) PROVE FlagsOK'
  BY <1>4 DEF LeadPlans
<1>5. CASE PersistTasks
  BY <1>5 DEF PersistTasks
<1>6. CASE NextTask
  BY <1>6 DEF NextTask
<1>7. CASE AllTasksHandled
  BY <1>7 DEF AllTasksHandled
<1>8. CASE SummaryEnds
  BY <1>8 DEF SummaryEnds
<1>9. CASE AcquireSlot
  BY <1>9 DEF AcquireSlot
<1>10. CASE AcquireCancelled
  BY <1>10 DEF AcquireCancelled, TellAndGoOn
<1>11. CASE ParkLead
  BY <1>11 DEF ParkLead
<1>12. CASE StartTask
  BY <1>12 DEF StartTask, UpdateTaskStatus
<1>13. CASE SpawnFails
  BY <1>13 DEF SpawnFails, TellAndGoOn, ReleaseWorkerSlot
<1>14. CASE SpawnWorker
  BY <1>14 DEF SpawnWorker
<1>15. ASSUME NEW o \in Outputs, WorkerAnswers(o) PROVE FlagsOK'
  BY <1>15 DEF WorkerAnswers
<1>16. CASE WorkerFails
  BY <1>16 DEF WorkerFails, NextAttempt
<1>17. CASE VerifyFails
  BY <1>17 DEF VerifyFails
<1>18. CASE VerdictApproved
  BY <1>18 DEF VerdictApproved
<1>19. CASE VerdictCorrection
  BY <1>19 DEF VerdictCorrection, NextAttempt
<1>20. CASE TaskApproved
  BY <1>20, NotifyFacts DEF TaskApproved
<1>21. CASE TaskAccepted
  BY <1>21, NotifyFacts DEF TaskAccepted
<1>22. CASE TaskFailed
  BY <1>22 DEF TaskFailed, TellAndGoOn, ReleaseWorkerSlot, UpdateTaskStatus
<1>23. CASE ReviewEnds
  BY <1>23 DEF ReviewEnds
<1>24. CASE CritiqueEnds
  BY <1>24 DEF CritiqueEnds
<1>25. CASE UNCHANGED vars
  BY <1>25 DEF vars
<1>26. QED
  BY <1>1, <1>2, <1>3, <1>4, <1>5, <1>6, <1>7, <1>8, <1>9, <1>10,
     <1>11, <1>12, <1>13, <1>14, <1>15, <1>16, <1>17, <1>18, <1>19,
     <1>20, <1>21, <1>22, <1>23, <1>24, <1>25
  DEF Next, LeadStep, WorkerStep

(* What the Boss was told. *)
LEMMA ToldStep ==
    TypeOK /\ HandOK /\ LeadOK /\ OutcomesTold /\ [Next]_vars => OutcomesTold'
<1> SUFFICES ASSUME TypeOK, HandOK, LeadOK, OutcomesTold, [Next]_vars
             PROVE  OutcomesTold'
  OBVIOUS
<1> USE DEF TypeOK, HandOK, LeadOK, OutcomesTold, HandSteps, SlotSteps, Task,
           taskVars, vramVars, reviewVars
<1>1. CASE BossCommand
  BY <1>1 DEF BossCommand
<1>2. CASE StopCommand
  BY <1>2 DEF StopCommand
<1>3. CASE LeadEnds
  BY <1>3 DEF LeadEnds
<1>4. ASSUME NEW p \in Plans, LeadPlans(p) PROVE OutcomesTold'
  BY <1>4, PlansAssumption DEF LeadPlans
<1>5. CASE PersistTasks
  BY <1>5 DEF PersistTasks
<1>6. CASE NextTask
  BY <1>6 DEF NextTask
<1>7. CASE AllTasksHandled
  BY <1>7 DEF AllTasksHandled
<1>8. CASE SummaryEnds
  BY <1>8 DEF SummaryEnds
<1>9. CASE AcquireSlot
  BY <1>9 DEF AcquireSlot
<1>10. CASE AcquireCancelled
  BY <1>10 DEF AcquireCancelled, TellAndGoOn
<1>11. CASE ParkLead
  BY <1>11 DEF ParkLead
<1>12. CASE StartTask
  BY <1>12 DEF StartTask, UpdateTaskStatus
<1>13. CASE SpawnFails
  BY <1>13 DEF SpawnFails, TellAndGoOn, ReleaseWorkerSlot
<1>14. CASE SpawnWorker
  BY <1>14 DEF SpawnWorker
<1>15. ASSUME NEW o \in Outputs, WorkerAnswers(o) PROVE OutcomesTold'
  BY <1>15 DEF WorkerAnswers
<1>16. CASE WorkerFails
  BY <1>16 DEF WorkerFails, NextAttempt
<1>17. CASE VerifyFails
  BY <1>17 DEF VerifyFails
<1>18. CASE VerdictApproved
  BY <1>18 DEF VerdictApproved
<1>19. CASE VerdictCorrection
  BY <1>19 DEF VerdictCorrection, NextAttempt
<1>20. CASE TaskApproved
  BY <1>20 DEF TaskApproved, TellAndGoOn, ReleaseWorkerSlot
<1>21. CASE TaskAccepted
  BY <1>21 DEF TaskAccepted, TellAndGoOn, ReleaseWorkerSlot
<1>22. CASE TaskFailed
  BY <1>22 DEF TaskFailed, TellAndGoOn, ReleaseWorkerSlot, UpdateTaskStatus
<1>23. CASE ReviewEnds
  BY <1>23 DEF ReviewEnds
<1>24. CASE CritiqueEnds
  BY <1>24 DEF CritiqueEnds
<1>25. CASE UNCHANGED vars
  BY <1>25 DEF vars
<1>26. QED
  BY <1>1, <1>2, <1>3, <1>4, <1>5, <1>6, <1>7, <1>8, <1>9, <1>10,
     <1>11, <1>12, <1>13, <1>14, <1>15, <1>16, <1>17, <1>18, <1>19,
     <1>20, <1>21, <1>22, <1>23, <1>24, <1>25
  DEF Next, LeadStep, WorkerStep

-----------------------------------------------------------------------------
RowsInv == RowsOK /\ OpenOK /\ ToldAgrees

(* While the command runs, an update sets the row of the task in hand.      *)
LEMMA RowUpdated ==
    ASSUME TypeOK, RowsOK, at <= Len(plan), step # "persist", ~stopped,
           NEW status \in {"in_progress", "done", "failed"},
           UpdateTaskStatus(Task.id, status)
    PROVE  /\ rows'[Task.id] = status
           /\ \A t \in TaskIDs : t # Task.id => rows'[t] = rows[t]
           /\ \A i \in 1..Len(plan) : rows'[plan[i].id] # "absent"
<1>1. Task.id \in TaskIDs /\ at \in 1..Len(plan)
  BY TaskTyped DEF TypeOK
<1>2. \A i \in 1..Len(plan) : plan[i].id \in TaskIDs
  BY PlanTyped
<1>3. rows \in [TaskIDs -> RowStates]
  BY DEF TypeOK
<1>4. \A i \in 1..Len(plan) : rows[plan[i].id] # "absent"
  BY DEF RowsOK
<1>5. rows[Task.id] # "absent"
  BY <1>1, <1>4 DEF Task
<1> QED
  BY <1>1, <1>2, <1>3, <1>4, <1>5, UpdateFacts

(* The rows and what the Boss was told. *)
LEMMA RowsStep ==
    TypeOK /\ OutcomesTold /\ RowsInv /\ [Next]_vars => RowsInv'
<1> SUFFICES ASSUME TypeOK, OutcomesTold, RowsInv, [Next]_vars PROVE RowsInv'
  OBVIOUS
<1> USE DEF TypeOK, RowsInv, RowsOK, OpenOK, ToldAgrees, OpenSteps, SlotSteps, Task,
           taskVars, vramVars, reviewVars
<1>1. CASE BossCommand
  <2>1. plan' = <<>> /\ step' = "lead"
    BY <1>1 DEF BossCommand
  <2> QED
    BY <2>1
<1>2. CASE StopCommand
  BY <1>2 DEF StopCommand
<1>3. CASE LeadEnds
  BY <1>3 DEF LeadEnds
<1>4. ASSUME NEW p \in Plans, LeadPlans(p) PROVE RowsInv'
  <2>1. /\ plan' = p /\ step' = "persist" /\ p \in Seq(Tasks)
        /\ told' = [i \in 1..Len(p) |-> "nothing"]
    BY <1>4, PlansAssumption DEF LeadPlans
  <2> QED
    BY <2>1
<1>5. CASE PersistTasks
  <2>1. /\ step' = "next" /\ UNCHANGED <<stopped, plan, told>>
        /\ rows' \in [TaskIDs -> RowStates]
    BY <1>5 DEF PersistTasks, taskVars, RowStates
  <2>2. ASSUME NEW i \in 1..Len(plan), ~stopped PROVE rows'[plan[i].id] # "absent"
    BY <1>5, <2>2, PlanTyped DEF PersistTasks
  <2>3. ASSUME NEW t \in TaskIDs, rows[t] # "absent" PROVE rows'[t] = rows[t]
    BY <1>5, <2>3 DEF PersistTasks
  <2>4. \A i \in 1..Len(plan) : plan[i].id \in TaskIDs
    BY PlanTyped
  <2> QED
    BY <2>1, <2>2, <2>3, <2>4
<1>6. CASE NextTask
  BY <1>6 DEF NextTask
<1>7. CASE AllTasksHandled
  BY <1>7 DEF AllTasksHandled
<1>8. CASE SummaryEnds
  BY <1>8 DEF SummaryEnds
<1>9. CASE AcquireSlot
  BY <1>9 DEF AcquireSlot
<1>10. CASE AcquireCancelled
  BY <1>10 DEF AcquireCancelled
<1>11. CASE ParkLead
  BY <1>11 DEF ParkLead
<1>12. CASE StartTask
  <2>1. /\ at <= Len(plan) /\ UNCHANGED <<stopped, plan>>
        /\ UpdateTaskStatus(Task.id, "in_progress")
    BY <1>12 DEF StartTask, taskVars
  <2>2. step' = "spawn" /\ UNCHANGED <<told, at>>
    BY <1>12 DEF StartTask
  <2>3. ASSUME ~stopped
        PROVE  /\ rows'[Task.id] = "in_progress"
               /\ \A t \in TaskIDs : t # Task.id => rows'[t] = rows[t]
               /\ \A i \in 1..Len(plan) : rows'[plan[i].id] # "absent"
    BY <1>12, <2>1, <2>3, RowUpdated DEF StartTask
  <2>4. /\ \A i \in 1..Len(plan) : plan[i].id \in TaskIDs
        /\ at \in 1..Len(plan)
    BY <2>1, PlanTyped
  <2>5. told[at] = "nothing"
    BY <2>4 DEF OutcomesTold
  <2>6. \A i \in 1..Len(plan) :
           told[i] # "nothing" => rows'[plan[i].id] = rows[plan[i].id]
                                  \/ stopped \/ plan[i].id = Task.id
    BY <2>3, <2>4
  <2> QED
    BY <2>1, <2>2, <2>3, <2>4, <2>5, <2>6
<1>13. CASE SpawnFails
  <2>1. /\ step' = "next" /\ UNCHANGED <<stopped, plan, rows>>
        /\ told' = [told EXCEPT ![at] = "failed"] /\ at \in 1..Len(plan)
        /\ ~stopped => rows[Task.id] = "in_progress"
    BY <1>13 DEF SpawnFails, TellAndGoOn
  <2> QED
    BY <1>13, <2>1 DEF SpawnFails
<1>14. CASE SpawnWorker
  BY <1>14 DEF SpawnWorker
<1>15. ASSUME NEW o \in Outputs, WorkerAnswers(o) PROVE RowsInv'
  BY <1>15 DEF WorkerAnswers
<1>16. CASE WorkerFails
  BY <1>16 DEF WorkerFails, NextAttempt
<1>17. CASE VerifyFails
  BY <1>17 DEF VerifyFails
<1>18. CASE VerdictApproved
  BY <1>18 DEF VerdictApproved
<1>19. CASE VerdictCorrection
  BY <1>19 DEF VerdictCorrection, NextAttempt
<1>20. CASE TaskApproved
  <2>1. /\ at <= Len(plan) /\ UNCHANGED <<stopped, plan>>
        /\ UpdateTaskStatus(Task.id, "done")
    BY <1>20 DEF TaskApproved, taskVars, TellAndGoOn
  <2>2. step' = "next" /\ told' = [told EXCEPT ![at] = "done"]
    BY <1>20 DEF TaskApproved, TellAndGoOn
  <2>3. ASSUME ~stopped
        PROVE  /\ rows'[Task.id] = "done"
               /\ \A t \in TaskIDs : t # Task.id => rows'[t] = rows[t]
               /\ \A i \in 1..Len(plan) : rows'[plan[i].id] # "absent"
    BY <1>20, <2>1, <2>3, RowUpdated DEF TaskApproved
  <2>4. /\ \A i \in 1..Len(plan) : plan[i].id \in TaskIDs
        /\ at \in 1..Len(plan)
    BY <2>1, PlanTyped
  <2>5. \A i \in 1..Len(plan) : told'[i] = IF i = at THEN "done" ELSE told[i]
    BY <2>2
  <2>6. ASSUME ~stopped, NEW i \in 1..Len(plan),
               \A j \in 1..Len(plan) : plan[j].id = plan[i].id => j = i
        PROVE  /\ told'[i] = "done" => rows'[plan[i].id] = "done"
               /\ told'[i] = "failed" =>
                     rows'[plan[i].id] \in {"in_progress", "failed"}
    <3>1. CASE i = at
      BY <2>3, <2>5, <2>6, <3>1
    <3>2. CASE i # at
      BY <2>3, <2>4, <2>5, <2>6, <3>2
    <3> QED
      BY <3>1, <3>2
  <2>7. RowsOK'
    BY <2>1, <2>3
  <2>8. OpenOK'
    BY <2>2
  <2>9. ToldAgrees'
    BY <2>1, <2>6
  <2> QED
    BY <2>7, <2>8, <2>9
<1>21. CASE TaskAccepted
  <2>1. /\ at <= Len(plan) /\ UNCHANGED <<stopped, plan>>
        /\ UpdateTaskStatus(Task.id, "done")
    BY <1>21 DEF TaskAccepted, taskVars, TellAndGoOn
  <2>2. step' = "next" /\ told' = [told EXCEPT ![at] = "done"]
    BY <1>21 DEF TaskAccepted, TellAndGoOn
  <2>3. ASSUME ~stopped
        PROVE  /\ rows'[Task.id] = "done"
               /\ \A t \in TaskIDs : t # Task.id => rows'[t] = rows[t]
               /\ \A i \in 1..Len(plan) : rows'[plan[i].id] # "absent"
    BY <1>21, <2>1, <2>3, RowUpdated DEF TaskAccepted
  <2>4. /\ \A i \in 1..Len(plan) : plan[i].id \in TaskIDs
        /\ at \in 1..Len(plan)
    BY <2>1, PlanTyped
  <2>5. \A i \in 1..Len(plan) : told'[i] = IF i = at THEN "done" ELSE told[i]
    BY <2>2
  <2>6. ASSUME ~stopped, NEW i \in 1..Len(plan),
               \A j \in 1..Len(plan) : plan[j].id = plan[i].id => j = i
        PROVE  /\ told'[i] = "done" => rows'[plan[i].id] = "done"
               /\ told'[i] = "failed" =>
                     rows'[plan[i].id] \in {"in_progress", "failed"}
    <3>1. CASE i = at
      BY <2>3, <2>5, <2>6, <3>1
    <3>2. CASE i # at
      BY <2>3, <2>4, <2>5, <2>6, <3>2
    <3> QED
      BY <3>1, <3>2
  <2>7. RowsOK'
    BY <2>1, <2>3
  <2>8. OpenOK'
    BY <2>2
  <2>9. ToldAgrees'
    BY <2>1, <2>6
  <2> QED
    BY <2>7, <2>8, <2>9
<1>22. CASE TaskFailed
  <2>1. /\ at <= Len(plan) /\ UNCHANGED <<stopped, plan>>
        /\ UpdateTaskStatus(Task.id, "failed")
    BY <1>22 DEF TaskFailed, taskVars, TellAndGoOn
  <2>2. step' = "next" /\ told' = [told EXCEPT ![at] = "failed"]
    BY <1>22 DEF TaskFailed, TellAndGoOn
  <2>3. ASSUME ~stopped
        PROVE  /\ rows'[Task.id] = "failed"
               /\ \A t \in TaskIDs : t # Task.id => rows'[t] = rows[t]
               /\ \A i \in 1..Len(plan) : rows'[plan[i].id] # "absent"
    BY <1>22, <2>1, <2>3, RowUpdated DEF TaskFailed
  <2>4. /\ \A i \in 1..Len(plan) : plan[i].id \in TaskIDs
        /\ at \in 1..Len(plan)
    BY <2>1, PlanTyped
  <2>5. \A i \in 1..Len(plan) : told'[i] = IF i = at THEN "failed" ELSE told[i]
    BY <2>2
  <2>6. ASSUME ~stopped, NEW i \in 1..Len(plan),
               \A j \in 1..Len(plan) : plan[j].id = plan[i].id => j = i
        PROVE  /\ told'[i] = "done" => rows'[plan[i].id] = "done"
               /\ told'[i] = "failed" =>
                     rows'[plan[i].id] \in {"in_progress", "failed"}
    <3>1. CASE i = at
      BY <2>3, <2>5, <2>6, <3>1
    <3>2. CASE i # at
      BY <2>3, <2>4, <2>5, <2>6, <3>2
    <3> QED
      BY <3>1, <3>2
  <2>7. RowsOK'
    BY <2>1, <2>3
  <2>8. OpenOK'
    BY <2>2
  <2>9. ToldAgrees'
    BY <2>1, <2>6
  <2> QED
    BY <2>7, <2>8, <2>9
<1>23. CASE ReviewEnds
  BY <1>23 DEF ReviewEnds
<1>24. CASE CritiqueEnds
  BY <1>24 DEF CritiqueEnds
<1>25. CASE UNCHANGED vars
  BY <1>25 DEF vars
<1>26. QED
  BY <1>1, <1>2, <1>3, <1>4, <1>5, <1>6, <1>7, <1>8, <1>9, <1>10,
     <1>11, <1>12, <1>13, <1>14, <1>15, <1>16, <1>17, <1>18, <1>19,
     <1>20, <1>21, <1>22, <1>23, <1>24, <1>25
  DEF Next, LeadStep, WorkerStep

-----------------------------------------------------------------------------
LEMMA InitInv == Init => IInv
<1> SUFFICES ASSUME Init PROVE IInv
  OBVIOUS
<1>1. plan = <<>> /\ plan \in Seq(Tasks) /\ Len(plan) = 0
  BY DEF Init
<1>2. told = <<>> /\ told \in [1..Len(plan) -> {"nothing", "done", "failed"}]
  BY <1>1 DEF Init
<1>3. /\ cmd \in 0..MaxCommands /\ attempt \in 0..MaxRetries
      /\ rows \in [TaskIDs -> RowStates]
  BY BoundAssumption DEF Init, RowStates
<1>4. /\ stopped \in BOOLEAN /\ slot \in BOOLEAN /\ parked \in BOOLEAN
      /\ workerHot \in BOOLEAN /\ usedBefore \in BOOLEAN /\ parkErr \in BOOLEAN
      /\ reviewing \in BOOLEAN /\ watching \in BOOLEAN
  BY DEF Init
<1>5. TypeOK
  BY <1>1, <1>2, <1>3, <1>4 DEF Init, TypeOK, Steps, SlotSteps, Outputs
<1>6. SlotBalance /\ HandOK /\ LeadOK /\ FlagsOK
  BY DEF Init, SlotBalance, HandOK, LeadOK, FlagsOK, SlotSteps, HandSteps
<1>7. OutcomesTold /\ RowsOK /\ OpenOK /\ ToldAgrees
  BY <1>1 DEF Init, OutcomesTold, RowsOK, OpenOK, ToldAgrees, OpenSteps
<1> QED
  BY <1>5, <1>6, <1>7 DEF IInv

(* The inductive invariant: the steps that hold the slot, the task in hand, *)
(* the background flags, what the Boss was told and what the rows say.      *)
THEOREM Invariance == Spec => []IInv
<1>1. IInv /\ [Next]_vars => IInv'
  BY TypeStep, ControlStep, FlagsStep, ToldStep, RowsStep DEF IInv, RowsInv
<1> QED
  BY InitInv, <1>1, PTL DEF Spec

(* Every variable keeps its type; a worker is tried at most MaxRetries + 1  *)
(* times.                                                                   *)
THEOREM TypeCorrect == Spec => []TypeOK
<1>1. IInv => TypeOK
  BY DEF IInv
<1> QED
  BY Invariance, <1>1, PTL

(* runWorkerTask returns the worker slot on every path and holds it on no   *)
(* other.                                                                   *)
THEOREM SlotBalanced == Spec => []SlotBalance
<1>1. IInv => SlotBalance
  BY DEF IInv
<1> QED
  BY Invariance, <1>1, PTL

(* HandleBossCommand tells one outcome of every specialist task, in order.  *)
THEOREM OutcomesToldOnce == Spec => []OutcomesTold
<1>1. IInv => OutcomesTold
  BY DEF IInv
<1> QED
  BY Invariance, <1>1, PTL

(* What the Boss hears of a task agrees with its row, unless the command    *)
(* was stopped or the identifier is used twice.                             *)
THEOREM RowsAgreeWithBoss == Spec => []ToldAgrees
<1>1. IInv => ToldAgrees
  BY DEF IInv
<1> QED
  BY Invariance, <1>1, PTL

(* The optimizer and the curiosity loop run one review each at a time.      *)
THEOREM ReviewsAlone == Spec => []OneReview
<1>1. IInv => OneReview
  BY DEF IInv, FlagsOK, OneReview
<1> QED
  BY Invariance, <1>1, PTL

=============================================================================
