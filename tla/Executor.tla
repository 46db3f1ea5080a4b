------------------------------ MODULE Executor ------------------------------
(***************************************************************************)
(* Start-up (src/main.rs), the tasks it spawns and the watchdog            *)
(* (src/wdog.rs, src/tasks/heartbeat.rs) on the thread executor of the     *)
(* embassy library, which is outside the repository: it polls one queued   *)
(* task at a time, and a task keeps the core until it awaits.  main is     *)
(* itself such a task, and the first one.                                  *)
(*                                                                         *)
(* The unit of time is the 500 ms period of the heartbeat; what a task     *)
(* does between two awaits, start-up included, takes less than that, so    *)
(* time passes when the core has nothing to do.                            *)
(***************************************************************************)
EXTENDS Integers

\* IWDG_TIMEOUT_US, in heartbeat periods.
WatchdogPeriods == 10

\* Up to the watchdog, from there to the first spawn, the four spawns and
\* the loop of WFI instructions at the end of main.
Stages == <<"init", "boot", "heartbeat", "shell", "motor", "canopen", "parked">>
SpawnedTasks == {"heartbeat", "shell", "motor", "canopen"}
Idle == "none"
Stopped == -1

VARIABLES
  stage,      \* where main is, an index into Stages
  running,    \* the task that has the core
  queued,     \* woken and not polled yet
  sleeping,   \* spawned, polled and waiting
  iwdg        \* periods until the watchdog fires; Stopped before it is started

exec_vars == <<stage, running, queued, sleeping, iwdg>>

ExecInit ==
  /\ stage = 1
  /\ running = "main"
  /\ queued = {}
  /\ sleeping = {}
  /\ iwdg = Stopped

\* main goes on; at the end it stays in its loop and never awaits.
MainStep ==
  /\ running = "main"
  /\ stage < 7
  /\ stage' = stage + 1
  /\ iwdg' = IF Stages[stage] = "init" THEN WatchdogPeriods ELSE iwdg
  /\ queued' = IF Stages[stage] \in SpawnedTasks THEN queued \cup {Stages[stage]} ELSE queued
  /\ UNCHANGED <<running, sleeping>>

Poll(task) ==
  /\ running = Idle
  /\ task \in queued
  /\ running' = task
  /\ queued' = queued \ {task}
  /\ UNCHANGED <<stage, sleeping, iwdg>>

\* A task runs up to its next await; the heartbeat pets the watchdog.
RunTask ==
  /\ running \in SpawnedTasks
  /\ iwdg' = IF running = "heartbeat" /\ iwdg # Stopped THEN WatchdogPeriods ELSE iwdg
  /\ sleeping' = sleeping \cup {running}
  /\ running' = Idle
  /\ UNCHANGED <<stage, queued>>

\* A timer or another interrupt wakes a task.
Wake(task) ==
  /\ task \in sleeping
  /\ sleeping' = sleeping \ {task}
  /\ queued' = queued \cup {task}
  /\ UNCHANGED <<stage, running, iwdg>>

\* The core waits for an interrupt.
Waiting ==
  \/ running = "main" /\ Stages[stage] = "parked"
  \/ running = Idle /\ queued = {}

\* Half a second passes, after which the timer of the heartbeat has fired.
HalfSecond ==
  /\ Waiting
  /\ iwdg > 0
  /\ iwdg' = iwdg - 1
  /\ sleeping' = sleeping \ {"heartbeat"}
  /\ queued' = IF "heartbeat" \in sleeping THEN queued \cup {"heartbeat"} ELSE queued
  /\ UNCHANGED <<stage, running>>

\* The watchdog resets the chip.
WatchdogReset ==
  /\ iwdg = 0
  /\ stage' = 1
  /\ running' = "main"
  /\ queued' = {}
  /\ sleeping' = {}
  /\ iwdg' = Stopped

ExecNext ==
  \/ MainStep \/ RunTask \/ HalfSecond \/ WatchdogReset
  \/ \E task \in SpawnedTasks : Poll(task) \/ Wake(task)

\* Interrupts arrive and the core does not stop.
ExecSpec == ExecInit /\ [][ExecNext]_exec_vars /\ WF_exec_vars(ExecNext)

-----------------------------------------------------------------------------
\* tasks/heartbeat.rs and wdog.rs: the heartbeat pets the watchdog every
\* 500 ms, and it fires only when the heartbeat stops; nothing here stops it.
WatchdogFed == iwdg # 0

=============================================================================
