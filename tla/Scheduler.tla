------------------------------ MODULE Scheduler ------------------------------
(***************************************************************************)
(* sched::Scheduler and sched::Task (src/kernel/sched), cooperative tasks  *)
(* on one CPU.                                                             *)
(*                                                                         *)
(* A task is the memory of its Task object and its stack: the same memory  *)
(* serves another task after `delete`.  pc is what the running context     *)
(* does next; ctx[t] is what switch_tasks_impl stored on the stack of a    *)
(* context that does not run.  The list of tasks is the sequence of its    *)
(* nodes from _some on; IntrusiveCircularList shows that the linked nodes  *)
(* behave so.  Interrupt handlers use nothing of the scheduler, so only    *)
(* the interrupt flag itself is part of the model: the CPU's (flags) and   *)
(* the copy of it that irq.cpp keeps (interrupts_enabled).                 *)
(***************************************************************************)
EXTENDS Naturals, SequencesExt

CONSTANTS
  Task,             \* memory for Task objects
  scheduler_task,   \* the first task the constructor creates
  main              \* the second one, which runs main_continuation

ASSUME TaskAssumption ==
  /\ IsFiniteSet(Task)
  /\ scheduler_task \in Task
  /\ main \in Task \ {scheduler_task}

VARIABLES
  _tasks,               \* the nodes of the list, from _some on
  _finished_tasks,      \* as in the code, front first
  _current,             \* as in the code
  _exited,              \* _exited[t] of the tasks
  live,                 \* the tasks whose memory is allocated
  ctx,                  \* ctx[t]: where t resumes and the flags popfl loads
  it,                   \* the iterator over _tasks in schedule_forever
  flags,                \* the CPU's interrupt flag
  interrupts_enabled,   \* the copy that irq.cpp keeps
  pc,                   \* what the running context does next
  due                   \* history: tasks this pass over _tasks has yet to run

vars == <<_tasks, _finished_tasks, _current, _exited, live, ctx, it, flags,
          interrupts_enabled, pc, due>>

-----------------------------------------------------------------------------
(* Interrupt flag, irq.cpp.                                                *)

\* enable() and disable(): nothing can run between their two assignments,
\* as the CPU's flag is clear there.
irq_enable == flags' = TRUE /\ interrupts_enabled' = TRUE
irq_disable == flags' = FALSE /\ interrupts_enabled' = FALSE

\* is_enabled() panics when the copy is wrong, and its callers panic when
\* it returns false.
RequireEnabled == flags /\ interrupts_enabled

Panic == pc' = "panic"

-----------------------------------------------------------------------------
(* The list of tasks.                                                      *)

\* Mutant of Insert: new tasks go to the end of the circle.
InsertLast(list, t) == Append(list, t)

\* insert(): behind _some.
Insert(list, t) == <<Head(list), t>> \o Tail(list)

\* remove(): _some moves on to the next node if it is removed.
Unlink(list, t) == RemoveAt(list, CHOOSE i \in DOMAIN list : list[i] = t)

\* Mutant of AtEnd: begin() already compares equal to end().
AtSome == it.node = Head(_tasks)

\* The iterator compares equal to end(): back at _some, having moved.
AtEnd == it.node = Head(_tasks) /\ it.shifted

\* operator++: the node's successor in the circle.
Shifted ==
  LET i == CHOOSE j \in DOMAIN _tasks : _tasks[j] = it.node
  IN  [node |-> _tasks[(i % Len(_tasks)) + 1], shifted |-> TRUE]

\* Mutant of should_schedule: finished tasks are scheduled.
should_schedule_any(t) == t # scheduler_task

should_schedule(t) == t # scheduler_task /\ ~_exited[t]

-----------------------------------------------------------------------------
\* The context of a task that create_task prepared: it starts in Task::run
\* with the flags of its creator.
NewTaskStack(f) == [at |-> "new", flags |-> f]

\* The constructor: it creates both tasks under the interrupt lock.
Init ==
  /\ _tasks = <<scheduler_task, main>>
  /\ _finished_tasks = <<>>
  /\ _current = scheduler_task
  /\ _exited = [t \in Task |-> FALSE]
  /\ live = {scheduler_task, main}
  /\ ctx = [t \in Task |-> NewTaskStack(FALSE)]
  /\ it = [node |-> scheduler_task, shifted |-> FALSE]
  /\ flags = TRUE
  /\ interrupts_enabled = TRUE
  /\ pc = "start"
  /\ due = {}

\* switch_tasks_impl(prev, next): prev's stack pointer is stored before
\* next's is loaded, which matters when the two are the same task.
switch_tasks_impl(prev, next, at) ==
  LET saved == [ctx EXCEPT ![prev] = [at |-> at, flags |-> FALSE]]
  IN  /\ ctx' = saved
      /\ pc' = saved[next].at
      /\ flags' = saved[next].flags

\* switch_to(task); the context left behind goes on at `at`, inside
\* switch_to, with irq::enable.
switch_to(task, at) ==
  IF ~RequireEnabled
  THEN Panic /\ UNCHANGED <<_current, ctx, flags, interrupts_enabled>>
  ELSE /\ interrupts_enabled' = FALSE
       /\ _current' = task
       /\ switch_tasks_impl(_current, task, at)

-----------------------------------------------------------------------------
(* The scheduler's context.                                                *)

\* start_scheduling(): a switch into itself, which makes the boot stack the
\* context of the scheduler task.
start_scheduling ==
  /\ pc = "start"
  /\ switch_to(scheduler_task, "started")
  /\ UNCHANGED <<_tasks, _finished_tasks, _exited, live, it, due>>

\* That switch_to() enables interrupts and returns.
StartReturns ==
  /\ pc = "started"
  /\ irq_enable
  /\ pc' = "schedule_forever"
  /\ UNCHANGED <<_tasks, _finished_tasks, _current, _exited, live, ctx, it, due>>

\* schedule_forever() up to its loop.
schedule_forever ==
  /\ pc = "schedule_forever"
  /\ IF RequireEnabled THEN pc' = "pass" ELSE Panic
  /\ UNCHANGED <<_tasks, _finished_tasks, _current, _exited, live, ctx, it, flags,
                 interrupts_enabled, due>>

\* The loop over _tasks begins.
BeginPass ==
  /\ pc = "pass"
  /\ irq_disable
  /\ it' = [node |-> Head(_tasks), shifted |-> FALSE]
  /\ pc' = "iterate"
  /\ due' = {t \in ToSet(_tasks) : should_schedule(t)}
  /\ UNCHANGED <<_tasks, _finished_tasks, _current, _exited, live, ctx>>

\* `continue`
SkipTask ==
  /\ pc = "iterate"
  /\ ~AtEnd
  /\ ~should_schedule(it.node)
  /\ it' = Shifted
  /\ UNCHANGED <<_tasks, _finished_tasks, _current, _exited, live, ctx, flags,
                 interrupts_enabled, pc, due>>

PickTask ==
  /\ pc = "iterate"
  /\ ~AtEnd
  /\ should_schedule(it.node)
  /\ irq_enable
  /\ pc' = "switch"
  /\ UNCHANGED <<_tasks, _finished_tasks, _current, _exited, live, ctx, it, due>>

SwitchToTask ==
  /\ pc = "switch"
  /\ switch_to(it.node, "returned")
  /\ due' = due \ {it.node}
  /\ UNCHANGED <<_tasks, _finished_tasks, _exited, live, it>>

\* The task yielded: switch_to() enables interrupts and returns.
SwitchReturns ==
  /\ pc = "returned"
  /\ irq_enable
  /\ pc' = "advance"
  /\ UNCHANGED <<_tasks, _finished_tasks, _current, _exited, live, ctx, it, due>>

Advance ==
  /\ pc = "advance"
  /\ irq_disable
  /\ it' = Shifted
  /\ pc' = "iterate"
  /\ UNCHANGED <<_tasks, _finished_tasks, _current, _exited, live, ctx, due>>

\* The end of a pass: handle_finished_tasks() is called; its lock nests in the
\* irq::disable around it.
EndPass ==
  /\ pc = "iterate"
  /\ AtEnd
  /\ pc' = "delete"
  /\ UNCHANGED <<_tasks, _finished_tasks, _current, _exited, live, ctx, it, flags,
                 interrupts_enabled, due>>

\* Mutant of handle_finished_tasks: deleted tasks stay in the list.
DeleteOnly ==
  /\ pc = "delete"
  /\ _finished_tasks # <<>>
  /\ live' = live \ {Head(_finished_tasks)}
  /\ _finished_tasks' = Tail(_finished_tasks)
  /\ UNCHANGED <<_tasks, _current, _exited, ctx, it, flags, interrupts_enabled,
                 pc, due>>

\* Mutant of handle_finished_tasks: only the first task is deleted, but the
\* whole list is cleared.
DeleteFirst ==
  /\ pc = "delete"
  /\ _finished_tasks # <<>>
  /\ _tasks' = Unlink(_tasks, Head(_finished_tasks))
  /\ live' = live \ {Head(_finished_tasks)}
  /\ _finished_tasks' = <<>>
  /\ UNCHANGED <<_current, _exited, ctx, it, flags, interrupts_enabled, pc, due>>

\* The loop unlinks and deletes one finished task; what _finished_tasks has
\* left are those that it has yet to visit, as clear() drops them all.
handle_finished_tasks ==
  /\ pc = "delete"
  /\ _finished_tasks # <<>>
  /\ _tasks' = Unlink(_tasks, Head(_finished_tasks))
  /\ live' = live \ {Head(_finished_tasks)}
  /\ _finished_tasks' = Tail(_finished_tasks)
  /\ UNCHANGED <<_current, _exited, ctx, it, flags, interrupts_enabled, pc, due>>

\* handle_finished_tasks() returns.
FinishedAreDeleted ==
  /\ pc = "delete"
  /\ _finished_tasks = <<>>
  /\ irq_enable
  /\ pc' = "pass"
  /\ UNCHANGED <<_tasks, _finished_tasks, _current, _exited, live, ctx, it, due>>

-----------------------------------------------------------------------------
(* The other tasks' contexts.                                              *)

\* Mutant of run: it does not enable interrupts.
RunWithoutEnable ==
  /\ pc = "new"
  /\ pc' = IF _current = scheduler_task THEN "schedule_forever" ELSE "routine"
  /\ UNCHANGED <<_tasks, _finished_tasks, _current, _exited, live, ctx, it,
                 flags, interrupts_enabled, due>>

\* Task::run() up to its routine.
run ==
  /\ pc = "new"
  /\ irq_enable
  /\ pc' = IF _current = scheduler_task THEN "schedule_forever" ELSE "routine"
  /\ UNCHANGED <<_tasks, _finished_tasks, _current, _exited, live, ctx, it, due>>

\* The task's routine calls create_task(): `new Task` takes free memory.
create_task(t) ==
  /\ pc = "routine"
  /\ t \notin live
  /\ live' = live \cup {t}
  /\ _exited' = [_exited EXCEPT ![t] = FALSE]
  /\ _tasks' = Insert(_tasks, t)
  /\ ctx' = [ctx EXCEPT ![t] = NewTaskStack(flags)]
  /\ UNCHANGED <<_finished_tasks, _current, it, flags, interrupts_enabled, pc, due>>

\* The routine, or the loop at the end of run(), yields.
yield ==
  /\ pc \in {"routine", "finished"}
  /\ switch_to(scheduler_task, "resumed")
  /\ UNCHANGED <<_tasks, _finished_tasks, _exited, live, it, due>>

\* switch_to() returns in a task that had yielded.
YieldReturns ==
  /\ pc = "resumed"
  /\ irq_enable
  /\ pc' = IF _exited[_current] THEN "finished" ELSE "routine"
  /\ UNCHANGED <<_tasks, _finished_tasks, _current, _exited, live, ctx, it, due>>

\* The routine returns (that of main never does): _exited.store(true).
RoutineReturns ==
  /\ pc = "routine"
  /\ _current # main
  /\ _exited' = [_exited EXCEPT ![_current] = TRUE]
  /\ pc' = "exited"
  /\ UNCHANGED <<_tasks, _finished_tasks, _current, live, ctx, it, flags,
                 interrupts_enabled, due>>

\* handle_exit() up to its yield().  push_front() does nothing when there is
\* no memory for a node, and handle_exit() does not look.
handle_exit ==
  /\ pc = "exited"
  /\ \/ _finished_tasks' = <<_current>> \o _finished_tasks
     \/ UNCHANGED _finished_tasks
  /\ pc' = "finished"
  /\ UNCHANGED <<_tasks, _current, _exited, live, ctx, it, flags,
                 interrupts_enabled, due>>

-----------------------------------------------------------------------------
SchedulerStep ==
  \/ start_scheduling
  \/ StartReturns
  \/ schedule_forever
  \/ BeginPass
  \/ SkipTask
  \/ PickTask
  \/ SwitchToTask
  \/ SwitchReturns
  \/ Advance
  \/ EndPass
  \/ handle_finished_tasks
  \/ FinishedAreDeleted

TaskStep ==
  \/ run
  \/ yield
  \/ YieldReturns
  \/ RoutineReturns
  \/ handle_exit

Next ==
  \/ SchedulerStep
  \/ TaskStep
  \/ \E t \in Task : create_task(t)

Spec == Init /\ [][Next]_vars

\* The CPU goes on, and every routine of main.cpp sooner or later yields.
Fairness ==
  /\ WF_vars(SchedulerStep \/ run \/ YieldReturns \/ handle_exit)
  /\ WF_vars(yield)

FairSpec == Spec /\ Fairness

-----------------------------------------------------------------------------
(* Properties.                                                             *)

\* No use of a deleted task: the running context (whose stack is the one
\* that interrupts use), the iterator while a pass is under way, the links of
\* the list and the finished tasks all refer to allocated tasks, and no task
\* is linked or deleted twice (scheduler.cpp:37-48 and 145-154).
NoDanglingTask ==
  /\ _current \in live
  /\ pc \in {"iterate", "switch", "returned", "advance"}
       => it.node \in ToSet(_tasks)
  /\ ToSet(_tasks) = live
  /\ IsInjective(_tasks)
  /\ ToSet(_finished_tasks) \subseteq live \ {scheduler_task, main}
  /\ IsInjective(_finished_tasks)

\* The panics "irq enabled state not synced", "switching while interrupts
\* are disabled" and "started scheduling with blocked interrupts" are
\* unreachable, though create_task() starts tasks with the CPU's flag set
\* and the copy clear (irq.cpp:180-186, scheduler.cpp:32-34, 85 and 90-94).
NeverPanics == pc # "panic"

\* A pass runs every task that was unfinished when it began exactly once,
\* while the tasks it runs insert new ones into the list it iterates over
\* (scheduler.cpp:37-47).
PassRunsEachTaskOnce ==
  /\ pc = "switch" => it.node \in due
  /\ pc = "iterate" /\ AtEnd => due = {}

\* Once the routine of a task has returned, the task is never switched to
\* again, so the yield() in handle_exit() does not return before the task
\* is deleted (task.cpp:54-59).
FinishedTaskIsLeft ==
  [][_current' # _current => ~_exited[_current']]_vars

\* Every unfinished task runs again and again.
TasksRun ==
  \A t \in Task \ {scheduler_task} :
    t \in live /\ ~_exited[t] ~> _current = t

\* Every task that handle_exit() has put on the list is deleted.
FinishedTasksAreDeleted ==
  \A t \in Task : t \in ToSet(_finished_tasks) ~> t \notin live
=============================================================================
