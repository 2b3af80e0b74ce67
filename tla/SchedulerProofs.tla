-------------------------- MODULE SchedulerProofs --------------------------
(***************************************************************************)
(* No deleted task is used, nothing panics and every pass runs every task  *)
(* once, for any number of tasks.                                          *)
(***************************************************************************)
EXTENDS Scheduler, SequenceTheorems, TLAPS

\* Where the scheduler's context and where the contexts of tasks may be.
SchedulerAt ==
  {"start", "started", "schedule_forever", "pass", "iterate", "switch",
   "returned", "advance", "delete"}

TaskAt == {"new", "routine", "resumed", "exited", "finished"}

\* Where a context that does not run may go on.
Places == {"new", "resumed", "returned", "started"}

Types ==
  /\ _tasks \in Seq(Task)
  /\ _finished_tasks \in Seq(Task)
  /\ _current \in Task
  /\ live \in SUBSET Task
  /\ _exited \in [Task -> BOOLEAN]
  /\ ctx \in [Task -> [at : Places, flags : BOOLEAN]]
  /\ it \in [node : Task, shifted : BOOLEAN]
  /\ flags \in BOOLEAN
  /\ interrupts_enabled \in BOOLEAN
  /\ pc \in SchedulerAt \cup TaskAt
  /\ due \in SUBSET Task

\* The scheduler's own task stays where _some points to.
ListInv ==
  /\ _tasks # <<>>
  /\ _tasks[1] = scheduler_task
  /\ IsInjective(_tasks)
  /\ ToSet(_tasks) = live
  /\ main \in live

FinishedInv ==
  /\ IsInjective(_finished_tasks)
  /\ \A t \in ToSet(_finished_tasks) :
       t \in live /\ t \notin {scheduler_task, main} /\ _exited[t]
  /\ ~_exited[scheduler_task]
  /\ ~_exited[main]

\* Who runs, and where the others resume: a task that runs was switched to
\* from the pass, and gives the CPU back to it.
ContextInv ==
  /\ _current \in live
  /\ pc \in SchedulerAt => _current = scheduler_task
  /\ pc \in TaskAt => /\ _current # scheduler_task
                      /\ it.node = _current
                      /\ ctx[scheduler_task].at = "returned"
  /\ \A t \in live \ {scheduler_task, _current} : ctx[t].at \in {"new", "resumed"}
  /\ pc \in {"new", "routine", "resumed"} => ~_exited[_current]
  /\ pc \in {"exited", "finished"} => _exited[_current]
  /\ pc = "exited" => _current \notin ToSet(_finished_tasks)
  /\ pc \in {"start", "schedule_forever", "pass", "switch", "advance", "routine",
             "exited", "finished"}
       => flags /\ interrupts_enabled

\* The unfinished tasks in the list from the i-th node on.
IsRest(i) ==
  \A t \in Task :
    t \in due <=> \E j \in DOMAIN _tasks : j >= i /\ _tasks[j] = t /\ should_schedule(t)

\* How far the pass has come.  New tasks are linked behind _some, hence before
\* the node that the iterator is at.
PassInv ==
  /\ pc = "iterate" =>
       \E i \in DOMAIN _tasks :
         /\ _tasks[i] = it.node
         /\ it.shifted \/ i = 1
         /\ IF it.shifted /\ i = 1 THEN due = {} ELSE IsRest(i)
  /\ pc = "switch" =>
       \E i \in DOMAIN _tasks :
         _tasks[i] = it.node /\ should_schedule(it.node) /\ IsRest(i)
  /\ pc \in {"returned", "advance"} \cup TaskAt =>
       \E i \in DOMAIN _tasks : i > 1 /\ _tasks[i] = it.node /\ IsRest(i + 1)

IInv == Types /\ ListInv /\ FinishedInv /\ ContextInv /\ PassInv

-----------------------------------------------------------------------------
(* The list.                                                               *)

\* insert() links the new node behind _some (intrusive_circular_list.hpp).
LEMMA InsertShifts ==
  ASSUME NEW list \in Seq(Task), list # <<>>, NEW t \in Task
  PROVE  /\ Insert(list, t) \in Seq(Task)
         /\ Len(Insert(list, t)) = Len(list) + 1
         /\ \A k \in 1 .. (Len(list) + 1) :
              Insert(list, t)[k] = IF k = 1 THEN list[1]
                                   ELSE IF k = 2 THEN t ELSE list[k - 1]
  BY DEF Insert

\* insert() adds the task to the circle, and no other.
LEMMA InsertAdds ==
  ASSUME NEW list \in Seq(Task), list # <<>>, NEW t \in Task
  PROVE  /\ ToSet(Insert(list, t)) = ToSet(list) \cup {t}
         /\ IsInjective(list) /\ t \notin ToSet(list) => IsInjective(Insert(list, t))
<1>. DEFINE new == Insert(list, t)
<1>1. /\ new \in Seq(Task)
      /\ Len(new) = Len(list) + 1
      /\ \A k \in 1 .. (Len(list) + 1) :
           new[k] = IF k = 1 THEN list[1] ELSE IF k = 2 THEN t ELSE list[k - 1]
  BY InsertShifts
<1>2. Len(list) \in Nat /\ Len(list) > 0 /\ DOMAIN list = 1 .. Len(list)
      /\ DOMAIN new = 1 .. (Len(list) + 1)
  BY <1>1
<1>. HIDE DEF new
<1>3. ToSet(new) \subseteq ToSet(list) \cup {t}
  BY <1>1, <1>2 DEF ToSet
<1>4. t \in ToSet(new)
  <2>1. 2 \in DOMAIN new /\ new[2] = t
    BY <1>1, <1>2
  <2>. QED BY <2>1 DEF ToSet
<1>5. ASSUME NEW i \in DOMAIN list
      PROVE  list[i] \in ToSet(new)
  <2>1. CASE i = 1
    BY <1>1, <1>2, <2>1 DEF ToSet
  <2>2. CASE i # 1
    <3>1. i + 1 \in DOMAIN new /\ new[i + 1] = list[i]
      BY <1>1, <1>2, <2>2
    <3>. QED BY <3>1 DEF ToSet
  <2>. QED BY <2>1, <2>2
<1>6. ASSUME IsInjective(list), t \notin ToSet(list)
      PROVE  IsInjective(new)
  <2>. SUFFICES ASSUME NEW a \in DOMAIN new, NEW b \in DOMAIN new, new[a] = new[b]
               PROVE  a = b
    BY DEF IsInjective
  <2>1. \A c, d \in 1 .. Len(list) : list[c] = list[d] => c = d
    BY <1>2, <1>6 DEF IsInjective
  <2>2. \A c \in 1 .. Len(list) : list[c] # t
    BY <1>2, <1>6 DEF ToSet
  <2>. DEFINE old(k) == IF k = 1 THEN 1 ELSE k - 1
  <2>3. \A k \in DOMAIN new : k # 2 => old(k) \in 1 .. Len(list) /\ new[k] = list[old(k)]
    BY <1>1, <1>2
  <2>4. 2 \in DOMAIN new /\ new[2] = t
    BY <1>1, <1>2
  <2>5. CASE a = 2 \/ b = 2
    BY <2>2, <2>3, <2>4, <2>5
  <2>6. CASE a # 2 /\ b # 2
    <3>1. old(a) = old(b)
      BY <2>1, <2>3, <2>6
    <3>. QED BY <1>2, <2>6, <3>1
  <2>. QED BY <2>5, <2>6
<1>. QED BY <1>3, <1>4, <1>5, <1>6 DEF ToSet, new

\* remove() closes the gap (intrusive_circular_list.hpp).
LEMMA UnlinkShifts ==
  ASSUME NEW list \in Seq(Task), IsInjective(list), NEW i \in DOMAIN list
  PROVE  /\ Unlink(list, list[i]) \in Seq(Task)
         /\ Len(Unlink(list, list[i])) = Len(list) - 1
         /\ \A k \in 1 .. (Len(list) - 1) :
              Unlink(list, list[i])[k] = IF k < i THEN list[k] ELSE list[k + 1]
<1>1. (CHOOSE j \in DOMAIN list : list[j] = list[i]) = i
  BY DEF IsInjective
<1>2. Unlink(list, list[i]) = SubSeq(list, 1, i - 1) \o SubSeq(list, i + 1, Len(list))
  BY <1>1 DEF Unlink, RemoveAt
<1>. DEFINE front == SubSeq(list, 1, i - 1)
            back == SubSeq(list, i + 1, Len(list))
<1>3. Len(list) \in Nat /\ i \in 1 .. Len(list)
  OBVIOUS
<1>4. /\ front \in Seq(Task)
      /\ Len(front) = i - 1
      /\ \A k \in 1 .. (i - 1) : front[k] = list[k]
  BY <1>3
<1>5. /\ back \in Seq(Task)
      /\ Len(back) = Len(list) - i
      /\ \A k \in 1 .. (Len(list) - i) : back[k] = list[k + i]
  BY <1>3
<1>. HIDE DEF front, back
<1>6. /\ front \o back \in Seq(Task)
      /\ Len(front \o back) = Len(list) - 1
  BY <1>3, <1>4, <1>5
<1>7. ASSUME NEW k \in 1 .. (Len(list) - 1)
      PROVE  (front \o back)[k] = IF k < i THEN list[k] ELSE list[k + 1]
  <2>1. CASE k < i
    <3>1. (front \o back)[k] = front[k]
      BY <1>3, <1>4, <1>5, <2>1, ConcatProperties
    <3>. QED BY <1>3, <1>4, <2>1, <3>1
  <2>2. CASE ~(k < i)
    <3>1. k - (i - 1) \in 1 .. (Len(list) - i) /\ (k - (i - 1)) + i = k + 1
      BY <1>3, <2>2
    <3>2. (front \o back)[k] = back[k - (i - 1)]
      BY <1>3, <1>4, <1>5, <2>2, ConcatProperties
    <3>. QED BY <1>5, <2>2, <3>1, <3>2
  <2>. QED BY <2>1, <2>2
<1>. QED BY <1>2, <1>6, <1>7 DEF front, back

\* remove() takes the task from the circle, and no other.
LEMMA UnlinkRemoves ==
  ASSUME NEW list \in Seq(Task), IsInjective(list), NEW i \in DOMAIN list
  PROVE  /\ ToSet(Unlink(list, list[i])) = ToSet(list) \ {list[i]}
         /\ IsInjective(Unlink(list, list[i]))
<1>. DEFINE new == Unlink(list, list[i])
<1>1. /\ new \in Seq(Task)
      /\ Len(new) = Len(list) - 1
      /\ \A k \in 1 .. (Len(list) - 1) :
           new[k] = IF k < i THEN list[k] ELSE list[k + 1]
  BY UnlinkShifts
<1>2. Len(list) \in Nat /\ i \in 1 .. Len(list) /\ DOMAIN list = 1 .. Len(list)
      /\ DOMAIN new = 1 .. (Len(list) - 1)
  BY <1>1
<1>. HIDE DEF new
<1>3. \A a, b \in 1 .. Len(list) : list[a] = list[b] => a = b
  BY <1>2 DEF IsInjective
<1>4. ASSUME NEW k \in DOMAIN new
      PROVE  new[k] \in ToSet(list) /\ new[k] # list[i]
  <2>1. CASE k < i
    <3>1. k \in DOMAIN list /\ new[k] = list[k] /\ k # i
      BY <1>1, <1>2, <2>1
    <3>. QED BY <1>2, <1>3, <3>1 DEF ToSet
  <2>2. CASE ~(k < i)
    <3>1. k + 1 \in DOMAIN list /\ new[k] = list[k + 1] /\ k + 1 # i
      BY <1>1, <1>2, <2>2
    <3>. QED BY <1>2, <1>3, <3>1 DEF ToSet
  <2>. QED BY <2>1, <2>2
<1>5. ASSUME NEW k \in DOMAIN list, k # i
      PROVE  list[k] \in ToSet(new)
  <2>1. CASE k < i
    <3>1. k \in DOMAIN new /\ new[k] = list[k]
      BY <1>1, <1>2, <2>1
    <3>. QED BY <3>1 DEF ToSet
  <2>2. CASE k > i
    <3>1. k - 1 \in DOMAIN new /\ new[k - 1] = list[k]
      BY <1>1, <1>2, <2>2
    <3>. QED BY <3>1 DEF ToSet
  <2>. QED BY <1>2, <1>5, <2>1, <2>2
<1>6. IsInjective(new)
  <2>. SUFFICES ASSUME NEW a \in DOMAIN new, NEW b \in DOMAIN new, new[a] = new[b]
               PROVE  a = b
    BY DEF IsInjective
  <2>. DEFINE old(k) == IF k < i THEN k ELSE k + 1
  <2>1. \A k \in DOMAIN new : old(k) \in 1 .. Len(list) /\ new[k] = list[old(k)]
    BY <1>1, <1>2
  <2>2. old(a) = old(b)
    BY <1>3, <2>1
  <2>. QED BY <1>2, <2>2
<1>7. ToSet(new) \subseteq ToSet(list) \ {list[i]}
  BY <1>4 DEF ToSet
<1>8. ToSet(list) \ {list[i]} \subseteq ToSet(new)
  BY <1>5 DEF ToSet
<1>. QED BY <1>6, <1>7, <1>8 DEF new

\* operator++ of the iterator moves along the circle
\* (intrusive_circular_list.hpp).
LEMMA ShiftedNode ==
  ASSUME _tasks \in Seq(Task), IsInjective(_tasks), NEW i \in DOMAIN _tasks,
         _tasks[i] = it.node
  PROVE  Shifted = [node |-> _tasks[IF i = Len(_tasks) THEN 1 ELSE i + 1],
                    shifted |-> TRUE]
<1>1. (CHOOSE j \in DOMAIN _tasks : _tasks[j] = it.node) = i
  BY DEF IsInjective
<1>2. (i % Len(_tasks)) + 1 = IF i = Len(_tasks) THEN 1 ELSE i + 1
  <2>1. Len(_tasks) \in Nat /\ i \in 1 .. Len(_tasks)
    OBVIOUS
  <2>2. CASE i = Len(_tasks)
    BY <2>1, <2>2, Z3
  <2>3. CASE i < Len(_tasks)
    BY <2>1, <2>3, Z3
  <2>. QED BY <2>1, <2>2, <2>3
<1>. QED BY <1>1, <1>2 DEF Shifted

-----------------------------------------------------------------------------
(* The invariant, action by action.                                        *)

\* The constructor.
LEMMA InitEstablishesInv == Init => IInv
<1>. SUFFICES ASSUME Init PROVE IInv
  OBVIOUS
<1>. USE TaskAssumption DEF Init
<1>1. Types
  BY DEF Types, NewTaskStack, SchedulerAt, Places
<1>2. ListInv
  BY DEF ListInv, IsInjective, ToSet
<1>3. FinishedInv
  BY DEF FinishedInv, IsInjective, ToSet
<1>4. ContextInv
  BY DEF ContextInv, SchedulerAt, TaskAt, NewTaskStack
<1>5. PassInv
  BY DEF PassInv, TaskAt
<1>. QED BY <1>1, <1>2, <1>3, <1>4, <1>5 DEF IInv

\* switch_to() when it does not panic: the context that is left goes on where
\* it was left, and the other one where it was left before.
LEMMA SwitchTo ==
  ASSUME Types, RequireEnabled, NEW task \in Task, NEW at \in Places,
         switch_to(task, at)
  PROVE  /\ ctx' \in [Task -> [at : Places, flags : BOOLEAN]]
         /\ ctx'[_current] = [at |-> at, flags |-> FALSE]
         /\ \A t \in Task \ {_current} : ctx'[t] = ctx[t]
         /\ pc' = ctx'[task].at
         /\ flags' = ctx'[task].flags
         /\ interrupts_enabled' = FALSE
         /\ _current' = task
<1>. DEFINE saved == [ctx EXCEPT ![_current] = [at |-> at, flags |-> FALSE]]
<1>1. /\ ctx' = saved
      /\ pc' = saved[task].at
      /\ flags' = saved[task].flags
      /\ interrupts_enabled' = FALSE
      /\ _current' = task
  BY DEF switch_to, switch_tasks_impl
<1>2. saved \in [Task -> [at : Places, flags : BOOLEAN]]
  BY DEF Types
<1>3. /\ saved[_current] = [at |-> at, flags |-> FALSE]
      /\ \A t \in Task \ {_current} : saved[t] = ctx[t]
  BY DEF Types
<1>. HIDE DEF saved
<1>. QED BY <1>1, <1>2, <1>3

\* The switch into itself (scheduler.cpp:54-57).
LEMMA start_schedulingKeepsInv == IInv /\ start_scheduling => IInv'
<1>. SUFFICES ASSUME IInv, start_scheduling PROVE IInv'
  OBVIOUS
<1>. USE TaskAssumption DEF IInv
<1>0. RequireEnabled /\ _current = scheduler_task
  BY DEF start_scheduling, ContextInv, SchedulerAt, RequireEnabled
<1>s. /\ ctx' \in [Task -> [at : Places, flags : BOOLEAN]]
      /\ ctx'[_current] = [at |-> "started", flags |-> FALSE]
      /\ \A t \in Task \ {_current} : ctx'[t] = ctx[t]
      /\ pc' = ctx'[scheduler_task].at
      /\ flags' = ctx'[scheduler_task].flags
      /\ interrupts_enabled' = FALSE
      /\ _current' = scheduler_task
  BY <1>0, SwitchTo DEF start_scheduling, Places
<1>t. pc' = "started" /\ flags' = FALSE
  BY <1>0, <1>s
<1>u. UNCHANGED <<_tasks, _finished_tasks, _exited, live, it, due>>
  BY DEF start_scheduling
<1>1. Types'
  BY <1>0, <1>s, <1>t, <1>u DEF Types, ListInv, ContextInv, SchedulerAt, TaskAt, Places
<1>2. ListInv'
  BY <1>0, <1>s, <1>t, <1>u DEF Types, ListInv
<1>3. FinishedInv'
  BY <1>0, <1>s, <1>t, <1>u DEF Types, FinishedInv, ContextInv, TaskAt, ToSet, IsInjective
<1>4. ContextInv'
  BY <1>0, <1>s, <1>t, <1>u DEF Types, ListInv, FinishedInv, ContextInv, PassInv, SchedulerAt, TaskAt, ToSet
<1>5. PassInv'
  BY <1>0, <1>s, <1>t, <1>u DEF Types, ListInv, ContextInv, PassInv, IsRest, should_schedule, SchedulerAt, TaskAt
<1>. QED BY <1>1, <1>2, <1>3, <1>4, <1>5

\* A task gives the CPU back to the pass (scheduler.cpp:125-129).
LEMMA yieldKeepsInv == IInv /\ yield => IInv'
<1>. SUFFICES ASSUME IInv, yield PROVE IInv'
  OBVIOUS
<1>. USE TaskAssumption DEF IInv
<1>0. RequireEnabled /\ _current # scheduler_task /\ ctx[scheduler_task].at = "returned"
  BY DEF yield, ContextInv, TaskAt, RequireEnabled
<1>s. /\ ctx' \in [Task -> [at : Places, flags : BOOLEAN]]
      /\ ctx'[_current] = [at |-> "resumed", flags |-> FALSE]
      /\ \A t \in Task \ {_current} : ctx'[t] = ctx[t]
      /\ pc' = ctx'[scheduler_task].at
      /\ flags' = ctx'[scheduler_task].flags
      /\ interrupts_enabled' = FALSE
      /\ _current' = scheduler_task
  BY <1>0, SwitchTo DEF yield, Places
<1>t. pc' = "returned" /\ flags' \in BOOLEAN
  BY <1>0, <1>s
<1>u. pc \in TaskAt /\ UNCHANGED <<_tasks, _finished_tasks, _exited, live, it, due>>
  BY DEF yield, TaskAt
<1>1. Types'
  BY <1>0, <1>s, <1>t, <1>u DEF Types, ListInv, ContextInv, SchedulerAt, TaskAt, Places
<1>2. ListInv'
  BY <1>0, <1>s, <1>t, <1>u DEF Types, ListInv
<1>3. FinishedInv'
  BY <1>0, <1>s, <1>t, <1>u DEF Types, FinishedInv, ContextInv, TaskAt, ToSet, IsInjective
<1>4. ContextInv'
  BY <1>0, <1>s, <1>t, <1>u DEF Types, ListInv, FinishedInv, ContextInv, PassInv, SchedulerAt, TaskAt, ToSet
<1>5. PassInv'
  BY <1>0, <1>s, <1>t, <1>u DEF Types, ListInv, ContextInv, PassInv, IsRest, should_schedule, SchedulerAt, TaskAt
<1>. QED BY <1>1, <1>2, <1>3, <1>4, <1>5

\* A task that has not finished goes on (scheduler.cpp:46).
LEMMA SwitchToTaskKeepsInv == IInv /\ SwitchToTask => IInv'
<1>. SUFFICES ASSUME IInv, SwitchToTask PROVE IInv'
  OBVIOUS
<1>. USE TaskAssumption DEF IInv
<1>0. RequireEnabled /\ _current = scheduler_task
  BY DEF SwitchToTask, ContextInv, SchedulerAt, RequireEnabled
<1>1a. PICK i \in DOMAIN _tasks :
        _tasks[i] = it.node /\ should_schedule(it.node) /\ IsRest(i)
  BY DEF SwitchToTask, PassInv
<1>1b. /\ it.node \in live \ {scheduler_task, _current}
       /\ ~_exited[it.node]
       /\ ctx[it.node].at \in {"new", "resumed"}
       /\ i > 1
  BY <1>0, <1>1a DEF Types, ListInv, ContextInv, ToSet, should_schedule
<1>s. /\ ctx' \in [Task -> [at : Places, flags : BOOLEAN]]
      /\ ctx'[_current] = [at |-> "returned", flags |-> FALSE]
      /\ \A t \in Task \ {_current} : ctx'[t] = ctx[t]
      /\ pc' = ctx'[it.node].at
      /\ flags' = ctx'[it.node].flags
      /\ interrupts_enabled' = FALSE
      /\ _current' = it.node
  BY <1>0, <1>1b, SwitchTo DEF SwitchToTask, Places, Types
<1>t. pc' \in {"new", "resumed"} /\ flags' \in BOOLEAN
  BY <1>0, <1>1b, <1>s DEF Types
<1>u. due' = due \ {it.node} /\ UNCHANGED <<_tasks, _finished_tasks, _exited, live, it>>
  BY DEF SwitchToTask
<1>1. Types'
  BY <1>0, <1>1b, <1>s, <1>t, <1>u DEF Types, ListInv, ContextInv, SchedulerAt, TaskAt, Places
<1>2. ListInv'
  BY <1>0, <1>1b, <1>s, <1>t, <1>u DEF Types, ListInv
<1>3. FinishedInv'
  BY <1>0, <1>1b, <1>s, <1>t, <1>u DEF Types, FinishedInv, ContextInv, TaskAt, ToSet, IsInjective
<1>4. ContextInv'
  BY <1>0, <1>1b, <1>s, <1>t, <1>u DEF Types, ListInv, FinishedInv, ContextInv, PassInv, SchedulerAt, TaskAt, ToSet
<1>5. PassInv'
  <2>1. ASSUME NEW t \in Task
        PROVE  t \in due' <=> \E j \in DOMAIN _tasks :
                                j >= i + 1 /\ _tasks[j] = t /\ should_schedule(t)
    <3>1. t \in due <=> \E j \in DOMAIN _tasks :
                          j >= i /\ _tasks[j] = t /\ should_schedule(t)
      BY <1>1a DEF IsRest
    <3>2. \A j \in DOMAIN _tasks : _tasks[j] = it.node => j = i
      BY <1>1a DEF ListInv, IsInjective
    <3>3. DOMAIN _tasks \subseteq Nat
      BY DEF Types
    <3>. QED BY <1>1a, <1>u, <3>1, <3>2, <3>3
  <2>2. IsRest(i + 1)'
    BY <1>u, <2>1 DEF IsRest, should_schedule
  <2>. QED BY <1>1a, <1>1b, <1>t, <1>u, <2>2 DEF PassInv, TaskAt
<1>. QED BY <1>1, <1>2, <1>3, <1>4, <1>5

\* The scheduler goes on on the boot stack (scheduler.cpp:57 and 102).
LEMMA StartReturnsKeepsInv == IInv /\ StartReturns => IInv'
<1>. SUFFICES ASSUME IInv, StartReturns PROVE IInv'
  OBVIOUS
<1>. USE TaskAssumption DEF IInv, StartReturns, irq_enable
<1>1. Types'
  BY DEF Types, ListInv, ContextInv, SchedulerAt, TaskAt, Places
<1>2. ListInv'
  BY DEF Types, ListInv
<1>3. FinishedInv'
  BY DEF Types, FinishedInv, ContextInv, TaskAt, ToSet, IsInjective
<1>4. ContextInv'
  BY DEF Types, ListInv, FinishedInv, ContextInv, PassInv, SchedulerAt, TaskAt, ToSet
<1>5. PassInv'
  BY DEF Types, ListInv, ContextInv, PassInv, IsRest, should_schedule, SchedulerAt, TaskAt
<1>. QED BY <1>1, <1>2, <1>3, <1>4, <1>5

\* schedule_forever() begins the first pass (scheduler.cpp:30-38).
LEMMA schedule_foreverKeepsInv == IInv /\ schedule_forever => IInv'
<1>. SUFFICES ASSUME IInv, schedule_forever PROVE IInv'
  OBVIOUS
<1>. USE TaskAssumption DEF IInv, schedule_forever, RequireEnabled
<1>0. flags /\ interrupts_enabled
  BY DEF ContextInv
<1>1. Types'
  BY <1>0 DEF Types, ListInv, ContextInv, SchedulerAt, TaskAt, Places
<1>2. ListInv'
  BY DEF Types, ListInv
<1>3. FinishedInv'
  BY <1>0 DEF Types, FinishedInv, ContextInv, TaskAt, ToSet, IsInjective
<1>4. ContextInv'
  BY <1>0 DEF Types, ListInv, FinishedInv, ContextInv, PassInv, SchedulerAt, TaskAt, ToSet
<1>5. PassInv'
  BY <1>0 DEF Types, ListInv, ContextInv, PassInv, IsRest, should_schedule, SchedulerAt, TaskAt
<1>. QED BY <1>1, <1>2, <1>3, <1>4, <1>5

\* The pass has found a task to run (scheduler.cpp:39-44).
LEMMA PickTaskKeepsInv == IInv /\ PickTask => IInv'
<1>. SUFFICES ASSUME IInv, PickTask PROVE IInv'
  OBVIOUS
<1>. USE TaskAssumption DEF IInv, PickTask, irq_enable, should_schedule, AtEnd
<1>1. Types'
  BY DEF Types, ListInv, ContextInv, SchedulerAt, TaskAt, Places
<1>2. ListInv'
  BY DEF Types, ListInv
<1>3. FinishedInv'
  BY DEF Types, FinishedInv, ContextInv, TaskAt, ToSet, IsInjective
<1>4. ContextInv'
  BY DEF Types, ListInv, FinishedInv, ContextInv, PassInv, SchedulerAt, TaskAt, ToSet
<1>5. PassInv'
  BY DEF Types, ListInv, ContextInv, PassInv, IsRest, should_schedule, SchedulerAt, TaskAt
<1>. QED BY <1>1, <1>2, <1>3, <1>4, <1>5

\* The task has yielded (scheduler.cpp:101-104).
LEMMA SwitchReturnsKeepsInv == IInv /\ SwitchReturns => IInv'
<1>. SUFFICES ASSUME IInv, SwitchReturns PROVE IInv'
  OBVIOUS
<1>. USE TaskAssumption DEF IInv, SwitchReturns, irq_enable
<1>1. Types'
  BY DEF Types, ListInv, ContextInv, SchedulerAt, TaskAt, Places
<1>2. ListInv'
  BY DEF Types, ListInv
<1>3. FinishedInv'
  BY DEF Types, FinishedInv, ContextInv, TaskAt, ToSet, IsInjective
<1>4. ContextInv'
  BY DEF Types, ListInv, FinishedInv, ContextInv, PassInv, SchedulerAt, TaskAt, ToSet
<1>5. PassInv'
  BY DEF Types, ListInv, ContextInv, PassInv, IsRest, should_schedule, SchedulerAt, TaskAt
<1>. QED BY <1>1, <1>2, <1>3, <1>4, <1>5

\* The pass is over (scheduler.cpp:49).
LEMMA EndPassKeepsInv == IInv /\ EndPass => IInv'
<1>. SUFFICES ASSUME IInv, EndPass PROVE IInv'
  OBVIOUS
<1>. USE TaskAssumption DEF IInv, EndPass, AtEnd
<1>1. Types'
  BY DEF Types, ListInv, ContextInv, SchedulerAt, TaskAt, Places
<1>2. ListInv'
  BY DEF Types, ListInv
<1>3. FinishedInv'
  BY DEF Types, FinishedInv, ContextInv, TaskAt, ToSet, IsInjective
<1>4. ContextInv'
  BY DEF Types, ListInv, FinishedInv, ContextInv, PassInv, SchedulerAt, TaskAt, ToSet
<1>5. PassInv'
  BY DEF Types, ListInv, ContextInv, PassInv, IsRest, should_schedule, SchedulerAt, TaskAt
<1>. QED BY <1>1, <1>2, <1>3, <1>4, <1>5

\* The next pass may begin (scheduler.cpp:50).
LEMMA FinishedAreDeletedKeepsInv == IInv /\ FinishedAreDeleted => IInv'
<1>. SUFFICES ASSUME IInv, FinishedAreDeleted PROVE IInv'
  OBVIOUS
<1>. USE TaskAssumption DEF IInv, FinishedAreDeleted, irq_enable
<1>1. Types'
  BY DEF Types, ListInv, ContextInv, SchedulerAt, TaskAt, Places
<1>2. ListInv'
  BY DEF Types, ListInv
<1>3. FinishedInv'
  BY DEF Types, FinishedInv, ContextInv, TaskAt, ToSet, IsInjective
<1>4. ContextInv'
  BY DEF Types, ListInv, FinishedInv, ContextInv, PassInv, SchedulerAt, TaskAt, ToSet
<1>5. PassInv'
  BY DEF Types, ListInv, ContextInv, PassInv, IsRest, should_schedule, SchedulerAt, TaskAt
<1>. QED BY <1>1, <1>2, <1>3, <1>4, <1>5

\* A new task starts (task.cpp:49-53).
LEMMA runKeepsInv == IInv /\ run => IInv'
<1>. SUFFICES ASSUME IInv, run PROVE IInv'
  OBVIOUS
<1>. USE TaskAssumption DEF IInv, run, irq_enable
<1>1. Types'
  BY DEF Types, ListInv, ContextInv, SchedulerAt, TaskAt, Places
<1>2. ListInv'
  BY DEF Types, ListInv
<1>3. FinishedInv'
  BY DEF Types, FinishedInv, ContextInv, TaskAt, ToSet, IsInjective
<1>4. ContextInv'
  BY DEF Types, ListInv, FinishedInv, ContextInv, PassInv, SchedulerAt, TaskAt, ToSet
<1>5. PassInv'
  BY DEF Types, ListInv, ContextInv, PassInv, IsRest, should_schedule, SchedulerAt, TaskAt
<1>. QED BY <1>1, <1>2, <1>3, <1>4, <1>5

\* A task goes on: it is none that has finished (scheduler.cpp:101-104).
LEMMA YieldReturnsKeepsInv == IInv /\ YieldReturns => IInv'
<1>. SUFFICES ASSUME IInv, YieldReturns PROVE IInv'
  OBVIOUS
<1>. USE TaskAssumption DEF IInv, YieldReturns, irq_enable
<1>1. Types'
  BY DEF Types, ListInv, ContextInv, SchedulerAt, TaskAt, Places
<1>2. ListInv'
  BY DEF Types, ListInv
<1>3. FinishedInv'
  BY DEF Types, FinishedInv, ContextInv, TaskAt, ToSet, IsInjective
<1>4. ContextInv'
  BY DEF Types, ListInv, FinishedInv, ContextInv, PassInv, SchedulerAt, TaskAt, ToSet
<1>5. PassInv'
  BY DEF Types, ListInv, ContextInv, PassInv, IsRest, should_schedule, SchedulerAt, TaskAt
<1>. QED BY <1>1, <1>2, <1>3, <1>4, <1>5

\* The routine of a task returns (task.cpp:53-56).
LEMMA RoutineReturnsKeepsInv == IInv /\ RoutineReturns => IInv'
<1>. SUFFICES ASSUME IInv, RoutineReturns PROVE IInv'
  OBVIOUS
<1>. USE TaskAssumption DEF IInv, RoutineReturns
<1>1. Types'
  BY DEF Types, ListInv, ContextInv, SchedulerAt, TaskAt, Places
<1>2. ListInv'
  BY DEF Types, ListInv
<1>3. FinishedInv'
  BY DEF Types, FinishedInv, ContextInv, TaskAt, ToSet, IsInjective
<1>4. ContextInv'
  BY DEF Types, ListInv, FinishedInv, ContextInv, PassInv, SchedulerAt, TaskAt, ToSet
<1>5. PassInv'
  <2>1. PICK i \in DOMAIN _tasks : i > 1 /\ _tasks[i] = it.node /\ IsRest(i + 1)
    BY DEF PassInv, TaskAt
  <2>2. \A j \in DOMAIN _tasks : _tasks[j] = _current => j = i
    BY <2>1 DEF ListInv, IsInjective, ContextInv, TaskAt
  <2>3. DOMAIN _tasks \subseteq Nat
    BY DEF Types
  <2>4. \A j \in DOMAIN _tasks :
          j >= i + 1 => (should_schedule(_tasks[j])' <=> should_schedule(_tasks[j]))
    BY <2>1, <2>2, <2>3 DEF should_schedule, Types
  <2>5. IsRest(i + 1)'
    BY <2>1, <2>4 DEF IsRest, should_schedule
  <2>. QED BY <2>1, <2>5 DEF PassInv, TaskAt
<1>. QED BY <1>1, <1>2, <1>3, <1>4, <1>5

\* A task that has finished is put on the list, once (scheduler.cpp:137-143).
LEMMA handle_exitKeepsInv == IInv /\ handle_exit => IInv'
<1>. SUFFICES ASSUME IInv, handle_exit PROVE IInv'
  OBVIOUS
<1>. USE TaskAssumption DEF IInv, handle_exit
<1>1. Types'
  <2>1. _finished_tasks' \in Seq(Task)
    <3>1. <<_current>> \in Seq(Task) /\ _finished_tasks \in Seq(Task)
      BY DEF Types
    <3>. QED BY <3>1, ConcatProperties
  <2>. QED BY <2>1 DEF Types, SchedulerAt, TaskAt
<1>2. ListInv'
  BY DEF Types, ListInv
<1>3. FinishedInv'
  <2>1. CASE UNCHANGED _finished_tasks
    BY <2>1 DEF FinishedInv
  <2>2. CASE _finished_tasks' = <<_current>> \o _finished_tasks
    <3>1. /\ Len(_finished_tasks) \in Nat
          /\ DOMAIN _finished_tasks = 1 .. Len(_finished_tasks)
          /\ DOMAIN _finished_tasks' = 1 .. (Len(_finished_tasks) + 1)
          /\ \A k \in 1 .. (Len(_finished_tasks) + 1) :
               _finished_tasks'[k] = IF k = 1 THEN _current ELSE _finished_tasks[k - 1]
      BY <2>2 DEF Types
    <3>2. /\ _current \notin ToSet(_finished_tasks)
          /\ _exited[_current]
          /\ _current \in live \ {scheduler_task, main}
      BY DEF ContextInv, FinishedInv, TaskAt
    <3>3. \A k \in 1 .. (Len(_finished_tasks) + 1) :
            k # 1 => k - 1 \in DOMAIN _finished_tasks
      BY <3>1
    <3>4. ToSet(_finished_tasks)' \subseteq ToSet(_finished_tasks) \cup {_current}
      <4>. SUFFICES ASSUME NEW k \in DOMAIN _finished_tasks'
                   PROVE  _finished_tasks'[k] \in ToSet(_finished_tasks) \cup {_current}
        BY DEF ToSet
      <4>1. CASE k = 1
        BY <3>1, <4>1
      <4>2. CASE k # 1
        BY <3>1, <3>3, <4>2 DEF ToSet
      <4>. QED BY <4>1, <4>2
    <3>5. IsInjective(_finished_tasks)'
      <4>. SUFFICES ASSUME NEW a \in DOMAIN _finished_tasks',
                          NEW b \in DOMAIN _finished_tasks',
                          _finished_tasks'[a] = _finished_tasks'[b]
                   PROVE  a = b
        BY DEF IsInjective
      <4>1. \A c, d \in DOMAIN _finished_tasks :
              _finished_tasks[c] = _finished_tasks[d] => c = d
        BY DEF FinishedInv, IsInjective
      <4>2. \A c \in DOMAIN _finished_tasks : _finished_tasks[c] # _current
        BY <3>2 DEF ToSet
      <4>3. CASE a = 1 \/ b = 1
        BY <3>1, <3>3, <4>2, <4>3
      <4>4. CASE a # 1 /\ b # 1
        <5>1. a - 1 = b - 1
          BY <3>1, <3>3, <4>1, <4>4
        <5>. QED BY <3>1, <5>1
      <4>. QED BY <4>3, <4>4
    <3>. QED BY <3>2, <3>4, <3>5 DEF FinishedInv
  <2>. QED BY <2>1, <2>2
<1>4. ContextInv'
  BY DEF Types, ListInv, FinishedInv, ContextInv, PassInv, SchedulerAt, TaskAt, ToSet
<1>5. PassInv'
  BY DEF Types, ListInv, ContextInv, PassInv, IsRest, should_schedule, SchedulerAt, TaskAt
<1>. QED BY <1>1, <1>2, <1>3, <1>4, <1>5

\* A pass begins at _some (scheduler.cpp:37-39).
LEMMA BeginPassKeepsInv == IInv /\ BeginPass => IInv'
<1>. SUFFICES ASSUME IInv, BeginPass PROVE IInv'
  OBVIOUS
<1>a. /\ Len(_tasks) \in Nat \ {0}
      /\ DOMAIN _tasks = 1 .. Len(_tasks)
      /\ Head(_tasks) = _tasks[1]
      /\ _tasks[1] = scheduler_task
  BY DEF IInv, Types, ListInv
<1>b. 1 \in DOMAIN _tasks
  BY <1>a
<1>0. it' = [node |-> _tasks[1], shifted |-> FALSE]
  BY <1>a DEF BeginPass
<1>d. due' \in SUBSET Task
  BY DEF BeginPass, IInv, Types, ToSet
<1>. USE TaskAssumption DEF IInv, BeginPass, irq_disable
<1>1. Types'
  <2>1. it' \in [node : Task, shifted : BOOLEAN]
    BY <1>0, <1>a
  <2>2. pc' \in SchedulerAt
    BY DEF SchedulerAt
  <2>. QED BY <2>1, <2>2, <1>d DEF Types
<1>2. ListInv'
  BY <1>0 DEF Types, ListInv
<1>3. FinishedInv'
  BY <1>0 DEF Types, FinishedInv, ContextInv, TaskAt, ToSet, IsInjective
<1>4. ContextInv'
  BY <1>0 DEF Types, ListInv, FinishedInv, ContextInv, PassInv, SchedulerAt, TaskAt, ToSet
<1>5. PassInv'
  <2>1. IsRest(1)'
    BY DEF IsRest, should_schedule, ToSet, Types
  <2>. QED BY <1>0, <1>b, <2>1 DEF PassInv, TaskAt
<1>. QED BY <1>1, <1>2, <1>3, <1>4, <1>5

\* The pass goes over a task that it does not run (scheduler.cpp:40-42).
LEMMA SkipTaskKeepsInv == IInv /\ SkipTask => IInv'
<1>. SUFFICES ASSUME IInv, SkipTask PROVE IInv'
  OBVIOUS
<1>. USE TaskAssumption DEF IInv, SkipTask
<1>0. PICK i \in DOMAIN _tasks :
        /\ _tasks[i] = it.node
        /\ it.shifted \/ i = 1
        /\ IF it.shifted /\ i = 1 THEN due = {} ELSE IsRest(i)
  BY DEF PassInv
<1>i. i \in Nat /\ Len(_tasks) \in Nat /\ i >= 1 /\ i <= Len(_tasks)
      /\ DOMAIN _tasks = 1 .. Len(_tasks)
  BY DEF Types
<1>n. it' = [node |-> _tasks[IF i = Len(_tasks) THEN 1 ELSE i + 1], shifted |-> TRUE]
  BY <1>0, ShiftedNode DEF Types, ListInv
<1>m. it'.node \in Task
  BY <1>i, <1>n DEF Types
<1>1. Types'
  BY <1>n, <1>m DEF Types, SchedulerAt, TaskAt, Places
<1>2. ListInv'
  BY DEF Types, ListInv
<1>3. FinishedInv'
  BY DEF Types, FinishedInv, ContextInv, TaskAt, ToSet, IsInjective
<1>4. ContextInv'
  BY DEF Types, ListInv, FinishedInv, ContextInv, PassInv, SchedulerAt, TaskAt, ToSet
<1>5. PassInv'
  <2>1. IsRest(i) /\ ~should_schedule(_tasks[i])
    BY <1>0, <1>i DEF AtEnd, ListInv, Types
  <2>2. IsRest(i + 1)
    BY <1>i, <2>1 DEF IsRest
  <2>3. IsRest(i + 1)'
    BY <2>2 DEF IsRest, should_schedule
  <2>4. CASE i = Len(_tasks)
    <3>1. due' = {}
      BY <1>i, <2>2, <2>4 DEF IsRest, Types
    <3>2. 1 \in DOMAIN _tasks /\ it'.node = _tasks[1] /\ it'.shifted
      BY <1>i, <1>n, <2>4
    <3>. QED BY <3>1, <3>2 DEF PassInv, TaskAt
  <2>5. CASE i # Len(_tasks)
    <3>1. i + 1 \in DOMAIN _tasks /\ it'.node = _tasks[i + 1] /\ it'.shifted /\ i + 1 # 1
      BY <1>i, <1>n, <2>5
    <3>. QED BY <2>3, <3>1 DEF PassInv, TaskAt
  <2>. QED BY <2>4, <2>5
<1>. QED BY <1>1, <1>2, <1>3, <1>4, <1>5

\* The pass goes on behind a task that has run (scheduler.cpp:47).
LEMMA AdvanceKeepsInv == IInv /\ Advance => IInv'
<1>. SUFFICES ASSUME IInv, Advance PROVE IInv'
  OBVIOUS
<1>. USE TaskAssumption DEF IInv, Advance, irq_disable
<1>0. PICK i \in DOMAIN _tasks :
        i > 1 /\ _tasks[i] = it.node /\ IsRest(i + 1)
  BY DEF PassInv
<1>i. i \in Nat /\ Len(_tasks) \in Nat /\ i >= 1 /\ i <= Len(_tasks)
      /\ DOMAIN _tasks = 1 .. Len(_tasks)
  BY DEF Types
<1>n. it' = [node |-> _tasks[IF i = Len(_tasks) THEN 1 ELSE i + 1], shifted |-> TRUE]
  BY <1>0, ShiftedNode DEF Types, ListInv
<1>m. it'.node \in Task
  BY <1>i, <1>n DEF Types
<1>1. Types'
  <2>1. it' \in [node : Task, shifted : BOOLEAN]
    BY <1>n, <1>m
  <2>2. pc' \in SchedulerAt
    BY DEF SchedulerAt
  <2>. QED BY <2>1, <2>2 DEF Types
<1>2. ListInv'
  BY DEF Types, ListInv
<1>3. FinishedInv'
  BY DEF Types, FinishedInv, ContextInv, TaskAt, ToSet, IsInjective
<1>4. ContextInv'
  BY DEF Types, ListInv, FinishedInv, ContextInv, PassInv, SchedulerAt, TaskAt, ToSet
<1>5. PassInv'
  <2>3. IsRest(i + 1)'
    BY <1>0 DEF IsRest, should_schedule
  <2>4. CASE i = Len(_tasks)
    <3>1. due' = {}
      BY <1>0, <1>i, <2>4 DEF IsRest, Types
    <3>2. 1 \in DOMAIN _tasks /\ it'.node = _tasks[1] /\ it'.shifted
      BY <1>i, <1>n, <2>4
    <3>. QED BY <3>1, <3>2 DEF PassInv, TaskAt
  <2>5. CASE i # Len(_tasks)
    <3>1. i + 1 \in DOMAIN _tasks /\ it'.node = _tasks[i + 1] /\ it'.shifted /\ i + 1 # 1
      BY <1>i, <1>n, <2>5
    <3>. QED BY <2>3, <3>1 DEF PassInv, TaskAt
  <2>. QED BY <2>4, <2>5
<1>. QED BY <1>1, <1>2, <1>3, <1>4, <1>5

\* A finished task is unlinked and deleted (scheduler.cpp:145-154).
LEMMA handle_finished_tasksKeepsInv == IInv /\ handle_finished_tasks => IInv'
<1>. SUFFICES ASSUME IInv, handle_finished_tasks PROVE IInv'
  OBVIOUS
<1>. USE TaskAssumption DEF IInv, handle_finished_tasks
<1>0. /\ Len(_finished_tasks) \in Nat \ {0}
      /\ DOMAIN _finished_tasks = 1 .. Len(_finished_tasks)
      /\ Head(_finished_tasks) = _finished_tasks[1]
      /\ Tail(_finished_tasks) \in Seq(Task)
      /\ DOMAIN Tail(_finished_tasks) = 1 .. (Len(_finished_tasks) - 1)
      /\ \A k \in 1 .. (Len(_finished_tasks) - 1) :
           Tail(_finished_tasks)[k] = _finished_tasks[k + 1]
  BY DEF Types
<1>f. _finished_tasks[1] \in live \ {scheduler_task, main}
  BY <1>0 DEF FinishedInv, ToSet
<1>i. PICK i \in DOMAIN _tasks : _tasks[i] = Head(_finished_tasks)
  BY <1>0, <1>f DEF ListInv, ToSet
<1>n. /\ _tasks' \in Seq(Task)
      /\ Len(_tasks') = Len(_tasks) - 1
      /\ \A k \in 1 .. (Len(_tasks) - 1) :
           _tasks'[k] = IF k < i THEN _tasks[k] ELSE _tasks[k + 1]
  BY <1>i, UnlinkShifts DEF Types, ListInv
<1>u. ToSet(_tasks') = ToSet(_tasks) \ {Head(_finished_tasks)} /\ IsInjective(_tasks')
  BY <1>i, UnlinkRemoves DEF Types, ListInv
<1>1. Types'
  BY <1>0, <1>n DEF Types
<1>2. ListInv'
  <2>1. i > 1 /\ Len(_tasks) \in Nat /\ i <= Len(_tasks)
    BY <1>0, <1>f, <1>i DEF ListInv, Types
  <2>2. _tasks'[1] = scheduler_task /\ _tasks' # <<>>
    BY <1>n, <2>1 DEF ListInv
  <2>. QED BY <1>0, <1>f, <1>u, <2>2 DEF ListInv
<1>3. FinishedInv'
  <2>1. \A k \in DOMAIN _finished_tasks' :
          k + 1 \in DOMAIN _finished_tasks /\ _finished_tasks'[k] = _finished_tasks[k + 1]
    BY <1>0
  <2>2. \A a, b \in DOMAIN _finished_tasks :
          _finished_tasks[a] = _finished_tasks[b] => a = b
    BY DEF FinishedInv, IsInjective
  <2>3. IsInjective(_finished_tasks)'
    <3>. SUFFICES ASSUME NEW a \in DOMAIN _finished_tasks',
                        NEW b \in DOMAIN _finished_tasks',
                        _finished_tasks'[a] = _finished_tasks'[b]
                 PROVE  a = b
      BY DEF IsInjective
    <3>1. a + 1 = b + 1
      BY <2>1, <2>2
    <3>. QED BY <1>0, <3>1
  <2>4. \A k \in DOMAIN _finished_tasks' : _finished_tasks'[k] # _finished_tasks[1]
    <3>. SUFFICES ASSUME NEW k \in DOMAIN _finished_tasks',
                        _finished_tasks'[k] = _finished_tasks[1]
                 PROVE  FALSE
      OBVIOUS
    <3>1. k + 1 = 1
      BY <1>0, <2>1, <2>2
    <3>. QED BY <1>0, <3>1
  <2>5. \A t \in ToSet(_finished_tasks)' :
          t \in ToSet(_finished_tasks) /\ t # Head(_finished_tasks)
    BY <1>0, <2>1, <2>4 DEF ToSet
  <2>. QED BY <2>3, <2>5 DEF FinishedInv
<1>4. ContextInv'
  BY <1>0, <1>f DEF ContextInv, SchedulerAt, TaskAt
<1>5. PassInv'
  BY DEF Types, ListInv, ContextInv, PassInv, IsRest, should_schedule, SchedulerAt, TaskAt
<1>. QED BY <1>1, <1>2, <1>3, <1>4, <1>5

\* A new task is linked behind _some, before the node the pass is at, and is
\* none that the pass has yet to run (scheduler.cpp:108-122).
LEMMA create_taskKeepsInv ==
  ASSUME IInv, NEW new \in Task, create_task(new)
  PROVE  IInv'
<1>. USE TaskAssumption DEF IInv, create_task
<1>l. /\ Len(_tasks) \in Nat \ {0}
      /\ DOMAIN _tasks = 1 .. Len(_tasks)
      /\ DOMAIN _tasks' = 1 .. (Len(_tasks) + 1)
      /\ _tasks' \in Seq(Task)
      /\ \A k \in 1 .. (Len(_tasks) + 1) :
           _tasks'[k] = IF k = 1 THEN _tasks[1]
                        ELSE IF k = 2 THEN new ELSE _tasks[k - 1]
  <2>1. /\ Insert(_tasks, new) \in Seq(Task)
        /\ Len(Insert(_tasks, new)) = Len(_tasks) + 1
        /\ \A k \in 1 .. (Len(_tasks) + 1) :
             Insert(_tasks, new)[k] = IF k = 1 THEN _tasks[1]
                                      ELSE IF k = 2 THEN new ELSE _tasks[k - 1]
    BY InsertShifts DEF Types, ListInv
  <2>2. Len(_tasks) \in Nat \ {0} /\ DOMAIN _tasks = 1 .. Len(_tasks)
    BY DEF Types, ListInv
  <2>3. _tasks' = Insert(_tasks, new)
    OBVIOUS
  <2>. QED BY <2>1, <2>2, <2>3
<1>s. ToSet(_tasks)' = ToSet(_tasks) \cup {new} /\ IsInjective(_tasks)'
  BY InsertAdds DEF Types, ListInv
<1>c. /\ ctx' \in [Task -> [at : Places, flags : BOOLEAN]]
      /\ ctx'[new].at = "new"
      /\ \A t \in Task \ {new} : ctx'[t] = ctx[t] /\ _exited'[t] = _exited[t]
      /\ _exited' \in [Task -> BOOLEAN]
  BY DEF Types, NewTaskStack, Places
<1>1. Types'
  BY <1>l, <1>c DEF Types
<1>2. ListInv'
  <2>1. _tasks' # <<>> /\ _tasks'[1] = scheduler_task
    BY <1>l DEF ListInv
  <2>. QED BY <1>s, <2>1 DEF ListInv
<1>3. FinishedInv'
  <2>1. new \notin {scheduler_task, main} \cup ToSet(_finished_tasks)
    <3>1. scheduler_task \in live
      BY <1>l DEF ListInv, ToSet
    <3>. QED BY <3>1 DEF ListInv, FinishedInv
  <2>2. \A t \in ToSet(_finished_tasks) : t \in Task
    BY DEF Types, FinishedInv
  <2>. QED BY <1>c, <2>1, <2>2 DEF FinishedInv
<1>4. ContextInv'
  <2>1. new \notin {scheduler_task, _current}
    <3>1. scheduler_task \in live
      BY <1>l DEF ListInv, ToSet
    <3>. QED BY <3>1 DEF ContextInv
  <2>. QED BY <1>c, <2>1 DEF ContextInv, Types, SchedulerAt, TaskAt
<1>5. PassInv'
  <2>1. PICK i \in DOMAIN _tasks : i > 1 /\ _tasks[i] = it.node /\ IsRest(i + 1)
    BY DEF PassInv, TaskAt
  <2>2. ASSUME NEW t \in Task
        PROVE  t \in due <=> \E j \in DOMAIN _tasks' :
                              j >= i + 2 /\ _tasks'[j] = t /\ t # scheduler_task /\ ~_exited'[t]
    <3>1. t \in due <=> \E j \in DOMAIN _tasks :
                          j >= i + 1 /\ _tasks[j] = t /\ should_schedule(t)
      BY <2>1 DEF IsRest
    <3>2. \A j \in DOMAIN _tasks : _tasks[j] # new
      BY DEF ListInv, ToSet
    <3>3. ASSUME t \in due
          PROVE  \E j \in DOMAIN _tasks' :
                   j >= i + 2 /\ _tasks'[j] = t /\ t # scheduler_task /\ ~_exited'[t]
      <4>1. PICK j \in DOMAIN _tasks : j >= i + 1 /\ _tasks[j] = t /\ should_schedule(t)
        BY <3>1, <3>3
      <4>2. j + 1 \in DOMAIN _tasks' /\ j + 1 >= i + 2 /\ _tasks'[j + 1] = t
        BY <1>l, <2>1, <4>1
      <4>3. t # new
        BY <3>2, <4>1
      <4>4. t # scheduler_task /\ ~_exited'[t]
        BY <1>c, <4>1, <4>3 DEF should_schedule
      <4>. QED BY <4>2, <4>4
    <3>4. ASSUME NEW j \in DOMAIN _tasks', j >= i + 2, _tasks'[j] = t,
                 t # scheduler_task, ~_exited'[t]
          PROVE  t \in due
      <4>1. j - 1 \in DOMAIN _tasks /\ j - 1 >= i + 1 /\ _tasks[j - 1] = t
        BY <1>l, <2>1, <3>4
      <4>2. t # new
        BY <3>2, <4>1
      <4>3. should_schedule(t)
        BY <1>c, <3>4, <4>2 DEF should_schedule
      <4>. QED BY <3>1, <4>1, <4>3
    <3>. QED BY <3>3, <3>4
  <2>3. i + 1 \in DOMAIN _tasks' /\ i + 1 > 1 /\ _tasks'[i + 1] = it.node
    BY <1>l, <2>1
  <2>4. i + 2 = (i + 1) + 1
    BY <1>l
  <2>5. IsRest((i + 1) + 1)'
    BY <2>2, <2>4 DEF IsRest, should_schedule
  <2>. QED BY <2>3, <2>5 DEF PassInv, TaskAt
<1>. QED BY <1>1, <1>2, <1>3, <1>4, <1>5

-----------------------------------------------------------------------------
(* The theorems.                                                           *)

\* IInv is inductive: it holds after the constructor and every step of the
\* scheduler and of the tasks keeps it (scheduler.cpp, task.cpp).
LEMMA SpecKeepsInv == Spec => []IInv
<1>1. IInv /\ [Next]_vars => IInv'
  <2>. SUFFICES ASSUME IInv, [Next]_vars PROVE IInv'
    OBVIOUS
  <2>1. CASE SchedulerStep
    BY <2>1, start_schedulingKeepsInv, StartReturnsKeepsInv, schedule_foreverKeepsInv,
       BeginPassKeepsInv, SkipTaskKeepsInv, PickTaskKeepsInv, SwitchToTaskKeepsInv,
       SwitchReturnsKeepsInv, AdvanceKeepsInv, EndPassKeepsInv,
       handle_finished_tasksKeepsInv, FinishedAreDeletedKeepsInv DEF SchedulerStep
  <2>2. CASE TaskStep
    BY <2>2, runKeepsInv, yieldKeepsInv, YieldReturnsKeepsInv,
       RoutineReturnsKeepsInv, handle_exitKeepsInv DEF TaskStep
  <2>3. CASE \E t \in Task : create_task(t)
    BY <2>3, create_taskKeepsInv
  <2>4. CASE UNCHANGED vars
    BY <2>4 DEF vars, IInv, Types, ListInv, FinishedInv, ContextInv, PassInv,
       IsRest, should_schedule
  <2>. QED BY <2>1, <2>2, <2>3, <2>4 DEF Next
<1>. QED BY <1>1, InitEstablishesInv, PTL DEF Spec

\* However tasks are created, yield and finish, the CPU's context, the pass,
\* the list and the finished tasks only refer to tasks that are allocated,
\* each linked and deleted once (scheduler.cpp:37-48 and 145-154).
THEOREM NoTaskDangles == Spec => []NoDanglingTask
<1>1. IInv => NoDanglingTask
  <2>. SUFFICES ASSUME IInv PROVE NoDanglingTask
    OBVIOUS
  <2>1. pc \in {"iterate", "switch", "returned", "advance"} => it.node \in ToSet(_tasks)
    BY DEF IInv, PassInv, ToSet
  <2>2. ToSet(_finished_tasks) \subseteq live \ {scheduler_task, main}
    BY DEF IInv, FinishedInv
  <2>. QED BY <2>1, <2>2 DEF NoDanglingTask, IInv, ListInv, FinishedInv, ContextInv
<1>. QED BY <1>1, SpecKeepsInv, PTL

\* No panic of irq::is_enabled(), switch_to() or schedule_forever() is
\* reachable (irq.cpp:180-186, scheduler.cpp:32-34, 85 and 90-94).
THEOREM SchedulerNeverPanics == Spec => []NeverPanics
<1>1. IInv => NeverPanics
  BY DEF IInv, Types, NeverPanics, SchedulerAt, TaskAt
<1>. QED BY <1>1, SpecKeepsInv, PTL

\* A pass runs each task that was unfinished when it began exactly once, with
\* any number of tasks inserted under way (scheduler.cpp:37-47).
THEOREM EachTaskRunsOncePerPass == Spec => []PassRunsEachTaskOnce
<1>1. IInv => PassRunsEachTaskOnce
  <2>. SUFFICES ASSUME IInv PROVE PassRunsEachTaskOnce
    OBVIOUS
  <2>1. ASSUME pc = "switch" PROVE it.node \in due
    BY <2>1 DEF IInv, Types, PassInv, IsRest
  <2>2. ASSUME pc = "iterate", AtEnd PROVE due = {}
    <3>1. PICK i \in DOMAIN _tasks :
            /\ _tasks[i] = it.node
            /\ IF it.shifted /\ i = 1 THEN due = {} ELSE IsRest(i)
      BY <2>2 DEF IInv, PassInv
    <3>2. 1 \in DOMAIN _tasks /\ Head(_tasks) = _tasks[1]
      BY DEF IInv, Types, ListInv
    <3>3. i = 1
      BY <2>2, <3>1, <3>2 DEF IInv, ListInv, IsInjective, AtEnd
    <3>. QED BY <2>2, <3>1, <3>3 DEF AtEnd
  <2>. QED BY <2>1, <2>2 DEF PassRunsEachTaskOnce
<1>. QED BY <1>1, SpecKeepsInv, PTL

\* No step switches to a task whose routine has returned, so the yield() in
\* handle_exit() never returns (task.cpp:54-59).
THEOREM FinishedTasksAreLeft == Spec => FinishedTaskIsLeft
<1>. DEFINE Step == _current' # _current => ~_exited[_current']
<1>1. IInv /\ [Next]_vars => [Step]_vars
  <2>. SUFFICES ASSUME IInv, Next, _current' # _current PROVE ~_exited[_current']
    BY DEF vars
  <2>1. ~_exited[scheduler_task]
    BY DEF IInv, FinishedInv
  <2>2. CASE start_scheduling
    BY <2>1, <2>2 DEF start_scheduling, switch_to
  <2>3. CASE yield
    BY <2>1, <2>3 DEF yield, switch_to
  <2>4. CASE SwitchToTask
    <3>1. should_schedule(it.node)
      BY <2>4 DEF SwitchToTask, IInv, PassInv
    <3>2. _current' = it.node
      BY <2>4 DEF SwitchToTask, switch_to
    <3>. QED BY <3>1, <3>2 DEF should_schedule
  <2>. QED BY <2>2, <2>3, <2>4 DEF Next, SchedulerStep, TaskStep, StartReturns, schedule_forever,
          BeginPass, SkipTask, PickTask, SwitchReturns, Advance, EndPass,
          handle_finished_tasks, FinishedAreDeleted, run, YieldReturns,
          RoutineReturns, handle_exit, create_task
<1>. QED BY <1>1, SpecKeepsInv, PTL DEF Spec, FinishedTaskIsLeft
=============================================================================
