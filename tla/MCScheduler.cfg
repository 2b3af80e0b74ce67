SPECIFICATION FairSpec
CONSTANTS
  Task = {scheduler, main, t1, t2, t3}
  scheduler_task = scheduler
  main = main
INVARIANTS
  NoDanglingTask
  NeverPanics
  PassRunsEachTaskOnce
PROPERTY
  FinishedTaskIsLeft
  TasksRun
  FinishedTasksAreDeleted
