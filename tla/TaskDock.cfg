SPECIFICATION Spec
CONSTANTS
  r = r  r2 = r2  c = c  e = e  i = i  NoTask = NoTask  Nothing = Nothing  Progress = Progress
  Tasks <- MCTasks  Kind <- MCKind  Earlier = "Completed"  MaxReloads = 1
INVARIANTS DockTypeOK DownloadedOnce VerdictMatchesRun
PROPERTY TaskLeaves
CHECK_DEADLOCK FALSE
