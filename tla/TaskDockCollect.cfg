SPECIFICATION Spec
CONSTANTS
  r = r  r2 = r2  c = c  e = e  i = i  NoTask = NoTask  Nothing = Nothing  Progress = Progress
  Tasks <- MCTasks  Kind <- MCKind  Earlier = "Completed"  MaxReloads = 1
PROPERTY CollectionSettles
CHECK_DEADLOCK FALSE
