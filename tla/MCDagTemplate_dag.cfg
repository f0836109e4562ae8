SPECIFICATION Spec
CONSTANTS
  t1 = t1
  t2 = t2
  t3 = t3
  Task = {t1, t2, t3}
  Name <- MCName
  Word <- MCWord
  EmptyName = ""
  NameOf <- MCNameOf
  Sound = {t1, t3}
  Wired = {t3}
  Written <- MCWritten
  MaxTasks = 3
  MaxTokens = 8
INVARIANTS UniqueTasks RefusalsAreReal TasksRunAsWired
