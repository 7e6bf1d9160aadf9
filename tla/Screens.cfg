SPECIFICATION ScreensSpec
CONSTANTS
  Documents <- MCDocuments
  Moments <- MCMoments
  Tours <- MCTours
  Null = Null
  MaxEvents = 5
  MaxTasks = 4
  MaxRepos = 2
  MaxRuns = 1
  MaxHourly = 2
  MaxDaily = 1
  MaxProjects = 1
  MaxMerged = 3
  TaskRows = 2
  ApptRows = 2
INVARIANTS
  NothingOfOlder
  ScreenShows
PROPERTIES
  TapOpensRepo
  
