SPECIFICATION Spec
CONSTANTS
  None = None
  Delim <- At
  Lower <- LowerCase
  Libraries <- AllLibraries
  Configs <- SomeConfigs
  Users <- SomeUsers
  Tables <- SomeTables
  Hosts <- TwoHosts
  MaxEdits = 2
  MaxReloads = 1
  MaxLogins = 2
INVARIANTS
  NotFoundIsReal
  FirstKeyWins
  ReloadTakesEffect
