SPECIFICATION Spec
CONSTANTS
  ValidNames <- Names
  NoStatus = NoStatus
  Numerals <- SomeNumerals
  Octals <- SomeOctals
  AccountNames <- SomeNames
  Lists <- SomeLists
  Leftovers <- Junk
  MaxItems = 3
  MayFail = TRUE
  Configurations <- Containers
  Statuses = {0, 1}
CHECK_DEADLOCK FALSE
INVARIANTS EnvironmentDelivered IdentityAsAsked OnlyEnabledRun AccountsAsDefined InitializedFirst
PROPERTY StatusKept
