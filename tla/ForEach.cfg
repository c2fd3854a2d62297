CONSTANTS
  N = 3
  StepConcurrency = 2
  FileForks = 0
  Variants = {TRUE, FALSE}
  IgnoreErrors = FALSE
  UseKey = TRUE
  Fields <- NamedInOrder
  PriorStatuses = {"absent", "completed"}
  MaxRefused = 2
SPECIFICATION FairSpec
INVARIANTS BoundedConcurrency StopsAfterError  NothingLost
PROPERTIES Returns ImplementsContract
