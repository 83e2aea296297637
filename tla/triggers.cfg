CONSTANTS
    Environment = {"HOME"}
    Files = {"prompt"}
    Credentials = {"openai", "mine"}
    Servers = {"answers"}
    Instances <- MCInstances
    Every = 2
    MaxDeaths = 1
    MaxPosts = 2
    MaxSlips = 1
SPECIFICATION Spec
INVARIANTS OccurrencesServed AcceptedIsInOnePlace ValidatedStarts
CHECK_DEADLOCK FALSE
