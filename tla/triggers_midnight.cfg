CONSTANTS
    Environment = {"HOME"}
    Files = {"prompt"}
    Credentials = {"openai", "mine"}
    Servers = {"answers"}
    Instances <- Midnight
    Every = 2
    MaxDeaths = 0
    MaxPosts = 2
    MaxSlips = 0
SPECIFICATION Spec
INVARIANT TimersAreAhead
CHECK_DEADLOCK FALSE
