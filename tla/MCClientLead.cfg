SPECIFICATION Spec
CONSTANTS
    Modes = {"1v1"}
    Leads = {1}
    Battles = {"1v1"}
    FaultModes = {"1v1"}
    MaxRematches = 1
    MaxFaults = 1
    MaxAnswers = 1
    MaxSent = 1
    MaxInbox = 1
CHECK_DEADLOCK FALSE
INVARIANTS
    ForcedSwapIsGenuine
