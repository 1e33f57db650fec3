CONSTANTS
    None = None
    Fields <- MCFields
    Val <- MCVal
    BackfillFields <- MCBackfill
    LogDriver = "log_driver"
    Autolock = "autolock_managers"
    LockedVal = "a"
    Supported <- MCFields
    ParamChoices <- MCMembershipParams
    DefaultSpec <- MCDefaultSpec
    MaxVersion = 2
    RemoveSupported = TRUE
    Actions = {"present", "join", "absent", "remove"}
SPECIFICATION Spec
PROPERTIES
    TaskRefinement
