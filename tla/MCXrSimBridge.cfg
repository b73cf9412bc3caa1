SPECIFICATION Spec
CONSTANTS
    IntMax = 127
    InjectDeltas <- MCInjectDeltas
    ZoneReplies <- MCZoneReplies
    LivePlans <- MCLivePlans
    EarlierSnapshots <- MCEarlierSnapshots
    MaxLog = 2
    MaxRequests = 2
    MaxPacks = 1
    MaxSaved = 1
    None = None
VIEW Session
INVARIANTS
    WakesAreBound
    BindingsHold
    CommandsFollowIntent
    ReplayWorks
PROPERTIES
    OthersUntouched
    RefusedPlansChangeNothing
