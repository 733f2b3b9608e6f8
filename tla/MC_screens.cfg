SPECIFICATION PageSpec
CONSTANTS
    Rows = {"a", "b"}
    Tasks = {1, 2}
    Handlers <- AllHandlers
    PageSet <- AllPages
    MaxRequests = 2
    MaxLost = 1
INVARIANTS
    ScreensInv
PROPERTIES
    ActsOnWhatWasShown
    RefusedOnlyWhenStale
    OneEffectPerDraft
CHECK_DEADLOCK FALSE
