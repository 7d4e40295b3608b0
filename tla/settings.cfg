CONSTANTS
    Fields = {"WebSocketPort", "MicroPhone", "SpeakerVolume"}
    Numbers <- MCNumbers
    Strings = {"no"}
    ShortStrings = {"no"}
    Defaults <- MCDefaults
    DeviceLists <- MCDevices
    Tests = {"microphone"}
    MaxWindows = 2
    MaxChanges = 2
SPECIFICATION Spec
INVARIANTS
    TypeOK
    SavedIsShown
    TestOwned
PROPERTIES
    UntouchedKept
