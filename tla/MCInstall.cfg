SPECIFICATION Spec
CONSTANTS
    Hooked <- MCHooked
    Present = {"pdo_connect", "curl_exec"}
    HookMax = 1
CHECK_DEADLOCK FALSE
INVARIANTS
    NobodyIsCutOut
    StackOutlivesHandlers
    UndoneWhateverFailed
