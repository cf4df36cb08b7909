\* Sessions of four lines.  Kinds that take the path of another one are left out
\* (native and level as write, note as response, garbage as call, modern_list as
\* modern_call).
CONSTANTS
    Kinds = {"init", "initialized", "list", "write", "call", "response",
             "modern_call", "modern_other"}
    MaxLines = 4
SPECIFICATION Spec
INVARIANTS TypeOK RepliesOnce SessionSeen EraAgrees ReturnsRelayed
PROPERTIES EveryRequestAnswered
CHECK_DEADLOCK FALSE
