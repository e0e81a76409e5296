\* Two requests, the second sent before the reply to the first.
SPECIFICATION Spec
CONSTANTS
    Kinds = {"get", "get_long"}
    MaxReq = 2
    BatchLimit = 2
PROPERTY EveryRequestAnswered
