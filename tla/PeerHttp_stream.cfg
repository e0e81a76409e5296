\* Three requests of any kind, cut anywhere and sent before a reply has come;
\* a header of more than four tokens is too large.
SPECIFICATION Spec
CONSTANTS
    Kinds = {"get", "old", "post", "bare", "large", "bad", "long"}
    MaxReq = 3
    HeaderMax = 4
    MinNext = 2
INVARIANTS
    RepliesInOrder
    Framed
    LostOnlyBehindLatePost
    NeverOrphaned
PROPERTY
    Answered
