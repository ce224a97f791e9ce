\* Two sockets of one event loop. Every client may be silent for ever, so the
\* model may stop.
CONSTANTS
    Socket = {s1, s2}
    Message <- Messages
    kMaxRequestBytes = 5
SPECIFICATION FairSpec
CHECK_DEADLOCK FALSE
INVARIANTS
    HttpTypeOK
    PiecesDoNotMatter
PROPERTIES
    RequestIsAnswered
