SPECIFICATION FairSpec
CONSTANTS
    capture = capture
    inject = inject
    icecast = icecast
    web = web
    Publishers = {capture, inject}
    Subscribers = {icecast, web}
    MaxSize = 2
    MaxChunks = 2
    NoOne = NoOne
INVARIANTS
    TypeOK
    InOrder
PROPERTIES
    ImplementsFanout
    PublishEnds
CHECK_DEADLOCK FALSE
