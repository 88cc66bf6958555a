SPECIFICATION Spec
CONSTANTS
    sha256d <- ToyDigest
    Scripts <- MCScripts
    SegmentSizes = {12, 24, 60}
    Config <- MCConfig
    Version <- MCVersion
    Node <- MCNode
INVARIANTS DeliveredAsSent PongsInOrder BlocksVerifiable
PROPERTIES EverythingHandled AnswersLeave
CHECK_DEADLOCK FALSE
