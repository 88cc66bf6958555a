SPECIFICATION Spec
CONSTANTS
    sha256d <- ToyDigest
    Scripts <- MCScripts
    SegmentSizes = {12, 24, 60}
    Config <- MCConfig
    Version <- MCVersion
    Node <- MCNode
INVARIANT AlwaysDeliveredAsSent
CHECK_DEADLOCK FALSE
