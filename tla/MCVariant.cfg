SPECIFICATION Spec
CONSTANTS
    pack = pack
    size = size
    a = a
    b = b
    None = None
    Seeds = {s1}
    Params <- MCParams
    Values <- MCValues
    Manifests <- MCManifests
    Pins <- MCPins
    Drawn <- MCDrawn
    MaxChoices = 2
    MaxEdits = 1
    MaxFailures = 1
INVARIANTS
    TypeOK
    CommandsMeanTheSession
PROPERTIES
    StampMeansGone
