CONSTANTS
    Undefined = Undefined
    Unavailable = Unavailable
    NoMarker = NoMarker
    NaN = NaN
    Positions = {p1, p2}
    EvNames = {e1}
    EvNoise <- MCEvNoise
    CauseCodes <- MCCauseCodes
INIT EvInit
NEXT EvNext
INVARIANTS
    EvTypeOK
    EvIconCacheCoherent
    EvLayersMatchRegistry
    EvIconMatchesPopup
