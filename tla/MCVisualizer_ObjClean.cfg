CONSTANTS
    Undefined = Undefined
    Unavailable = Unavailable
    NoMarker = NoMarker
    NaN = NaN
    NULL = NULL
    Positions = {p1}
    EvNames = {e1}
    ObjNums <- MCObjNums
    ObjNoise <- MCObjNoisePadded
    StationTypes <- MCStationTypes
    Headings <- MCHeadings
    EvNoise <- MCEvNoise
    CauseCodes <- MCCauseCodes
    MapCoords <- MCMapCoords
SPECIFICATION Spec
PROPERTY
    ObjCleanMatchesNormalizedId
