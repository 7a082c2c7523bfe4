CONSTANTS
    Undefined = Undefined
    Unavailable = Unavailable
    NoMarker = NoMarker
    NaN = NaN
    NULL = NULL
    Positions = {p1, p2}
    EvNames = {e1}
    ObjNums <- MCObjNums
    ObjNoise <- MCObjNoise
    StationTypes <- MCStationTypes
    Headings <- MCHeadings
    EvNoise <- MCEvNoiseNul
    CauseCodes <- MCCauseCodes
    MapCoords <- MCMapCoordsInvalid
SPECIFICATION Spec
PROPERTIES
    TrackedMapRefined
