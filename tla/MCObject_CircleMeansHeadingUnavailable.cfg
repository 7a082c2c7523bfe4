CONSTANTS
    Undefined = Undefined
    Unavailable = Unavailable
    NoMarker = NoMarker
    NaN = NaN
    Positions = {p1, p2}
    ObjNums <- MCObjNums
    ObjNoise <- MCObjNoise
    StationTypes <- MCStationTypes
    Headings <- MCHeadings
INIT ObjInit
NEXT ObjNext
INVARIANT
    CircleMeansHeadingUnavailable
