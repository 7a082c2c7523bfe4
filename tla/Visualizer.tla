------------------------------ MODULE Visualizer ------------------------------
(***************************************************************************)
(* The socket.io 'message' handler of map_render.js: one action per case   *)
(* of its switch on the message tag, run to completion one message at a    *)
(* time in any order the server sends them.  It owns the map (map_rx,      *)
(* leafletmap) and drives the object and the event registry, which it     *)
(* composes by INSTANCE.  A malformed message (wrong field count) is an    *)
(* action of its own.                                                      *)
(***************************************************************************)
EXTENDS MarkerIcons

CONSTANTS
    ObjNums, ObjNoise, StationTypes, Headings,   \* object message fields
    EvNames, EvNoise, CauseCodes,                \* event message fields
    Positions,                                   \* (lat, lon) of any message
    MapCoords,      \* values of the bound and extension fields of map_areas
    NULL            \* leafletmap before the map is drawn

VARIABLES
    map_rx,         \* a map message has been accepted
    leafletmap,     \* the map drawn by draw_map, or NULL
    report,         \* console level of what the last message printed
    markers, markersicons, objLayers, lastReport,
    eventMarkers, eventMarkersIcons, evLayers,
    lastUpsert      \* history: <<registry, key, position>> of the last object
                    \* or event update applied (not code state)

\* The registries, through their proof modules (which extend them and add
\* only lemmas), so that the registries' lemmas hold of the handler too.
Obj == INSTANCE ObjectRegistryProofs
Ev == INSTANCE EventRegistryProofs

\* The handler's constants satisfy the registries' assumptions, and NULL,
\* which leafletmap starts as, is not a map.
ASSUME VisualizerAssumption ==
    /\ MapCoords \subseteq Int
    /\ VIS_LONLAT_INVALID \in MapCoords
    /\ NULL \notin [center : Positions, overlays : SUBSET {"red", "green"}]
    /\ Obj!ObjectAssumption
    /\ Ev!EventAssumption

vars == <<map_rx, leafletmap, report, markers, markersicons, objLayers,
          lastReport, eventMarkers, eventMarkersIcons, evLayers, lastUpsert>>
mapVars == <<map_rx, leafletmap>>
objVars == <<markers, markersicons, objLayers, lastReport>>
evVars == <<eventMarkers, eventMarkersIcons, evLayers>>

Tags == {"map_areas", "map", "object", "event", "objEventClean", "objclean"}
Reports == {"none", "warn", "error"}

\* The map as draw_map leaves it: its centre and the rectangles it adds,
\* the red area when no bound is the sentinel, the green extended area when
\* moreover no extension factor is.
MapView == [center : Positions, overlays : SUBSET {"red", "green"}]

DrawMap(center, bounds, ext) ==
    [center   |-> center,
     overlays |-> IF \A i \in 1..4 : bounds[i] # VIS_LONLAT_INVALID
                    THEN {"red"} \cup
                         (IF \A i \in 1..2 : ext[i] # VIS_LONLAT_INVALID
                            THEN {"green"} ELSE {})
                    ELSE {}]

Init ==
    /\ map_rx = FALSE
    /\ leafletmap = NULL
    /\ report = "none"
    /\ lastUpsert = NoMarker
    /\ Obj!ObjInit
    /\ Ev!EvInit

\* msg == null: only the status text changes.
RecvNull ==
    /\ report' = "none"
    /\ UNCHANGED <<mapVars, objVars, evVars, lastUpsert>>

\* 'map_areas' with 10 fields before any map: draw the map with its areas.
RecvMapAreas(center, bounds, ext) ==
    /\ map_rx = FALSE
    /\ leafletmap' = DrawMap(center, bounds, ext)
    /\ map_rx' = TRUE
    /\ report' = "none"
    /\ UNCHANGED <<objVars, evVars, lastUpsert>>

\* Mutant: the map_rx test of the 'map' case is dropped.
RecvMapAlways(center) ==
    /\ leafletmap' = DrawMap(center, [i \in 1..4 |-> VIS_LONLAT_INVALID],
                                     [i \in 1..2 |-> VIS_LONLAT_INVALID])
    /\ map_rx' = TRUE
    /\ report' = "none"
    /\ UNCHANGED <<objVars, evVars, lastUpsert>>

\* 'map' with 4 fields before any map: draw it with every bound invalid.
RecvMap(center) ==
    /\ map_rx = FALSE
    /\ leafletmap' = DrawMap(center, [i \in 1..4 |-> VIS_LONLAT_INVALID],
                                     [i \in 1..2 |-> VIS_LONLAT_INVALID])
    /\ map_rx' = TRUE
    /\ report' = "none"
    /\ UNCHANGED <<objVars, evVars, lastUpsert>>

\* 'map_areas' or 'map' once a map exists: ignored, even if malformed.
RecvMapIgnored ==
    /\ map_rx = TRUE
    /\ report' = "none"
    /\ UNCHANGED <<mapVars, objVars, evVars, lastUpsert>>

\* A recognised tag with the wrong number of fields: console.error, dropped.
\* The map tags check their field count only while no map exists.
RecvCorrupted(tag) ==
    /\ tag \in {"map_areas", "map"} => map_rx = FALSE
    /\ report' = "error"
    /\ UNCHANGED <<mapVars, objVars, evVars, lastUpsert>>

\* 'object' or 'event' before the map: update_marker/update_EventMarker
\* report the null map reference and return.
RecvUpdateNoMap ==
    /\ leafletmap = NULL
    /\ report' = "error"
    /\ UNCHANGED <<mapVars, objVars, evVars, lastUpsert>>

\* Mutant: update_marker without its null map test.
RecvObjectNoMapCheck(id, pos, st, h) ==
    /\ \/ Obj!CreateMarker(id, pos, st, h)
       \/ Obj!MoveMarker(id, pos, st, h)
    /\ report' = "none"
    /\ lastUpsert' = <<"object", id, pos>>
    /\ UNCHANGED <<mapVars, evVars>>

\* Mutant: update_marker without its "id in markers" test, so every
\* object message creates a new marker.
RecvObjectAlwaysCreate(id, pos, st, h) ==
    /\ leafletmap # NULL
    /\ markers' = [markers EXCEPT ![id] = Obj!NewObjMarker(pos, st, h)]
    /\ markersicons' = [markersicons EXCEPT ![id] = InitialObjectIcon(st, h)]
    /\ objLayers' = [objLayers EXCEPT ![id] = @ + 1]
    /\ lastReport' = [lastReport EXCEPT ![id] = <<st, HeadingValid(h)>>]
    /\ report' = "none"
    /\ lastUpsert' = <<"object", id, pos>>
    /\ UNCHANGED <<mapVars, evVars>>

\* 'object' with 6 fields on a drawn map: update_marker.
RecvObject(id, pos, st, h) ==
    /\ leafletmap # NULL
    /\ \/ Obj!CreateMarker(id, pos, st, h)
       \/ Obj!MoveMarker(id, pos, st, h)
    /\ report' = "none"
    /\ lastUpsert' = <<"object", id, pos>>
    /\ UNCHANGED <<mapVars, evVars>>

\* 'event' with 6 fields on a drawn map: update_EventMarker.
RecvEvent(id, pos, cause) ==
    /\ leafletmap # NULL
    /\ \/ Ev!CreateEventMarker(id, pos, cause)
       \/ Ev!MoveEventMarker(id, pos, cause)
    /\ report' = "none"
    /\ lastUpsert' = <<"event", id, pos>>
    /\ UNCHANGED <<mapVars, objVars>>

\* Mutant: Leaflet adds the marker to the map before it throws, so a
\* marker is displayed that eventMarkers does not hold.
RecvEventThrowsAfterAdd(id, pos, cause) ==
    /\ leafletmap # NULL
    /\ eventMarkers[id] = NoMarker
    /\ InitialEventIcon(cause) = Undefined
    /\ evLayers' = [evLayers EXCEPT ![id] = @ + 1]
    /\ report' = "error"
    /\ UNCHANGED <<mapVars, objVars, eventMarkers, eventMarkersIcons, lastUpsert>>

\* 'event' creating a marker with no icon, on a Leaflet build that throws
\* on the undefined icon: the uncaught TypeError ends the handler before
\* anything is stored.
RecvEventThrows(id, pos, cause) ==
    /\ leafletmap # NULL
    /\ eventMarkers[id] = NoMarker
    /\ InitialEventIcon(cause) = Undefined
    /\ report' = "error"
    /\ UNCHANGED <<mapVars, objVars, evVars, lastUpsert>>

\* 'objEventClean' with 2 fields: remove the event, or warn that the
\* stripped id is not in eventMarkers.
RecvObjEventClean(raw) ==
    \/ /\ Ev!EventClean(raw)
       /\ report' = "none"
       /\ UNCHANGED <<mapVars, objVars, lastUpsert>>
    \/ /\ eventMarkers[StripNul(raw)] = NoMarker
       /\ report' = "warn"
       /\ UNCHANGED <<mapVars, objVars, evVars, lastUpsert>>

\* 'objclean' with 2 fields: remove the object; an unknown id is ignored
\* silently.
RecvObjClean(raw) ==
    \/ /\ Obj!ObjClean(raw)
       /\ report' = "none"
       /\ UNCHANGED <<mapVars, evVars, lastUpsert>>
    \/ /\ markers[ParseIntKey(raw)] = NoMarker
       /\ report' = "none"
       /\ UNCHANGED <<mapVars, objVars, evVars, lastUpsert>>

\* 'terminate' is only logged; any other tag is warned about.
RecvTerminate ==
    /\ report' = "none"
    /\ UNCHANGED <<mapVars, objVars, evVars, lastUpsert>>

RecvUnknown ==
    /\ report' = "warn"
    /\ UNCHANGED <<mapVars, objVars, evVars, lastUpsert>>

Next ==
    \/ RecvNull
    \/ \E center \in Positions, bounds \in [1..4 -> MapCoords],
          ext \in [1..2 -> MapCoords] : RecvMapAreas(center, bounds, ext)
    \/ \E center \in Positions : RecvMap(center)
    \/ RecvMapIgnored
    \/ \E tag \in Tags : RecvCorrupted(tag)
    \/ RecvUpdateNoMap
    \/ \E id \in Obj!ObjIds, pos \in Positions, st \in StationTypes, h \in Headings :
          RecvObject(id, pos, st, h)
    \/ \E id \in Ev!EvIds, pos \in Positions, cause \in CauseCodes :
          RecvEvent(id, pos, cause) \/ RecvEventThrows(id, pos, cause)
    \/ \E raw \in Ev!EvIds : RecvObjEventClean(raw)
    \/ \E raw \in Obj!ObjIds : RecvObjClean(raw)
    \/ RecvTerminate
    \/ RecvUnknown

Spec == Init /\ [][Next]_vars

-----------------------------------------------------------------------------
(***************************************************************************)
(* Properties.                                                             *)
(***************************************************************************)

TypeOK ==
    /\ map_rx \in BOOLEAN
    /\ leafletmap \in MapView \cup {NULL}
    /\ report \in Reports
    /\ lastUpsert \in ({"object"} \X Obj!ObjIds \X Positions)
                      \cup ({"event"} \X Ev!EvIds \X Positions) \cup {NoMarker}
    /\ Obj!ObjTypeOK
    /\ Ev!EvTypeOK

\* No marker of either registry exists, and none is displayed, before a
\* map message has drawn the map: update_marker and update_EventMarker
\* drop every update that arrives first.
NoMarkerBeforeMap ==
    leafletmap = NULL =>
        /\ \A k \in Obj!ObjIds : markers[k] = NoMarker /\ objLayers[k] = 0
        /\ \A k \in Ev!EvIds : eventMarkers[k] = NoMarker /\ evLayers[k] = 0

\* Once drawn, the map is never redrawn or replaced: every later
\* map_areas or map message is ignored (the map_rx guard).
MapDrawnOnce ==
    [][leafletmap # NULL => leafletmap' = leafletmap]_vars

\* The handler changes the object registry only by update_marker and
\* objclean steps: malformed, early-returned and foreign messages leave it
\* alone (the registry's own specification is a property of the handler).
ObjRegistryRefined == Obj!ObjSpec

\* The same for the event registry.
EvRegistryRefined == Ev!EvSpec

\* The refinement mapping to the abstract specification: the map is drawn
\* once leafletmap is set, an object key is tracked at the position of its
\* marker, an event key with the position and the cause code its popup
\* shows; the icon caches, the icons and the displayed layers are hidden.
\* The history variable lastUpsert is the abstract one.
Tracked == INSTANCE TrackedMap WITH
    ObjKeys   <- Obj!ObjIds,
    EvKeys    <- Ev!EvIds,
    None      <- NoMarker,
    mapDrawn  <- leafletmap # NULL,
    lastUpsert <- lastUpsert,
    objects   <- [k \in Obj!ObjIds |->
                    IF markers[k] = NoMarker THEN NoMarker ELSE markers[k].pos],
    events    <- [k \in Ev!EvIds |->
                    IF eventMarkers[k] = NoMarker THEN NoMarker
                    ELSE [pos |-> eventMarkers[k].pos, cause |-> eventMarkers[k].popup]]

\* The handler implements the specification's promise (sections 4 and 7):
\* the map is drawn once, nothing is tracked before it, every object or
\* event message moves exactly its own key to the reported position (and
\* cause code), every removal forgets exactly its key, and malformed,
\* unknown, early-returned or throwing messages change nothing tracked.
TrackedMapRefined == Tracked!Spec

\* A message the handler reports with console.error (a wrong field count,
\* an update before the map at lines 285 and 334, or the TypeError Leaflet
\* throws on an event with no icon) leaves the map and both registries as
\* they were: the error path never half-applies an update.
ErrorChangesNothing ==
    [][report' = "error" => UNCHANGED <<mapVars, objVars, evVars>>]_vars

-----------------------------------------------------------------------------
(***************************************************************************)
(* Claims of the specification the code does not keep.                    *)
(***************************************************************************)

\* Specification, section 8: "an event clear message whose id differs from
\* the stored key only by leading/trailing whitespace or embedded null
\* bytes must still match and remove the marker".  objEventClean strips
\* only NUL bytes, and the stored key was never normalised.
EventCleanMatchesNormalizedId ==
    [][\A raw \in Ev!EvIds :
         RecvObjEventClean(raw) =>
            \A k \in Ev!EvIds :
                NormalizeId(k) = NormalizeId(raw) => eventMarkers'[k] = NoMarker]_vars

\* Specification, section 3: an object's marker is "destroyed on explicit
\* clear message for that id" (object ids are opaque there; normalization
\* is stated for event ids).  update_marker keys markers by the raw field
\* and objclean by String(parseInt(field)), so an object sent with a
\* padded id survives every objclean message, the one carrying that very
\* id included.
ObjCleanMatchesNormalizedId ==
    [][\A raw \in Obj!ObjIds :
         RecvObjClean(raw) =>
            \A k \in Obj!ObjIds :
                NormalizeId(k) = NormalizeId(raw) => markers'[k] = NoMarker]_vars
=============================================================================
