---------------------------- MODULE ObjectRegistry ----------------------------
(***************************************************************************)
(* The moving-object registry of map_render.js: the sparse array markers   *)
(* (id -> Leaflet marker), the parallel array markersicons (id -> cached   *)
(* icon index) and the markers the Leaflet map displays.  Its operations   *)
(* are update_marker on a map that exists (split into the creation and the *)
(* update branch) and the removal done by the objclean case.               *)
(***************************************************************************)
EXTENDS MarkerIcons

CONSTANTS
    ObjNums,        \* station ids sent by the upstream
    ObjNoise,       \* the noise the upstream may add to an object id field
    Positions,      \* (lat, lon) pairs
    StationTypes,   \* values of parseInt(stationtype)
    Headings        \* values of parseFloat(heading)

Rotations == {0} \cup Headings
Popups == Headings \cup {Unavailable}

\* The visible state of a Leaflet marker: position, rotation angle, the
\* heading shown in its popup and the icon it is drawn with.
ObjMarker == [pos : Positions, rot : Rotations, popup : Popups, icon : ObjectIcons]

ASSUME ObjectAssumption ==
    /\ "none" \in ObjNoise
    /\ ObjNoise \subseteq Noise
    /\ StationTypes \subseteq Int
    /\ Headings \subseteq Int \cup {NaN}
    /\ NoMarker \notin ObjMarker

\* Raw object id fields; the key of markers is the raw field (String(id)).
ObjIds == ObjNums \X ObjNoise

VARIABLES
    markers,        \* markers[id]: the marker of object id, or NoMarker
    markersicons,   \* markersicons[id]: cached icon index, or Undefined
    objLayers,      \* objLayers[id]: markers of id displayed on the map
    lastReport      \* history: <<stationtype, heading valid?>> of the last
                    \* object message applied to a live id (not code state)

objVars == <<markers, markersicons, objLayers, lastReport>>

ObjInit ==
    /\ markers = [k \in ObjIds |-> NoMarker]
    /\ markersicons = [k \in ObjIds |-> Undefined]
    /\ objLayers = [k \in ObjIds |-> 0]
    /\ lastReport = [k \in ObjIds |-> NoMarker]

\* L.marker([lat,lon], {icon}) with its rotation angle and popup.
NewObjMarker(pos, st, h) ==
    [pos   |-> pos,
     rot   |-> IF Pedestrian(st) THEN 0 ELSE h,
     popup |-> IF HeadingValid(h) THEN h ELSE Unavailable,
     icon  |-> InitialObjectIcon(st, h)]

\* The popup after an update, decided on the cached icon before it changes:
\* "unavailable" only if the heading is invalid and the icon is the car.
UpdatedPopup(popup, cached, h) ==
    CASE HeadingInvalid(h) /\ cached = CAR_ICO_IDX -> Unavailable
      [] HeadingValid(h)                          -> h
      [] OTHER                                    -> popup

\* Mutant: the setLatLng call of the update branch is dropped.
MovedObjMarkerNoMove(mk, cached, pos, st, h) ==
    [pos   |-> mk.pos,
     rot   |-> IF Pedestrian(st) THEN mk.rot ELSE h,
     popup |-> UpdatedPopup(mk.popup, cached, h),
     icon  |-> IF UpdatedObjectIcon(cached, st, h) # cached
                 THEN UpdatedObjectIcon(cached, st, h) ELSE mk.icon]

\* The marker mk after setLatLng, setRotationAngle (not for pedestrians),
\* setPopupContent and, when the cached index changes, setIcon.
MovedObjMarker(mk, cached, pos, st, h) ==
    [pos   |-> pos,
     rot   |-> IF Pedestrian(st) THEN mk.rot ELSE h,
     popup |-> UpdatedPopup(mk.popup, cached, h),
     icon  |-> IF UpdatedObjectIcon(cached, st, h) # cached
                 THEN UpdatedObjectIcon(cached, st, h) ELSE mk.icon]

\* Mutant: markersicons is initialised only where it is still undefined.
CreateMarkerKeepCache(id, pos, st, h) ==
    /\ markers[id] = NoMarker
    /\ markers' = [markers EXCEPT ![id] = NewObjMarker(pos, st, h)]
    /\ markersicons' = [markersicons EXCEPT
                          ![id] = IF @ = Undefined THEN InitialObjectIcon(st, h) ELSE @]
    /\ objLayers' = [objLayers EXCEPT ![id] = @ + 1]
    /\ lastReport' = [lastReport EXCEPT ![id] = <<st, HeadingValid(h)>>]

\* update_marker for an id never seen (or removed): create the marker,
\* add it to the map, record it and its icon index.
CreateMarker(id, pos, st, h) ==
    /\ markers[id] = NoMarker
    /\ markers' = [markers EXCEPT ![id] = NewObjMarker(pos, st, h)]
    /\ markersicons' = [markersicons EXCEPT ![id] = InitialObjectIcon(st, h)]
    /\ objLayers' = [objLayers EXCEPT ![id] = @ + 1]
    /\ lastReport' = [lastReport EXCEPT ![id] = <<st, HeadingValid(h)>>]

\* update_marker for a known id.
MoveMarker(id, pos, st, h) ==
    /\ markers[id] # NoMarker
    /\ markers' = [markers EXCEPT
                     ![id] = MovedObjMarker(@, markersicons[id], pos, st, h)]
    /\ markersicons' = [markersicons EXCEPT
                          ![id] = UpdatedObjectIcon(@, st, h)]
    /\ lastReport' = [lastReport EXCEPT ![id] = <<st, HeadingValid(h)>>]
    /\ UNCHANGED objLayers

\* Mutant: the "id in markers" test is dropped.
ObjCleanNoGuard(raw) ==
    LET key == ParseIntKey(raw) IN
    /\ markers' = [markers EXCEPT ![key] = NoMarker]
    /\ objLayers' = [objLayers EXCEPT ![key] = @ - 1]
    /\ lastReport' = [lastReport EXCEPT ![key] = NoMarker]
    /\ UNCHANGED markersicons

\* Mutant: the entry is deleted but markers[id].remove() is not called.
ObjCleanNoRemove(raw) ==
    LET key == ParseIntKey(raw) IN
    /\ markers[key] # NoMarker
    /\ markers' = [markers EXCEPT ![key] = NoMarker]
    /\ lastReport' = [lastReport EXCEPT ![key] = NoMarker]
    /\ UNCHANGED <<markersicons, objLayers>>

\* objclean: look up String(parseInt(raw)); if present remove the marker
\* from the map and delete it.  markersicons is left as it is.
ObjClean(raw) ==
    LET key == ParseIntKey(raw) IN
    /\ markers[key] # NoMarker
    /\ markers' = [markers EXCEPT ![key] = NoMarker]
    /\ objLayers' = [objLayers EXCEPT ![key] = @ - 1]
    /\ lastReport' = [lastReport EXCEPT ![key] = NoMarker]
    /\ UNCHANGED markersicons

ObjNext ==
    \/ \E id \in ObjIds, pos \in Positions, st \in StationTypes, h \in Headings :
          \/ CreateMarker(id, pos, st, h)
          \/ MoveMarker(id, pos, st, h)
    \/ \E raw \in ObjIds : ObjClean(raw)

ObjSpec == ObjInit /\ [][ObjNext]_objVars

-----------------------------------------------------------------------------
(***************************************************************************)
(* Properties.                                                             *)
(***************************************************************************)

ObjTypeOK ==
    /\ markers \in [ObjIds -> ObjMarker \cup {NoMarker}]
    /\ markersicons \in [ObjIds -> ObjectIcons \cup {Undefined}]
    /\ objLayers \in [ObjIds -> Nat]
    /\ lastReport \in [ObjIds -> (StationTypes \X BOOLEAN) \cup {NoMarker}]

\* The two parallel arrays agree: a live marker is drawn with the icon its
\* markersicons entry names, although objclean leaves markersicons[id]
\* behind and a later object message for the same id re-creates the marker.
IconCacheCoherent ==
    \A k \in ObjIds : markers[k] # NoMarker => markers[k].icon = markersicons[k]

\* The map displays exactly one marker for each id in markers and none for
\* a removed id: creation adds one, objclean removes the one it deletes.
LayersMatchRegistry ==
    \A k \in ObjIds : objLayers[k] = IF markers[k] = NoMarker THEN 0 ELSE 1

\* The icons an object may show after a report of station type st with a
\* valid or invalid heading: a type-0 report
\* never leaves a car or a circle, a report without heading never leaves a
\* car or a green circle, a report with heading never leaves a circle or a
\* green circle.
AllowedIcons(st, valid) ==
    IF st = 0 THEN ObjectIcons \ {CAR_ICO_IDX, CIRCLE_ICO_IDX}
    ELSE IF ~valid THEN ObjectIcons \ {CAR_ICO_IDX, GREEN_CIRCLE_ICO_IDX}
    ELSE ObjectIcons \ {CIRCLE_ICO_IDX, GREEN_CIRCLE_ICO_IDX}

\* A live marker always shows an icon that agrees with the station type
\* and heading validity of the last object message for its id, whatever
\* sequence of reports (and of removals and re-creations) preceded it.
IconReflectsLastReport ==
    \A k \in ObjIds :
        markers[k] # NoMarker =>
            markers[k].icon \in AllowedIcons(lastReport[k][1], lastReport[k][2])

\* A duplicated object message changes nothing: applying a report to the
\* state the same report produced (created or updated) is the identity.
Idempotent ==
    \A id \in ObjIds, pos \in Positions, st \in StationTypes, h \in Headings :
        LET mk1 == IF markers[id] = NoMarker
                     THEN NewObjMarker(pos, st, h)
                     ELSE MovedObjMarker(markers[id], markersicons[id], pos, st, h)
            ic1 == IF markers[id] = NoMarker
                     THEN InitialObjectIcon(st, h)
                     ELSE UpdatedObjectIcon(markersicons[id], st, h)
        IN  /\ MovedObjMarker(mk1, ic1, pos, st, h) = mk1
            /\ UpdatedObjectIcon(ic1, st, h) = ic1

-----------------------------------------------------------------------------
(***************************************************************************)
(* Claims of the specification and of the code's comments that the code   *)
(* does not keep (each checked by a run expected to find a violation).     *)
(***************************************************************************)

\* classifyObject(stationtype, headingValid) of the specification (4.4).
ClassifyObject(st, valid) ==
    IF st = 0 THEN DETECTED_CAR_ICO_IDX
    ELSE IF ~valid THEN CIRCLE_ICO_IDX
    ELSE StationIcon(st)

\* Specification, section 3: "iconCategory is always consistent with the
\* last-applied (classification, heading-validity) pair - a pure function
\* of current state".  update_marker only switches icons out of the car
\* and the circles, so the icon also depends on earlier reports.
IconIsClassification ==
    \A k \in ObjIds :
        markers[k] # NoMarker =>
            markers[k].icon = ClassifyObject(lastReport[k][1], lastReport[k][2])

\* The comments of update_marker: a circle is the icon of an object whose
\* heading is not available, and the popup is updated "if the heading value
\* becomes invalid/unavailable after being available".  So a circle's
\* popup should say the heading is unavailable.
CircleMeansHeadingUnavailable ==
    \A k \in ObjIds :
        markers[k] # NoMarker /\ markers[k].icon = CIRCLE_ICO_IDX
            => markers[k].popup = Unavailable

\* Specification, section 3: the invalid-heading sentinel "must never be
\* passed to the Map Surface Adapter as real geometry".  update_marker
\* passes the heading to setRotationAngle whatever its value.
NoSentinelRotation ==
    \A k \in ObjIds : markers[k] # NoMarker => HeadingValid(markers[k].rot)
=============================================================================
