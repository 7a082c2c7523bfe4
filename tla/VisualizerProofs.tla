--------------------------- MODULE VisualizerProofs ---------------------------
(***************************************************************************)
(* Proofs about the message handler for every value of the constants: its *)
(* type, no marker before the map, the map drawn once, each registry       *)
(* changed only by its own steps, and the refinement of the abstract       *)
(* specification TrackedMap under the mapping Tracked of Visualizer.       *)
(***************************************************************************)
EXTENDS Visualizer, TLAPS

\* The registries' lemmas are imported under the registries' assumptions,
\* which the handler's constants satisfy.
LEMMA InstanceAssumptions ==
    /\ Obj!SentinelAssumption /\ Obj!ObjectAssumption
    /\ Ev!SentinelAssumption /\ Ev!EventAssumption
BY SentinelAssumption, VisualizerAssumption
   DEF Obj!SentinelAssumption, Ev!SentinelAssumption

USE VisualizerAssumption, InstanceAssumptions

\* map_rx and leafletmap are set together by the map cases (lines 148-149
\* and 170-173), and by nothing else.
MapFlag == map_rx = (leafletmap # NULL)

\* The inductive invariant: the type, with each registry's display count
\* (which keeps the counts in Nat across removals), the map flag (which
\* makes a second map message an ignored one) and NoMarkerBeforeMap.
VisInv ==
    /\ TypeOK
    /\ Obj!LayersMatchRegistry
    /\ Ev!EvLayersMatchRegistry
    /\ MapFlag
    /\ NoMarkerBeforeMap

-----------------------------------------------------------------------------
(***************************************************************************)
(* Every handler step is a step of each registry or leaves it alone.      *)
(***************************************************************************)

\* The messages that touch no registry and no history: everything but
\* object, event, objEventClean and objclean messages that are applied.
Untouched ==
    \/ RecvNull
    \/ \E center \in Positions, bounds \in [1..4 -> MapCoords],
          ext \in [1..2 -> MapCoords] : RecvMapAreas(center, bounds, ext)
    \/ \E center \in Positions : RecvMap(center)
    \/ RecvMapIgnored
    \/ \E tag \in Tags : RecvCorrupted(tag)
    \/ RecvUpdateNoMap
    \/ \E id \in Ev!EvIds, pos \in Positions, cause \in CauseCodes :
          RecvEventThrows(id, pos, cause)
    \/ RecvTerminate
    \/ RecvUnknown

LEMMA UntouchedUnchanged ==
    Untouched => UNCHANGED <<objVars, evVars, lastUpsert>>
BY DEF Untouched, RecvNull, RecvMapAreas, RecvMap, RecvMapIgnored,
       RecvCorrupted, RecvUpdateNoMap, RecvEventThrows, RecvTerminate,
       RecvUnknown

\* The disjuncts of Next, grouped by the registry they touch.
LEMMA NextCases ==
    ASSUME Next
    PROVE  \/ Untouched
           \/ \E id \in Obj!ObjIds, pos \in Positions, st \in StationTypes,
                 h \in Headings : RecvObject(id, pos, st, h)
           \/ \E id \in Ev!EvIds, pos \in Positions, cause \in CauseCodes :
                 RecvEvent(id, pos, cause)
           \/ \E raw \in Ev!EvIds : RecvObjEventClean(raw)
           \/ \E raw \in Obj!ObjIds : RecvObjClean(raw)
BY DEF Next, Untouched

\* The handler changes the object registry only by update_marker and
\* objclean steps.
LEMMA ObjStep == [Next]_vars => [Obj!ObjNext]_(Obj!objVars)
<1>. SUFFICES ASSUME [Next]_vars PROVE [Obj!ObjNext]_(Obj!objVars)
  OBVIOUS
<1>1. CASE UNCHANGED vars
  BY <1>1 DEF vars, Obj!objVars
<1>2. CASE Untouched
  BY <1>2, UntouchedUnchanged DEF objVars, Obj!objVars
<1>3. CASE \E id \in Obj!ObjIds, pos \in Positions, st \in StationTypes,
             h \in Headings : RecvObject(id, pos, st, h)
  BY <1>3 DEF RecvObject, Obj!ObjNext
<1>4. CASE \E id \in Ev!EvIds, pos \in Positions, cause \in CauseCodes :
             RecvEvent(id, pos, cause)
  BY <1>4 DEF RecvEvent, objVars, Obj!objVars
<1>5. CASE \E raw \in Ev!EvIds : RecvObjEventClean(raw)
  BY <1>5 DEF RecvObjEventClean, objVars, Obj!objVars
<1>6. CASE \E raw \in Obj!ObjIds : RecvObjClean(raw)
  BY <1>6 DEF RecvObjClean, Obj!ObjNext, objVars, Obj!objVars
<1>. QED
  BY <1>1, <1>2, <1>3, <1>4, <1>5, <1>6, NextCases

\* The handler changes the event registry only by update_EventMarker and
\* objEventClean steps.
LEMMA EvStep == [Next]_vars => [Ev!EvNext]_(Ev!evVars)
<1>. SUFFICES ASSUME [Next]_vars PROVE [Ev!EvNext]_(Ev!evVars)
  OBVIOUS
<1>1. CASE UNCHANGED vars
  BY <1>1 DEF vars, Ev!evVars
<1>2. CASE Untouched
  BY <1>2, UntouchedUnchanged DEF evVars, Ev!evVars
<1>3. CASE \E id \in Obj!ObjIds, pos \in Positions, st \in StationTypes,
             h \in Headings : RecvObject(id, pos, st, h)
  BY <1>3 DEF RecvObject, evVars, Ev!evVars
<1>4. CASE \E id \in Ev!EvIds, pos \in Positions, cause \in CauseCodes :
             RecvEvent(id, pos, cause)
  BY <1>4 DEF RecvEvent, Ev!EvNext
<1>5. CASE \E raw \in Ev!EvIds : RecvObjEventClean(raw)
  BY <1>5 DEF RecvObjEventClean, Ev!EvNext, evVars, Ev!evVars
<1>6. CASE \E raw \in Obj!ObjIds : RecvObjClean(raw)
  BY <1>6 DEF RecvObjClean, evVars, Ev!evVars
<1>. QED
  BY <1>1, <1>2, <1>3, <1>4, <1>5, <1>6, NextCases

\* Each registry's own specification is a property of the handler:
\* malformed, early-returned, thrown and foreign messages leave it alone.
THEOREM RegistriesRefined == Spec => ObjRegistryRefined /\ EvRegistryRefined
<1>1. Init => Obj!ObjInit /\ Ev!EvInit
  BY DEF Init
<1>. QED
  BY <1>1, ObjStep, EvStep, PTL
     DEF Spec, ObjRegistryRefined, EvRegistryRefined, Obj!ObjSpec, Ev!EvSpec

\* What each registry keeps on its own it keeps inside the handler, NaN
\* headings included: the icon caches agree with the live markers, a
\* duplicated object message is a no-op, and causes 6 and 7 show their
\* icons, whatever map, malformed or foreign messages are interleaved.
THEOREM VisRegistryInvariants ==
    Spec => [](/\ Obj!IconCacheCoherent /\ Obj!Idempotent
               /\ Ev!EvIconCacheCoherent /\ Ev!EvIconMatchesPopup)
<1>1. Obj!ObjSpec => [](Obj!IconCacheCoherent /\ Obj!Idempotent)
  <2>1. Obj!ObjSpec => []Obj!IconCacheCoherent
    BY Obj!ObjCacheCoherent
  <2>2. Obj!ObjSpec => []Obj!Idempotent
    BY Obj!ObjIdempotent
  <2>. QED
    BY <2>1, <2>2, PTL
<1>2. Ev!EvSpec => [](Ev!EvIconCacheCoherent /\ Ev!EvIconMatchesPopup)
  BY Ev!EvIconCorrect
<1>. QED
  BY <1>1, <1>2, RegistriesRefined, PTL DEF ObjRegistryRefined, EvRegistryRefined

\* A step that prints console.error changes neither the map nor either
\* registry: wrong field counts, updates before the map and a throwing
\* Leaflet call are dropped whole.
THEOREM VisErrorChangesNothing == Spec => ErrorChangesNothing
<1>1. ASSUME [Next]_vars, report' = "error"
      PROVE  UNCHANGED <<mapVars, objVars, evVars>>
  <2>1. CASE UNCHANGED vars
    BY <2>1 DEF vars, mapVars, objVars, evVars
  <2>2. CASE Untouched
    <3>1. UNCHANGED <<objVars, evVars>>
      BY <2>2, UntouchedUnchanged
    <3>2. UNCHANGED mapVars
      BY <1>1, <2>2 DEF Untouched, RecvNull, RecvMapAreas, RecvMap, RecvMapIgnored,
                        RecvCorrupted, RecvUpdateNoMap, RecvEventThrows, RecvTerminate,
                        RecvUnknown
    <3>. QED
      BY <3>1, <3>2
  <2>3. CASE \E id \in Obj!ObjIds, pos \in Positions, st \in StationTypes,
               h \in Headings : RecvObject(id, pos, st, h)
    BY <1>1, <2>3 DEF RecvObject
  <2>4. CASE \E id \in Ev!EvIds, pos \in Positions, cause \in CauseCodes :
               RecvEvent(id, pos, cause)
    BY <1>1, <2>4 DEF RecvEvent
  <2>5. CASE \E raw \in Ev!EvIds : RecvObjEventClean(raw)
    BY <1>1, <2>5 DEF RecvObjEventClean
  <2>6. CASE \E raw \in Obj!ObjIds : RecvObjClean(raw)
    BY <1>1, <2>6 DEF RecvObjClean
  <2>. QED
    BY <1>1, <2>1, <2>2, <2>3, <2>4, <2>5, <2>6, NextCases
<1>. QED
  BY <1>1, PTL DEF Spec, ErrorChangesNothing

\* When every heading field parses to a number, every live object shows an
\* icon allowed by the station type and heading validity of the last
\* object message for its id, inside the handler as in the registry alone.
THEOREM VisIconReflectsLastReport ==
    ASSUME NaN \notin Headings
    PROVE  Spec => []Obj!IconReflectsLastReport
<1>1. Obj!ObjSpec => [](Obj!IconCacheCoherent /\ Obj!IconReflectsLastReport)
  BY Obj!ObjIconCorrect
<1>. QED
  BY <1>1, RegistriesRefined, PTL DEF ObjRegistryRefined

-----------------------------------------------------------------------------
(***************************************************************************)
(* The inductive invariant.                                                *)
(***************************************************************************)

\* draw_map returns a map, and a map is not NULL.
LEMMA DrawMapTyped ==
    ASSUME NEW center \in Positions, NEW bounds \in [1..4 -> MapCoords],
           NEW ext \in [1..2 -> MapCoords]
    PROVE  /\ DrawMap(center, bounds, ext) \in MapView
           /\ DrawMap(center, bounds, ext) # NULL
<1>1. DrawMap(center, bounds, ext) \in MapView
  BY DEF DrawMap, MapView
<1>. QED
  BY <1>1 DEF MapView

\* The keys objclean and objEventClean compute are keys of the registries.
LEMMA CleanKeys ==
    /\ \A raw \in Obj!ObjIds : Obj!ParseIntKey(raw) \in Obj!ObjIds
    /\ \A raw \in Ev!EvIds : Ev!StripNul(raw) \in Ev!EvIds
<1>1. \A raw \in Obj!ObjIds : Obj!ParseIntKey(raw) \in Obj!ObjIds
  BY Obj!ObjectAssumption DEF Obj!ParseIntKey, Obj!ObjIds
<1>. QED
  BY <1>1, Ev!StripNulKey

LEMMA VisInvInit == Init => VisInv
<1>. SUFFICES ASSUME Init PROVE VisInv
  OBVIOUS
<1>1. Obj!TypeInv /\ Ev!EvTypeInv
  BY Obj!TypeInvInit, Ev!EvTypeInvInit DEF Init
<1>. QED
  BY <1>1 DEF Init, Obj!ObjInit, Ev!EvInit, VisInv, TypeOK, Obj!TypeInv,
              Ev!EvTypeInv, MapFlag, NoMarkerBeforeMap, Reports

\* Only a map message changes leafletmap, and only from NULL to a map.
LEMMA MapStep ==
    ASSUME VisInv, [Next]_vars
    PROVE  /\ map_rx' \in BOOLEAN
           /\ leafletmap' \in MapView \cup {NULL}
           /\ MapFlag'
           /\ leafletmap' = NULL => leafletmap = NULL
           /\ leafletmap # NULL => leafletmap' = leafletmap
<1>1. CASE \E center \in Positions, bounds \in [1..4 -> MapCoords],
             ext \in [1..2 -> MapCoords] : RecvMapAreas(center, bounds, ext)
  <2>1. PICK center \in Positions, bounds \in [1..4 -> MapCoords],
             ext \in [1..2 -> MapCoords] : RecvMapAreas(center, bounds, ext)
    BY <1>1
  <2>. QED
    BY <2>1, DrawMapTyped DEF RecvMapAreas, VisInv, MapFlag
<1>2. CASE \E center \in Positions : RecvMap(center)
  <2>1. PICK center \in Positions : RecvMap(center)
    BY <1>2
  <2>2. /\ [i \in 1..4 |-> VIS_LONLAT_INVALID] \in [1..4 -> MapCoords]
        /\ [i \in 1..2 |-> VIS_LONLAT_INVALID] \in [1..2 -> MapCoords]
    OBVIOUS
  <2>. QED
    BY <2>1, <2>2, DrawMapTyped DEF RecvMap, VisInv, MapFlag
<1>3. CASE UNCHANGED mapVars
  BY <1>3 DEF mapVars, VisInv, TypeOK, MapFlag
<1>. QED
  <2>1. CASE UNCHANGED vars
    BY <2>1, <1>3 DEF vars, mapVars
  <2>2. CASE Next
    <3>1. CASE Untouched
      BY <3>1, <1>1, <1>2, <1>3
         DEF Untouched, RecvNull, RecvMapIgnored, RecvCorrupted,
             RecvUpdateNoMap, RecvEventThrows, RecvTerminate, RecvUnknown
    <3>2. CASE ~Untouched
      BY <2>2, <3>2, <1>3, NextCases
         DEF RecvObject, RecvEvent, RecvObjEventClean, RecvObjClean
    <3>. QED
      BY <3>1, <3>2
  <2>. QED
    BY <2>1, <2>2

\* Only applied object and event messages set the history, to their own
\* key and position; every message sets the console level.
LEMMA HistStep ==
    ASSUME VisInv, [Next]_vars
    PROVE  /\ report' \in Reports
           /\ lastUpsert' \in ({"object"} \X Obj!ObjIds \X Positions)
                              \cup ({"event"} \X Ev!EvIds \X Positions)
                              \cup {NoMarker}
<1>1. CASE UNCHANGED vars
  BY <1>1 DEF vars, VisInv, TypeOK
<1>2. CASE Untouched
  BY <1>2, UntouchedUnchanged
     DEF Untouched, RecvNull, RecvMapAreas, RecvMap, RecvMapIgnored,
         RecvCorrupted, RecvUpdateNoMap, RecvEventThrows, RecvTerminate,
         RecvUnknown, Reports, VisInv, TypeOK
<1>3. CASE \E id \in Obj!ObjIds, pos \in Positions, st \in StationTypes,
             h \in Headings : RecvObject(id, pos, st, h)
  BY <1>3 DEF RecvObject, Reports
<1>4. CASE \E id \in Ev!EvIds, pos \in Positions, cause \in CauseCodes :
             RecvEvent(id, pos, cause)
  BY <1>4 DEF RecvEvent, Reports
<1>5. CASE \E raw \in Ev!EvIds : RecvObjEventClean(raw)
  BY <1>5 DEF RecvObjEventClean, Reports, VisInv, TypeOK
<1>6. CASE \E raw \in Obj!ObjIds : RecvObjClean(raw)
  BY <1>6 DEF RecvObjClean, Reports, VisInv, TypeOK
<1>. QED
  BY <1>1, <1>2, <1>3, <1>4, <1>5, <1>6, NextCases

\* Before the map exists no step creates a marker: updates return early,
\* and a removal finds nothing to remove.
LEMMA NoMarkerStep ==
    ASSUME VisInv, [Next]_vars
    PROVE  NoMarkerBeforeMap'
<1>1. CASE leafletmap' # NULL
  BY <1>1 DEF NoMarkerBeforeMap
<1>2. CASE leafletmap' = NULL
  <2>1. leafletmap = NULL
    BY <1>2, MapStep
  <2>2. /\ \A k \in Obj!ObjIds : markers[k] = NoMarker /\ objLayers[k] = 0
        /\ \A k \in Ev!EvIds : eventMarkers[k] = NoMarker /\ evLayers[k] = 0
    BY <2>1 DEF VisInv, NoMarkerBeforeMap
  <2>3. CASE UNCHANGED vars
    BY <2>2, <2>3 DEF vars, NoMarkerBeforeMap
  <2>4. CASE Untouched
    BY <2>2, <2>4, UntouchedUnchanged DEF objVars, evVars, NoMarkerBeforeMap
  <2>5. CASE \E id \in Obj!ObjIds, pos \in Positions, st \in StationTypes,
               h \in Headings : RecvObject(id, pos, st, h)
    BY <2>1, <2>5 DEF RecvObject
  <2>6. CASE \E id \in Ev!EvIds, pos \in Positions, cause \in CauseCodes :
               RecvEvent(id, pos, cause)
    BY <2>1, <2>6 DEF RecvEvent
  <2>7. CASE \E raw \in Ev!EvIds : RecvObjEventClean(raw)
    <3>1. PICK raw \in Ev!EvIds : RecvObjEventClean(raw)
      BY <2>7
    <3>2. eventMarkers[Ev!StripNul(raw)] = NoMarker
      BY <2>2, CleanKeys
    <3>3. ~Ev!EventClean(raw)
      BY <3>2 DEF Ev!EventClean
    <3>4. UNCHANGED <<markers, objLayers, eventMarkers, evLayers>>
      BY <3>1, <3>3 DEF RecvObjEventClean, objVars, evVars
    <3>. QED
      BY <2>2, <3>4 DEF NoMarkerBeforeMap
  <2>8. CASE \E raw \in Obj!ObjIds : RecvObjClean(raw)
    <3>1. PICK raw \in Obj!ObjIds : RecvObjClean(raw)
      BY <2>8
    <3>2. markers[Obj!ParseIntKey(raw)] = NoMarker
      BY <2>2, CleanKeys
    <3>3. ~Obj!ObjClean(raw)
      BY <3>2 DEF Obj!ObjClean
    <3>4. UNCHANGED <<markers, objLayers, eventMarkers, evLayers>>
      BY <3>1, <3>3 DEF RecvObjClean, objVars, evVars
    <3>. QED
      BY <2>2, <3>4 DEF NoMarkerBeforeMap
  <2>. QED
    BY <2>3, <2>4, <2>5, <2>6, <2>7, <2>8, NextCases
<1>. QED
  BY <1>1, <1>2

LEMMA VisInvNext == VisInv /\ [Next]_vars => VisInv'
<1>. SUFFICES ASSUME VisInv, [Next]_vars PROVE VisInv'
  OBVIOUS
<1>1. Obj!TypeInv'
  <2>1. Obj!TypeInv
    BY DEF VisInv, TypeOK, Obj!TypeInv
  <2>. QED
    BY <2>1, ObjStep, Obj!TypeInvNext
<1>2. Ev!EvTypeInv'
  <2>1. Ev!EvTypeInv
    BY DEF VisInv, TypeOK, Ev!EvTypeInv
  <2>. QED
    BY <2>1, EvStep, Ev!EvTypeInvNext
<1>. QED
  BY <1>1, <1>2, MapStep, HistStep, NoMarkerStep
     DEF VisInv, TypeOK, Obj!TypeInv, Ev!EvTypeInv

\* The handler's variables always have their declared kinds.
THEOREM VisTypeCorrect == Spec => []TypeOK
<1>1. Spec => []VisInv
  BY VisInvInit, VisInvNext, PTL DEF Spec
<1>. QED
  BY <1>1, PTL DEF VisInv

\* No marker of either registry exists, and none is displayed, before a
\* map message has drawn the map (update_marker and update_EventMarker
\* return on a null map, lines 283 and 333).
THEOREM VisNoMarkerBeforeMap == Spec => []NoMarkerBeforeMap
<1>1. Spec => []VisInv
  BY VisInvInit, VisInvNext, PTL DEF Spec
<1>. QED
  BY <1>1, PTL DEF VisInv

\* Once drawn, the map is never redrawn or replaced (the map_rx guard of
\* the map_areas and map cases).
THEOREM VisMapDrawnOnce == Spec => MapDrawnOnce
<1>1. Spec => []VisInv
  BY VisInvInit, VisInvNext, PTL DEF Spec
<1>2. VisInv /\ [Next]_vars => [leafletmap # NULL => leafletmap' = leafletmap]_vars
  BY MapStep
<1>. QED
  BY <1>1, <1>2, PTL DEF Spec, MapDrawnOnce

-----------------------------------------------------------------------------
(***************************************************************************)
(* The handler implements TrackedMap under the refinement mapping Tracked. *)
(***************************************************************************)

\* The abstract state as the mapping computes it.
AbsObjects == [k \in Obj!ObjIds |->
                 IF markers[k] = NoMarker THEN NoMarker ELSE markers[k].pos]
AbsEvents == [k \in Ev!EvIds |->
                IF eventMarkers[k] = NoMarker THEN NoMarker
                ELSE [pos |-> eventMarkers[k].pos, cause |-> eventMarkers[k].popup]]

LEMMA RefInit == Init => Tracked!Init
BY DEF Init, Obj!ObjInit, Ev!EvInit, Tracked!Init

\* An applied object message tracks its key at the reported position: the
\* marker created or moved is a marker, at that position, and every other
\* key keeps its marker.
LEMMA ObjectRefined ==
    ASSUME VisInv, NEW id \in Obj!ObjIds, NEW pos \in Positions,
           NEW st \in StationTypes, NEW h \in Headings,
           RecvObject(id, pos, st, h)
    PROVE  Tracked!UpsertObject(id, pos)
<1>1. /\ markers \in [Obj!ObjIds -> Obj!ObjMarker \cup {NoMarker}]
      /\ markersicons \in [Obj!ObjIds -> Obj!ObjectIcons \cup {Undefined}]
  BY DEF VisInv, TypeOK, Obj!ObjTypeOK
<1>2. /\ markers'[id] \in Obj!ObjMarker
      /\ markers'[id].pos = pos
      /\ \A k \in Obj!ObjIds \ {id} : markers'[k] = markers[k]
  <2>1. CASE Obj!CreateMarker(id, pos, st, h)
    <3>1. Obj!NewObjMarker(pos, st, h) \in Obj!ObjMarker
      BY Obj!NewObjMarkerTyped
    <3>. QED
      BY <1>1, <2>1, <3>1 DEF Obj!CreateMarker, Obj!NewObjMarker
  <2>2. CASE Obj!MoveMarker(id, pos, st, h)
    <3>1. Obj!MovedObjMarker(markers[id], markersicons[id], pos, st, h) \in Obj!ObjMarker
      BY <1>1, <2>2, Obj!MovedObjMarkerTyped DEF Obj!MoveMarker
    <3>. QED
      BY <1>1, <2>2, <3>1 DEF Obj!MoveMarker, Obj!MovedObjMarker
  <2>. QED
    BY <2>1, <2>2 DEF RecvObject
<1>3. markers'[id] # NoMarker
  BY <1>2, Obj!MarkerNotNoMarker
<1>4. AbsObjects' = [AbsObjects EXCEPT ![id] = pos]
  BY <1>2, <1>3 DEF AbsObjects
<1>. QED
  BY <1>4 DEF RecvObject, Tracked!UpsertObject, AbsObjects, evVars, mapVars

\* An applied event message tracks its key at the reported position with
\* the reported cause code.
LEMMA EventRefined ==
    ASSUME VisInv, NEW id \in Ev!EvIds, NEW pos \in Positions,
           NEW cause \in CauseCodes, RecvEvent(id, pos, cause)
    PROVE  Tracked!UpsertEvent(id, pos, cause)
<1>1. /\ eventMarkers \in [Ev!EvIds -> Ev!EvMarker \cup {NoMarker}]
      /\ eventMarkersIcons \in [Ev!EvIds -> Ev!EventIcons \cup {Undefined}]
  BY DEF VisInv, TypeOK, Ev!EvTypeOK
<1>2. /\ eventMarkers'[id] \in Ev!EvMarker
      /\ eventMarkers'[id].pos = pos
      /\ eventMarkers'[id].popup = cause
      /\ \A k \in Ev!EvIds \ {id} : eventMarkers'[k] = eventMarkers[k]
  <2>1. CASE Ev!CreateEventMarker(id, pos, cause)
    <3>1. Ev!NewEvMarker(pos, cause) \in Ev!EvMarker
      BY Ev!NewEvMarkerTyped
    <3>. QED
      BY <1>1, <2>1, <3>1 DEF Ev!CreateEventMarker, Ev!NewEvMarker
  <2>2. CASE Ev!MoveEventMarker(id, pos, cause)
    <3>1. Ev!MovedEvMarker(eventMarkers[id], eventMarkersIcons[id], pos, cause)
            \in Ev!EvMarker
      BY <1>1, <2>2, Ev!MovedEvMarkerTyped DEF Ev!MoveEventMarker
    <3>. QED
      BY <1>1, <2>2, <3>1 DEF Ev!MoveEventMarker, Ev!MovedEvMarker
  <2>. QED
    BY <2>1, <2>2 DEF RecvEvent
<1>3. eventMarkers'[id] # NoMarker
  BY <1>2, Ev!EventAssumption
<1>4. AbsEvents' = [AbsEvents EXCEPT ![id] = [pos |-> pos, cause |-> cause]]
  BY <1>2, <1>3 DEF AbsEvents
<1>. QED
  BY <1>4 DEF RecvEvent, Tracked!UpsertEvent, AbsEvents, objVars, mapVars

\* An applied objclean forgets the key it computes.
LEMMA ObjCleanRefined ==
    ASSUME VisInv, NEW raw \in Obj!ObjIds, Obj!ObjClean(raw),
           UNCHANGED <<mapVars, evVars, lastUpsert>>
    PROVE  Tracked!RemoveObject(Obj!ParseIntKey(raw))
<1>. DEFINE key == Obj!ParseIntKey(raw)
<1>1. key \in Obj!ObjIds
  BY CleanKeys
<1>2. markers \in [Obj!ObjIds -> Obj!ObjMarker \cup {NoMarker}]
  BY DEF VisInv, TypeOK, Obj!ObjTypeOK
<1>3. AbsObjects' = [AbsObjects EXCEPT ![key] = NoMarker]
  BY <1>1, <1>2 DEF Obj!ObjClean, AbsObjects
<1>. QED
  BY <1>3 DEF Tracked!RemoveObject, AbsObjects, evVars, mapVars

\* An applied objEventClean forgets the key it computes.
LEMMA EventCleanRefined ==
    ASSUME VisInv, NEW raw \in Ev!EvIds, Ev!EventClean(raw),
           UNCHANGED <<mapVars, objVars, lastUpsert>>
    PROVE  Tracked!RemoveEvent(Ev!StripNul(raw))
<1>. DEFINE key == Ev!StripNul(raw)
<1>1. key \in Ev!EvIds
  BY CleanKeys
<1>2. eventMarkers \in [Ev!EvIds -> Ev!EvMarker \cup {NoMarker}]
  BY DEF VisInv, TypeOK, Ev!EvTypeOK
<1>3. AbsEvents' = [AbsEvents EXCEPT ![key] = NoMarker]
  BY <1>1, <1>2 DEF Ev!EventClean, AbsEvents
<1>. QED
  BY <1>3 DEF Tracked!RemoveEvent, AbsEvents, objVars, mapVars

\* Every handler step is a TrackedMap step or leaves the abstract state
\* alone.
LEMMA RefStep ==
    ASSUME VisInv, [Next]_vars
    PROVE  [Tracked!Next]_(Tracked!vars)
<1>. DEFINE stutter == UNCHANGED <<leafletmap # NULL, markers, eventMarkers, lastUpsert>>
<1>1. stutter => UNCHANGED Tracked!vars
  BY DEF Tracked!vars
<1>2. CASE UNCHANGED vars
  BY <1>1, <1>2 DEF vars
<1>3. CASE Untouched
  <2>1. UNCHANGED <<markers, eventMarkers, lastUpsert>>
    BY <1>3, UntouchedUnchanged DEF objVars, evVars
  <2>2. CASE leafletmap = NULL /\ leafletmap' # NULL
    BY <2>1, <2>2 DEF Tracked!Next, Tracked!DrawMap
  <2>3. CASE ~(leafletmap = NULL /\ leafletmap' # NULL)
    <3>1. (leafletmap' # NULL) = (leafletmap # NULL)
      BY <2>3, MapStep, <1>3 DEF Untouched, Next
    <3>. QED
      BY <1>1, <2>1, <3>1
  <2>. QED
    BY <2>2, <2>3
<1>4. CASE \E id \in Obj!ObjIds, pos \in Positions, st \in StationTypes,
             h \in Headings : RecvObject(id, pos, st, h)
  BY <1>4, ObjectRefined DEF Tracked!Next
<1>5. CASE \E id \in Ev!EvIds, pos \in Positions, cause \in CauseCodes :
             RecvEvent(id, pos, cause)
  BY <1>5, EventRefined DEF Tracked!Next
<1>6. CASE \E raw \in Ev!EvIds : RecvObjEventClean(raw)
  <2>1. PICK raw \in Ev!EvIds : RecvObjEventClean(raw)
    BY <1>6
  <2>2. CASE Ev!EventClean(raw)
    <3>1. UNCHANGED <<mapVars, objVars, lastUpsert>>
      BY <2>1, <2>2 DEF RecvObjEventClean, evVars, Ev!EventClean
    <3>2. Ev!StripNul(raw) \in Ev!EvIds
      BY CleanKeys
    <3>. QED
      BY <2>2, <3>1, <3>2, EventCleanRefined DEF Tracked!Next
  <2>3. CASE ~Ev!EventClean(raw)
    BY <1>1, <2>1, <2>3 DEF RecvObjEventClean, mapVars, objVars, evVars
  <2>. QED
    BY <2>2, <2>3
<1>7. CASE \E raw \in Obj!ObjIds : RecvObjClean(raw)
  <2>1. PICK raw \in Obj!ObjIds : RecvObjClean(raw)
    BY <1>7
  <2>2. CASE Obj!ObjClean(raw)
    <3>1. UNCHANGED <<mapVars, evVars, lastUpsert>>
      BY <2>1, <2>2 DEF RecvObjClean, objVars, Obj!ObjClean
    <3>2. Obj!ParseIntKey(raw) \in Obj!ObjIds
      BY CleanKeys
    <3>. QED
      BY <2>2, <3>1, <3>2, ObjCleanRefined DEF Tracked!Next
  <2>3. CASE ~Obj!ObjClean(raw)
    BY <1>1, <2>1, <2>3 DEF RecvObjClean, mapVars, objVars, evVars
  <2>. QED
    BY <2>2, <2>3
<1>. QED
  BY <1>2, <1>3, <1>4, <1>5, <1>6, <1>7, NextCases

\* The handler implements the abstract specification: the map is drawn
\* once, nothing is tracked before it, every applied object or event
\* message tracks exactly its key at the reported position (and cause
\* code), every applied removal forgets exactly its key, and every other
\* message changes nothing tracked.
THEOREM VisRefinesTrackedMap == Spec => TrackedMapRefined
<1>1. Spec => []VisInv
  BY VisInvInit, VisInvNext, PTL DEF Spec
<1>2. VisInv /\ [Next]_vars => [Tracked!Next]_(Tracked!vars)
  BY RefStep
<1>. QED
  BY <1>1, <1>2, RefInit, PTL DEF Spec, TrackedMapRefined, Tracked!Spec
=============================================================================
