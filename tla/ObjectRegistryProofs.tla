------------------------- MODULE ObjectRegistryProofs -------------------------
(***************************************************************************)
(* Proofs about the object registry (update_marker and objclean) for every *)
(* set of ids, positions, station types and headings.                     *)
(***************************************************************************)
EXTENDS ObjectRegistry, TLAPS

-----------------------------------------------------------------------------
(***************************************************************************)
(* Lemmas about the icon classification.                                   *)
(***************************************************************************)

\* The switch on the station type returns an object icon.
LEMMA StationIconTyped ==
    ASSUME NEW st \in Int
    PROVE  StationIcon(st) \in ObjectIcons
BY DEF StationIcon, ObjectIcons, CAR_ICO_IDX, DETECTED_CAR_ICO_IDX,
       DETECTED_PEDESTRIAN_ICO_IDX, DETECTED_TRUCK_ICO_IDX

\* A new object is created with an object icon.
LEMMA InitialIconTyped ==
    ASSUME NEW st \in Int, NEW h \in Int \cup {NaN}
    PROVE  InitialObjectIcon(st, h) \in ObjectIcons
BY StationIconTyped DEF InitialObjectIcon, ObjectIcons, CIRCLE_ICO_IDX,
                        DETECTED_CAR_ICO_IDX

\* An update moves an object icon to an object icon.
LEMMA UpdatedIconTyped ==
    ASSUME NEW st \in Int, NEW h \in Int \cup {NaN}, NEW c \in ObjectIcons
    PROVE  UpdatedObjectIcon(c, st, h) \in ObjectIcons
BY StationIconTyped DEF UpdatedObjectIcon, ObjectIcons, CIRCLE_ICO_IDX,
                        GREEN_CIRCLE_ICO_IDX

\* An update leaves an undefined cached index undefined.
LEMMA UndefinedIconStays ==
    ASSUME NEW st \in Int, NEW h \in Int \cup {NaN}
    PROVE  UpdatedObjectIcon(Undefined, st, h) = Undefined
BY SentinelAssumption DEF UpdatedObjectIcon, CAR_ICO_IDX, CIRCLE_ICO_IDX,
                          GREEN_CIRCLE_ICO_IDX

\* A report is a station type paired with a truth value.
LEMMA HeadingValidBoolean ==
    ASSUME NEW st \in StationTypes, NEW h \in Int \cup {NaN}
    PROVE  <<st, HeadingValid(h)>> \in StationTypes \X BOOLEAN
<1>1. HeadingValid(h) \in BOOLEAN
  <2>1. CASE h = NaN
    BY <2>1 DEF HeadingValid
  <2>2. CASE h \in Int
    BY <2>2 DEF HeadingValid, VIS_HEADING_INVALID
  <2>. QED
    BY <2>1, <2>2
<1>. QED
  BY <1>1, Zenon

\* Every marker differs from NoMarker.
LEMMA MarkerNotNoMarker ==
    ASSUME NEW mk \in ObjMarker
    PROVE  mk # NoMarker
BY ObjectAssumption

\* A created marker is a marker.
LEMMA NewObjMarkerTyped ==
    ASSUME NEW pos \in Positions, NEW st \in StationTypes, NEW h \in Headings
    PROVE  NewObjMarker(pos, st, h) \in ObjMarker
<1>1. InitialObjectIcon(st, h) \in ObjectIcons
  BY InitialIconTyped, ObjectAssumption
<1>. QED
  BY <1>1 DEF NewObjMarker, ObjMarker, Rotations, Popups

\* An updated marker is a marker.
LEMMA MovedObjMarkerTyped ==
    ASSUME NEW pos \in Positions, NEW st \in StationTypes, NEW h \in Headings,
           NEW mk \in ObjMarker, NEW c \in ObjectIcons \cup {Undefined}
    PROVE  MovedObjMarker(mk, c, pos, st, h) \in ObjMarker
<1>1. UpdatedPopup(mk.popup, c, h) \in Popups
  BY DEF ObjMarker, UpdatedPopup, Popups
<1>2. (IF UpdatedObjectIcon(c, st, h) # c
         THEN UpdatedObjectIcon(c, st, h) ELSE mk.icon) \in ObjectIcons
  <2>1. CASE c \in ObjectIcons
    BY <2>1, UpdatedIconTyped, ObjectAssumption DEF ObjMarker
  <2>2. CASE c = Undefined
    BY <2>2, UndefinedIconStays, ObjectAssumption DEF ObjMarker
  <2>. QED
    BY <2>1, <2>2
<1>. QED
  BY <1>1, <1>2 DEF MovedObjMarker, ObjMarker, Rotations, Popups

-----------------------------------------------------------------------------
(***************************************************************************)
(* Type correctness.  ObjTypeOK alone is not inductive: objclean takes one *)
(* from objLayers[key], which stays in Nat only because a live key has     *)
(* exactly one displayed marker (LayersMatchRegistry).                     *)
(***************************************************************************)

TypeInv == ObjTypeOK /\ LayersMatchRegistry

LEMMA TypeInvInit == ObjInit => TypeInv
BY DEF ObjInit, TypeInv, ObjTypeOK, LayersMatchRegistry

LEMMA TypeInvCreate ==
    ASSUME TypeInv, NEW id \in ObjIds, NEW pos \in Positions,
           NEW st \in StationTypes, NEW h \in Headings,
           CreateMarker(id, pos, st, h)
    PROVE  TypeInv'
<1>0. st \in Int /\ h \in Int \cup {NaN}
  BY ObjectAssumption, Zenon
<1>1. NewObjMarker(pos, st, h) \in ObjMarker /\ InitialObjectIcon(st, h) \in ObjectIcons
  <2>1. NewObjMarker(pos, st, h) \in ObjMarker
    BY NewObjMarkerTyped
  <2>2. InitialObjectIcon(st, h) \in ObjectIcons
    BY <1>0, InitialIconTyped
  <2>. QED
    BY <2>1, <2>2
<1>2. <<st, HeadingValid(h)>> \in StationTypes \X BOOLEAN
  BY HeadingValidBoolean, ObjectAssumption
<1>3. NewObjMarker(pos, st, h) # NoMarker
  BY <1>1, MarkerNotNoMarker
<1>. QED
  BY <1>1, <1>2, <1>3 DEF TypeInv, ObjTypeOK, LayersMatchRegistry, CreateMarker

LEMMA TypeInvMove ==
    ASSUME TypeInv, NEW id \in ObjIds, NEW pos \in Positions,
           NEW st \in StationTypes, NEW h \in Headings,
           MoveMarker(id, pos, st, h)
    PROVE  TypeInv'
<1>1. markers[id] \in ObjMarker
  BY DEF TypeInv, ObjTypeOK, MoveMarker
<1>2. /\ MovedObjMarker(markers[id], markersicons[id], pos, st, h) \in ObjMarker
      /\ UpdatedObjectIcon(markersicons[id], st, h) \in ObjectIcons \cup {Undefined}
  <2>1. markersicons[id] \in ObjectIcons \cup {Undefined}
    BY DEF TypeInv, ObjTypeOK
  <2>2. st \in Int /\ h \in Int \cup {NaN}
    BY ObjectAssumption, Zenon
  <2>3. MovedObjMarker(markers[id], markersicons[id], pos, st, h) \in ObjMarker
    BY <1>1, <2>1, MovedObjMarkerTyped
  <2>4. CASE markersicons[id] \in ObjectIcons
    BY <2>2, <2>3, <2>4, UpdatedIconTyped
  <2>5. CASE markersicons[id] = Undefined
    BY <2>2, <2>3, <2>5, UndefinedIconStays
  <2>. QED
    BY <2>1, <2>3, <2>4, <2>5
<1>3. MovedObjMarker(markers[id], markersicons[id], pos, st, h) # NoMarker
  BY <1>2, MarkerNotNoMarker
<1>4. <<st, HeadingValid(h)>> \in StationTypes \X BOOLEAN
  BY HeadingValidBoolean, ObjectAssumption
<1>. QED
  BY <1>2, <1>3, <1>4 DEF TypeInv, ObjTypeOK, LayersMatchRegistry, MoveMarker

LEMMA TypeInvClean ==
    ASSUME TypeInv, NEW raw \in ObjIds, ObjClean(raw)
    PROVE  TypeInv'
<1>1. ParseIntKey(raw) \in ObjIds
  BY ObjectAssumption DEF ParseIntKey, ObjIds
<1>2. objLayers[ParseIntKey(raw)] = 1
  BY <1>1 DEF TypeInv, LayersMatchRegistry, ObjClean
<1>. QED
  BY <1>1, <1>2 DEF TypeInv, ObjTypeOK, LayersMatchRegistry, ObjClean

LEMMA TypeInvNext == TypeInv /\ [ObjNext]_objVars => TypeInv'
<1>. SUFFICES ASSUME TypeInv, [ObjNext]_objVars PROVE TypeInv'
  OBVIOUS
<1>1. CASE \E id \in ObjIds, pos \in Positions, st \in StationTypes, h \in Headings :
              CreateMarker(id, pos, st, h)
  BY <1>1, TypeInvCreate
<1>2. CASE \E id \in ObjIds, pos \in Positions, st \in StationTypes, h \in Headings :
              MoveMarker(id, pos, st, h)
  BY <1>2, TypeInvMove
<1>3. CASE \E raw \in ObjIds : ObjClean(raw)
  BY <1>3, TypeInvClean
<1>4. CASE UNCHANGED objVars
  BY <1>4 DEF TypeInv, ObjTypeOK, LayersMatchRegistry, objVars
<1>. QED
  BY <1>1, <1>2, <1>3, <1>4 DEF ObjNext

\* The registry only ever holds markers, icon indices, display counts and
\* reports of the declared kinds.
THEOREM ObjTypeCorrect == ObjSpec => []ObjTypeOK
<1>1. ObjSpec => []TypeInv
  BY TypeInvInit, TypeInvNext, PTL DEF ObjSpec
<1>. QED
  BY <1>1, PTL DEF TypeInv

\* The map displays exactly one marker per id in markers and none for a
\* removed id, whatever the headings: objclean's remove() and delete, and
\* update_marker's addTo(map) and store, always happen together.
THEOREM ObjLayersMatch == ObjSpec => []LayersMatchRegistry
<1>1. ObjSpec => []TypeInv
  BY TypeInvInit, TypeInvNext, PTL DEF ObjSpec
<1>. QED
  BY <1>1, PTL DEF TypeInv

-----------------------------------------------------------------------------
(***************************************************************************)
(* The icon cache.  update_marker decides whether to call setIcon on       *)
(* markersicons[id] alone, so a marker keeps the icon it was created or    *)
(* last switched with only if the cache names that icon.  This holds for   *)
(* NaN headings too: the cache and the marker take the same value in both  *)
(* branches.                                                               *)
(***************************************************************************)

CacheInv == TypeInv /\ IconCacheCoherent

\* The update branch leaves the marker with the icon it caches.
LEMMA MovedIconIsCached ==
    ASSUME NEW mk, NEW c, NEW pos, NEW st, NEW h, mk.icon = c
    PROVE  MovedObjMarker(mk, c, pos, st, h).icon = UpdatedObjectIcon(c, st, h)
BY DEF MovedObjMarker

LEMMA CacheInvCreate ==
    ASSUME CacheInv, NEW id \in ObjIds, NEW pos \in Positions,
           NEW st \in StationTypes, NEW h \in Headings,
           CreateMarker(id, pos, st, h)
    PROVE  CacheInv'
<1>1. TypeInv'
  BY TypeInvCreate DEF CacheInv
<1>2. IconCacheCoherent'
  BY DEF CacheInv, TypeInv, ObjTypeOK, IconCacheCoherent, CreateMarker, NewObjMarker
<1>. QED
  BY <1>1, <1>2 DEF CacheInv

LEMMA CacheInvMove ==
    ASSUME CacheInv, NEW id \in ObjIds, NEW pos \in Positions,
           NEW st \in StationTypes, NEW h \in Headings,
           MoveMarker(id, pos, st, h)
    PROVE  CacheInv'
<1>1. TypeInv'
  BY TypeInvMove DEF CacheInv
<1>2. markers[id] \in ObjMarker /\ markers[id].icon = markersicons[id]
  BY DEF CacheInv, TypeInv, ObjTypeOK, IconCacheCoherent, MoveMarker
<1>3. markers'[id].icon = markersicons'[id]
  <2>1. MovedObjMarker(markers[id], markersicons[id], pos, st, h).icon
          = UpdatedObjectIcon(markersicons[id], st, h)
    BY <1>2, MovedIconIsCached
  <2>. QED
    BY <2>1 DEF CacheInv, TypeInv, ObjTypeOK, MoveMarker
<1>4. IconCacheCoherent'
  BY <1>3 DEF CacheInv, TypeInv, ObjTypeOK, IconCacheCoherent, MoveMarker
<1>. QED
  BY <1>1, <1>4 DEF CacheInv

LEMMA CacheInvClean ==
    ASSUME CacheInv, NEW raw \in ObjIds, ObjClean(raw)
    PROVE  CacheInv'
<1>1. TypeInv'
  BY TypeInvClean DEF CacheInv
<1>2. ParseIntKey(raw) \in ObjIds
  BY ObjectAssumption DEF ParseIntKey, ObjIds
<1>3. IconCacheCoherent'
  BY <1>2 DEF CacheInv, TypeInv, ObjTypeOK, IconCacheCoherent, ObjClean
<1>. QED
  BY <1>1, <1>3 DEF CacheInv

LEMMA CacheInvNext == CacheInv /\ [ObjNext]_objVars => CacheInv'
<1>. SUFFICES ASSUME CacheInv, [ObjNext]_objVars PROVE CacheInv'
  OBVIOUS
<1>1. CASE \E id \in ObjIds, pos \in Positions, st \in StationTypes, h \in Headings :
              CreateMarker(id, pos, st, h)
  BY <1>1, CacheInvCreate
<1>2. CASE \E id \in ObjIds, pos \in Positions, st \in StationTypes, h \in Headings :
              MoveMarker(id, pos, st, h)
  BY <1>2, CacheInvMove
<1>3. CASE \E raw \in ObjIds : ObjClean(raw)
  BY <1>3, CacheInvClean
<1>4. CASE UNCHANGED objVars
  BY <1>4 DEF CacheInv, TypeInv, ObjTypeOK, LayersMatchRegistry, IconCacheCoherent,
              objVars
<1>. QED
  BY <1>1, <1>2, <1>3, <1>4 DEF ObjNext

\* markersicons agrees with the icon of every live marker, NaN headings
\* included, across objclean (which leaves the cache behind) and the
\* re-creation that overwrites it.
THEOREM ObjCacheCoherent == ObjSpec => []IconCacheCoherent
<1>0. ObjInit => CacheInv
  BY TypeInvInit DEF ObjInit, CacheInv, IconCacheCoherent
<1>1. ObjSpec => []CacheInv
  BY <1>0, CacheInvNext, PTL DEF ObjSpec
<1>. QED
  BY <1>1, PTL DEF CacheInv

-----------------------------------------------------------------------------
(***************************************************************************)
(* The icon a live marker shows.  update_marker switches icons only out of *)
(* the car and the two circles, and decides the switch on markersicons,    *)
(* the cached index, not on the marker.  The icon is right after every     *)
(* report only because the cache is right: IconCacheCoherent is what makes *)
(* IconReflectsLastReport inductive, and it has to survive objclean       *)
(* leaving markersicons behind for a later re-creation.                    *)
(***************************************************************************)

\* A new marker's icon agrees with the report that created it.
LEMMA InitialIconAllowed ==
    ASSUME NEW st \in Int, NEW h \in Int
    PROVE  InitialObjectIcon(st, h) \in AllowedIcons(st, HeadingValid(h))
BY SentinelAssumption DEF InitialObjectIcon, AllowedIcons, StationIcon, Pedestrian, ObjectIcons,
       HeadingValid, HeadingInvalid, VIS_HEADING_INVALID, CAR_ICO_IDX, CIRCLE_ICO_IDX,
       GREEN_CIRCLE_ICO_IDX, DETECTED_CAR_ICO_IDX, DETECTED_PEDESTRIAN_ICO_IDX,
       DETECTED_TRUCK_ICO_IDX

\* Whatever object icon is cached, the update's icon agrees with the report.
LEMMA UpdatedIconAllowed ==
    ASSUME NEW st \in Int, NEW h \in Int, NEW c \in ObjectIcons
    PROVE  UpdatedObjectIcon(c, st, h) \in AllowedIcons(st, HeadingValid(h))
<1>. DEFINE D == {CAR_ICO_IDX, DETECTED_CAR_ICO_IDX, DETECTED_PEDESTRIAN_ICO_IDX,
                 DETECTED_TRUCK_ICO_IDX}
<1>1. StationIcon(st) \in D
  BY DEF StationIcon, Pedestrian, CAR_ICO_IDX, DETECTED_CAR_ICO_IDX,
         DETECTED_PEDESTRIAN_ICO_IDX, DETECTED_TRUCK_ICO_IDX
<1>2. CASE st = 0
  <2>1. AllowedIcons(st, HeadingValid(h)) = ObjectIcons \ {CAR_ICO_IDX, CIRCLE_ICO_IDX}
    BY <1>2, SentinelAssumption DEF AllowedIcons, HeadingValid, HeadingInvalid, VIS_HEADING_INVALID
  <2>2. CASE c \in {CAR_ICO_IDX, CIRCLE_ICO_IDX}
    BY <1>2, <2>1, <2>2, SentinelAssumption DEF UpdatedObjectIcon, ObjectIcons, CAR_ICO_IDX,
                            CIRCLE_ICO_IDX, GREEN_CIRCLE_ICO_IDX, HeadingValid, HeadingInvalid, VIS_HEADING_INVALID
  <2>3. CASE c \notin {CAR_ICO_IDX, CIRCLE_ICO_IDX}
    BY <1>2, <2>1, <2>3, SentinelAssumption DEF UpdatedObjectIcon, ObjectIcons, CAR_ICO_IDX,
                            CIRCLE_ICO_IDX, GREEN_CIRCLE_ICO_IDX, HeadingValid, HeadingInvalid, VIS_HEADING_INVALID
  <2>. QED
    BY <2>2, <2>3
<1>3. CASE st # 0 /\ ~HeadingValid(h)
  BY <1>3, SentinelAssumption DEF UpdatedObjectIcon, AllowedIcons, ObjectIcons, CAR_ICO_IDX,
              CIRCLE_ICO_IDX, GREEN_CIRCLE_ICO_IDX, HeadingValid, HeadingInvalid, VIS_HEADING_INVALID
<1>4. CASE st # 0 /\ HeadingValid(h)
  BY <1>1, <1>4, SentinelAssumption DEF UpdatedObjectIcon, AllowedIcons, ObjectIcons, CAR_ICO_IDX,
                    CIRCLE_ICO_IDX, GREEN_CIRCLE_ICO_IDX, DETECTED_CAR_ICO_IDX,
                    DETECTED_PEDESTRIAN_ICO_IDX, DETECTED_TRUCK_ICO_IDX, HeadingValid,
                    HeadingInvalid, VIS_HEADING_INVALID
<1>. QED
  BY <1>2, <1>3, <1>4

IconInv == TypeInv /\ IconCacheCoherent /\ IconReflectsLastReport

LEMMA IconInvInit == ObjInit => IconInv
BY TypeInvInit DEF ObjInit, IconInv, IconCacheCoherent, IconReflectsLastReport

LEMMA IconInvCreate ==
    ASSUME NaN \notin Headings, IconInv, NEW id \in ObjIds, NEW pos \in Positions,
           NEW st \in StationTypes, NEW h \in Headings,
           CreateMarker(id, pos, st, h)
    PROVE  IconInv'
<1>1. TypeInv'
  BY TypeInvCreate DEF IconInv
<1>2. st \in Int /\ h \in Int
  BY ObjectAssumption, Zenon
<1>3. InitialObjectIcon(st, h) \in AllowedIcons(st, HeadingValid(h))
  BY <1>2, InitialIconAllowed
<1>4. IconCacheCoherent'
  BY DEF IconInv, TypeInv, ObjTypeOK, IconCacheCoherent, CreateMarker, NewObjMarker
<1>5. IconReflectsLastReport'
  BY <1>3 DEF IconInv, TypeInv, ObjTypeOK, IconReflectsLastReport, CreateMarker,
              NewObjMarker
<1>. QED
  BY <1>1, <1>4, <1>5 DEF IconInv

LEMMA IconInvMove ==
    ASSUME NaN \notin Headings, IconInv, NEW id \in ObjIds, NEW pos \in Positions,
           NEW st \in StationTypes, NEW h \in Headings,
           MoveMarker(id, pos, st, h)
    PROVE  IconInv'
<1>1. TypeInv'
  BY TypeInvMove DEF IconInv
<1>2. st \in Int /\ h \in Int
  BY ObjectAssumption, Zenon
<1>3. markers[id] \in ObjMarker /\ markers[id].icon = markersicons[id]
  BY DEF IconInv, TypeInv, ObjTypeOK, IconCacheCoherent, MoveMarker
<1>4. markersicons[id] \in ObjectIcons
  BY <1>3 DEF ObjMarker
<1>5. markers'[id].icon = UpdatedObjectIcon(markersicons[id], st, h)
  BY <1>3 DEF IconInv, TypeInv, ObjTypeOK, MoveMarker, MovedObjMarker
<1>6. UpdatedObjectIcon(markersicons[id], st, h) \in AllowedIcons(st, HeadingValid(h))
  BY <1>2, <1>4, UpdatedIconAllowed
<1>7. IconCacheCoherent'
  BY <1>5 DEF IconInv, TypeInv, ObjTypeOK, IconCacheCoherent, MoveMarker
<1>8. IconReflectsLastReport'
  BY <1>5, <1>6 DEF IconInv, TypeInv, ObjTypeOK, IconReflectsLastReport, MoveMarker
<1>. QED
  BY <1>1, <1>7, <1>8 DEF IconInv

LEMMA IconInvClean ==
    ASSUME IconInv, NEW raw \in ObjIds, ObjClean(raw)
    PROVE  IconInv'
<1>1. TypeInv'
  BY TypeInvClean DEF IconInv
<1>2. ParseIntKey(raw) \in ObjIds
  BY ObjectAssumption DEF ParseIntKey, ObjIds
<1>3. IconCacheCoherent' /\ IconReflectsLastReport'
  <2>. SUFFICES ASSUME NEW k \in ObjIds, markers'[k] # NoMarker
                PROVE  /\ markers'[k].icon = markersicons'[k]
                       /\ markers'[k].icon \in AllowedIcons(lastReport'[k][1],
                                                            lastReport'[k][2])
    BY DEF IconCacheCoherent, IconReflectsLastReport
  <2>1. k # ParseIntKey(raw)
    BY <1>2 DEF IconInv, TypeInv, ObjTypeOK, ObjClean
  <2>. QED
    BY <1>2, <2>1 DEF IconInv, TypeInv, ObjTypeOK, IconCacheCoherent,
                      IconReflectsLastReport, ObjClean
<1>. QED
  BY <1>1, <1>3 DEF IconInv

LEMMA IconInvNext ==
    ASSUME NaN \notin Headings
    PROVE  IconInv /\ [ObjNext]_objVars => IconInv'
<1>. SUFFICES ASSUME IconInv, [ObjNext]_objVars PROVE IconInv'
  OBVIOUS
<1>1. CASE \E id \in ObjIds, pos \in Positions, st \in StationTypes, h \in Headings :
              CreateMarker(id, pos, st, h)
  BY <1>1, IconInvCreate
<1>2. CASE \E id \in ObjIds, pos \in Positions, st \in StationTypes, h \in Headings :
              MoveMarker(id, pos, st, h)
  BY <1>2, IconInvMove
<1>3. CASE \E raw \in ObjIds : ObjClean(raw)
  BY <1>3, IconInvClean
<1>4. CASE UNCHANGED objVars
  BY <1>4 DEF IconInv, TypeInv, ObjTypeOK, LayersMatchRegistry, IconCacheCoherent,
              IconReflectsLastReport, objVars
<1>. QED
  BY <1>1, <1>2, <1>3, <1>4 DEF ObjNext

\* update_marker keeps markers and markersicons in step across objclean and
\* re-creation, and every live marker shows an icon allowed by the station
\* type and heading validity of the last object message for its id.
THEOREM ObjIconCorrect ==
    ASSUME NaN \notin Headings
    PROVE  ObjSpec => [](IconCacheCoherent /\ IconReflectsLastReport)
<1>0. IconInv /\ [ObjNext]_objVars => IconInv'
  BY IconInvNext
<1>1. ObjSpec => []IconInv
  BY IconInvInit, <1>0, PTL DEF ObjSpec
<1>. QED
  BY <1>1, PTL DEF IconInv

-----------------------------------------------------------------------------
(***************************************************************************)
(* A duplicated object message is a no-op.  This holds in every typed      *)
(* state, NaN headings included: the icon transition is idempotent, and    *)
(* after one application the popup rule never sees the car with an        *)
(* invalid heading again.                                                  *)
(***************************************************************************)

\* The transition of lines 411-444 applied twice with the same report is
\* the transition applied once.
LEMMA UpdatedIconIdempotent ==
    ASSUME NEW st \in Int, NEW h \in Int \cup {NaN},
           NEW c \in ObjectIcons \cup {Undefined}
    PROVE  UpdatedObjectIcon(UpdatedObjectIcon(c, st, h), st, h)
             = UpdatedObjectIcon(c, st, h)
<1>1. CASE h = NaN
  <2>1. ~HeadingValid(h) /\ ~HeadingInvalid(h)
    BY <1>1, Zenon DEF HeadingValid, HeadingInvalid
  <2>. QED
    BY <2>1, SentinelAssumption
       DEF UpdatedObjectIcon, ObjectIcons, CAR_ICO_IDX, CIRCLE_ICO_IDX,
           GREEN_CIRCLE_ICO_IDX
<1>2. CASE h \in Int
  BY <1>2, SentinelAssumption
     DEF UpdatedObjectIcon, StationIcon, Pedestrian, ObjectIcons,
         HeadingValid, HeadingInvalid, VIS_HEADING_INVALID, CAR_ICO_IDX,
         CIRCLE_ICO_IDX, GREEN_CIRCLE_ICO_IDX, DETECTED_CAR_ICO_IDX,
         DETECTED_PEDESTRIAN_ICO_IDX, DETECTED_TRUCK_ICO_IDX
<1>. QED
  BY <1>1, <1>2

\* The icon a marker is created with is a fixed point of the transition
\* for the report that created it.
LEMMA InitialIconFixed ==
    ASSUME NEW st \in Int, NEW h \in Int \cup {NaN}
    PROVE  UpdatedObjectIcon(InitialObjectIcon(st, h), st, h) = InitialObjectIcon(st, h)
<1>1. CASE h = NaN
  <2>1. ~HeadingValid(h) /\ ~HeadingInvalid(h)
    BY <1>1, Zenon DEF HeadingValid, HeadingInvalid
  <2>. QED
    BY <2>1, SentinelAssumption
       DEF UpdatedObjectIcon, InitialObjectIcon, StationIcon, Pedestrian,
           CAR_ICO_IDX, CIRCLE_ICO_IDX, GREEN_CIRCLE_ICO_IDX,
           DETECTED_CAR_ICO_IDX, DETECTED_PEDESTRIAN_ICO_IDX,
           DETECTED_TRUCK_ICO_IDX
<1>2. CASE h \in Int
  BY <1>2, SentinelAssumption
     DEF UpdatedObjectIcon, InitialObjectIcon, StationIcon, Pedestrian,
         HeadingValid, HeadingInvalid, VIS_HEADING_INVALID, CAR_ICO_IDX,
         CIRCLE_ICO_IDX, GREEN_CIRCLE_ICO_IDX, DETECTED_CAR_ICO_IDX,
         DETECTED_PEDESTRIAN_ICO_IDX, DETECTED_TRUCK_ICO_IDX
<1>. QED
  BY <1>1, <1>2

\* After an update with heading h the cached icon is the car only if the
\* heading is not invalid, so a second update leaves the popup alone.
LEMMA PopupIdempotent ==
    ASSUME NEW st \in Int, NEW h \in Int \cup {NaN}, NEW p,
           NEW c \in ObjectIcons \cup {Undefined}
    PROVE  UpdatedPopup(UpdatedPopup(p, c, h), UpdatedObjectIcon(c, st, h), h)
             = UpdatedPopup(p, c, h)
<1>1. CASE h = NaN
  <2>1. ~HeadingValid(h) /\ ~HeadingInvalid(h)
    BY <1>1, Zenon DEF HeadingValid, HeadingInvalid
  <2>. QED
    BY <2>1 DEF UpdatedPopup
<1>2. CASE h \in Int
  BY <1>2, SentinelAssumption
     DEF UpdatedPopup, UpdatedObjectIcon, StationIcon, Pedestrian, ObjectIcons,
         HeadingValid, HeadingInvalid, VIS_HEADING_INVALID, CAR_ICO_IDX,
         CIRCLE_ICO_IDX, GREEN_CIRCLE_ICO_IDX, DETECTED_CAR_ICO_IDX,
         DETECTED_PEDESTRIAN_ICO_IDX, DETECTED_TRUCK_ICO_IDX
<1>. QED
  BY <1>1, <1>2

\* The popup of a new marker is left alone by a second identical report:
\* an invalid heading creates a circle or a detected car, never the car.
LEMMA NewPopupFixed ==
    ASSUME NEW pos, NEW st \in Int, NEW h \in Int \cup {NaN}
    PROVE  UpdatedPopup(NewObjMarker(pos, st, h).popup, InitialObjectIcon(st, h), h)
             = NewObjMarker(pos, st, h).popup
<1>1. CASE h = NaN
  <2>1. ~HeadingValid(h) /\ ~HeadingInvalid(h)
    BY <1>1, Zenon DEF HeadingValid, HeadingInvalid
  <2>. QED
    BY <2>1 DEF UpdatedPopup, NewObjMarker
<1>2. CASE h \in Int
  BY <1>2, SentinelAssumption
     DEF UpdatedPopup, NewObjMarker, InitialObjectIcon, StationIcon, Pedestrian,
         HeadingValid, HeadingInvalid, VIS_HEADING_INVALID, CAR_ICO_IDX,
         CIRCLE_ICO_IDX, DETECTED_CAR_ICO_IDX, DETECTED_PEDESTRIAN_ICO_IDX,
         DETECTED_TRUCK_ICO_IDX
<1>. QED
  BY <1>1, <1>2

\* In every typed state, re-applying an object message to the state it
\* produced changes neither the marker nor the cached icon index.
LEMMA TypedIdempotent == ObjTypeOK => Idempotent
<1>. SUFFICES ASSUME ObjTypeOK,
                    NEW id \in ObjIds, NEW pos \in Positions,
                    NEW st \in StationTypes, NEW h \in Headings
             PROVE  LET mk1 == IF markers[id] = NoMarker
                                 THEN NewObjMarker(pos, st, h)
                                 ELSE MovedObjMarker(markers[id], markersicons[id], pos, st, h)
                        ic1 == IF markers[id] = NoMarker
                                 THEN InitialObjectIcon(st, h)
                                 ELSE UpdatedObjectIcon(markersicons[id], st, h)
                    IN  /\ MovedObjMarker(mk1, ic1, pos, st, h) = mk1
                        /\ UpdatedObjectIcon(ic1, st, h) = ic1
  BY DEF Idempotent
<1>1. st \in Int /\ h \in Int \cup {NaN}
  BY ObjectAssumption, Zenon
<1>2. CASE markers[id] = NoMarker
  <2>1. UpdatedObjectIcon(InitialObjectIcon(st, h), st, h) = InitialObjectIcon(st, h)
    BY <1>1, InitialIconFixed
  <2>2. UpdatedPopup(NewObjMarker(pos, st, h).popup, InitialObjectIcon(st, h), h)
          = NewObjMarker(pos, st, h).popup
    BY <1>1, NewPopupFixed
  <2>. QED
    BY <1>2, <2>1, <2>2 DEF MovedObjMarker, NewObjMarker
<1>3. CASE markers[id] # NoMarker
  <2>. DEFINE mk == markers[id]
              c == markersicons[id]
  <2>1. c \in ObjectIcons \cup {Undefined}
    BY DEF ObjTypeOK
  <2>2. UpdatedObjectIcon(UpdatedObjectIcon(c, st, h), st, h) = UpdatedObjectIcon(c, st, h)
    BY <1>1, <2>1, UpdatedIconIdempotent
  <2>3. UpdatedPopup(UpdatedPopup(mk.popup, c, h), UpdatedObjectIcon(c, st, h), h)
          = UpdatedPopup(mk.popup, c, h)
    BY <1>1, <2>1, PopupIdempotent
  <2>. QED
    BY <1>3, <2>2, <2>3 DEF MovedObjMarker
<1>. QED
  BY <1>2, <1>3

\* A duplicated object message (the server relays UDP datagrams) is a
\* no-op in every reachable state, for every instance.
THEOREM ObjIdempotent == ObjSpec => []Idempotent
<1>1. ObjSpec => []TypeInv
  BY TypeInvInit, TypeInvNext, PTL DEF ObjSpec
<1>2. TypeInv => Idempotent
  BY TypedIdempotent DEF TypeInv
<1>. QED
  BY <1>1, <1>2, PTL
=============================================================================
