-------------------------- MODULE EventRegistryProofs --------------------------
(***************************************************************************)
(* Proofs about the event registry (update_EventMarker and objEventClean)  *)
(* for every set of event ids, noise forms, positions and cause codes.     *)
(***************************************************************************)
EXTENDS EventRegistry, TLAPS

-----------------------------------------------------------------------------
(***************************************************************************)
(* Lemmas about the event icons and markers.                               *)
(***************************************************************************)

\* A new event's icon index is an event icon or undefined.
LEMMA InitialEventIconTyped ==
    ASSUME NEW cause \in Int
    PROVE  InitialEventIcon(cause) \in EventIcons \cup {Undefined}
BY DEF InitialEventIcon, EventIcons, ICY_ROAD_ICO_IDX, GENERIC_DANGEROUS_SIGN_IDX

\* An update keeps the cached index an event icon or undefined.
LEMMA UpdatedEventIconTyped ==
    ASSUME NEW cause \in Int, NEW c \in EventIcons \cup {Undefined}
    PROVE  UpdatedEventIcon(c, cause) \in EventIcons \cup {Undefined}
BY DEF UpdatedEventIcon, EventIcons, ICY_ROAD_ICO_IDX, GENERIC_DANGEROUS_SIGN_IDX

\* Cause codes 6 and 7 give their own icon, on creation and on update alike.
LEMMA EventIconOfCause ==
    ASSUME NEW cause \in {6, 7}, NEW c
    PROVE  /\ InitialEventIcon(cause) = UpdatedEventIcon(c, cause)
           /\ InitialEventIcon(cause) \in EventIcons
BY DEF InitialEventIcon, UpdatedEventIcon, EventIcons, ICY_ROAD_ICO_IDX,
       GENERIC_DANGEROUS_SIGN_IDX

\* A created event marker is a marker.
LEMMA NewEvMarkerTyped ==
    ASSUME NEW pos \in Positions, NEW cause \in CauseCodes
    PROVE  NewEvMarker(pos, cause) \in EvMarker
<1>1. InitialEventIcon(cause) \in EventIcons \cup {Undefined}
  BY InitialEventIconTyped, EventAssumption
<1>. QED
  BY <1>1 DEF NewEvMarker, EvMarker

\* An updated event marker is a marker.
LEMMA MovedEvMarkerTyped ==
    ASSUME NEW pos \in Positions, NEW cause \in CauseCodes,
           NEW mk \in EvMarker, NEW c \in EventIcons \cup {Undefined}
    PROVE  MovedEvMarker(mk, c, pos, cause) \in EvMarker
<1>1. UpdatedEventIcon(c, cause) \in EventIcons \cup {Undefined}
  BY UpdatedEventIconTyped, EventAssumption
<1>. QED
  BY <1>1 DEF MovedEvMarker, EvMarker

\* The key objEventClean computes is a key of the registry.
LEMMA StripNulKey ==
    ASSUME NEW raw \in EvIds
    PROVE  StripNul(raw) \in EvIds
BY EventAssumption DEF StripNul, EvIds

-----------------------------------------------------------------------------
(***************************************************************************)
(* Type correctness, with the display count that keeps evLayers in Nat     *)
(* across objEventClean.                                                   *)
(***************************************************************************)

EvTypeInv == EvTypeOK /\ EvLayersMatchRegistry

LEMMA EvTypeInvInit == EvInit => EvTypeInv
BY DEF EvInit, EvTypeInv, EvTypeOK, EvLayersMatchRegistry

LEMMA EvTypeInvCreate ==
    ASSUME EvTypeInv, NEW id \in EvIds, NEW pos \in Positions,
           NEW cause \in CauseCodes, CreateEventMarker(id, pos, cause)
    PROVE  EvTypeInv'
<1>1. NewEvMarker(pos, cause) \in EvMarker
  BY NewEvMarkerTyped
<1>2. NewEvMarker(pos, cause) # NoMarker
  BY <1>1, EventAssumption
<1>3. InitialEventIcon(cause) \in EventIcons \cup {Undefined}
  BY InitialEventIconTyped, EventAssumption
<1>. QED
  BY <1>1, <1>2, <1>3 DEF EvTypeInv, EvTypeOK, EvLayersMatchRegistry, CreateEventMarker

LEMMA EvTypeInvMove ==
    ASSUME EvTypeInv, NEW id \in EvIds, NEW pos \in Positions,
           NEW cause \in CauseCodes, MoveEventMarker(id, pos, cause)
    PROVE  EvTypeInv'
<1>1. eventMarkers[id] \in EvMarker /\ eventMarkersIcons[id] \in EventIcons \cup {Undefined}
  BY DEF EvTypeInv, EvTypeOK, MoveEventMarker
<1>2. MovedEvMarker(eventMarkers[id], eventMarkersIcons[id], pos, cause) \in EvMarker
  BY <1>1, MovedEvMarkerTyped
<1>3. MovedEvMarker(eventMarkers[id], eventMarkersIcons[id], pos, cause) # NoMarker
  BY <1>2, EventAssumption
<1>4. UpdatedEventIcon(eventMarkersIcons[id], cause) \in EventIcons \cup {Undefined}
  BY <1>1, UpdatedEventIconTyped, EventAssumption
<1>. QED
  BY <1>2, <1>3, <1>4 DEF EvTypeInv, EvTypeOK, EvLayersMatchRegistry, MoveEventMarker

LEMMA EvTypeInvClean ==
    ASSUME EvTypeInv, NEW raw \in EvIds, EventClean(raw)
    PROVE  EvTypeInv'
<1>1. StripNul(raw) \in EvIds
  BY StripNulKey
<1>2. evLayers[StripNul(raw)] = 1
  BY <1>1 DEF EvTypeInv, EvLayersMatchRegistry, EventClean
<1>. QED
  BY <1>1, <1>2 DEF EvTypeInv, EvTypeOK, EvLayersMatchRegistry, EventClean

LEMMA EvTypeInvNext == EvTypeInv /\ [EvNext]_evVars => EvTypeInv'
<1>. SUFFICES ASSUME EvTypeInv, [EvNext]_evVars PROVE EvTypeInv'
  OBVIOUS
<1>1. CASE \E id \in EvIds, pos \in Positions, cause \in CauseCodes :
              CreateEventMarker(id, pos, cause)
  BY <1>1, EvTypeInvCreate
<1>2. CASE \E id \in EvIds, pos \in Positions, cause \in CauseCodes :
              MoveEventMarker(id, pos, cause)
  BY <1>2, EvTypeInvMove
<1>3. CASE \E raw \in EvIds : EventClean(raw)
  BY <1>3, EvTypeInvClean
<1>4. CASE UNCHANGED evVars
  BY <1>4 DEF EvTypeInv, EvTypeOK, EvLayersMatchRegistry, evVars
<1>. QED
  BY <1>1, <1>2, <1>3, <1>4 DEF EvNext

\* The event registry only holds event markers, event icon indices or
\* undefined, and one displayed marker per live key and none otherwise.
THEOREM EvTypeCorrect == EvSpec => [](EvTypeOK /\ EvLayersMatchRegistry)
BY EvTypeInvInit, EvTypeInvNext, PTL DEF EvSpec, EvTypeInv

\* objEventClean's remove() and delete, and update_EventMarker's addTo(map)
\* and store, keep the displayed layers in step with eventMarkers: one per
\* live key, none for a deleted one.
THEOREM EvLayersMatch == EvSpec => []EvLayersMatchRegistry
BY EvTypeCorrect, PTL

-----------------------------------------------------------------------------
(***************************************************************************)
(* The icon of a live event.  update_EventMarker decides setIcon on the    *)
(* cached index in eventMarkersIcons, which objEventClean leaves behind;   *)
(* the icon follows the cause code only while cache and marker agree.      *)
(***************************************************************************)

EvIconInv == EvTypeInv /\ EvIconCacheCoherent /\ EvIconMatchesPopup

LEMMA EvIconInvInit == EvInit => EvIconInv
BY EvTypeInvInit DEF EvInit, EvIconInv, EvIconCacheCoherent, EvIconMatchesPopup

LEMMA EvIconInvCreate ==
    ASSUME EvIconInv, NEW id \in EvIds, NEW pos \in Positions,
           NEW cause \in CauseCodes, CreateEventMarker(id, pos, cause)
    PROVE  EvIconInv'
<1>1. EvTypeInv'
  BY EvTypeInvCreate DEF EvIconInv
<1>2. EvIconCacheCoherent'
  BY DEF EvIconInv, EvTypeInv, EvTypeOK, EvIconCacheCoherent, CreateEventMarker,
         NewEvMarker
<1>3. EvIconMatchesPopup'
  BY DEF EvIconInv, EvTypeInv, EvTypeOK, EvIconMatchesPopup, CreateEventMarker,
         NewEvMarker
<1>. QED
  BY <1>1, <1>2, <1>3 DEF EvIconInv

LEMMA EvIconInvMove ==
    ASSUME EvIconInv, NEW id \in EvIds, NEW pos \in Positions,
           NEW cause \in CauseCodes, MoveEventMarker(id, pos, cause)
    PROVE  EvIconInv'
<1>1. EvTypeInv'
  BY EvTypeInvMove DEF EvIconInv
<1>2. eventMarkers[id] \in EvMarker /\ eventMarkers[id].icon = eventMarkersIcons[id]
  BY DEF EvIconInv, EvTypeInv, EvTypeOK, EvIconCacheCoherent, MoveEventMarker
<1>3. /\ eventMarkers'[id].icon = UpdatedEventIcon(eventMarkersIcons[id], cause)
      /\ eventMarkers'[id].popup = cause
  BY <1>2 DEF EvIconInv, EvTypeInv, EvTypeOK, MoveEventMarker, MovedEvMarker
<1>4. EvIconCacheCoherent'
  BY <1>3 DEF EvIconInv, EvTypeInv, EvTypeOK, EvIconCacheCoherent, MoveEventMarker
<1>5. cause \in {6, 7} => InitialEventIcon(cause) = UpdatedEventIcon(eventMarkersIcons[id], cause)
  BY EventIconOfCause
<1>6. EvIconMatchesPopup'
  BY <1>3, <1>5 DEF EvIconInv, EvTypeInv, EvTypeOK, EvIconMatchesPopup, MoveEventMarker
<1>. QED
  BY <1>1, <1>4, <1>6 DEF EvIconInv

LEMMA EvIconInvClean ==
    ASSUME EvIconInv, NEW raw \in EvIds, EventClean(raw)
    PROVE  EvIconInv'
<1>1. EvTypeInv'
  BY EvTypeInvClean DEF EvIconInv
<1>2. StripNul(raw) \in EvIds
  BY StripNulKey
<1>3. EvIconCacheCoherent' /\ EvIconMatchesPopup'
  <2>. SUFFICES ASSUME NEW k \in EvIds, eventMarkers'[k] # NoMarker
                PROVE  /\ eventMarkers'[k].icon = eventMarkersIcons'[k]
                       /\ eventMarkers'[k].popup \in {6, 7}
                            => eventMarkers'[k].icon
                                 = InitialEventIcon(eventMarkers'[k].popup)
    BY DEF EvIconCacheCoherent, EvIconMatchesPopup
  <2>1. k # StripNul(raw)
    BY <1>2 DEF EvIconInv, EvTypeInv, EvTypeOK, EventClean
  <2>. QED
    BY <1>2, <2>1 DEF EvIconInv, EvTypeInv, EvTypeOK, EvIconCacheCoherent,
                      EvIconMatchesPopup, EventClean
<1>. QED
  BY <1>1, <1>3 DEF EvIconInv

LEMMA EvIconInvNext == EvIconInv /\ [EvNext]_evVars => EvIconInv'
<1>. SUFFICES ASSUME EvIconInv, [EvNext]_evVars PROVE EvIconInv'
  OBVIOUS
<1>1. CASE \E id \in EvIds, pos \in Positions, cause \in CauseCodes :
              CreateEventMarker(id, pos, cause)
  BY <1>1, EvIconInvCreate
<1>2. CASE \E id \in EvIds, pos \in Positions, cause \in CauseCodes :
              MoveEventMarker(id, pos, cause)
  BY <1>2, EvIconInvMove
<1>3. CASE \E raw \in EvIds : EventClean(raw)
  BY <1>3, EvIconInvClean
<1>4. CASE UNCHANGED evVars
  BY <1>4 DEF EvIconInv, EvTypeInv, EvTypeOK, EvLayersMatchRegistry,
              EvIconCacheCoherent, EvIconMatchesPopup, evVars
<1>. QED
  BY <1>1, <1>2, <1>3, <1>4 DEF EvNext

\* eventMarkersIcons agrees with the icon of every live event although
\* objEventClean leaves it behind, and an event whose popup shows cause
\* code 6 or 7 is drawn with that cause's icon after any sequence of
\* updates, removals and re-creations.
THEOREM EvIconCorrect == EvSpec => [](EvIconCacheCoherent /\ EvIconMatchesPopup)
<1>1. EvSpec => []EvIconInv
  BY EvIconInvInit, EvIconInvNext, PTL DEF EvSpec
<1>. QED
  BY <1>1, PTL DEF EvIconInv

\* The cause code shown in an event's popup and the icon it is drawn with
\* agree for causes 6 and 7 after any sequence of event messages and
\* objEventClean removals, because the cache the setIcon decision reads
\* agrees with the marker.
THEOREM EvIconFollowsCause == EvSpec => []EvIconMatchesPopup
BY EvIconCorrect, PTL
=============================================================================
