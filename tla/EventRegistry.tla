---------------------------- MODULE EventRegistry ----------------------------
(***************************************************************************)
(* The event registry of map_render.js: the Map eventMarkers (String(id)  *)
(* -> Leaflet marker), the Map eventMarkersIcons (String(id) -> cached     *)
(* icon index) and the event markers the Leaflet map displays.  Its       *)
(* operations are update_EventMarker on a map that exists (creation and    *)
(* update branch) and the removal done by the objEventClean case.          *)
(***************************************************************************)
EXTENDS MarkerIcons

CONSTANTS
    EvNames,        \* event ids meant by the upstream
    EvNoise,        \* the noise the upstream may add to an event id field
    Positions,      \* (lat, lon) pairs
    CauseCodes      \* values of parseInt(causeCode)

\* Raw event id fields; update_EventMarker keys eventMarkers by String(id),
\* the raw field itself.
EvIds == EvNames \X EvNoise

\* The visible state of an event marker: position, the cause code its popup
\* shows, and its icon (undefined when created for an unknown cause code).
EvMarker == [pos : Positions, popup : CauseCodes, icon : EventIcons \cup {Undefined}]

ASSUME EventAssumption ==
    /\ "none" \in EvNoise
    /\ EvNoise \subseteq Noise
    /\ CauseCodes \subseteq Int
    /\ NoMarker \notin EvMarker

VARIABLES
    eventMarkers,       \* eventMarkers.get(id), or NoMarker when absent
    eventMarkersIcons,  \* eventMarkersIcons.get(id), Undefined when absent
    evLayers            \* evLayers[id]: markers of id displayed on the map

evVars == <<eventMarkers, eventMarkersIcons, evLayers>>

EvInit ==
    /\ eventMarkers = [k \in EvIds |-> NoMarker]
    /\ eventMarkersIcons = [k \in EvIds |-> Undefined]
    /\ evLayers = [k \in EvIds |-> 0]

\* L.marker([lat,lon], {icon: initial_icon}) with its popup.
NewEvMarker(pos, cause) ==
    [pos |-> pos, popup |-> cause, icon |-> InitialEventIcon(cause)]

\* The marker after setLatLng, setPopupContent and, when the cached index
\* changes, setIcon.
MovedEvMarker(mk, cached, pos, cause) ==
    [pos   |-> pos,
     popup |-> cause,
     icon  |-> IF UpdatedEventIcon(cached, cause) # cached
                 THEN UpdatedEventIcon(cached, cause) ELSE mk.icon]

\* Mutant: the icon index is stored only when the cause code has an icon.
CreateEventMarkerSkipUndefined(id, pos, cause) ==
    /\ eventMarkers[id] = NoMarker
    /\ eventMarkers' = [eventMarkers EXCEPT ![id] = NewEvMarker(pos, cause)]
    /\ eventMarkersIcons' = [eventMarkersIcons EXCEPT
                               ![id] = IF InitialEventIcon(cause) = Undefined
                                         THEN @ ELSE InitialEventIcon(cause)]
    /\ evLayers' = [evLayers EXCEPT ![id] = @ + 1]

\* update_EventMarker for an id not in eventMarkers.  With an unknown cause
\* code the marker is created with icon undefined and initial_icon_idx
\* (undefined) is stored; the Leaflet build may instead throw on the
\* missing icon, which leaves every variable as it was (a stutter here).
CreateEventMarker(id, pos, cause) ==
    /\ eventMarkers[id] = NoMarker
    /\ eventMarkers' = [eventMarkers EXCEPT ![id] = NewEvMarker(pos, cause)]
    /\ eventMarkersIcons' = [eventMarkersIcons EXCEPT ![id] = InitialEventIcon(cause)]
    /\ evLayers' = [evLayers EXCEPT ![id] = @ + 1]

\* update_EventMarker for an id in eventMarkers.
MoveEventMarker(id, pos, cause) ==
    /\ eventMarkers[id] # NoMarker
    /\ eventMarkers' = [eventMarkers EXCEPT
                          ![id] = MovedEvMarker(@, eventMarkersIcons[id], pos, cause)]
    /\ eventMarkersIcons' = [eventMarkersIcons EXCEPT
                               ![id] = UpdatedEventIcon(@, cause)]
    /\ UNCHANGED evLayers

\* Mutant: the eventMarkers.has test is dropped.
EventCleanNoGuard(raw) ==
    LET key == StripNul(raw) IN
    /\ eventMarkers' = [eventMarkers EXCEPT ![key] = NoMarker]
    /\ evLayers' = [evLayers EXCEPT ![key] = @ - 1]
    /\ UNCHANGED eventMarkersIcons

\* Mutant: the entry is deleted but marker.remove() is not called.
EventCleanNoRemove(raw) ==
    LET key == StripNul(raw) IN
    /\ eventMarkers[key] # NoMarker
    /\ eventMarkers' = [eventMarkers EXCEPT ![key] = NoMarker]
    /\ UNCHANGED <<eventMarkersIcons, evLayers>>

\* objEventClean: strip the NUL bytes of the field, and if that key is in
\* eventMarkers remove its marker from the map and delete it.
\* eventMarkersIcons keeps its entry.
EventClean(raw) ==
    LET key == StripNul(raw) IN
    /\ eventMarkers[key] # NoMarker
    /\ eventMarkers' = [eventMarkers EXCEPT ![key] = NoMarker]
    /\ evLayers' = [evLayers EXCEPT ![key] = @ - 1]
    /\ UNCHANGED eventMarkersIcons

EvNext ==
    \/ \E id \in EvIds, pos \in Positions, cause \in CauseCodes :
          \/ CreateEventMarker(id, pos, cause)
          \/ MoveEventMarker(id, pos, cause)
    \/ \E raw \in EvIds : EventClean(raw)

EvSpec == EvInit /\ [][EvNext]_evVars

-----------------------------------------------------------------------------
(***************************************************************************)
(* Properties.                                                             *)
(***************************************************************************)

EvTypeOK ==
    /\ eventMarkers \in [EvIds -> EvMarker \cup {NoMarker}]
    /\ eventMarkersIcons \in [EvIds -> EventIcons \cup {Undefined}]
    /\ evLayers \in [EvIds -> Nat]

\* The cached icon index of a live event is the icon it is drawn with,
\* although objEventClean leaves eventMarkersIcons behind and a re-created
\* event with an unknown cause code stores undefined over it.
EvIconCacheCoherent ==
    \A k \in EvIds :
        eventMarkers[k] # NoMarker => eventMarkers[k].icon = eventMarkersIcons[k]

\* The map displays exactly one marker for each key of eventMarkers and
\* none for a deleted key.
EvLayersMatchRegistry ==
    \A k \in EvIds : evLayers[k] = IF eventMarkers[k] = NoMarker THEN 0 ELSE 1

\* An event whose popup shows cause code 6 or 7 is drawn with the icon of
\* that cause, through any sequence of updates, removals and re-creations.
EvIconMatchesPopup ==
    \A k \in EvIds :
        eventMarkers[k] # NoMarker /\ eventMarkers[k].popup \in {6, 7}
            => eventMarkers[k].icon = InitialEventIcon(eventMarkers[k].popup)

-----------------------------------------------------------------------------
(***************************************************************************)
(* A claim of the specification the code does not keep.                   *)
(***************************************************************************)

\* Specification, section 3: "At most one live marker per (registry,
\* normalized id)".  update_EventMarker keys eventMarkers by the raw field,
\* so the same event sent with and without noise gets two markers.
OneMarkerPerEvent ==
    \A n \in EvNames :
        \A k1, k2 \in {k \in EvIds : k[1] = n /\ eventMarkers[k] # NoMarker} :
            k1 = k2
=============================================================================
