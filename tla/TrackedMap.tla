----------------------------- MODULE TrackedMap -----------------------------
(***************************************************************************)
(* What the marker state manager promises its user (spec.md, sections 4   *)
(* and 7), with none of its caches or Leaflet calls: a map that is drawn   *)
(* once, and for every key of either registry the position it is tracked   *)
(* at (and, for an event, the cause code it shows) or None.  An object or  *)
(* an event is tracked only on a drawn map; an upsert tracks its key at    *)
(* the reported position, a removal forgets it, and a removal of a key    *)
(* that is not tracked changes nothing.  Keys are the registries' own      *)
(* keys: whether two noisy fields denote one key is the refinement's       *)
(* business, not this specification's.  lastUpsert names the last update  *)
(* applied, so that "at the reported position" is a statement about state. *)
(***************************************************************************)
CONSTANTS
    ObjKeys,        \* keys of the object registry
    EvKeys,         \* keys of the event registry
    Positions,      \* reported positions
    CauseCodes,     \* reported cause codes
    None            \* what an untracked key maps to

VARIABLES
    mapDrawn,       \* the map has been drawn
    objects,        \* objects[k]: the position object k is shown at, or None
    events,         \* events[k]: [pos, cause] event k is shown with, or None
    lastUpsert      \* <<registry, key, position>> of the last update, or None

vars == <<mapDrawn, objects, events, lastUpsert>>

EvState == [pos : Positions, cause : CauseCodes]

TypeInvariant ==
    /\ mapDrawn \in BOOLEAN
    /\ objects \in [ObjKeys -> Positions \cup {None}]
    /\ events \in [EvKeys -> EvState \cup {None}]
    /\ lastUpsert \in ({"object"} \X ObjKeys \X Positions)
                      \cup ({"event"} \X EvKeys \X Positions) \cup {None}

Init ==
    /\ mapDrawn = FALSE
    /\ objects = [k \in ObjKeys |-> None]
    /\ events = [k \in EvKeys |-> None]
    /\ lastUpsert = None

\* The first map message draws the map.
DrawMap ==
    /\ ~mapDrawn
    /\ mapDrawn' = TRUE
    /\ UNCHANGED <<objects, events, lastUpsert>>

\* An object update on a drawn map: the object is shown where it was reported.
UpsertObject(k, p) ==
    /\ mapDrawn
    /\ objects' = [objects EXCEPT ![k] = p]
    /\ lastUpsert' = <<"object", k, p>>
    /\ UNCHANGED <<mapDrawn, events>>

\* An object removal: the object is no longer shown.
RemoveObject(k) ==
    /\ objects' = [objects EXCEPT ![k] = None]
    /\ UNCHANGED <<mapDrawn, events, lastUpsert>>

\* An event update on a drawn map: shown where reported, with its cause.
UpsertEvent(k, p, c) ==
    /\ mapDrawn
    /\ events' = [events EXCEPT ![k] = [pos |-> p, cause |-> c]]
    /\ lastUpsert' = <<"event", k, p>>
    /\ UNCHANGED <<mapDrawn, objects>>

\* An event removal.
RemoveEvent(k) ==
    /\ events' = [events EXCEPT ![k] = None]
    /\ UNCHANGED <<mapDrawn, objects, lastUpsert>>

Next ==
    \/ DrawMap
    \/ \E k \in ObjKeys, p \in Positions : UpsertObject(k, p)
    \/ \E k \in ObjKeys : RemoveObject(k)
    \/ \E k \in EvKeys, p \in Positions, c \in CauseCodes : UpsertEvent(k, p, c)
    \/ \E k \in EvKeys : RemoveEvent(k)

Spec == Init /\ [][Next]_vars

=============================================================================
