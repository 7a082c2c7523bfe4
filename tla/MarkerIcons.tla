----------------------------- MODULE MarkerIcons -----------------------------
(***************************************************************************)
(* The icon classification of map_render.js: which icon index a marker is  *)
(* created with, and how an update moves it from one index to another.     *)
(* Pure operators; the registries cache their result in markersicons and   *)
(* eventMarkersIcons and call setIcon when it changes.                     *)
(***************************************************************************)
EXTENDS Fields

CAR_ICO_IDX == 0
CIRCLE_ICO_IDX == 1
GREEN_CIRCLE_ICO_IDX == 2
DETECTED_CAR_ICO_IDX == 3
DETECTED_PEDESTRIAN_ICO_IDX == 4
DETECTED_TRUCK_ICO_IDX == 5
ICY_ROAD_ICO_IDX == 6
GENERIC_DANGEROUS_SIGN_IDX == 7

ObjectIcons == 0..5
EventIcons == {ICY_ROAD_ICO_IDX, GENERIC_DANGEROUS_SIGN_IDX}

\* Station types 1 and 110 are pedestrians: never rotated.
Pedestrian(st) == st \in {1, 110}

\* The switch (stationtype) that picks the icon of an object with a heading.
StationIcon(st) ==
    CASE Pedestrian(st) -> DETECTED_PEDESTRIAN_ICO_IDX
      [] st = 115       -> DETECTED_CAR_ICO_IDX
      [] st = 117       -> DETECTED_TRUCK_ICO_IDX
      [] OTHER          -> CAR_ICO_IDX

\* Mutant: station type 0 created with the plain car icon.
InitialObjectIconCarFor0(st, h) ==
    IF st = 0 THEN CAR_ICO_IDX
    ELSE IF HeadingInvalid(h) THEN CIRCLE_ICO_IDX
    ELSE StationIcon(st)

\* initial_icon_idx of a new object marker.
InitialObjectIcon(st, h) ==
    IF st = 0 THEN DETECTED_CAR_ICO_IDX
    ELSE IF HeadingInvalid(h) THEN CIRCLE_ICO_IDX
    ELSE StationIcon(st)

\* Mutant: only the car turns into a circle when the heading is lost.
UpdatedObjectIconNoGreen(icon, st, h) ==
    CASE st = 0 /\ icon \in {CAR_ICO_IDX, CIRCLE_ICO_IDX}
            -> GREEN_CIRCLE_ICO_IDX
      [] st # 0 /\ HeadingInvalid(h) /\ icon = CAR_ICO_IDX
            -> CIRCLE_ICO_IDX
      [] st # 0 /\ HeadingValid(h) /\ icon \in {CIRCLE_ICO_IDX, GREEN_CIRCLE_ICO_IDX}
            -> StationIcon(st)
      [] OTHER -> icon

\* markersicons[id] after an update of a known object whose cached icon
\* index is icon.  Station type 0 only turns a car or a circle green; any
\* other type turns a car or green circle into a circle when the heading
\* is lost, and a circle or green circle back into its icon when it returns.
UpdatedObjectIcon(icon, st, h) ==
    CASE st = 0 /\ icon \in {CAR_ICO_IDX, CIRCLE_ICO_IDX}
            -> GREEN_CIRCLE_ICO_IDX
      [] st # 0 /\ HeadingInvalid(h) /\ icon \in {CAR_ICO_IDX, GREEN_CIRCLE_ICO_IDX}
            -> CIRCLE_ICO_IDX
      [] st # 0 /\ HeadingValid(h) /\ icon \in {CIRCLE_ICO_IDX, GREEN_CIRCLE_ICO_IDX}
            -> StationIcon(st)
      [] OTHER -> icon

\* initial_icon_idx of a new event marker: undefined for a cause code other
\* than 6 (icy road) and 7 (generic danger).
InitialEventIcon(cause) ==
    CASE cause = 6 -> ICY_ROAD_ICO_IDX
      [] cause = 7 -> GENERIC_DANGEROUS_SIGN_IDX
      [] OTHER     -> Undefined

\* Mutant: the else-if for cause code 7 is missing.
UpdatedEventIconNo7(icon, cause) ==
    CASE cause = 6 -> ICY_ROAD_ICO_IDX
      [] OTHER     -> icon

\* eventMarkersIcons.get(id) after an update of a known event.
UpdatedEventIcon(icon, cause) ==
    CASE cause = 6 -> ICY_ROAD_ICO_IDX
      [] cause = 7 -> GENERIC_DANGEROUS_SIGN_IDX
      [] OTHER     -> icon
=============================================================================
