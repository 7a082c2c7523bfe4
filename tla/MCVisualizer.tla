----------------------------- MODULE MCVisualizer -----------------------------
(***************************************************************************)
(* Model-checking instance of the message handler.  The registries are    *)
(* checked in depth by MCObjectRegistry and MCEventRegistry; here each     *)
(* gets the values that take every branch of the dispatch: a detected and  *)
(* a plain object; a heading, the sentinel and NaN; an event id clean,     *)
(* padded and NUL-terminated; a cause code with an icon and one without;   *)
(* and map bounds that are or are not the coordinate sentinel.             *)
(***************************************************************************)
EXTENDS Visualizer

MCObjNums == {1}
MCObjNoise == {"none"}
\* Object id fields with and without padding, for the objclean key question.
MCObjNoisePadded == {"none", "ws"}
MCStationTypes == {0, 5}
MCHeadings == {90, 361, NaN}
MCEvNoise == {"none", "ws", "nul"}
MCCauseCodes == {6, 3}
MCMapCoords == {VIS_LONLAT_INVALID, 45}
\* For the refinement run: an event id clean and NUL-terminated (the two
\* forms objEventClean keys apart), and map bounds that are all invalid.
MCEvNoiseNul == {"none", "nul"}
MCMapCoordsInvalid == {VIS_LONLAT_INVALID}
=============================================================================
