--------------------------- MODULE MCObjectRegistry ---------------------------
(***************************************************************************)
(* Model-checking instance of ObjectRegistry: one station id (ids are      *)
(* independent: every action touches one key), every station-type branch   *)
(* of the classification, two valid headings and two invalid ones (the     *)
(* sentinel itself and a value above it).                                  *)
(***************************************************************************)
EXTENDS ObjectRegistry

MCObjNums == {1}
MCObjNoise == {"none"}
MCStationTypes == {0, 1, 110, 115, 117, 5}
MCHeadings == {45, 90, 361, 400}
\* The same with a heading field that is not a number.
MCHeadingsNaN == {45, 361, NaN}
=============================================================================
