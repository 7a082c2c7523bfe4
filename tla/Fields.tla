------------------------------- MODULE Fields -------------------------------
(***************************************************************************)
(* The values that the socket handler of map_render.js reads out of the    *)
(* comma-separated fields of an inbound message, and the conversions it    *)
(* applies to them before they reach a registry.                           *)
(*                                                                         *)
(* Numbers keep only what the code compares them against: a heading is an  *)
(* integer compared with VIS_HEADING_INVALID, or NaN (parseFloat of a      *)
(* field that is not a number), for which every comparison is false; a     *)
(* coordinate is an integer compared with VIS_LONLAT_INVALID.              *)
(*                                                                         *)
(* An identifier field is abstracted to a pair <<base, noise>>: base is    *)
(* the identifier the upstream source means (a canonical decimal station   *)
(* id for objects, an event id for events), and noise the stray bytes the  *)
(* upstream may add around it:                                             *)
(*   "none"  the field is exactly the identifier;                          *)
(*   "ws"    the identifier surrounded by whitespace;                      *)
(*   "nul"   the identifier followed by NUL bytes (a C string terminator). *)
(* Two raw fields are the same JavaScript string iff the pairs are equal.  *)
(***************************************************************************)
EXTENDS Integers

CONSTANTS
    Undefined,      \* the JavaScript value undefined
    Unavailable,    \* the popup text "Heading: unavailable"
    NoMarker,       \* absence of a key in markers / eventMarkers
    NaN             \* the number NaN

ASSUME SentinelAssumption ==
    /\ Undefined \notin Int
    /\ Unavailable \notin Int
    /\ NoMarker \notin Int
    /\ Undefined # Unavailable
    /\ Undefined # NoMarker
    /\ Unavailable # NoMarker
    /\ NaN \notin Int
    /\ NaN \notin {Undefined, Unavailable, NoMarker}

\* const VIS_LONLAT_INVALID, const VIS_HEADING_INVALID
VIS_LONLAT_INVALID == -80000
VIS_HEADING_INVALID == 361

\* The two comparisons a heading goes through: heading < VIS_HEADING_INVALID
\* and heading >= VIS_HEADING_INVALID.  Both are false for NaN.
HeadingValid(h) == h # NaN /\ h < VIS_HEADING_INVALID
HeadingInvalid(h) == h # NaN /\ h >= VIS_HEADING_INVALID

Noise == {"none", "ws", "nul"}

\* String(parseInt(raw)), the key objclean uses: parseInt skips leading
\* whitespace and stops at the first non-digit, so any noise is dropped.
ParseIntKey(raw) == <<raw[1], "none">>

\* raw.replace(/\0/g, ""), the key objEventClean uses: NUL bytes are
\* removed, whitespace is kept (the trim() is commented out).
StripNul(raw) == IF raw[2] = "nul" THEN <<raw[1], "none">> ELSE raw

\* normalizeId of the specification (trim and strip NUL): the identifier
\* the upstream means.  Not code: used only to state what the spec demands.
NormalizeId(raw) == raw[1]
=============================================================================
