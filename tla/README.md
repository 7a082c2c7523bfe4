# Formal model of the S-LDM vehicle visualizer client

This directory holds TLA+ models of `src/js/map_render.js`, the browser side of
the S-LDM vehicle visualizer. It also holds the TLC configurations that
model-check them, an abstract specification the handler is shown to
implement, and TLAPS proofs about both registries and the whole handler.

## 1. The system

`map_render.js` is one socket.io `'message'` handler. It splits each message on
commas and switches on the first field (lines 123-274). JavaScript runs one
handler to completion before the next one starts, so messages are applied
atomically. They arrive in whatever order and multiplicity the server sends
them, and the server relays S-LDM UDP datagrams.

| Part (spec name) | Code | State | Operations |
|---|---|---|---|
| Update Record Parser / dispatch | switch, lines 123-274 | `map_rx`, `leafletmap` | `map_areas`, `map`, `object`, `event`, `objEventClean`, `objclean`, `terminate`, unknown tag, wrong field count, null message |
| Moving-Object Registry | `update_marker` 331-447, `objclean` 252-262 | `markers[]`, `markersicons[]` | create, update, remove |
| Event Registry | `update_EventMarker` 281-328, `objEventClean` 197-249 | `eventMarkers`, `eventMarkersIcons` (Maps) | create, update, remove |
| Icon Classification Engine | 342-370, 411-444, 297-305, 318-324 | none | initial icon, icon transition |
| Map Surface Adapter | `draw_map` 451-530, Leaflet | the map, its markers | draw map and area rectangles, add/move/re-icon/remove markers |

How the parts interact:
- The dispatcher owns the map. Both update functions receive `leafletmap` and drop the update while it is `null`.
- The registries do not share state. Each keeps two parallel stores: the marker and a *cached icon index*.
- Every icon decision on update is taken on the cached index, not on the marker.
- Removals delete the marker but never the cached index.

## 2. Modules

| Module | Models | State (VARIABLES) | Actions |
|---|---|---|---|
| `Fields` | constants and id/field conversions | none | `HeadingValid` (`heading < 361`), `HeadingInvalid` (`heading >= 361`), `ParseIntKey` (line 256), `StripNul` (line 212) |
| `MarkerIcons` | icon indices and classification | none | `StationIcon`, `InitialObjectIcon`, `UpdatedObjectIcon`, `InitialEventIcon`, `UpdatedEventIcon` |
| `ObjectRegistry` | `update_marker`, `objclean` | `markers`, `markersicons`, `objLayers` (markers on the map per key), `lastReport` (history) | `CreateMarker`, `MoveMarker`, `ObjClean` |
| `EventRegistry` | `update_EventMarker`, `objEventClean` | `eventMarkers`, `eventMarkersIcons`, `evLayers` | `CreateEventMarker`, `MoveEventMarker`, `EventClean` |
| `Visualizer` | the message handler, composing both registries by `INSTANCE` | `map_rx`, `leafletmap`, `report` (console level), `lastUpsert` (history) plus the registry variables | one `Recv…` action per case of the switch |
| `TrackedMap` | the abstract specification: what spec.md sections 4 and 7 promise | `mapDrawn`, `objects`, `events`, `lastUpsert` | `DrawMap`, `UpsertObject`, `RemoveObject`, `UpsertEvent`, `RemoveEvent` |
| `ObjectRegistryProofs`, `EventRegistryProofs`, `VisualizerProofs` | TLAPS proofs | | |
| `MC*` | TLC instances | | |

### Abstractions

- **Ids.** An id field is a pair `<<base, noise>>`, with noise in `{"none", "ws", "nul"}`: the intended id, clean, with padding, or with NUL bytes.
  - `update_marker` and `update_EventMarker` key by the raw pair (`String(id)`, and `id in markers`).
  - `objclean` keys by `parseInt`, which drops all noise (`ParseIntKey`).
  - `objEventClean` drops NUL bytes only (`StripNul`).
- **Markers.** A marker is the record of what Leaflet displays: position, rotation angle, the heading or cause code in its popup, and its icon index. Popup wording is left out. Only which value the popup shows, or "unavailable", is kept.
- **Markers on the map.** `objLayers[k]` and `evLayers[k]` count the markers added to the map for key `k`. This is how `.addTo(map)` and `.remove()` are modelled, separately from the registry entry.
- **Headings and station types** are integers from small sets, chosen to hit every branch. For headings that means valid values, the boundary 361 and above it.
- **Leaflet with an undefined icon** (event with an unknown cause code, line 306) is behaviour the code does not define. The model takes both outcomes:
  - the marker is created without an icon (`CreateEventMarker`);
  - the handler throws before anything is stored (`RecvEventThrows`).
- **`lastReport`** is a history variable, not program state. It records the `<<station type, heading valid>>` of the last object message applied to a live id, and the properties talk about it.
- **`lastUpsert`** is the handler's history variable: `<<"object" or "event", key, position>>` of the last update applied. It lets the abstract specification say "at the reported position".
- **NaN.** `parseFloat` of a non-numeric heading gives NaN, a model value `NaN` of `Fields`. Both comparisons the code makes are false for it: `HeadingValid(h) == h # NaN /\ h < 361` models every `heading < VIS_HEADING_INVALID` and `HeadingInvalid(h) == h # NaN /\ h >= 361` every `heading >= VIS_HEADING_INVALID`. A NaN station type fails every `===` test of the station-type switch, exactly as an unknown code does, so the unknown code 5 stands for it.
- **Registries as instances.** `Visualizer` instantiates the registries through their proof modules (`Obj == INSTANCE ObjectRegistryProofs`). Those modules extend the registry modules and add only lemmas, so the handler's proofs can cite the registries' lemmas.

## 3. Runs

| Run | Module / cfg | Checks | Result |
|---|---|---|---|
| objects | `MCObjectRegistry.cfg` | `ObjTypeOK`, `IconCacheCoherent`, `LayersMatchRegistry`, `Idempotent`, `IconReflectsLastReport` | pass, 507 states |
| events | `MCEventRegistry.cfg` | `EvTypeOK`, `EvIconCacheCoherent`, `EvLayersMatchRegistry`, `EvIconMatchesPopup` | pass, 1859 states |
| visualizer | `MCVisualizer.cfg` | `TypeOK`, `NoMarkerBeforeMap`, `MapDrawnOnce`, `ErrorChangesNothing`, and the refinements `ObjRegistryRefined` and `EvRegistryRefined` | pass, 96987 states |
| tracked_map | `MCVisualizer_Tracked.cfg` | `TrackedMapRefined` | pass, 56349 states |
| obj_icon_classification | `MCObject_IconIsClassification.cfg` | `IconIsClassification` | violation |
| circle_popup | `MCObject_CircleMeansHeadingUnavailable.cfg` | `CircleMeansHeadingUnavailable` | violation |
| sentinel_rotation | `MCObject_NoSentinelRotation.cfg` | `NoSentinelRotation` | violation |
| event_one_marker | `MCEvent_OneMarkerPerEvent.cfg` | `OneMarkerPerEvent` | violation |
| event_clean_normalized | `MCVisualizer_EventClean.cfg` | `EventCleanMatchesNormalizedId` | violation |
| object_clean_normalized | `MCVisualizer_ObjClean.cfg` | `ObjCleanMatchesNormalizedId` | violation |
| nan_heading | `MCObject_NaNHeading.cfg` | `IconReflectsLastReport` with NaN among the headings | violation |

What the passing properties say:
- **IconCacheCoherent / EvIconCacheCoherent.** The cached index of a live id is the icon the marker is drawn with. This must hold even though removal leaves the cache behind and re-creation overwrites it.
- **LayersMatchRegistry / EvLayersMatchRegistry.** Exactly one marker is on the map per live key, and none for a removed key. No marker is orphaned on the map and none is removed twice.
- **IconReflectsLastReport.** After any sequence of reports, removals and re-creations, a live object's icon is one allowed for its last report:
  - type 0: never the car or the plain circle;
  - no heading: never the car or the green circle;
  - heading: never a circle.
- **Idempotent.** Re-applying the message that produced the current state changes nothing. This covers the server relaying a duplicated datagram.
- **EvIconMatchesPopup.** An event whose popup shows cause 6 or 7 has that cause's icon.
- **NoMarkerBeforeMap.** No update creates a marker, or puts one on the map, before the map exists.
- **MapDrawnOnce.** The map is never redrawn.
- **ObjRegistryRefined / EvRegistryRefined.** Each registry's own specification (`Obj!ObjSpec`, `Ev!EvSpec`) is a property of the handler. Every handler step is a registry step or leaves that registry unchanged, whatever malformed, early-returned, thrown or foreign messages are interleaved.
- **TrackedMapRefined.** The handler implements the abstract specification `TrackedMap` under the refinement mapping `Tracked` (`Visualizer`, `INSTANCE TrackedMap WITH ...`):
  - `mapDrawn` is `leafletmap # NULL`;
  - `objects[k]` is the position of `markers[k]`, or none;
  - `events[k]` is the position and popup cause code of `eventMarkers[k]`, or none;
  - `lastUpsert` is the history variable itself;
  - the icon caches, icons, rotations, popups of objects and displayed layers are hidden.

  So the map is drawn once and nothing is tracked before it. Every applied update shows its key, and only its key, at the reported position (and cause). Every removal forgets exactly the key it computes. Everything else is a stutter. The abstract keys are the registries' raw keys: the code does not normalize, and the violation runs above say what that costs.

- **ErrorChangesNothing.** Every step that prints `console.error` leaves the map and both registries as they were. That covers a wrong field count, an update before the map (lines 285 and 334), and the `TypeError` Leaflet throws on an event with no icon. The error paths never half-apply an update. A Leaflet build that added the marker to the map before throwing (hazard at line 306) breaks it.

Each passing property has a mutant of the code it is about (PROJECT.json, `mutants`) that TLC finds violating it. Examples are a dropped `id in markers` test, a missing `.remove()`, a missing map check, and a missing `else if` branch.

The violation runs record where the code disagrees with `spec.md` or with its own comments (PROJECT.json, `findings`):
- The object icon is history-dependent, not a function of the last classification.
- A circle can show a heading in degrees, because the popup is decided on the previous icon (line 405).
- The sentinel 361 is passed to `setRotationAngle` (lines 378 and 399).
- Raw-keyed events give duplicate markers for one normalized id.
- `objEventClean` does not match padded ids.
- `objclean` can never remove an object first sent with a padded id.
- A NaN heading on an ordinary station type keeps the car icon, rotated by NaN, although the comment at line 346 says an unavailable heading is drawn as the circle (`IconReflectsLastReport` fails with NaN).

### Bounds

- **Objects run:** one id. Ids are independent when noise is off: every action touches one key.
  - Station types 0, 1, 110, 115, 117 and 5: type 0, both pedestrian codes, detected car, truck, and default.
  - Headings 45, 90, 361 and 400: two valid values, so the popup value changes, plus the boundary and a value above it.
  - Two positions.
  - This covers every branch of lines 336-445 and every pair of (cached icon, report).
- **Events run:** one name with all three noise forms, so three keys that denote one event. Cause codes 6, 7 and 3 (no icon).
- **Visualizer run:** every tag, with map bounds that are and are not the sentinel, so `draw_map` adds no area, the red area or both areas. It has one object id, headings 90, 361 and NaN, and three event keys. The registries' depth is covered by their own runs.
- **Objects run without NaN.** The objects run keeps headings numeric because `IconReflectsLastReport` is known to fail with NaN (the nan_heading run). Its icon theorem assumes `NaN \notin Headings` for the same reason.
- **Tracked-map run:** two positions, so that a marker that is not moved to the reported position is told apart from one that is. An event id clean and NUL-terminated (`StripNul` maps one onto the other), and all map bounds invalid. Two positions in the full visualizer run take 8 minutes, so the refinement has its own run.
- No counter is unbounded: the display counts stay in 0..1 by `LayersMatchRegistry`.

### Fairness

None is assumed, and no liveness property is stated. The handler reacts only to messages. The code guarantees nothing about which messages arrive, and it has no timer, retry or pending work of its own that should eventually complete: every handler runs to completion within one step. A liveness property would be a property of the S-LDM server, which is not in this repository. Every property is a safety property. Deadlock checking stays on: the handler can always receive another message.

## 4. Proofs (TLAPS)

Every theorem below is checked by `tlapm` to its last leaf, for every value of the constants that satisfies the named assumptions.

### `ObjectRegistryProofs`

- **`ObjTypeCorrect`**: `ObjSpec => []ObjTypeOK`.
  - `ObjTypeOK` is not inductive on its own. `objclean` decrements the display count, which stays in `Nat` only because a live key has count 1.
  - The inductive invariant is `TypeInv == ObjTypeOK /\ LayersMatchRegistry`.
  - The proof has one lemma per action and lemmas that the marker constructors return markers. Headings may include NaN.
- **`ObjIconCorrect`**: under `NaN \notin Headings`, `ObjSpec => [](IconCacheCoherent /\ IconReflectsLastReport)`, with the inductive invariant `TypeInv /\ IconCacheCoherent /\ IconReflectsLastReport`. The argument:
  - `UpdatedObjectIcon` maps *any* object icon into the icons allowed by the new report (lemma `UpdatedIconAllowed`).
  - The icon drawn after an update equals that value only because the marker's icon equals the cache. So cache coherence is what makes the icon property inductive.
  - Removal must not disturb other keys.
  - The hypothesis is necessary: with NaN the property is false (nan_heading run).
- **`ObjLayersMatch`**: `ObjSpec => []LayersMatchRegistry`, NaN included, from the same inductive invariant `TypeInv`.
- **`ObjCacheCoherent`**: `ObjSpec => []IconCacheCoherent` for every set of headings, NaN included. The inductive invariant is `CacheInv == TypeInv /\ IconCacheCoherent`. The update branch keeps coherence whatever the new icon is (`MovedIconIsCached`): if the cache changes, `setIcon` is called with the new index; if not, the marker keeps an icon that already equals the cache. So, unlike `IconReflectsLastReport`, this needs no NaN-free hypothesis. TLC confirmed it on the objects instance with NaN headings before the proof.
- **`ObjIdempotent`**: `ObjSpec => []Idempotent`, with NaN headings included. `Idempotent` holds in every typed state (`TypedIdempotent`), so the type invariant suffices. The lemmas:
  - `UpdatedIconIdempotent`: the transition table is idempotent for a fixed report.
  - `InitialIconFixed`: a created icon is a fixed point of the transition for the report that created it.
  - `PopupIdempotent` and `NewPopupFixed`: after one application the cached icon is the car only if the heading is not invalid, so the popup rule of line 405 does not fire again.

### `EventRegistryProofs`

- **`EvTypeCorrect`**: `EvSpec => [](EvTypeOK /\ EvLayersMatchRegistry)`, with the same pattern as the object registry.
- **`EvIconCorrect`**: `EvSpec => [](EvIconCacheCoherent /\ EvIconMatchesPopup)`. The inductive invariant is the type invariant with both properties. The key lemma is `EventIconOfCause`: for causes 6 and 7 the initial icon and the updated icon from any cache coincide.
- **`EvLayersMatch`** and **`EvIconFollowsCause`** state `EvLayersMatchRegistry` and `EvIconMatchesPopup` on their own, as corollaries of the two theorems above.

### `VisualizerProofs`

- **`RegistriesRefined`**: `Spec => ObjRegistryRefined /\ EvRegistryRefined`. The lemmas `ObjStep` and `EvStep` split `Next` into the messages that touch no registry (`Untouched`) and the four applied updates and removals.
- **`VisTypeCorrect`**, **`VisNoMarkerBeforeMap`**, **`VisMapDrawnOnce`** rest on the inductive invariant

  `VisInv == TypeOK /\ Obj!LayersMatchRegistry /\ Ev!EvLayersMatchRegistry /\ MapFlag /\ NoMarkerBeforeMap`.
  - The registries' type lemmas are reused through `ObjStep` and `EvStep`.
  - `MapFlag` (`map_rx = (leafletmap # NULL)`) is what makes a second map message an ignored one. Without it, `map_rx = FALSE` would not exclude a drawn map.
  - `NoMarkerBeforeMap` is inductive because a removal before the map finds no key.
  - `VisInv` was first checked by TLC as an invariant of the tracked_map instance.
- **`VisRefinesTrackedMap`**: `Spec => TrackedMapRefined`. The initial state maps to `TrackedMap`'s initial state (`RefInit`). Under `VisInv`, every step maps to a `TrackedMap` step or a stutter (`RefStep`):
  - `ObjectRefined` and `EventRefined` show that the created or moved marker is a marker, at the reported position, and that no other key changes.
  - `ObjCleanRefined` and `EventCleanRefined` show that removals forget the computed key.
  - A map message maps to `DrawMap` only because of `MapFlag`.
- **`VisErrorChangesNothing`**: `Spec => ErrorChangesNothing`. No invariant is needed. Of the disjuncts of `Next` (lemma `NextCases`), only the messages that touch no registry (`Untouched`) can set `report` to `"error"`, and those leave the registries alone (`UntouchedUnchanged`). Among them, the map cases are the only ones that change the map, and they set `report` to `"none"`.
- **`VisIconReflectsLastReport`**: under `NaN \notin Headings`, `Spec => []Obj!IconReflectsLastReport`. It is `ObjIconCorrect` carried through `RegistriesRefined`. The hypothesis is the one the registry theorem needs, and the nan_heading run shows that it cannot be dropped.
- **`VisRegistryInvariants`**: `Spec => [](Obj!IconCacheCoherent /\ Obj!Idempotent /\ Ev!EvIconCacheCoherent /\ Ev!EvIconMatchesPopup)`. This is composition by refinement. `RegistriesRefined` makes each registry's specification a property of the handler, and the registries' theorems (`ObjCacheCoherent`, `ObjIdempotent`, `EvIconCorrect`) then hold of it, NaN headings included, whatever map, malformed or foreign messages are interleaved.

### Assumptions

- `SentinelAssumption` (`Fields`) keeps `Undefined`, `Unavailable`, `NoMarker` and `NaN` apart from each other and from the integers.
- `ObjectAssumption` and `EventAssumption` say that station types, cause codes and headings are integers (headings possibly NaN), that the clean noise form exists, and that `NoMarker` is not a marker.
- `VisualizerAssumption` says that map coordinates are integers including the sentinel, and that `NULL` is not a map. It also requires the registries' assumptions of the handler's constants. The registries' lemmas are imported conditionally on those assumptions (lemma `InstanceAssumptions`).

### Other notes

The icon operators are written with IF/ELSE where the code has if/else over overlapping conditions, for example `stationtype === 0` checked before the heading. A TLA+ CASE with overlapping guards would choose among them arbitrarily.

One pitfall matters for anyone extending these proofs. With `Headings \subseteq Int \cup {NaN}`, the SMT backend accepted `h \in Int`, which does not follow. Steps that derive the integer type of a heading are therefore given to Zenon, and the icon proofs carry `NaN \notin Headings` explicitly.

Every invariant and temporal property of the passing runs is stated by a theorem above. Only model-checked:
- the violation runs, which are counterexamples and not theorems;
- `IconReflectsLastReport` with NaN headings, which is false (nan_heading).

No liveness is claimed (section 3). Liveness, `ENABLED` and induction over data are outside what `tlapm` can prove here.

## 5. Not modelled

- Tile layers, the Mapbox token, the layer control and the DOM status text. They configure rendering and change no state the handler reads.
- `toHex` and the logging loop of lines 214-221. They only log.
- JavaScript property names used as ids, such as `length` or `constructor`, which `id in markers` (line 337) finds in the empty Array. The code itself treats object ids as numbers (`parseInt` at line 256), and the S-LDM sends numeric station ids, so the model's ids are numbers with noise.
- Positions are opaque values. `parseFloat` of a malformed latitude gives a NaN position that Leaflet may reject. The handler does not test positions.
- The S-LDM server and the socket.io transport, which decide which messages arrive. The model lets any message arrive at any time, any number of times.

## 6. Plan for later work

1. Give `TrackedMap` an abstract icon category once the code's icon transitions are settled against the spec (see the obj_icon_classification finding).
2. Give `RecvCorrupted` the fields of the malformed message, so that a property can say that a malformed object message is never applied as an update. `ObjRegistryRefined` cannot say this, because a wrongly applied update is still a registry step.
