------------------------------- MODULE MapLocate -------------------------------
(***************************************************************************)
(* The location control (locate.js, with its default options) and the      *)
(* geolocation of the map (leaflet-src.js, L.Map.locate).                  *)
(*                                                                         *)
(* The control keeps three flags (_active, _locateOnNextLocationFound and  *)
(* the location it saw last, _event), the class of its button and a layer  *)
(* with a circle; the map keeps a watch of the browser's.  Clicks, moves   *)
(* and zooms of the map, locations and errors come in any order.           *)
(*                                                                         *)
(* The view is the spot in its middle.  A request for another zoom starts  *)
(* an animation or is taken by the one that runs, whose end leaves the     *)
(* view to a later frame; MapView models the view in full.                 *)
(***************************************************************************)
EXTENDS Integers

CONSTANTS Spots,      \* places of the user and of the map's view
          NoSpot,
          Supports,   \* subset of BOOLEAN: navigator.geolocation exists
          MaxEnds     \* bound of the model: frames at a time that will set a zoom

ASSUME NoSpotAssumption == NoSpot \notin Spots

ASSUME SupportsAssumption == Supports \subseteq BOOLEAN

ASSUME EndsAssumption == MaxEnds \in Nat

VARIABLE loc

loVars == <<loc>>

ResetVariables(l) == [l EXCEPT !.active = FALSE, !.onNext = TRUE]

LoInit ==
  \E supported \in Supports, spot \in Spots :
    loc = ResetVariables(
            [supported |-> supported, watch |-> FALSE, view |-> spot,
             active |-> FALSE, onNext |-> FALSE,
             event |-> NoSpot,     \* _event, the latest location ever found
             button |-> "",        \* the class: "", "requesting" or "active"
             circle |-> NoSpot,    \* on _layer
             animating |-> FALSE,  \* Map._animatingZoom
             to |-> spot,          \* Map._animateToCenter
             ends |-> 0,           \* frames that will set the zoom
             \* observed: the spot the view was asked to show, unless another
             \* zoom overtakes it or the user has gone elsewhere since
             shows |-> NoSpot])

-------------------------------------------------------------------------------
\* Map.fitBounds(spot), at the zoom of the map (same) or another: a zoom that is
\* animated starts, unless one runs, which takes the request without looking at
\* it; a pan or a reset moves the view at once.
FitBounds(l, spot, same, animated) ==
  IF same \/ (~animated /\ ~l.animating) THEN [l EXCEPT !.view = spot]
  ELSE IF l.animating THEN l
  ELSE [l EXCEPT !.animating = TRUE, !.to = spot]

\* A zoom that is still to be set takes the place of what is shown at once.
Overtaken(l, same, animated) == l.animating \/ (l.ends > 0 /\ (same \/ ~animated))

Shows(l, spot, same, animated) == IF Overtaken(l, same, animated) THEN NoSpot ELSE spot

\* Faulty variant: _locateOnNextLocationFound stays set.
VisualizeLocationFollowing(l, same, animated) ==
  LET fit == IF l.onNext THEN FitBounds(l, l.event, same, animated) ELSE l IN
  [fit EXCEPT !.circle = l.event, !.button = "active"]

\* visualizeLocation: the location is shown when that is due, and no longer due,
\* whatever fitBounds made of it.
VisualizeLocation(l, same, animated) ==
  LET fit == IF l.onNext THEN FitBounds(l, l.event, same, animated) ELSE l IN
  [fit EXCEPT !.onNext = FALSE, !.circle = l.event, !.button = "active"]

\* Map.stopLocate.
MapStopLocate(l) == [l EXCEPT !.watch = FALSE]

\* stopLocate of the control.
StopLocate(l) ==
  [ResetVariables(MapStopLocate(l)) EXCEPT !.button = "", !.circle = NoSpot]

\* onLocationError: a timeout (code 3) does not end a watch.
OnLocationError(l, code) == IF code = 3 THEN l ELSE StopLocate(l)

\* Map.locate watches, or says at once that it cannot (_handleGeolocationError).
Locate(l) ==
  IF ~l.supported THEN OnLocationError(l, 0)
  ELSE [l EXCEPT !.watch = TRUE]

\* The button.  While the first location is awaited a click throws (it reads the
\* place of an _event that is undefined) and changes nothing.
ClickThrows(l) == l.active /\ l.event = NoSpot

ClickLocate(same, animated) ==
  /\ ~ClickThrows(loc)
  /\ LET asked == [loc EXCEPT !.onNext = TRUE]
         on == [IF loc.active THEN asked ELSE Locate(asked) EXCEPT !.active = TRUE]
     IN loc' = IF loc.active /\ loc.view = loc.event THEN StopLocate(loc)
               ELSE IF on.event = NoSpot THEN [on EXCEPT !.button = "requesting"]
               ELSE [VisualizeLocation(on, same, animated) EXCEPT
                      !.shows = Shows(loc, loc.event, same, animated)]

\* The browser: a location (_handleGeolocationResponse, onLocationFound) or an
\* error, while there is a watch.  The first location of all is the one awaited.
LocationFound(spot, same, animated) ==
  /\ loc.watch
  /\ LET found == [loc EXCEPT !.active = TRUE, !.event = spot] IN
       loc' = [VisualizeLocation(found, same, animated) EXCEPT
                !.shows = IF loc.event = NoSpot THEN Shows(loc, spot, same, animated) ELSE @]

LocationError(code) ==
  /\ loc.watch
  /\ loc' = OnLocationError(loc, code)

\* The map is moved by its user, at once or with an animated zoom.
MoveMap(spot) ==
  /\ spot # loc.view
  /\ loc' = [loc EXCEPT !.view = spot, !.shows = NoSpot]

ZoomMap(spot) ==
  /\ ~loc.animating
  /\ loc' = [loc EXCEPT !.animating = TRUE, !.to = spot, !.shows = NoSpot]

\* The end of an animated zoom, by its transition or a timer, asks for the frame
\* that sets the view the animation was last begun for.
LocateZoomEnds ==
  /\ loc.animating /\ loc.ends < MaxEnds
  /\ loc' = [loc EXCEPT !.animating = FALSE, !.ends = @ + 1]

LocateZoomSet ==
  /\ loc.ends > 0
  /\ loc' = [loc EXCEPT !.view = loc.to, !.ends = @ - 1]

LoNext ==
  \/ \E same, animated \in BOOLEAN :
       ClickLocate(same, animated) \/ \E spot \in Spots : LocationFound(spot, same, animated)
  \/ \E spot \in Spots : MoveMap(spot) \/ ZoomMap(spot)
  \/ \E code \in 1..3 : LocationError(code)
  \/ LocateZoomEnds \/ LocateZoomSet

LoSpec == LoInit /\ [][LoNext]_loVars
-------------------------------------------------------------------------------
LoTypeOK ==
  /\ {loc.view, loc.to} \subseteq Spots
  /\ {loc.event, loc.circle, loc.shows} \subseteq Spots \cup {NoSpot}
  /\ loc.button \in {"", "requesting", "active"}
  /\ {loc.active, loc.watch, loc.onNext, loc.animating} \subseteq BOOLEAN
  /\ loc.ends \in 0..MaxEnds

\* The parts agree: the browser is asked for locations exactly while the control
\* is active, and a circle is shown where the user was seen last exactly while the
\* button says so.  Without geolocation the control stays active once it has been
\* clicked (locate.js:72-77).  The view is set to the user's location (:30): once
\* no zoom runs or is to be set, the map shows the location that was at hand when
\* the button was clicked, or else the first one found, and keeps showing it while
\* others are found (follow is off), until the user moves the map; unless an
\* animated zoom that had yet to be set took or overtook the request, which is then
\* lost, for fitBounds is asked once (:110-113, leaflet-src.js:8881, 8938-8952).
LocateAgrees ==
  /\ loc.watch <=> loc.active /\ loc.supported
  /\ (loc.button = "") <=> ~loc.active
  /\ (loc.button = "active") <=> loc.circle # NoSpot
  /\ loc.circle \in {NoSpot, loc.event}
  /\ ~loc.animating /\ loc.ends = 0 /\ loc.shows # NoSpot => loc.view = loc.shows
===============================================================================
