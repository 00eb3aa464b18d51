-------------------------------- MODULE MapView --------------------------------
(***************************************************************************)
(* The view of the map (L.Map, leaflet-src.js): setView, animated pans     *)
(* (L.PosAnimation and its fallback for browsers without transitions),     *)
(* animated zooms, and the window being resized, with every frame          *)
(* callback, timer and transition event they leave behind; and what        *)
(* follows the view: the part of the map that paths are drawn in           *)
(* (_pathViewport, once a path has been added) and the zoom buttons        *)
(* (L.Control.Zoom).                                                       *)
(*                                                                         *)
(* Places are integers on one axis, in the same unit at every zoom: the    *)
(* centre of the map is the layer point under the middle of the container, *)
(* Centre(v) = base - pos + half.  Frames run in the order requested;      *)
(* timers and frames are not ordered (a hidden tab runs timers only).      *)
(***************************************************************************)
EXTENDS Integers, Sequences, SequencesExt

CONSTANTS Zooms,           \* minZoom..maxZoom of the page (map.ftl)
          Places,          \* centres asked for
          Halves,          \* half the container's size
          Threshold,       \* zoomAnimationThreshold
          Near,            \* offsets within one screen
          StartPlace, StartZoom, StartHalf,
          Browsers,        \* subset of BOOLEAN: has CSS transitions (L.DomUtil.TRANSITION)
          PopupWidth, Padding,   \* of a popup, and around it (autoPanPadding)
          MaxAsks           \* bound of the model: requests and resizes in all

ASSUME ZoomsAssumption ==
  {Min(Zooms), Max(Zooms)} \subseteq Int /\ Zooms = Min(Zooms)..Max(Zooms) /\ StartZoom \in Zooms
ASSUME PlacesAssumption == Places \subseteq Int /\ StartPlace \in Int
ASSUME HalvesAssumption == Halves \subseteq Int /\ StartHalf \in Halves
ASSUME PopupAssumption == PopupWidth \in Nat /\ Padding \in Nat

VARIABLE view

vwVars == <<view>>

\* L.Control.Zoom._updateDisabled: the button that leads out of the limits.
DisabledAt(zoom) ==
  {b \in {"in", "out"} : zoom = IF b = "in" THEN Max(Zooms) ELSE Min(Zooms)}

VwInit ==
  \E transitions \in Browsers :
  view = [transitions |-> transitions,
          zoom |-> StartZoom, base |-> StartPlace - StartHalf, half |-> StartHalf,
          container |-> StartHalf,
          pos |-> 0,         \* mapPane._leaflet_pos
          style |-> 0,       \* the position in the pane's style
          shown |-> 0,       \* where the browser shows it: on its way while panning
          panning |-> FALSE, panTo |-> 0,
          animating |-> FALSE, css |-> FALSE, toPlace |-> StartPlace, toZoom |-> StartZoom,
          dragOff |-> FALSE,         \* L.Draggable._disabled
          viewport |-> [pos |-> 0, half |-> StartHalf], pathZooming |-> FALSE,
          buttonsOff |-> DisabledAt(StartZoom),
          frames |-> <<>>, timers |-> 0, sizeTimer |-> FALSE,
          \* observed by the layers: movestart or zoomstart without its end, a
          \* move without a moveend; and the zoom last asked for
          moving |-> FALSE, zooming |-> FALSE, stale |-> FALSE, asked |-> StartZoom,
          \* the popup opened, while nothing else was asked for or changes the view
          popup |-> {},
          overtaken |-> FALSE, asks |-> 0]

Centre(v) == v.base - v.pos + v.half
Abs(n) == IF n < 0 THEN -n ELSE n
-------------------------------------------------------------------------------
\* What the view's functions do to it.

SetPosition(v, p) ==
  [v EXCEPT !.pos = p, !.style = p, !.shown = IF v.panning THEN @ ELSE p]

\* _updatePathViewport, and _updateSvgViewport, which leaves a zoom's animation
\* alone.
UpdatePathViewport(v) == [v EXCEPT !.viewport = [pos |-> v.pos, half |-> v.half]]

UpdateSvgViewport(v) == IF v.pathZooming THEN v ELSE UpdatePathViewport(v)

\* moveend and zoomend with their listeners.
MoveEnd(v) == UpdateSvgViewport([v EXCEPT !.moving = FALSE, !.stale = FALSE])

ZoomEnded(v) ==
  [v EXCEPT !.zooming = FALSE, !.pathZooming = FALSE, !.buttonsOff = DisabledAt(v.zoom)]

\* PosAnimation._onTransitionEnd: without its transition the pane is where its
\* style says.  The listeners then fire move and moveend.
EndPan(v) == MoveEnd([v EXCEPT !.panning = FALSE, !.pos = v.panTo, !.shown = v.style])

\* The fallback's step puts the pane where the time elapsed says, and completes
\* the pan at its end.
FallbackStep(v) ==
  LET at == [v EXCEPT !.pos = v.shown, !.style = v.shown] IN
  IF v.shown = v.panTo THEN MoveEnd([at EXCEPT !.panning = FALSE])
  ELSE [at EXCEPT !.stale = TRUE]

\* The fallback's stop takes a step and completes.
FallbackStop(v) == MoveEnd([FallbackStep(v) EXCEPT !.panning = FALSE])

\* PosAnimation.stop fixes the pane where it is shown, and _onTransitionEnd
\* records the target all the same.
StopPan(v) ==
  IF ~v.panning THEN v
  ELSE IF v.transitions THEN EndPan(SetPosition(v, v.shown)) ELSE FallbackStop(v)

\* PosAnimation.run; the fallback takes a first step, from where the pane is.
RunPan(v, to) ==
  LET stopped == [StopPan(v) EXCEPT !.panning = TRUE, !.panTo = to] IN
  IF v.transitions THEN SetPosition(stopped, to) ELSE [stopped EXCEPT !.stale = TRUE]

\* panBy, animated or at once; no offset is no pan.
PanBy(v, offset, animate, silent) ==
  LET started == IF silent THEN v ELSE [v EXCEPT !.moving = TRUE] IN
  IF offset = 0 THEN v
  ELSE IF animate
       THEN RunPan(started, v.pos - offset)
       ELSE MoveEnd(SetPosition(started, v.pos - offset))

\* _resetView.  With the pane's offset preserved (after an animated zoom) only
\* the origin moves.
ResetView(v, place, zoom, preserve) ==
  LET at == IF preserve THEN v ELSE SetPosition(v, 0)
      set == [at EXCEPT !.zoom = zoom, !.base = place - v.half + at.pos]
  IN MoveEnd(IF preserve \/ zoom # v.zoom THEN ZoomEnded(set) ELSE set)

\* _tryAnimatedZoom either takes the request (a running animation takes it
\* without looking at it), or leaves it to _resetView.
CanAnimate(v, place, zoom, layers) ==
  v.transitions /\ layers /\ Abs(zoom - v.zoom) <= Threshold /\ Abs(place - Centre(v)) <= Near

\* movestart and zoomstart.
ZoomStarts(v) == [v EXCEPT !.moving = TRUE, !.zooming = TRUE]

AnimateZoom(v, place, zoom) ==
  [v EXCEPT !.animating = TRUE, !.css = FALSE, !.toPlace = place, !.toZoom = zoom,
            !.dragOff = TRUE, !.frames = Append(@, "zoomanim"),
            !.overtaken = FALSE]

\* _onZoomTransitionEnd leaves the new view to the next frame.
ZoomTransitionEnd(v) ==
  IF v.animating
  THEN [v EXCEPT !.animating = FALSE, !.css = FALSE, !.frames = Append(@, "zoomend")]
  ELSE v

\* An animation refreshes the view when it ends: the resize timer is cancelled.
CancelRefresh(v) == [v EXCEPT !.sizeTimer = FALSE]

\* _tryAnimatedPan.
CanPan(v, place) == Abs(place - Centre(v)) <= Near

\* Whether an animated zoom has yet to be set.
ZoomPending(v) == v.animating \/ Contains(v.frames, "zoomend")

\* setView, with `layers` saying whether anything on the map is animated.  The
\* zoom asked for is recorded however the request is taken: by the animation that
\* runs, as a pan, as an animation of its own or at once; a zoom already pending
\* overtakes it, but for an animation, which takes its place.
SetView(v0, place, zoom, layers) ==
  LET v == [StopPan(v0) EXCEPT !.asked = zoom, !.overtaken = ZoomPending(v0)]
  IN IF zoom # v.zoom
     THEN IF v.animating THEN CancelRefresh(v)
          ELSE IF CanAnimate(v, place, zoom, layers)
               THEN CancelRefresh(AnimateZoom(ZoomStarts(v), place, zoom))
               ELSE ResetView(v, place, zoom, FALSE)
     ELSE IF CanPan(v, place) THEN CancelRefresh(PanBy(v, place - Centre(v), TRUE, FALSE))
          ELSE ResetView(v, place, zoom, FALSE)
-------------------------------------------------------------------------------
\* Requests: setView(place, zoom) with its callers setZoom, zoomIn, zoomOut,
\* panTo and fitBounds; panBy from the keyboard and from the drag's inertia.

Asked(v) == [v EXCEPT !.asks = @ + 1, !.popup = {}]

AskView(place, zoom, layers) ==
  /\ view.asks < MaxAsks
  /\ view' = SetView(Asked(view), place, zoom, layers)

\* A zoom button, with shift for three levels: zoomIn and zoomOut count from the
\* zoom that is set, and setView limits what they ask for.
LimitZoom(zoom) ==
  IF zoom < Min(Zooms) THEN Min(Zooms) ELSE IF zoom > Max(Zooms) THEN Max(Zooms) ELSE zoom

ClickZoom(delta, layers) ==
  /\ view.asks < MaxAsks
  /\ view' = SetView(Asked(view), Centre(view), LimitZoom(view.zoom + delta), layers)

AskPan(offset, animate, silent) ==
  /\ view.asks < MaxAsks
  /\ view' = PanBy(Asked(view), offset, animate, silent)

\* A popup opens with its left edge at a place, and pans the map when it is not
\* in view (Popup._adjustPan).
Left(v, at) == at - v.base + v.pos

AdjustPan(v, at) ==
  LET right == Left(v, at) + PopupWidth + Padding - 2 * v.half
      dx == IF right > 0 THEN right ELSE 0
  IN IF Left(v, at) - dx - Padding < 0 THEN Left(v, at) - Padding ELSE dx

AskPopup(at) ==
  /\ view.asks < MaxAsks
  /\ view' = [PanBy(Asked(view), AdjustPan(view, at), TRUE, FALSE) EXCEPT
               !.popup = IF view.animating \/ view.frames # <<>>
                           \/ (view.panning /\ AdjustPan(view, at) = 0) THEN {} ELSE {at}]

\* A frame asked for is taken back.
CancelFrame(frames, f) ==
  IF Contains(frames, f) THEN RemoveAt(frames, CHOOSE i \in DOMAIN frames : frames[i] = f)
  ELSE frames

\* The window is resized; _onResize asks for a frame in place of the last.
Resize(half) ==
  /\ half # view.container
  /\ view.asks < MaxAsks
  /\ view' = [Asked(view) EXCEPT !.container = half,
                          !.frames = Append(CancelFrame(@, "resize"), "resize")]

-------------------------------------------------------------------------------
\* The browser.

\* The pane moves on its way, or the time does that the fallback goes by; every
\* 50 ms, or at each frame, comes a step.
PaneMoves ==
  LET end == IF view.transitions THEN view.style ELSE view.panTo IN
  /\ view.panning /\ view.shown # end
  /\ view' = [view EXCEPT !.shown = IF @ < end THEN @ + 1 ELSE @ - 1]

PanStep ==
  /\ view.panning
  /\ view' = IF view.transitions THEN [view EXCEPT !.pos = view.shown, !.stale = TRUE]
             ELSE FallbackStep(view)

\* A transition ends inside the pane: its own, that of an animated layer, or the
\* fading of a tile.  The pan listens to all of them, the zoom to transforms.
TransitionEnd(kind) ==
  /\ view.transitions
  /\ CASE kind = "pan"  -> view.panning /\ view.shown = view.style
       [] kind = "zoom" -> view.css
       [] kind = "fade" -> view.panning
  /\ LET v == IF view.panning THEN EndPan(view) ELSE view IN
       view' = IF kind = "fade" THEN v ELSE ZoomTransitionEnd(v)

\* Frames: the zoom animation starts, the zoom is set, the new size is read.
ZoomAnimFrame(v) ==
  [v EXCEPT !.css = v.animating, !.timers = @ + 1, !.pathZooming = TRUE]

\* Faulty variant: dragging stays off.
ZoomEndFrameStillOff(v) == ResetView(v, v.toPlace, v.toZoom, TRUE)

ZoomEndFrame(v) == [ResetView(v, v.toPlace, v.toZoom, TRUE) EXCEPT !.dragOff = FALSE]

InvalidateSize(v) ==
  LET offset == v.half - v.container
      moved == [SetPosition(v, v.pos - offset) EXCEPT !.half = v.container]
  IN IF offset = 0 THEN v
     ELSE [moved EXCEPT !.sizeTimer = TRUE, !.stale = TRUE]

Frame ==
  /\ view.frames # <<>>
  /\ LET v == [view EXCEPT !.frames = Tail(@)] IN
       view' = CASE Head(view.frames) = "zoomanim" -> ZoomAnimFrame(v)
                 [] Head(view.frames) = "zoomend" -> ZoomEndFrame(v)
                 [] Head(view.frames) = "resize" -> InvalidateSize(v)

\* The timer beside the transition event, 250 ms after an animation started.
ZoomTimer ==
  /\ view.timers > 0
  /\ view' = ZoomTransitionEnd([view EXCEPT !.timers = @ - 1])

SizeTimer ==
  /\ view.sizeTimer
  /\ view' = MoveEnd([view EXCEPT !.sizeTimer = FALSE])

VwNext ==
  \/ \E place \in Places, zoom \in Zooms, layers \in BOOLEAN : AskView(place, zoom, layers)
  \/ \E delta \in {-3, -1, 1, 3}, layers \in BOOLEAN : ClickZoom(delta, layers)
  \/ \E offset \in {-1, 1}, animate, silent \in BOOLEAN : AskPan(offset, animate, silent)
  \/ \E at \in Places : AskPopup(at)
  \/ \E half \in Halves : Resize(half)
  \/ PaneMoves \/ PanStep
  \/ \E kind \in {"pan", "zoom", "fade"} : TransitionEnd(kind)
  \/ Frame \/ ZoomTimer \/ SizeTimer

VwSpec == VwInit /\ [][VwNext]_vwVars
-------------------------------------------------------------------------------
VwTypeOK ==
  /\ view.zoom \in Zooms /\ view.toZoom \in Zooms /\ view.asked \in Zooms
  /\ view.toPlace \in Int /\ view.buttonsOff \subseteq {"in", "out"}
  /\ view.base \in Int /\ view.pos \in Int /\ view.style \in Int /\ view.shown \in Int
  /\ view.half \in Halves /\ view.container \in Halves
  /\ view.frames \in Seq({"zoomanim", "zoomend", "resize"}) /\ view.timers \in Nat
  /\ view.css => view.animating

ViewQuiet ==
  /\ ~view.panning /\ ~view.animating
  /\ view.frames = <<>> /\ view.timers = 0 /\ ~view.sizeTimer

\* When nothing runs or is awaited any more, every movestart and zoomstart has
\* had its end, dragging works again, the buttons at the limits are off and
\* paths are drawn where the map is ("we will be updated again anyway", :4777),
\* but for a resize whose moveend was taken (RefreshedWhenQuiet).  The zoom is the
\* one asked for last, unless an animated zoom had yet to be set when it was asked
\* for, and that one is set: setView takes a request made while the animation runs
\* without looking at it (:8881), and _onZoomTransitionEnd (:8938-8952) sets its
\* zoom in a later frame whatever was asked for in between.
\* A popup opened since then is in view if it fits (Popup._adjustPan, :4062-4101),
\* unless it was opened in view while the map was panning, which it does not stop,
\* or a pan was stopped on its way, after which the pane is not where it is
\* recorded (StopPan).
QuietMeansSettled ==
  ViewQuiet =>
    /\ ~view.moving /\ ~view.zooming /\ ~view.dragOff /\ ~view.pathZooming
    /\ view.buttonsOff = DisabledAt(view.zoom)
    /\ ~view.stale => view.viewport = [pos |-> view.pos, half |-> view.half]
    /\ \A at \in view.popup :
         PopupWidth + 2 * Padding <= 2 * view.half /\ view.shown = view.pos =>
         /\ Left(view, at) >= Padding
         /\ Left(view, at) + PopupWidth + Padding <= 2 * view.half
    /\ view.zoom = IF view.overtaken THEN view.toZoom ELSE view.asked

\* "prevent resize handler call, the view will refresh after animation anyway"
\* (leaflet-src.js:8703): once all is quiet, no move is left without a moveend.
RefreshedWhenQuiet == ViewQuiet => ~view.stale
===============================================================================
