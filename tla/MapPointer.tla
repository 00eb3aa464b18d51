------------------------------- MODULE MapPointer -------------------------------
(***************************************************************************)
(* The handlers that turn the events of a mouse or of fingers into moves   *)
(* and zooms of the map (leaflet-src.js): L.Draggable with L.Map.Drag, box *)
(* zoom, the scroll wheel and the keyboard of a desktop browser; pinch     *)
(* zoom, tap and double tap of a touch screen.                             *)
(*                                                                         *)
(* The handlers listen to the same events, and each keeps flags of its own *)
(* between them.  Buttons and fingers go down and up in any order, an      *)
(* event may never come (the mouse let go outside the window, a touch      *)
(* cancelled: nothing listens to either), and frames and timers run late.  *)
(***************************************************************************)
EXTENDS Integers, FiniteSets

CONSTANTS Devices,      \* "mouse", "touch"
          Positions,    \* of the pointer on one axis
          WheelMax,     \* notches counted before a zoom, at most 4 are used
          MaxPresses, MaxStale, MaxZooms    \* bounds of the model

ASSUME PositionsAssumption == Positions \subseteq Int
ASSUME WheelMaxAssumption == WheelMax \in Nat

VARIABLE ptr

ptVars == <<ptr>>

PtInit ==
  \E device \in Devices, x \in Positions :
    ptr = [device |-> device, x |-> x, pane |-> 0, presses |-> 0,
           held |-> {},       \* buttons down, or fingers
           \* L.Draggable on the map pane
           drag |-> [on |-> FALSE, moved |-> FALSE, moving |-> FALSE, frame |-> FALSE,
                     startX |-> x, startPos |-> 0, newPos |-> 0],
           glide |-> FALSE,   \* the frame of the drag's inertia
           box |-> [on |-> FALSE, moved |-> FALSE], boxes |-> 0,  \* boxes in the pane
           wheel |-> 0, wheelTimer |-> FALSE, focused |-> FALSE,
           pinch |-> [on |-> FALSE, zooming |-> FALSE, moved |-> FALSE, frame |-> FALSE],
           tap |-> [on |-> FALSE, fire |-> FALSE, ok |-> FALSE, hold |-> FALSE], stale |-> 0,
           dbl |-> [last |-> FALSE, double |-> FALSE],
           \* the map's zoom: animating, frames that fire zoomanim, timers after
           \* them, frames that set the new zoom; L.Draggable._disabled
           animating |-> FALSE, zoomFrames |-> 0, timers |-> 0, endFrames |-> 0,
           disabled |-> FALSE,
           \* seen by others: a dragstart or zoomstart without its end; clicks and
           \* double clicks of a touch; a click of the last button released
           begun |-> FALSE, zoomBegun |-> FALSE, taps |-> 0, dbls |-> 0, clicked |-> FALSE,
           \* where the pane was grabbed, and whether other code moved it since;
           \* a drag since the button went down; another button or finger down
           \* during a drag; a finger that joined; an event that never came
           grab |-> [x |-> x, pane |-> 0], disturbed |-> FALSE, went |-> FALSE,
           again |-> FALSE, joined |-> FALSE, lost |-> FALSE]

-------------------------------------------------------------------------------
\* L.Draggable.  Every press resets _moved, also one that starts nothing.

DragDown(p, starts) ==
  LET down == [p EXCEPT !.drag.moved = FALSE, !.again = @ \/ p.drag.moving] IN
  IF ~starts \/ p.disabled \/ p.drag.moving THEN down
  ELSE [down EXCEPT !.drag.on = TRUE, !.drag.startX = p.x,
                    !.drag.startPos = p.pane, !.drag.newPos = p.pane]

\* Faulty variant: from where it was when the button went down.
StartPosAtDown(p, offset) == p.drag.startPos

\* The first move starts the drag from where the pane is by then.
StartPos(p, offset) == p.pane - offset

DragStart(p, offset) ==
  [p EXCEPT !.drag.moved = TRUE, !.drag.startPos = StartPos(p, offset),
            !.begun = TRUE, !.went = TRUE, !.again = @ /\ p.boxes > 0, !.disturbed = FALSE,
            !.grab = [x |-> p.x, pane |-> p.pane]]

DragMove(p) ==
  LET offset == p.x - p.drag.startX
      started == IF p.drag.moved THEN p ELSE DragStart(p, offset)
  IN IF ~p.drag.on THEN p
     ELSE IF Cardinality(p.held) > 1 /\ p.device = "touch"
          THEN [p EXCEPT !.drag.moved = TRUE]
     ELSE IF offset = 0 THEN p
     ELSE [started EXCEPT !.drag.newPos = started.drag.startPos + offset,
                          !.drag.moving = TRUE, !.drag.frame = TRUE]

\* Any button or finger that goes up ends the drag.  With inertia the map
\* pans on from the next frame.
DragUp(p, inertia) ==
  LET ends == p.drag.moved /\ p.drag.moving
      up == [p EXCEPT !.drag.on = FALSE, !.drag.moving = FALSE]
  IN IF ~p.drag.on THEN p
     ELSE IF ~ends THEN up
     ELSE [up EXCEPT !.drag.frame = FALSE, !.begun = @ /\ inertia, !.glide = inertia]
-------------------------------------------------------------------------------
\* L.Map.BoxZoom: shift and the left button.

BoxDown(p, starts) ==
  [p EXCEPT !.box.moved = FALSE, !.box.on = @ \/ starts,
            !.again = @ \/ p.went]

BoxMove(p) ==
  IF ~p.box.on \/ p.box.moved THEN p
  ELSE [p EXCEPT !.box.moved = TRUE, !.boxes = @ + 1, !.went = TRUE]

BoxFinish(p) ==
  IF ~p.box.on THEN p
  ELSE [p EXCEPT !.box.on = FALSE, !.boxes = IF p.box.moved THEN @ - 1 ELSE @]

\* L.Map.TouchZoom: two fingers, unless the map animates a zoom.

PinchStart(p) ==
  IF Cardinality(p.held) # 2 \/ p.animating \/ p.pinch.zooming THEN p
  ELSE [p EXCEPT !.pinch.moved = FALSE, !.pinch.zooming = TRUE, !.pinch.on = TRUE]

PinchMove(p, scaled) ==
  IF ~p.pinch.on \/ Cardinality(p.held) # 2 \/ ~p.pinch.zooming \/ ~scaled THEN p
  ELSE [p EXCEPT !.pinch.moved = TRUE, !.pinch.frame = TRUE, !.zoomBegun = TRUE]

\* Map._animateZoom: dragging is off until the new zoom is set.
StartZoomAnim(p, pinching) ==
  [p EXCEPT !.animating = @ \/ ~pinching, !.disabled = TRUE, !.zoomFrames = @ + 1,
            !.zoomBegun = TRUE]

PinchEnd(p) ==
  IF ~p.pinch.on THEN p
  ELSE IF ~p.pinch.moved \/ ~p.pinch.zooming THEN [p EXCEPT !.pinch.zooming = FALSE]
  ELSE StartZoomAnim([p EXCEPT !.pinch.zooming = FALSE, !.pinch.on = FALSE,
                             !.pinch.frame = FALSE], FALSE)

\* Faulty variant: the finger that joins only stops the timer.
TapJoinedStillFires(p) == [p EXCEPT !.tap.hold = FALSE]

\* L.Map.Tap: a finger that stays where it is clicks, or opens the context menu
\* after a second; another finger ends that.
TapJoined(p) == [p EXCEPT !.tap.fire = FALSE, !.tap.hold = FALSE]

TapDown(p) ==
  IF Cardinality(p.held) > 1 THEN [TapJoined(p) EXCEPT !.joined = TRUE]
  ELSE [p EXCEPT !.tap = [on |-> TRUE, fire |-> TRUE, ok |-> TRUE, hold |-> TRUE],
                 !.stale = IF p.tap.hold THEN @ + 1 ELSE @,
                 !.taps = 0, !.dbls = 0, !.joined = FALSE]

TapUp(p) ==
  IF ~p.tap.on THEN p
  ELSE [p EXCEPT !.tap.on = FALSE, !.tap.hold = FALSE,
                 !.taps = IF p.tap.fire /\ p.tap.ok THEN @ + 1 ELSE @]

\* addDoubleTapListener: a second touch within 250 ms clicks twice when it ends.
DoubleDown(p, quick) ==
  IF Cardinality(p.held) > 1 THEN p
  ELSE [p EXCEPT !.dbl = [last |-> TRUE, double |-> p.dbl.last /\ quick]]

DoubleUp(p) ==
  IF p.dbl.double THEN [p EXCEPT !.dbl.last = FALSE, !.dbls = @ + 1] ELSE p
-------------------------------------------------------------------------------
\* The mouse.

MouseDown(button, shift) ==
  /\ ptr.device = "mouse" /\ button \notin ptr.held
  /\ ptr.presses < MaxPresses
  /\ LET p == [ptr EXCEPT !.held = @ \cup {button}, !.presses = @ + 1, !.focused = TRUE,
                          !.went = @ /\ ptr.held # {}]
         left == button = "left"
     IN ptr' = BoxDown(DragDown(p, left /\ ~shift), left /\ shift)

MouseMove(x) ==
  /\ ptr.device = "mouse" /\ x # ptr.x
  /\ ptr' = BoxMove(DragMove([ptr EXCEPT !.x = x]))

\* A zoom that the view animates, sets at once, or refuses; at the zoom it has it
\* pans.
Zoomed(p, how) ==
  CASE how = "none"     -> p
    [] how = "pan"      -> [p EXCEPT !.pane = @ + 1, !.disturbed = TRUE]
    [] how = "animated" -> IF p.animating THEN p ELSE StartZoomAnim(p, FALSE)
    [] how = "at once"  -> IF p.animating THEN p ELSE [p EXCEPT !.pane = 0, !.disturbed = TRUE]

ZoomsInFlight == ptr.zoomFrames + ptr.timers + ptr.endFrames

RoomFor(how) == how = "animated" => ZoomsInFlight < MaxZooms

\* The left button's release is a click unless the map was dragged
\* (_onMouseClick); any button's ends the box, and zooms to a box that is not
\* empty (fitBounds; nothing listens to boxzoomend).
MouseUp(button, inertia, how) ==
  /\ ptr.device = "mouse" /\ button \in ptr.held
  /\ ~ptr.box.on => how = "none"
  /\ RoomFor(how)
  /\ LET p == BoxFinish(DragUp([ptr EXCEPT !.held = @ \ {button}], inertia)) IN
       ptr' = Zoomed([p EXCEPT !.clicked = button = "left" /\ ~p.drag.moved /\ ~p.box.moved], how)

\* The button goes up outside the window.
MouseLost ==
  /\ ptr.device = "mouse" /\ ptr.held # {}
  /\ ptr' = [ptr EXCEPT !.held = {}, !.lost = TRUE, !.clicked = FALSE]

Escape ==
  /\ ptr.box.on
  /\ ptr' = BoxFinish(ptr)

\* _onWheelScroll starts the timer again at each notch; _performZoom takes what
\* has been counted.
WheelScroll ==
  /\ ptr.device = "mouse" /\ ptr.wheel < WheelMax
  /\ ptr' = [ptr EXCEPT !.wheel = @ + 1, !.wheelTimer = TRUE]

PerformZoom(how) ==
  /\ ptr.wheelTimer /\ RoomFor(how)
  /\ ptr' = Zoomed([ptr EXCEPT !.wheelTimer = FALSE, !.wheel = 0], how)

\* The keys of the focused map: an arrow pans, + and - zoom.
Blur ==
  /\ ptr.focused
  /\ ptr' = [ptr EXCEPT !.focused = FALSE]

KeyPan(offset) ==
  /\ ptr.focused /\ ptr.presses < MaxPresses
  /\ ptr' = [ptr EXCEPT !.pane = @ - offset, !.disturbed = TRUE, !.presses = @ + 1]

KeyZoom(how) ==
  /\ ptr.focused /\ RoomFor(how)
  /\ ptr' = Zoomed(ptr, how)
-------------------------------------------------------------------------------
\* Fingers: one, or two of one event.

FingersDown(fingers, quick) ==
  /\ ptr.device = "touch" /\ fingers # {} /\ fingers \cap ptr.held = {}
  /\ ptr.presses < MaxPresses /\ ptr.stale < MaxStale
  /\ LET p == [ptr EXCEPT !.held = @ \cup fingers, !.presses = @ + 1] IN
       ptr' = DoubleDown(TapDown(PinchStart(DragDown(p, TRUE))), quick)

FingersMove(x, scaled, ok) ==
  /\ ptr.device = "touch" /\ ptr.held # {}
  /\ ZoomsInFlight < MaxZooms
  /\ LET p == PinchMove(DragMove([ptr EXCEPT !.x = x]), scaled) IN
       ptr' = IF p.tap.on THEN [p EXCEPT !.tap.ok = ok] ELSE p

FingersUp(fingers, inertia) ==
  /\ ptr.device = "touch" /\ fingers # {} /\ fingers \subseteq ptr.held
  /\ LET p == [ptr EXCEPT !.held = @ \ fingers] IN
       ptr' = DoubleUp(TapUp(PinchEnd(DragUp(p, inertia))))

\* touchcancel: nothing listens to it.
TouchCancel ==
  /\ ptr.device = "touch" /\ ptr.held # {}
  /\ ptr' = [ptr EXCEPT !.held = {}, !.lost = TRUE]

\* The timer of a touch that is held, and that of an earlier touch nothing
\* cleared: both look at the latest touch.
HoldTimer(earlier) ==
  /\ IF earlier THEN ptr.stale > 0 ELSE ptr.tap.hold
  /\ LET p == IF earlier THEN [ptr EXCEPT !.stale = @ - 1] ELSE [ptr EXCEPT !.tap.hold = FALSE]
     IN ptr' = IF ~p.tap.ok THEN p
               ELSE [p EXCEPT !.tap.fire = FALSE, !.tap.on = FALSE, !.tap.hold = FALSE,
                              !.taps = @ + 1]
-------------------------------------------------------------------------------
\* Frames and timers.

UpdatePosition ==
  /\ ptr.drag.frame
  /\ ptr' = [ptr EXCEPT !.drag.frame = FALSE, !.pane = ptr.drag.newPos]

GlideFrame ==
  /\ ptr.glide
  /\ ptr' = [ptr EXCEPT !.glide = FALSE, !.pane = @ + 1, !.disturbed = TRUE,
                        !.begun = @ /\ ptr.drag.moving]

UpdateOnMove ==
  /\ ptr.pinch.frame
  /\ ptr' = StartZoomAnim([ptr EXCEPT !.pinch.frame = FALSE], TRUE)

AnimFrame ==
  /\ ptr.zoomFrames > 0
  /\ ptr' = [ptr EXCEPT !.zoomFrames = @ - 1, !.timers = @ + 1]

\* _onZoomTransitionEnd, from whichever timer comes first, or from a transition
\* that ends while the zoom runs: the zoom's, or that of a pan under way.  A timer
\* that comes after its zoom's end finds the next one.
EndZoomAnim(p) ==
  IF p.animating THEN [p EXCEPT !.animating = FALSE, !.endFrames = @ + 1] ELSE p

AnimTimer ==
  /\ ptr.timers > 0
  /\ ptr' = EndZoomAnim([ptr EXCEPT !.timers = @ - 1])

CatchTransitionEnd ==
  /\ ptr.animating
  /\ ptr' = EndZoomAnim(ptr)

\* Faulty variant: dragging stays off after a zoom.
DragNeverAgain(p) == p

DragAgain(p) == [p EXCEPT !.disabled = FALSE]

AnimEndFrame ==
  /\ ptr.endFrames > 0
  /\ ptr' = DragAgain([ptr EXCEPT !.endFrames = @ - 1, !.zoomBegun = FALSE])

PtNext ==
  \/ \E button \in {"left", "right"} :
       \/ \E shift \in BOOLEAN : MouseDown(button, shift)
       \/ \E inertia \in BOOLEAN, how \in {"none", "animated", "at once", "pan"} :
            MouseUp(button, inertia, how)
  \/ \E x \in Positions : \/ MouseMove(x)
                          \/ \E scaled, ok \in BOOLEAN : FingersMove(x, scaled, ok)
  \/ MouseLost \/ Escape \/ Blur \/ WheelScroll
  \/ \E how \in {"none", "animated", "at once"} : PerformZoom(how) \/ KeyZoom(how)
  \/ \E offset \in {-1, 1} : KeyPan(offset)
  \/ \E fingers \in SUBSET {"one", "two"}, b \in BOOLEAN : FingersDown(fingers, b) \/ FingersUp(fingers, b)
  \/ TouchCancel
  \/ \E earlier \in BOOLEAN : HoldTimer(earlier)
  \/ UpdatePosition \/ GlideFrame \/ UpdateOnMove \/ AnimFrame \/ AnimTimer
  \/ CatchTransitionEnd \/ AnimEndFrame

PtSpec == PtInit /\ [][PtNext]_ptVars
-------------------------------------------------------------------------------
PtTypeOK ==
  /\ ptr.device \in Devices /\ ptr.x \in Positions /\ ptr.pane \in Int
  /\ ptr.held \subseteq {"left", "right", "one", "two"}
  /\ ptr.drag.startPos \in Int /\ ptr.drag.newPos \in Int
  /\ {ptr.boxes, ptr.wheel, ptr.zoomFrames, ptr.timers, ptr.endFrames, ptr.stale} \subseteq Nat
  /\ ptr.wheel <= WheelMax

HandsQuiet ==
  /\ ptr.held = {} /\ ~ptr.drag.frame /\ ~ptr.glide /\ ~ptr.pinch.frame /\ ~ptr.wheelTimer
  /\ ptr.zoomFrames = 0 /\ ptr.timers = 0 /\ ptr.endFrames = 0

\* Once every button and finger is up and no frame or timer is awaited, the
\* handlers have let go: each dragstart and zoomstart has had its end, no box
\* is left in the pane, the wheel's notches have been used and dragging works.
\* Only a second button or finger pressed during the drag, or an event that
\* never came, leaves something behind (_onDown resets _moved, :6655, 7561).
HandsOff ==
  HandsQuiet =>
    /\ ptr.wheel = 0
    /\ ptr.begun \/ ptr.drag.moving \/ ptr.boxes > 0 => ptr.again \/ ptr.lost
    /\ ptr.zoomBegun \/ ptr.disabled \/ ptr.animating => ptr.lost

\* While the map is dragged the point that was grabbed stays under the pointer
\* whenever a frame has been shown, unless other code moved the pane; a pointer
\* back where it went down is not followed (:6688), nor are two fingers (:6679).
GrabbedPointHeld ==
  /\ ptr.drag.moving /\ ~ptr.drag.frame /\ ~ptr.disturbed /\ ptr.x # ptr.drag.startX
  /\ ptr.device = "touch" => ~ptr.again
  => ptr.pane - ptr.grab.pane = ptr.x - ptr.grab.x

\* A press is a click or a drag (:2134-2142), and a touch of one finger clicks
\* once and double-clicks once, unless another finger joined it.
ClickOrDrag ==
  [][/\ ptr'.clicked /\ "left" \in ptr.held \ ptr'.held =>
           ~ptr.went \/ ptr.again \/ ptr.lost
     /\ ptr'.taps > ptr.taps => (ptr.taps = 0 /\ ~ptr.joined) \/ ptr.lost
     /\ ptr'.dbls > ptr.dbls => ptr.dbls = 0 \/ ptr.joined \/ ptr.lost]_ptVars
===============================================================================
