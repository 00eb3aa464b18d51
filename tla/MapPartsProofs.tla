---------------------------- MODULE MapPartsProofs -----------------------------
(***************************************************************************)
(* Proofs about the parts of the map page, one after the other, for every  *)
(* value of their constants. A part is a record, and a handler an operator *)
(* on the whole record: for each there is a predicate that says which      *)
(* fields it changes, or a lemma for its effect, and the step that calls   *)
(* it cites only that.                                                     *)
(* The pointer: PtInv is inductive for any positions and any number of     *)
(* presses, and HandsOff, GrabbedPointHeld and ClickOrDrag follow from it. *)
(* The markers: who shows a popup is the same in the four places it is     *)
(* kept in, and the popup is where its marker is; the layers control shows *)
(* the base layer that is on the map.                                      *)
(* The location control: its flags, its button, its circle and the watch   *)
(* of the browser agree, with or without geolocation.                      *)
(* The view: when all is quiet, what pans, animated zooms and resizes      *)
(* began has ended, whatever frames, timers and events they overtook.      *)
(* VwInv says who is to end what: a queue of frames, in which the end of   *)
(* an animated zoom follows its start, a timer, a pan.                     *)
(* The tile layer: what the counter behind `load` counts, and which timers *)
(* may clear the scaled tiles. The search: whose answers are on the map,   *)
(* whether tips stay open under a collapsed control, what becomes of its   *)
(* intervals, and its types. The export of the server: that the table is   *)
(* read page by page.                                                      *)
(***************************************************************************)
EXTENDS MapPointer, MapOverlays, MapLocate, MapView, MapTiles, MapSearch, PoiExporter,
        MapEventsProofs

-------------------------------------------------------------------------------
(* The pointer.                                                             *)

\* The record's fields.
PtFields ==
  {"device", "x", "pane", "presses", "held", "drag", "glide", "box", "boxes", "wheel",
   "wheelTimer", "focused", "pinch", "tap", "stale", "dbl", "animating", "zoomFrames",
   "timers", "endFrames", "disabled", "begun", "zoomBegun", "taps", "dbls", "clicked",
   "grab", "disturbed", "went", "again", "joined", "lost"}

DragFields == {"on", "moved", "moving", "frame", "startX", "startPos", "newPos"}

Shape(p) ==
  /\ DOMAIN p = PtFields /\ DOMAIN p.drag = DragFields /\ DOMAIN p.box = {"on", "moved"}
  /\ DOMAIN p.pinch = {"on", "zooming", "moved", "frame"}
  /\ DOMAIN p.tap = {"on", "fire", "ok", "hold"} /\ DOMAIN p.dbl = {"last", "double"}
  /\ DOMAIN p.grab = {"x", "pane"}

\* Buttons or fingers, never both; the wheel's timer runs while notches count.
Hands(p) ==
  /\ p.device \in Devices /\ p.x \in Positions /\ p.pane \in Int
  /\ p.held \subseteq IF p.device = "touch" THEN {"one", "two"} ELSE {"left", "right"}
  /\ p.wheel \in Nat /\ p.wheel <= WheelMax /\ (p.wheel > 0 => p.wheelTimer)

\* A drag that goes on was begun by a button that is still down, and has its
\* end to come.
Dragged(p) ==
  /\ p.drag.moving => p.drag.on /\ (p.drag.moved \/ p.again)
  /\ p.drag.on => p.held # {} \/ p.lost
  /\ p.drag.on /\ p.drag.moved /\ ~p.drag.moving =>
       p.device = "touch" /\ (p.held = {} \/ p.held = {"one", "two"})
  /\ p.begun => p.drag.moving \/ p.glide \/ p.again \/ p.lost

\* The pane is, or will be with the next frame, where the pointer has gone since
\* the pane was grabbed.
Grabbed(p) ==
  /\ p.drag.startX \in Int /\ p.drag.startPos \in Int /\ p.drag.newPos \in Int
  /\ p.grab.x \in Int /\ p.grab.pane \in Int
  /\ p.drag.moving =>
       /\ p.drag.startPos = p.grab.pane - (p.grab.x - p.drag.startX)
       /\ ~p.disturbed => p.drag.frame \/ p.pane = p.drag.newPos
       /\ (p.device = "touch" => ~p.again) =>
            p.x = p.drag.startX \/ p.drag.newPos = p.drag.startPos + (p.x - p.drag.startX)
       /\ p.device = "touch" /\ ~p.again => p.held # {"one", "two"}

\* A box in the pane is the one being drawn; a button that went down and moved
\* the map or drew is known to have.
Boxed(p) ==
  /\ p.boxes \in Nat
  /\ p.box.on => p.device = "mouse" /\ (p.held # {} \/ p.lost)
  /\ p.box.on /\ p.box.moved => p.boxes > 0
  /\ p.boxes > 0 =>
       (p.box.on /\ p.box.moved /\ p.boxes = 1 /\ p.went) \/ p.again \/ p.lost
  /\ "left" \in p.held /\ p.went => p.drag.moved \/ p.box.moved \/ p.again \/ p.lost

\* A zoom that has begun is a pinch that goes on, or has a frame or timer to come.
ZoomsGo(p) ==
  /\ p.zoomFrames \in Nat /\ p.timers \in Nat /\ p.endFrames \in Nat
  /\ p.animating => p.zoomFrames + p.timers > 0
  /\ p.zoomBegun \/ p.disabled =>
       \/ p.pinch.zooming /\ p.pinch.moved
       \/ p.animating \/ p.endFrames > 0 \/ p.lost
  /\ p.pinch.frame => p.pinch.zooming /\ p.pinch.moved
  /\ p.pinch.zooming => p.pinch.on /\ (p.held # {} \/ p.lost)
  /\ p.pinch.on => p.device = "touch"

\* A touch that may still click has not, and no finger has joined it.
Tapped(p) ==
  /\ p.stale \in Nat /\ p.taps \in Nat /\ p.dbls \in Nat
  /\ p.tap.on => p.device = "touch" /\ (p.held # {} \/ p.lost)
  /\ p.tap.hold => p.tap.on /\ p.tap.fire
  /\ p.stale > 0 => p.lost
  /\ p.tap.on /\ p.tap.fire => p.taps = 0 /\ ~p.joined
  /\ p.dbls > 0 => p.device = "touch" /\ (p.held = {} \/ p.joined \/ p.lost)
  /\ p.held = {"one", "two"} => p.joined \/ p.lost

\* The inductive invariant.
PtInv(p) ==
  Shape(p) /\ Hands(p) /\ Dragged(p) /\ Grabbed(p) /\ Boxed(p) /\ ZoomsGo(p) /\ Tapped(p)

\* ClickOrDrag of a step.
Clicks(p, q) ==
  /\ q.clicked /\ "left" \in p.held \ q.held => ~p.went \/ p.again \/ p.lost
  /\ q.taps > p.taps => (p.taps = 0 /\ ~p.joined) \/ p.lost
  /\ q.dbls > p.dbls => p.dbls = 0 \/ p.joined \/ p.lost

\* What a handler leaves alone.
SameInput(p, q) ==
  /\ q.device = p.device /\ q.x = p.x /\ q.pane = p.pane /\ q.held = p.held /\ q.lost = p.lost
  /\ q.clicked = p.clicked /\ q.wheel = p.wheel /\ q.wheelTimer = p.wheelTimer

SameDrag(p, q) ==
  /\ q.drag = p.drag /\ q.grab = p.grab /\ q.glide = p.glide /\ q.begun = p.begun
  /\ q.disturbed = p.disturbed

SameBox(p, q) == q.box = p.box /\ q.boxes = p.boxes

SameZoom(p, q) ==
  /\ q.pinch = p.pinch /\ q.animating = p.animating /\ q.zoomFrames = p.zoomFrames
  /\ q.timers = p.timers /\ q.endFrames = p.endFrames /\ q.disabled = p.disabled
  /\ q.zoomBegun = p.zoomBegun

SameTap(p, q) ==
  /\ q.tap = p.tap /\ q.stale = p.stale /\ q.dbl = p.dbl /\ q.taps = p.taps
  /\ q.dbls = p.dbls /\ q.joined = p.joined

-------------------------------------------------------------------------------
\* What the press of a button or finger does to L.Draggable;
Pressed(p, q) ==
  /\ SameInput(p, q) /\ SameBox(p, q) /\ SameZoom(p, q) /\ SameTap(p, q)
  /\ q.grab = p.grab /\ q.glide = p.glide /\ q.begun = p.begun
  /\ q.disturbed = p.disturbed /\ q.went = p.went
  /\ q.again = (p.again \/ p.drag.moving)
  /\ q.drag.moved = FALSE /\ q.drag.moving = p.drag.moving /\ q.drag.frame = p.drag.frame
  /\ \/ /\ q.drag.on = p.drag.on /\ q.drag.startX = p.drag.startX
        /\ q.drag.startPos = p.drag.startPos /\ q.drag.newPos = p.drag.newPos
     \/ /\ ~p.drag.moving
        /\ q.drag.on = TRUE /\ q.drag.startX = p.x
        /\ q.drag.startPos = p.pane /\ q.drag.newPos = p.pane

LEMMA DragDownDoes ==
  ASSUME NEW p, Shape(p), NEW starts, NEW q, q = DragDown(p, starts)
  PROVE  Shape(q) /\ Pressed(p, q)
<1> QED
  BY DEF Pressed, DragDown, Shape, SameInput, SameBox, SameZoom, SameTap, PtFields, DragFields

\* A move does nothing without a press or a distance;
TwoFingers(p) == Cardinality(p.held) > 1 /\ p.device = "touch"

LEMMA DragMoveIgnored ==
  ASSUME NEW p, ~p.drag.on \/ (~TwoFingers(p) /\ p.x - p.drag.startX = 0)
  PROVE  DragMove(p) = p
<1> QED
  BY DEF DragMove, TwoFingers

\* a move of two fingers,
MovedByTwo(p, q) ==
  /\ SameInput(p, q) /\ SameBox(p, q) /\ SameZoom(p, q) /\ SameTap(p, q)
  /\ q.grab = p.grab /\ q.glide = p.glide /\ q.begun = p.begun
  /\ q.disturbed = p.disturbed /\ q.went = p.went /\ q.again = p.again
  /\ q.drag.moved = TRUE /\ q.drag.moving = p.drag.moving /\ q.drag.frame = p.drag.frame
  /\ q.drag.on = p.drag.on /\ q.drag.startX = p.drag.startX
  /\ q.drag.startPos = p.drag.startPos /\ q.drag.newPos = p.drag.newPos

LEMMA DragMoveOfTwo ==
  ASSUME NEW p, Shape(p), p.drag.on, TwoFingers(p), NEW q, q = DragMove(p)
  PROVE  Shape(q) /\ MovedByTwo(p, q)
<1> QED
  BY DEF MovedByTwo, DragMove, TwoFingers, Shape, SameInput, SameBox, SameZoom, SameTap, PtFields, DragFields

\* a move of a drag that goes on,
MovedOn(p, q) ==
  /\ SameInput(p, q) /\ SameBox(p, q) /\ SameZoom(p, q) /\ SameTap(p, q)
  /\ q.grab = p.grab /\ q.glide = p.glide /\ q.begun = p.begun
  /\ q.disturbed = p.disturbed /\ q.went = p.went /\ q.again = p.again
  /\ q.drag.on = p.drag.on /\ q.drag.startX = p.drag.startX
  /\ q.drag.moved = p.drag.moved /\ q.drag.moving = TRUE /\ q.drag.frame = TRUE
  /\ q.drag.startPos = p.drag.startPos
  /\ q.drag.newPos = p.drag.startPos + (p.x - p.drag.startX)

LEMMA DragMoveOn ==
  ASSUME NEW p, Shape(p), p.drag.on, p.drag.moved, ~TwoFingers(p), p.x - p.drag.startX # 0,
         NEW q, q = DragMove(p)
  PROVE  Shape(q) /\ MovedOn(p, q)
<1> QED
  BY DEF MovedOn, DragMove, TwoFingers, Shape, SameInput, SameBox, SameZoom, SameTap, PtFields, DragFields

\* the first move, which grabs the pane,
MovedFirst(p, q) ==
  /\ SameInput(p, q) /\ SameBox(p, q) /\ SameZoom(p, q) /\ SameTap(p, q)
  /\ q.glide = p.glide /\ q.begun = TRUE /\ q.went = TRUE /\ q.disturbed = FALSE
  /\ q.again = (p.again /\ p.boxes > 0)
  /\ q.grab.x = p.x /\ q.grab.pane = p.pane
  /\ q.drag.on = p.drag.on /\ q.drag.startX = p.drag.startX
  /\ q.drag.moved = TRUE /\ q.drag.moving = TRUE /\ q.drag.frame = TRUE
  /\ q.drag.startPos = p.pane - (p.x - p.drag.startX)
  /\ q.drag.newPos = q.drag.startPos + (p.x - p.drag.startX)

LEMMA DragMoveStarts ==
  ASSUME NEW p, Shape(p), p.drag.on, ~p.drag.moved, ~TwoFingers(p), p.x - p.drag.startX # 0,
         NEW q, q = DragMove(p)
  PROVE  Shape(q) /\ MovedFirst(p, q)
<1> DEFINE offset == p.x - p.drag.startX
           st == DragStart(p, offset)
           d == [st.drag EXCEPT !.newPos = st.drag.startPos + offset, !.moving = TRUE,
                                !.frame = TRUE]
<1>1. q = [st EXCEPT !.drag = d]
  BY DEF DragMove, TwoFingers
<1>2. /\ Shape(st) /\ SameInput(p, st) /\ SameBox(p, st) /\ SameZoom(p, st) /\ SameTap(p, st)
      /\ st.glide = p.glide /\ st.begun = TRUE /\ st.went = TRUE /\ st.disturbed = FALSE
      /\ st.again = (p.again /\ p.boxes > 0) /\ st.grab.x = p.x /\ st.grab.pane = p.pane
      /\ st.drag.on = p.drag.on /\ st.drag.startX = p.drag.startX /\ st.drag.moved = TRUE
      /\ st.drag.startPos = p.pane - offset
  BY DEF DragStart, StartPos, Shape, SameInput, SameBox, SameZoom, SameTap, PtFields, DragFields
<1> HIDE DEF st, offset
<1>3. /\ DOMAIN d = DragFields /\ d.newPos = st.drag.startPos + offset /\ d.moving = TRUE
      /\ d.frame = TRUE /\ d.on = st.drag.on /\ d.moved = st.drag.moved
      /\ d.startX = st.drag.startX /\ d.startPos = st.drag.startPos
  BY <1>2 DEF Shape, DragFields
<1> HIDE DEF d
<1>4. /\ Shape(q) /\ SameInput(st, q) /\ SameBox(st, q) /\ SameZoom(st, q) /\ SameTap(st, q)
      /\ q.glide = st.glide /\ q.begun = st.begun /\ q.went = st.went
      /\ q.disturbed = st.disturbed /\ q.again = st.again /\ q.grab = st.grab
      /\ q.drag.on = st.drag.on /\ q.drag.startX = st.drag.startX /\ q.drag.moved = st.drag.moved
      /\ q.drag.startPos = st.drag.startPos /\ q.drag.moving = TRUE /\ q.drag.frame = TRUE
      /\ q.drag.newPos = st.drag.startPos + offset
  <2>1. Shape(st)
    BY <1>2
  <2> QED
    BY <1>1, <1>3, <2>1 DEF Shape, SameInput, SameBox, SameZoom, SameTap, PtFields
<1> QED
  BY <1>2, <1>4 DEF MovedFirst, SameInput, SameBox, SameZoom, SameTap, offset

\* or one of these;
Follows(p, q) ==
  \/ q = p /\ (~p.drag.on \/ (~TwoFingers(p) /\ p.x - p.drag.startX = 0))
  \/ MovedByTwo(p, q) /\ p.drag.on /\ TwoFingers(p)
  \/ MovedOn(p, q) /\ p.drag.on /\ p.drag.moved /\ ~TwoFingers(p)
  \/ MovedFirst(p, q) /\ p.drag.on /\ ~p.drag.moved /\ ~TwoFingers(p)

LEMMA DragMoveDoes ==
  ASSUME NEW p, Shape(p), NEW q, q = DragMove(p)
  PROVE  Shape(q) /\ Follows(p, q)
<1> QED
  BY DragMoveIgnored, DragMoveOfTwo, DragMoveOn, DragMoveStarts DEF Follows

\* and a release.
Released(p, q) ==
  /\ SameInput(p, q) /\ SameBox(p, q) /\ SameZoom(p, q) /\ SameTap(p, q)
  /\ q.grab = p.grab /\ q.disturbed = p.disturbed /\ q.went = p.went
  /\ q.again = p.again /\ q.drag.moved = p.drag.moved /\ q.drag.startX = p.drag.startX
  /\ q.drag.startPos = p.drag.startPos /\ q.drag.newPos = p.drag.newPos
  /\ p.drag.on => ~q.drag.on /\ ~q.drag.moving
  /\ ~p.drag.on => q = p
  /\ p.drag.on /\ p.drag.moved /\ p.drag.moving =>
       (q.begun => p.begun /\ q.glide)
  /\ p.drag.on /\ ~(p.drag.moved /\ p.drag.moving) =>
       q.begun = p.begun /\ q.glide = p.glide

LEMMA DragUpDoes ==
  ASSUME NEW p, Shape(p), NEW inertia, NEW q, q = DragUp(p, inertia)
  PROVE  Shape(q) /\ Released(p, q)
<1> QED
  BY DEF Released, DragUp, Shape, SameInput, SameBox, SameZoom, SameTap, PtFields, DragFields

-------------------------------------------------------------------------------
\* What a press does to the box zoom;
BoxPressed(p, q) ==
  /\ SameInput(p, q) /\ SameDrag(p, q) /\ SameZoom(p, q) /\ SameTap(p, q)
  /\ q.boxes = p.boxes /\ q.box.moved = FALSE
  /\ q.again = (p.again \/ p.went) /\ q.went = p.went

LEMMA BoxDownDoes ==
  ASSUME NEW p, Shape(p), NEW starts, NEW q, q = BoxDown(p, starts)
  PROVE  Shape(q) /\ BoxPressed(p, q)
<1> QED
  BY DEF BoxPressed, BoxDown, Shape, SameInput, SameDrag, SameZoom, SameTap, PtFields, DragFields

\* a move,
BoxMoved(p, q) ==
  /\ SameInput(p, q) /\ SameDrag(p, q) /\ SameZoom(p, q) /\ SameTap(p, q)
  /\ q.again = p.again /\ q.box.on = p.box.on
  /\ ~p.box.on \/ p.box.moved => q = p
  /\ p.box.on /\ ~p.box.moved =>
       q.box.moved = TRUE /\ q.boxes = p.boxes + 1 /\ q.went = TRUE

LEMMA BoxMoveDoes ==
  ASSUME NEW p, Shape(p), NEW q, q = BoxMove(p)
  PROVE  Shape(q) /\ BoxMoved(p, q)
<1> QED
  BY DEF BoxMoved, BoxMove, Shape, SameInput, SameDrag, SameZoom, SameTap, PtFields, DragFields

\* and a release or the escape key.
BoxFinished(p, q) ==
  /\ SameInput(p, q) /\ SameDrag(p, q) /\ SameZoom(p, q) /\ SameTap(p, q)
  /\ q.again = p.again /\ q.went = p.went /\ q.box.moved = p.box.moved
  /\ ~p.box.on => q = p
  /\ p.box.on => ~q.box.on /\ q.boxes = IF p.box.moved THEN p.boxes - 1 ELSE p.boxes

LEMMA BoxFinishDoes ==
  ASSUME NEW p, Shape(p), NEW q, q = BoxFinish(p)
  PROVE  Shape(q) /\ BoxFinished(p, q)
<1> QED
  BY DEF BoxFinished, BoxFinish, Shape, SameInput, SameDrag, SameZoom, SameTap, PtFields, DragFields

-------------------------------------------------------------------------------
\* What fingers that go down do to the pinch zoom;
PinchBegun(p, q) ==
  /\ SameInput(p, q) /\ SameDrag(p, q) /\ SameBox(p, q) /\ SameTap(p, q)
  /\ q.again = p.again /\ q.went = p.went
  /\ q.animating = p.animating /\ q.zoomFrames = p.zoomFrames /\ q.timers = p.timers
  /\ q.endFrames = p.endFrames /\ q.disabled = p.disabled /\ q.zoomBegun = p.zoomBegun
  /\ q.pinch.frame = p.pinch.frame
  /\ \/ q.pinch = p.pinch
     \/ ~p.pinch.zooming /\ ~q.pinch.moved /\ q.pinch.zooming = TRUE /\ q.pinch.on = TRUE

LEMMA PinchStartDoes ==
  ASSUME NEW p, Shape(p), NEW q, q = PinchStart(p)
  PROVE  Shape(q) /\ PinchBegun(p, q)
<1> QED
  BY DEF PinchBegun, PinchStart, Shape, SameInput, SameDrag, SameBox, SameTap, PtFields, DragFields

\* fingers that move,
Pinched(p, q) ==
  /\ SameInput(p, q) /\ SameDrag(p, q) /\ SameBox(p, q) /\ SameTap(p, q)
  /\ q.again = p.again /\ q.went = p.went
  /\ \/ q = p
     \/ /\ p.pinch.on /\ p.pinch.zooming
        /\ q.pinch.on = p.pinch.on /\ q.pinch.zooming = p.pinch.zooming
        /\ q.pinch.moved = TRUE /\ q.pinch.frame = TRUE /\ q.zoomBegun = TRUE
        /\ q.animating = p.animating /\ q.zoomFrames = p.zoomFrames
        /\ q.timers = p.timers /\ q.endFrames = p.endFrames /\ q.disabled = p.disabled

LEMMA PinchMoveDoes ==
  ASSUME NEW p, Shape(p), NEW scaled, NEW q, q = PinchMove(p, scaled)
  PROVE  Shape(q) /\ Pinched(p, q)
<1> QED
  BY DEF Pinched, PinchMove, Shape, SameInput, SameDrag, SameBox, SameTap, PtFields, DragFields

\* an animated zoom,
ZoomStarted(p, q) ==
  /\ SameInput(p, q) /\ SameDrag(p, q) /\ SameBox(p, q) /\ SameTap(p, q)
  /\ q.again = p.again /\ q.went = p.went
  /\ q.pinch = p.pinch /\ q.timers = p.timers /\ q.endFrames = p.endFrames
  /\ q.animating = TRUE /\ q.zoomFrames = p.zoomFrames + 1

LEMMA ZoomAnimStarts ==
  ASSUME NEW p, Shape(p), NEW q, q = StartZoomAnim(p, FALSE)
  PROVE  Shape(q) /\ ZoomStarted(p, q)
<1> QED
  BY DEF ZoomStarted, StartZoomAnim, Shape, SameInput, SameDrag, SameBox, SameTap, PtFields, DragFields

\* a frame of the pinch,
PinchShown(p, q) ==
  /\ SameInput(p, q) /\ SameDrag(p, q) /\ SameBox(p, q) /\ SameTap(p, q)
  /\ q.again = p.again /\ q.went = p.went
  /\ q.pinch = p.pinch /\ q.timers = p.timers /\ q.endFrames = p.endFrames
  /\ (q.animating <=> p.animating) /\ q.zoomFrames = p.zoomFrames + 1

LEMMA PinchAnimStarts ==
  ASSUME NEW p, Shape(p), NEW q, q = StartZoomAnim(p, TRUE)
  PROVE  Shape(q) /\ PinchShown(p, q)
<1> QED
  BY DEF PinchShown, StartZoomAnim, Shape, SameInput, SameDrag, SameBox, SameTap, PtFields, DragFields

\* and a finger that goes up.
PinchEnded(p, q) ==
  /\ SameInput(p, q) /\ SameDrag(p, q) /\ SameBox(p, q) /\ SameTap(p, q)
  /\ q.again = p.again /\ q.went = p.went
  /\ q.timers = p.timers /\ q.endFrames = p.endFrames
  /\ ~p.pinch.on => q = p
  /\ p.pinch.on => ~q.pinch.zooming
  /\ \/ /\ p.pinch.on /\ p.pinch.moved /\ p.pinch.zooming
        /\ ~q.pinch.on /\ ~q.pinch.frame
        /\ q.animating = TRUE /\ q.zoomFrames = p.zoomFrames + 1
     \/ /\ ~(p.pinch.on /\ p.pinch.moved /\ p.pinch.zooming)
        /\ q.pinch.on = p.pinch.on /\ q.pinch.moved = p.pinch.moved
        /\ q.pinch.frame = p.pinch.frame /\ q.animating = p.animating
        /\ q.zoomFrames = p.zoomFrames /\ q.zoomBegun = p.zoomBegun
        /\ q.disabled = p.disabled

LEMMA PinchEndDoes ==
  ASSUME NEW p, Shape(p), NEW q, q = PinchEnd(p)
  PROVE  Shape(q) /\ PinchEnded(p, q)
<1> QED
  BY DEF PinchEnded, PinchEnd, StartZoomAnim, Shape, SameInput, SameDrag, SameBox, SameTap, PtFields, DragFields

-------------------------------------------------------------------------------
\* What a finger that goes down does to a tap;
TapBegun(p, q) ==
  /\ SameInput(p, q) /\ SameDrag(p, q) /\ SameBox(p, q) /\ SameZoom(p, q)
  /\ q.again = p.again /\ q.went = p.went /\ q.dbl = p.dbl
  /\ Cardinality(p.held) > 1 =>
       /\ ~q.tap.fire /\ ~q.tap.hold /\ q.joined = TRUE /\ q.stale = p.stale
       /\ q.tap.on = p.tap.on /\ q.taps = p.taps /\ q.dbls = p.dbls
  /\ ~(Cardinality(p.held) > 1) =>
       /\ q.tap.on = TRUE /\ q.taps = 0 /\ q.dbls = 0 /\ q.joined = FALSE
       /\ q.stale = IF p.tap.hold THEN p.stale + 1 ELSE p.stale
       /\ q.tap.fire = TRUE

LEMMA TapDownDoes ==
  ASSUME NEW p, Shape(p), NEW q, q = TapDown(p)
  PROVE  Shape(q) /\ TapBegun(p, q)
<1> QED
  BY DEF TapBegun, TapDown, TapJoined, Shape, SameInput, SameDrag, SameBox, SameZoom, PtFields, DragFields

\* a finger that goes up;
TapEnded(p, q) ==
  /\ SameInput(p, q) /\ SameDrag(p, q) /\ SameBox(p, q) /\ SameZoom(p, q)
  /\ q.again = p.again /\ q.went = p.went /\ q.dbl = p.dbl /\ q.dbls = p.dbls
  /\ q.joined = p.joined /\ q.stale = p.stale
  /\ ~p.tap.on => q = p
  /\ p.tap.on => /\ ~q.tap.on /\ ~q.tap.hold
                 /\ q.taps = IF p.tap.fire /\ p.tap.ok THEN p.taps + 1 ELSE p.taps

LEMMA TapUpDoes ==
  ASSUME NEW p, Shape(p), NEW q, q = TapUp(p)
  PROVE  Shape(q) /\ TapEnded(p, q)
<1> QED
  BY DEF TapEnded, TapUp, Shape, SameInput, SameDrag, SameBox, SameZoom, PtFields, DragFields

\* and to a double tap,
DoubleBegun(p, q) ==
  /\ SameInput(p, q) /\ SameDrag(p, q) /\ SameBox(p, q) /\ SameZoom(p, q)
  /\ q.again = p.again /\ q.went = p.went /\ q.tap = p.tap /\ q.stale = p.stale
  /\ q.taps = p.taps /\ q.dbls = p.dbls /\ q.joined = p.joined

LEMMA DoubleDownDoes ==
  ASSUME NEW p, Shape(p), NEW quick, NEW q, q = DoubleDown(p, quick)
  PROVE  Shape(q) /\ DoubleBegun(p, q)
<1> QED
  BY DEF DoubleBegun, DoubleDown, Shape, SameInput, SameDrag, SameBox, SameZoom, PtFields, DragFields

\* down and up.
DoubleEnded(p, q) ==
  /\ SameInput(p, q) /\ SameDrag(p, q) /\ SameBox(p, q) /\ SameZoom(p, q)
  /\ q.again = p.again /\ q.went = p.went /\ q.tap = p.tap /\ q.stale = p.stale
  /\ q.taps = p.taps /\ q.joined = p.joined
  /\ q.dbls = p.dbls \/ q.dbls = p.dbls + 1

LEMMA DoubleUpDoes ==
  ASSUME NEW p, Shape(p), NEW q, q = DoubleUp(p)
  PROVE  Shape(q) /\ DoubleEnded(p, q)
<1> QED
  BY DEF DoubleEnded, DoubleUp, Shape, SameInput, SameDrag, SameBox, SameZoom, PtFields, DragFields
\* What is said of the boxes stays true of a step that leaves them alone.
LEMMA BoxedKept ==
  ASSUME NEW p, NEW q, Boxed(p), SameBox(p, q), q.device = p.device, q.held = p.held,
         q.lost = p.lost, q.went = p.went, q.again = p.again, q.drag.moved = p.drag.moved
  PROVE  Boxed(q)
<1>1. q.box = p.box /\ q.boxes = p.boxes
  BY DEF SameBox
<1>2. /\ p.boxes \in Nat
      /\ p.box.on => p.device = "mouse" /\ (p.held # {} \/ p.lost)
      /\ p.box.on /\ p.box.moved => p.boxes > 0
  BY DEF Boxed
<1>3. /\ p.boxes > 0 =>
           (p.box.on /\ p.box.moved /\ p.boxes = 1 /\ p.went) \/ p.again \/ p.lost
      /\ "left" \in p.held /\ p.went => p.drag.moved \/ p.box.moved \/ p.again \/ p.lost
  BY DEF Boxed
<1> QED
  BY <1>1, <1>2, <1>3, Zenon DEF Boxed

-------------------------------------------------------------------------------
\* Each step keeps the invariant, and clicks as it should.  The mouse.

LEMMA MouseDownKeeps ==
  ASSUME PtInv(ptr), NEW button \in {"left", "right"}, NEW shift, MouseDown(button, shift)
  PROVE  PtInv(ptr') /\ Clicks(ptr, ptr')
<1> DEFINE p0 == [ptr EXCEPT !.held = @ \cup {button}, !.presses = @ + 1, !.focused = TRUE,
                             !.went = @ /\ ptr.held # {}]
           p1 == DragDown(p0, button = "left" /\ ~shift)
           p2 == BoxDown(p1, button = "left" /\ shift)
<1>1. ptr' = p2 /\ ptr.device = "mouse"
  BY DEF MouseDown
<1>2. /\ Shape(p0) /\ SameDrag(ptr, p0) /\ SameBox(ptr, p0) /\ SameZoom(ptr, p0) /\ SameTap(ptr, p0)
      /\ p0.device = ptr.device /\ p0.x = ptr.x /\ p0.pane = ptr.pane /\ p0.lost = ptr.lost
      /\ p0.wheel = ptr.wheel /\ p0.wheelTimer = ptr.wheelTimer
      /\ p0.held = ptr.held \cup {button} /\ p0.went = (ptr.went /\ ptr.held # {})
      /\ p0.again = ptr.again
  BY DEF PtInv, Shape, SameDrag, SameBox, SameZoom, SameTap, PtFields
<1>3. Shape(p1) /\ Pressed(p0, p1)
  BY <1>2, DragDownDoes
<1>4. Shape(p2) /\ BoxPressed(p1, p2)
  BY <1>3, BoxDownDoes
<1> HIDE DEF p0, p1, p2
<1>5. Hands(ptr')
  BY <1>1, <1>2, <1>3, <1>4 DEF PtInv, Hands, SameInput, Pressed, BoxPressed
<1>6. Dragged(ptr')
  BY <1>1, <1>2, <1>3, <1>4 DEF PtInv, Dragged, SameInput, SameDrag, Pressed, BoxPressed
<1>7. Grabbed(ptr')
  <2>1. ptr.x \in Int /\ ptr.pane \in Int
    BY PositionsAssumption DEF PtInv, Hands
  <2>2. CASE ptr.drag.moving
    BY <1>1, <1>2, <1>3, <1>4, <2>1, <2>2
       DEF PtInv, Grabbed, SameInput, SameDrag, Pressed, BoxPressed
  <2>3. CASE ~ptr.drag.moving
    BY <1>1, <1>2, <1>3, <1>4, <2>1, <2>3
       DEF PtInv, Grabbed, SameInput, SameDrag, Pressed, BoxPressed
  <2> QED
    BY <2>2, <2>3
<1>8. Boxed(ptr')
  <2>1. /\ ptr'.boxes = ptr.boxes /\ ptr'.box.moved = FALSE /\ ptr'.device = "mouse"
        /\ ptr'.held # {} /\ ptr'.lost = ptr.lost
        /\ (ptr'.again <=> (ptr.again \/ ptr.drag.moving \/ ptr'.went))
        /\ (ptr'.went <=> (ptr.went /\ ptr.held # {}))
    <3>1. /\ p1.boxes = p0.boxes /\ p1.device = p0.device /\ p1.held = p0.held
          /\ p1.lost = p0.lost /\ p1.went = p0.went /\ p1.again = (p0.again \/ p0.drag.moving)
      BY <1>3 DEF Pressed, SameInput, SameBox
    <3>2. /\ p2.boxes = p1.boxes /\ p2.box.moved = FALSE /\ p2.device = p1.device
          /\ p2.held = p1.held /\ p2.lost = p1.lost /\ p2.went = p1.went
          /\ p2.again = (p1.again \/ p1.went)
      BY <1>4 DEF BoxPressed, SameInput
    <3>3. /\ p0.boxes = ptr.boxes /\ p0.device = "mouse" /\ p0.held # {} /\ p0.lost = ptr.lost
          /\ p0.drag = ptr.drag /\ p0.again = ptr.again
          /\ p0.went = (ptr.went /\ ptr.held # {})
      BY <1>1, <1>2 DEF SameDrag, SameBox
    <3> QED
      BY <1>1, <3>1, <3>2, <3>3
  <2>2. ptr.boxes > 0 => (ptr.went /\ ptr.box.on) \/ ptr.again \/ ptr.lost
    BY DEF PtInv, Boxed
  <2>3. ptr.box.on => ptr.held # {} \/ ptr.lost
    BY DEF PtInv, Boxed
  <2> QED
    BY <2>1, <2>2, <2>3 DEF PtInv, Boxed
<1>9. ZoomsGo(ptr')
  BY <1>1, <1>2, <1>3, <1>4 DEF PtInv, ZoomsGo, SameInput, SameZoom, Pressed, BoxPressed
<1>10. /\ SameTap(ptr, ptr') /\ ptr'.held = ptr.held \cup {button} /\ ptr'.lost = ptr.lost
       /\ ptr'.device = ptr.device
  BY <1>1, <1>2, <1>3, <1>4 DEF SameInput, SameTap, Pressed, BoxPressed
<1>11. ptr'.held # {} /\ ptr'.held # {"one", "two"}
  BY <1>1, <1>10 DEF PtInv, Hands
<1>12. Tapped(ptr')
  BY <1>1, <1>10, <1>11 DEF PtInv, Tapped, SameTap
<1>13. Clicks(ptr, ptr')
  BY <1>10 DEF PtInv, Tapped, Clicks, SameTap
<1> QED
  BY <1>1, <1>4, <1>5, <1>6, <1>7, <1>8, <1>9, <1>12, <1>13 DEF PtInv

LEMMA MouseMoveKeeps ==
  ASSUME PtInv(ptr), NEW x \in Positions, MouseMove(x)
  PROVE  PtInv(ptr') /\ Clicks(ptr, ptr')
<1> DEFINE p0 == [ptr EXCEPT !.x = x]
           p1 == DragMove(p0)
           p2 == BoxMove(p1)
<1>1. ptr' = p2 /\ ptr.device = "mouse"
  BY DEF MouseMove
<1>2. /\ Shape(p0) /\ SameDrag(ptr, p0) /\ SameBox(ptr, p0) /\ SameZoom(ptr, p0) /\ SameTap(ptr, p0)
      /\ p0.device = ptr.device /\ p0.x = x /\ p0.pane = ptr.pane /\ p0.lost = ptr.lost
      /\ p0.wheel = ptr.wheel /\ p0.wheelTimer = ptr.wheelTimer
      /\ p0.held = ptr.held /\ p0.went = ptr.went /\ p0.again = ptr.again
  BY DEF PtInv, Shape, SameDrag, SameBox, SameZoom, SameTap, PtFields
<1>3. Shape(p1) /\ Follows(p0, p1)
  BY <1>2, DragMoveDoes
<1>4. Shape(p2) /\ BoxMoved(p1, p2)
  BY <1>3, BoxMoveDoes
<1> HIDE DEF p0, p1, p2
<1>5. Hands(p1) /\ Dragged(p1) /\ Grabbed(p1) /\ Boxed(p1) /\ ZoomsGo(p1) /\ Tapped(p1) /\ SameTap(ptr, p1)
      /\ p1.held = ptr.held
  <2>1. ~TwoFingers(p0) /\ ptr.x \in Int /\ x \in Int /\ ptr.pane \in Int
    BY <1>1, <1>2, PositionsAssumption DEF TwoFingers, PtInv, Hands
  <2>2. CASE p1 = p0 /\ (~p0.drag.on \/ p0.x - p0.drag.startX = 0)
    <3>1. Hands(p1)
      BY <1>2, <2>2 DEF PtInv, Hands
    <3>2. Dragged(p1)
      BY <1>2, <2>2 DEF PtInv, Dragged, SameDrag
    <3>3. Grabbed(p1)
      <4>1. p1.drag = ptr.drag /\ p1.grab = ptr.grab /\ p1.x = x
        BY <1>2, <2>2 DEF SameDrag
      <4>2. ptr.drag.startX \in Int
        BY DEF PtInv, Grabbed
      <4>3. p1.drag.moving => p1.x = p1.drag.startX
        BY <1>2, <2>1, <2>2, <4>1, <4>2 DEF PtInv, Dragged
      <4> QED
        BY <1>2, <2>2, <4>1, <4>3 DEF PtInv, Grabbed, SameDrag
    <3> QED
      BY <1>2, <2>2, <3>1, <3>2, <3>3 DEF PtInv, Boxed, ZoomsGo, Tapped, SameDrag, SameBox, SameZoom, SameTap
  <2>3. CASE MovedOn(p0, p1) /\ p0.drag.on /\ p0.drag.moved
    <3>1. Hands(p1)
      BY <1>2, <2>3 DEF PtInv, Hands, MovedOn, SameInput
    <3>2. Dragged(p1)
      BY <1>1, <1>2, <2>3 DEF PtInv, Dragged, SameDrag, MovedOn, SameInput
    <3>3. Grabbed(p1)
      BY <1>1, <1>2, <2>1, <2>3 DEF PtInv, Dragged, Grabbed, SameDrag, MovedOn, SameInput
    <3> QED
      BY <1>2, <2>3, <3>1, <3>2, <3>3
         DEF PtInv, Boxed, ZoomsGo, Tapped, SameDrag, SameBox, SameZoom, SameTap, MovedOn, SameInput
  <2>4. CASE MovedFirst(p0, p1) /\ p0.drag.on
    <3>1. Hands(p1)
      BY <1>2, <2>4 DEF PtInv, Hands, MovedFirst, SameInput
    <3>2. Dragged(p1)
      BY <1>1, <1>2, <2>4 DEF PtInv, Dragged, SameDrag, MovedFirst, SameInput
    <3>3. Grabbed(p1)
      BY <1>1, <1>2, <2>1, <2>4 DEF PtInv, Grabbed, SameDrag, MovedFirst, SameInput
    <3>4. Boxed(p1)
      BY <1>1, <1>2, <2>4 DEF PtInv, Boxed, SameBox, MovedFirst, SameInput
    <3> QED
      BY <1>2, <2>4, <3>1, <3>2, <3>3, <3>4
         DEF PtInv, ZoomsGo, Tapped, SameZoom, SameTap, MovedFirst, SameInput
  <2> QED
    BY <1>3, <2>1, <2>2, <2>3, <2>4 DEF Follows
<1>6. Hands(p2) /\ Dragged(p2) /\ Grabbed(p2) /\ ZoomsGo(p2) /\ Tapped(p2)
  BY <1>4, <1>5 DEF Hands, Dragged, Grabbed, ZoomsGo, Tapped, BoxMoved, SameInput, SameDrag, SameZoom, SameTap
<1>7. Boxed(p2)
  BY <1>4, <1>5 DEF Boxed, BoxMoved, SameInput, SameDrag
<1>8. Clicks(ptr, p2)
  BY <1>4, <1>5 DEF PtInv, Tapped, Clicks, BoxMoved, SameInput, SameTap
<1> QED
  BY <1>1, <1>4, <1>6, <1>7, <1>8 DEF PtInv

\* A zoom of a box, of the wheel or of a key.
Hows == {"none", "animated", "at once", "pan"}

ZoomTaken(p, q) ==
  /\ q.device = p.device /\ q.x = p.x /\ q.held = p.held /\ q.lost = p.lost
  /\ q.clicked = p.clicked /\ q.wheel = p.wheel /\ q.wheelTimer = p.wheelTimer
  /\ q.drag = p.drag /\ q.grab = p.grab /\ q.glide = p.glide /\ q.begun = p.begun
  /\ SameBox(p, q) /\ SameTap(p, q) /\ q.went = p.went /\ q.again = p.again
  /\ q.pinch = p.pinch /\ q.timers = p.timers /\ q.endFrames = p.endFrames
  /\ \/ q.pane = p.pane /\ q.disturbed = p.disturbed
     \/ q.pane \in Int /\ q.disturbed = TRUE
  /\ \/ q.animating = TRUE /\ q.zoomFrames = p.zoomFrames + 1
     \/ SameZoom(p, q)

LEMMA ZoomedDoes ==
  ASSUME NEW p, Shape(p), p.pane \in Int, NEW how \in Hows, NEW q, q = Zoomed(p, how)
  PROVE  Shape(q) /\ ZoomTaken(p, q)
<1>1. CASE q = p
  BY <1>1 DEF ZoomTaken, SameBox, SameTap, SameZoom
<1>2. CASE how = "animated" /\ ~p.animating
  <2>1. q = StartZoomAnim(p, FALSE)
    BY <1>2 DEF Zoomed
  <2>2. Shape(q) /\ ZoomStarted(p, q)
    BY <2>1, ZoomAnimStarts
  <2> QED
    BY <2>2 DEF ZoomTaken, ZoomStarted, SameInput, SameDrag
<1>3. CASE how = "at once" /\ ~p.animating
  <2>1. q = [p EXCEPT !.pane = 0, !.disturbed = TRUE]
    BY <1>3 DEF Zoomed
  <2> QED
    BY <2>1 DEF ZoomTaken, Shape, SameBox, SameTap, SameZoom, PtFields
<1>4. CASE how = "pan"
  <2> DEFINE pane == p.pane + 1
  <2>1. q = [p EXCEPT !.pane = pane, !.disturbed = TRUE] /\ pane \in Int
    BY <1>4 DEF Zoomed
  <2> HIDE DEF pane
  <2>2. Shape(q) /\ q.pane = pane /\ q.disturbed = TRUE
    BY <2>1 DEF Shape, PtFields
  <2>3. /\ q.device = p.device /\ q.x = p.x /\ q.held = p.held /\ q.lost = p.lost
        /\ q.clicked = p.clicked /\ q.wheel = p.wheel /\ q.wheelTimer = p.wheelTimer
        /\ q.drag = p.drag /\ q.grab = p.grab /\ q.glide = p.glide /\ q.begun = p.begun
        /\ q.went = p.went /\ q.again = p.again /\ q.pinch = p.pinch /\ q.timers = p.timers
        /\ q.endFrames = p.endFrames
    BY <2>1 DEF Shape, PtFields
  <2>4. SameBox(p, q) /\ SameTap(p, q) /\ SameZoom(p, q)
    BY <2>1 DEF Shape, PtFields, SameBox, SameTap, SameZoom
  <2> QED
    BY <2>1, <2>2, <2>3, <2>4 DEF ZoomTaken
<1>5. (how = "none" \/ (p.animating /\ how # "pan")) => q = p
  BY DEF Hows, Zoomed
<1> QED
  BY <1>1, <1>2, <1>3, <1>4, <1>5 DEF Hows

LEMMA ZoomTakenKeeps ==
  ASSUME NEW p, NEW q, PtInv(p), Shape(q), ZoomTaken(p, q)
  PROVE  PtInv(q) /\ Clicks(p, q)
<1>1. Hands(q)
  BY DEF PtInv, Hands, ZoomTaken
<1>2. Dragged(q)
  BY DEF PtInv, Dragged, ZoomTaken
<1>3. Grabbed(q)
  BY DEF PtInv, Grabbed, ZoomTaken
<1>4. Boxed(q)
  BY DEF PtInv, Boxed, ZoomTaken, SameBox
<1>5. ZoomsGo(q)
  BY DEF PtInv, ZoomsGo, ZoomTaken, SameZoom
<1>6. Tapped(q)
  BY DEF PtInv, Tapped, ZoomTaken, SameTap
<1>7. Clicks(p, q)
  BY DEF PtInv, Tapped, Clicks, ZoomTaken, SameTap
<1> QED
  BY <1>1, <1>2, <1>3, <1>4, <1>5, <1>6, <1>7 DEF PtInv

LEMMA MouseUpKeeps ==
  ASSUME PtInv(ptr), NEW button \in {"left", "right"}, NEW inertia, NEW how \in Hows,
         MouseUp(button, inertia, how)
  PROVE  PtInv(ptr') /\ Clicks(ptr, ptr')
<1> DEFINE p0 == [ptr EXCEPT !.held = @ \ {button}]
           p1 == DragUp(p0, inertia)
           p2 == BoxFinish(p1)
           click == button = "left" /\ ~p2.drag.moved /\ ~p2.box.moved
           p3 == [p2 EXCEPT !.clicked = click]
<1>1. ptr' = Zoomed(p3, how) /\ ptr.device = "mouse" /\ button \in ptr.held
  BY DEF MouseUp
<1>2. /\ Shape(p0) /\ SameDrag(ptr, p0) /\ SameBox(ptr, p0) /\ SameZoom(ptr, p0) /\ SameTap(ptr, p0)
      /\ p0.device = ptr.device /\ p0.x = ptr.x /\ p0.pane = ptr.pane /\ p0.lost = ptr.lost
      /\ p0.wheel = ptr.wheel /\ p0.wheelTimer = ptr.wheelTimer
      /\ p0.held = ptr.held \ {button} /\ p0.went = ptr.went /\ p0.again = ptr.again
  BY DEF PtInv, Shape, SameDrag, SameBox, SameZoom, SameTap, PtFields
<1>3. Shape(p1) /\ Released(p0, p1)
  BY <1>2, DragUpDoes
<1>4. Shape(p2) /\ BoxFinished(p1, p2)
  BY <1>3, BoxFinishDoes
<1> HIDE DEF p0, p1, p2
<1>5. /\ Shape(p3) /\ SameDrag(p2, p3) /\ SameBox(p2, p3) /\ SameZoom(p2, p3)
      /\ SameTap(p2, p3) /\ p3.device = p2.device /\ p3.x = p2.x /\ p3.pane = p2.pane
      /\ p3.lost = p2.lost /\ p3.wheel = p2.wheel /\ p3.wheelTimer = p2.wheelTimer
      /\ p3.held = p2.held /\ p3.went = p2.went /\ p3.again = p2.again
      /\ p3.clicked = click
  BY <1>4 DEF Shape, SameDrag, SameBox, SameZoom, SameTap, PtFields
<1> HIDE DEF p3
<1>6. Hands(p3)
  BY <1>2, <1>3, <1>4, <1>5 DEF PtInv, Hands, SameInput, Released, BoxFinished
<1>7. Dragged(p3)
  BY <1>1, <1>2, <1>3, <1>4, <1>5 DEF PtInv, Dragged, SameInput, SameDrag, Released, BoxFinished
<1>8. Grabbed(p3)
  BY <1>2, <1>3, <1>4, <1>5 DEF PtInv, Dragged, Grabbed, SameInput, SameDrag, Released, BoxFinished
<1>9. Boxed(p3)
  BY <1>2, <1>3, <1>4, <1>5 DEF PtInv, Boxed, SameInput, SameDrag, SameBox, Released, BoxFinished
<1>10. ZoomsGo(p3)
  BY <1>1, <1>2, <1>3, <1>4, <1>5 DEF PtInv, ZoomsGo, SameInput, SameZoom, Released, BoxFinished
<1>11. /\ SameTap(ptr, p3) /\ p3.held = ptr.held \ {button} /\ p3.lost = ptr.lost
       /\ p3.device = ptr.device
  BY <1>2, <1>3, <1>4, <1>5 DEF SameInput, SameTap, Released, BoxFinished
<1>12. Tapped(p3)
  BY <1>1, <1>11 DEF PtInv, Hands, Tapped, SameTap
<1>13. ASSUME p3.clicked, "left" \in ptr.held \ p3.held
       PROVE  ~ptr.went \/ ptr.again \/ ptr.lost
  BY <1>2, <1>3, <1>4, <1>5, <1>13 DEF PtInv, Boxed, SameInput, SameDrag, SameBox, Released, BoxFinished
<1>14. Clicks(ptr, p3)
  BY <1>11, <1>13 DEF PtInv, Tapped, Clicks, SameTap
<1> HIDE DEF click
<1>15. PtInv(p3)
  BY <1>5, <1>6, <1>7, <1>8, <1>9, <1>10, <1>12, <1>14 DEF PtInv
<1>16. Shape(ptr') /\ ZoomTaken(p3, ptr')
  BY <1>1, <1>5, <1>15, ZoomedDoes DEF PtInv, Hands
<1>17. PtInv(ptr')
  BY <1>15, <1>16, ZoomTakenKeeps
<1>18. Clicks(ptr, ptr')
  BY <1>14, <1>16 DEF Clicks, ZoomTaken, SameTap
<1> QED
  BY <1>17, <1>18

\* A release the page never hears of, the escape key, the focus and the wheel.
LEMMA MouseLostKeeps ==
  ASSUME PtInv(ptr), MouseLost
  PROVE  PtInv(ptr') /\ Clicks(ptr, ptr')
<1>1. /\ Shape(ptr') /\ SameDrag(ptr, ptr') /\ SameBox(ptr, ptr') /\ SameZoom(ptr, ptr')
      /\ SameTap(ptr, ptr') /\ ptr'.device = ptr.device /\ ptr'.x = ptr.x /\ ptr'.pane = ptr.pane
      /\ ptr'.lost = TRUE /\ ptr'.wheel = ptr.wheel /\ ptr'.wheelTimer = ptr.wheelTimer
      /\ ptr'.held = {} /\ ptr'.went = ptr.went /\ ptr'.again = ptr.again /\ ptr'.clicked = FALSE
      /\ ptr.device = "mouse"
  BY DEF MouseLost, PtInv, Shape, SameDrag, SameBox, SameZoom, SameTap, PtFields
<1>2. Hands(ptr')
  BY <1>1 DEF PtInv, Hands
<1>3. Dragged(ptr') /\ Grabbed(ptr')
  BY <1>1 DEF PtInv, Dragged, Grabbed, SameDrag
<1>4. Boxed(ptr')
  BY <1>1 DEF PtInv, Boxed, SameBox
<1>5. ZoomsGo(ptr')
  BY <1>1 DEF PtInv, ZoomsGo, SameZoom
<1>6. Tapped(ptr')
  BY <1>1 DEF PtInv, Tapped, SameTap
<1>7. Clicks(ptr, ptr')
  BY <1>1 DEF PtInv, Tapped, Clicks, SameTap
<1> QED
  BY <1>1, <1>2, <1>3, <1>4, <1>5, <1>6, <1>7 DEF PtInv

LEMMA EscapeKeeps ==
  ASSUME PtInv(ptr), Escape
  PROVE  PtInv(ptr') /\ Clicks(ptr, ptr')
<1>1. Shape(ptr') /\ BoxFinished(ptr, ptr') /\ ptr.box.on
  BY BoxFinishDoes DEF PtInv, Escape
<1>2. Hands(ptr') /\ Dragged(ptr') /\ Grabbed(ptr')
  BY <1>1 DEF PtInv, Hands, Dragged, Grabbed, BoxFinished, SameInput, SameDrag
<1>3. Boxed(ptr')
  BY <1>1 DEF PtInv, Boxed, BoxFinished, SameInput, SameDrag
<1>4. ZoomsGo(ptr') /\ Tapped(ptr')
  BY <1>1 DEF PtInv, ZoomsGo, Tapped, BoxFinished, SameInput, SameZoom, SameTap
<1>5. Clicks(ptr, ptr')
  BY <1>1 DEF PtInv, Tapped, Clicks, BoxFinished, SameInput, SameTap
<1> QED
  BY <1>1, <1>2, <1>3, <1>4, <1>5 DEF PtInv

LEMMA BlurKeeps ==
  ASSUME PtInv(ptr), Blur
  PROVE  PtInv(ptr') /\ Clicks(ptr, ptr')
<1>1. /\ Shape(ptr') /\ SameInput(ptr, ptr') /\ SameDrag(ptr, ptr') /\ SameBox(ptr, ptr')
      /\ SameZoom(ptr, ptr') /\ SameTap(ptr, ptr') /\ ptr'.went = ptr.went /\ ptr'.again = ptr.again
  BY DEF Blur, PtInv, Shape, SameInput, SameDrag, SameBox, SameZoom, SameTap, PtFields
<1> QED
  BY <1>1 DEF PtInv, Hands, Dragged, Grabbed, Boxed, ZoomsGo, Tapped, Clicks,
              SameInput, SameDrag, SameBox, SameZoom, SameTap

LEMMA WheelScrollKeeps ==
  ASSUME PtInv(ptr), WheelScroll
  PROVE  PtInv(ptr') /\ Clicks(ptr, ptr')
<1>1. /\ Shape(ptr') /\ SameDrag(ptr, ptr') /\ SameBox(ptr, ptr') /\ SameZoom(ptr, ptr')
      /\ SameTap(ptr, ptr') /\ ptr'.device = ptr.device /\ ptr'.x = ptr.x /\ ptr'.pane = ptr.pane
      /\ ptr'.lost = ptr.lost /\ ptr'.wheel = ptr.wheel + 1 /\ ptr'.wheelTimer = TRUE
      /\ ptr'.held = ptr.held /\ ptr'.went = ptr.went /\ ptr'.again = ptr.again
      /\ ptr.wheel < WheelMax
  BY DEF WheelScroll, PtInv, Shape, SameDrag, SameBox, SameZoom, SameTap, PtFields
<1>2. Hands(ptr')
  BY <1>1, WheelMaxAssumption DEF PtInv, Hands
<1>3. Dragged(ptr') /\ Grabbed(ptr')
  BY <1>1 DEF PtInv, Dragged, Grabbed, SameDrag
<1>4. Boxed(ptr')
  BY <1>1, BoxedKept DEF PtInv, SameDrag
<1>5. ZoomsGo(ptr') /\ Tapped(ptr')
  BY <1>1 DEF PtInv, ZoomsGo, Tapped, SameZoom, SameTap
<1>6. Clicks(ptr, ptr')
  BY <1>1 DEF PtInv, Tapped, Clicks, SameTap
<1> QED
  BY <1>1, <1>2, <1>3, <1>4, <1>5, <1>6 DEF PtInv

LEMMA PerformZoomKeeps ==
  ASSUME PtInv(ptr), NEW how \in Hows, PerformZoom(how)
  PROVE  PtInv(ptr') /\ Clicks(ptr, ptr')
<1> DEFINE p0 == [ptr EXCEPT !.wheelTimer = FALSE, !.wheel = 0]
<1>1. ptr' = Zoomed(p0, how)
  BY DEF PerformZoom
<1>2. /\ Shape(p0) /\ SameDrag(ptr, p0) /\ SameBox(ptr, p0) /\ SameZoom(ptr, p0)
      /\ SameTap(ptr, p0) /\ p0.device = ptr.device /\ p0.x = ptr.x /\ p0.pane = ptr.pane
      /\ p0.lost = ptr.lost /\ p0.wheel = 0 /\ p0.wheelTimer = FALSE /\ p0.clicked = ptr.clicked
      /\ p0.held = ptr.held /\ p0.went = ptr.went /\ p0.again = ptr.again
  BY DEF PtInv, Shape, SameDrag, SameBox, SameZoom, SameTap, PtFields
<1> HIDE DEF p0
<1>3. Hands(p0)
  BY <1>2, WheelMaxAssumption DEF PtInv, Hands
<1>4. Dragged(p0) /\ Grabbed(p0)
  BY <1>2 DEF PtInv, Dragged, Grabbed, SameDrag
<1>5. Boxed(p0)
  BY <1>2, BoxedKept DEF PtInv, SameDrag
<1>6. ZoomsGo(p0) /\ Tapped(p0)
  BY <1>2 DEF PtInv, ZoomsGo, Tapped, SameZoom, SameTap
<1>7. PtInv(p0)
  BY <1>2, <1>3, <1>4, <1>5, <1>6 DEF PtInv
<1>8. PtInv(ptr') /\ Clicks(p0, ptr')
  BY <1>1, <1>2, <1>7, ZoomedDoes, ZoomTakenKeeps DEF PtInv, Hands
<1>9. Clicks(ptr, ptr')
  BY <1>2, <1>8 DEF Clicks, SameTap
<1> QED
  BY <1>8, <1>9

LEMMA KeyZoomKeeps ==
  ASSUME PtInv(ptr), NEW how \in Hows, KeyZoom(how)
  PROVE  PtInv(ptr') /\ Clicks(ptr, ptr')
<1> QED
  BY ZoomedDoes, ZoomTakenKeeps DEF KeyZoom, PtInv, Hands

\* A step that moves the pane from outside the drag.
LEMMA KeyPanKeeps ==
  ASSUME PtInv(ptr), NEW offset \in {-1, 1}, KeyPan(offset)
  PROVE  PtInv(ptr') /\ Clicks(ptr, ptr')
<1>1. /\ Shape(ptr') /\ ptr'.device = ptr.device /\ ptr'.x = ptr.x /\ ptr'.pane = ptr.pane - offset
      /\ ptr'.lost = ptr.lost /\ ptr'.wheel = ptr.wheel /\ ptr'.wheelTimer = ptr.wheelTimer
      /\ ptr'.held = ptr.held /\ ptr'.went = ptr.went /\ ptr'.again = ptr.again
      /\ ptr'.clicked = ptr.clicked /\ ptr'.drag = ptr.drag /\ ptr'.grab = ptr.grab
      /\ ptr'.glide = ptr.glide /\ ptr'.begun = ptr.begun /\ ptr'.disturbed = TRUE
      /\ SameBox(ptr, ptr') /\ SameZoom(ptr, ptr') /\ SameTap(ptr, ptr')
  BY DEF KeyPan, PtInv, Shape, SameBox, SameZoom, SameTap, PtFields
<1>2. Hands(ptr')
  BY <1>1 DEF PtInv, Hands
<1>3. Dragged(ptr') /\ Grabbed(ptr')
  BY <1>1 DEF PtInv, Dragged, Grabbed
<1>4. Boxed(ptr')
  BY <1>1, BoxedKept DEF PtInv, SameDrag
<1>5. ZoomsGo(ptr') /\ Tapped(ptr')
  BY <1>1 DEF PtInv, ZoomsGo, Tapped, SameZoom, SameTap
<1>6. Clicks(ptr, ptr')
  BY <1>1 DEF PtInv, Tapped, Clicks, SameTap
<1> QED
  BY <1>1, <1>2, <1>3, <1>4, <1>5, <1>6 DEF PtInv

-------------------------------------------------------------------------------
\* Fingers.  Two are down when more than one is.
LEMMA TwoDown ==
  ASSUME NEW S, S \subseteq {"one", "two"}
  PROVE  Cardinality(S) > 1 <=> S = {"one", "two"}
<1>1. Cardinality({"one"}) = 1 /\ Cardinality({"two"}) = 1
  BY FS_Singleton
<1>2. Cardinality({}) = 0
  BY FS_EmptySet
<1>3. Cardinality({"one"} \cup {"two"}) = 2
  <2>1. IsFiniteSet({"one"}) /\ "two" \notin {"one"}
    BY FS_Singleton
  <2>2. Cardinality({"one"} \cup {"two"}) = Cardinality({"one"}) + 1
    BY <2>1, FS_AddElement
  <2> QED
    BY <1>1, <2>2
<1>4. {"one"} \cup {"two"} = {"one", "two"}
  OBVIOUS
<1>5. S = {} \/ S = {"one"} \/ S = {"two"} \/ S = {"one", "two"}
  OBVIOUS
<1>6. CASE S = {}
  BY <1>2, <1>6
<1>7. CASE S = {"one"} \/ S = {"two"}
  BY <1>1, <1>7
<1>8. CASE S = {"one", "two"}
  BY <1>3, <1>4, <1>8
<1> QED
  BY <1>5, <1>6, <1>7, <1>8

LEMMA FingersDownKeeps ==
  ASSUME PtInv(ptr), NEW fingers \in SUBSET {"one", "two"}, NEW quick, FingersDown(fingers, quick)
  PROVE  PtInv(ptr') /\ Clicks(ptr, ptr')
<1> DEFINE p0 == [ptr EXCEPT !.held = @ \cup fingers, !.presses = @ + 1]
           p1 == DragDown(p0, TRUE)
           p2 == PinchStart(p1)
           p3 == TapDown(p2)
           p4 == DoubleDown(p3, quick)
<1>1. /\ ptr' = p4 /\ ptr.device = "touch" /\ fingers # {} /\ fingers \cap ptr.held = {}
  BY DEF FingersDown
<1>2. /\ Shape(p0) /\ SameDrag(ptr, p0) /\ SameBox(ptr, p0) /\ SameZoom(ptr, p0) /\ SameTap(ptr, p0)
      /\ p0.device = ptr.device /\ p0.x = ptr.x /\ p0.pane = ptr.pane /\ p0.lost = ptr.lost
      /\ p0.wheel = ptr.wheel /\ p0.wheelTimer = ptr.wheelTimer
      /\ p0.held = ptr.held \cup fingers /\ p0.went = ptr.went /\ p0.again = ptr.again
  BY DEF PtInv, Shape, SameDrag, SameBox, SameZoom, SameTap, PtFields
<1>3. Shape(p1) /\ Pressed(p0, p1)
  BY <1>2, DragDownDoes
<1>4. Shape(p2) /\ PinchBegun(p1, p2)
  BY <1>3, PinchStartDoes
<1>5. Shape(p3) /\ TapBegun(p2, p3)
  BY <1>4, TapDownDoes
<1>6. Shape(p4) /\ DoubleBegun(p3, p4)
  BY <1>5, DoubleDownDoes
<1> HIDE DEF p0, p1, p2, p3, p4
<1>7. /\ ptr'.held = ptr.held \cup fingers /\ ptr'.held # {} /\ ptr'.held \subseteq {"one", "two"}
      /\ p2.held = ptr'.held /\ ptr'.device = "touch" /\ ptr'.lost = ptr.lost
      /\ ptr'.x = ptr.x /\ ptr'.pane = ptr.pane
  <2>1. SameInput(p0, ptr') /\ p2.held = p0.held
    BY <1>1, <1>3, <1>4, <1>5, <1>6 DEF SameInput, Pressed, PinchBegun, TapBegun, DoubleBegun
  <2>2. ptr.held \subseteq {"one", "two"}
    BY <1>1 DEF PtInv, Hands
  <2> QED
    BY <1>1, <1>2, <2>1, <2>2 DEF SameInput
<1>8. Hands(ptr')
  BY <1>1, <1>2, <1>3, <1>4, <1>5, <1>6, <1>7
     DEF PtInv, Hands, SameInput, Pressed, PinchBegun, TapBegun, DoubleBegun
<1>9. SameDrag(p1, ptr') /\ ptr'.again = p1.again /\ ptr'.went = p1.went /\ SameBox(p1, ptr')
  BY <1>1, <1>4, <1>5, <1>6 DEF SameDrag, SameBox, PinchBegun, TapBegun, DoubleBegun
<1>10. Dragged(ptr')
  BY <1>1, <1>2, <1>3, <1>7, <1>9 DEF PtInv, Dragged, SameInput, SameDrag, Pressed
<1>11. Grabbed(ptr')
  <2>1. ptr.x \in Int /\ ptr.pane \in Int
    BY PositionsAssumption DEF PtInv, Hands
  <2>2. CASE ptr.drag.moving
    <3>1. /\ ptr'.drag.startX = ptr.drag.startX /\ ptr'.drag.startPos = ptr.drag.startPos
          /\ ptr'.drag.newPos = ptr.drag.newPos /\ ptr'.drag.frame = ptr.drag.frame
          /\ ptr'.drag.moving = ptr.drag.moving
      BY <1>2, <1>3, <1>9, <2>2 DEF SameDrag, Pressed
    <3>2. /\ ptr'.grab = ptr.grab /\ ptr'.disturbed = ptr.disturbed /\ ptr'.again
      BY <1>2, <1>3, <1>9, <2>2 DEF SameDrag, Pressed
    <3> QED
      BY <1>7, <2>2, <3>1, <3>2 DEF PtInv, Grabbed
  <2>3. CASE ~ptr.drag.moving
    BY <1>1, <1>2, <1>3, <1>7, <1>9, <2>1, <2>3 DEF PtInv, Grabbed, SameInput, SameDrag, Pressed
  <2> QED
    BY <2>2, <2>3
<1>12. Boxed(ptr')
  <2>1. SameBox(ptr, ptr') /\ ptr'.went = ptr.went /\ (ptr.again => ptr'.again)
    BY <1>2, <1>3, <1>9 DEF SameBox, Pressed
  <2>2. ~ptr.box.on /\ "left" \notin ptr'.held
    BY <1>1, <1>7 DEF PtInv, Boxed
  <2> QED
    BY <1>7, <2>1, <2>2 DEF PtInv, Boxed, SameBox
<1>13. ZoomsGo(ptr')
  <2>1. /\ ptr'.zoomFrames = ptr.zoomFrames /\ ptr'.timers = ptr.timers
        /\ ptr'.endFrames = ptr.endFrames /\ ptr'.animating = ptr.animating
        /\ ptr'.zoomBegun = ptr.zoomBegun /\ ptr'.disabled = ptr.disabled
        /\ ptr'.pinch.frame = ptr.pinch.frame
        /\ \/ ptr'.pinch = ptr.pinch
           \/ ~ptr.pinch.zooming /\ ~ptr'.pinch.moved /\ ptr'.pinch.zooming = TRUE
              /\ ptr'.pinch.on = TRUE
    BY <1>1, <1>2, <1>3, <1>4, <1>5, <1>6
       DEF SameZoom, Pressed, PinchBegun, TapBegun, DoubleBegun
  <2>2. CASE ptr'.pinch = ptr.pinch
    BY <1>1, <1>7, <2>1, <2>2 DEF PtInv, ZoomsGo
  <2>3. CASE ~ptr.pinch.zooming /\ ptr'.pinch.zooming = TRUE /\ ptr'.pinch.on = TRUE
    BY <1>1, <1>7, <2>1, <2>3 DEF PtInv, ZoomsGo
  <2> QED
    BY <2>1, <2>2, <2>3
<1>14. Tapped(ptr') /\ Clicks(ptr, ptr')
  <2>1. SameTap(ptr, p2) /\ "left" \notin ptr.held
    BY <1>1, <1>2, <1>3, <1>4 DEF SameTap, Pressed, PinchBegun, PtInv, Hands
  <2>2. /\ ptr'.tap = p3.tap /\ ptr'.stale = p3.stale /\ ptr'.taps = p3.taps
        /\ ptr'.dbls = p3.dbls /\ ptr'.joined = p3.joined
    BY <1>1, <1>6 DEF DoubleBegun
  <2>3. CASE Cardinality(p2.held) > 1
    <3>1. ~ptr'.tap.fire /\ ~ptr'.tap.hold /\ ptr'.joined = TRUE /\ ptr'.stale = ptr.stale
          /\ ptr'.tap.on = ptr.tap.on /\ ptr'.taps = ptr.taps /\ ptr'.dbls = ptr.dbls
      BY <1>5, <2>1, <2>2, <2>3 DEF TapBegun, SameTap
    <3> QED
      BY <1>1, <1>7, <2>1, <3>1 DEF PtInv, Tapped, Clicks
  <2>4. CASE ~(Cardinality(p2.held) > 1)
    <3>1. /\ ptr'.tap.on = TRUE /\ ptr'.taps = 0 /\ ptr'.dbls = 0 /\ ptr'.joined = FALSE
          /\ ptr'.stale = (IF ptr.tap.hold THEN ptr.stale + 1 ELSE ptr.stale)
          /\ ptr'.tap.fire = TRUE
      BY <1>5, <2>1, <2>2, <2>4 DEF TapBegun, SameTap
    <3>2. ptr'.held # {"one", "two"}
      BY <1>7, <2>4, TwoDown
    <3>3. ptr.held = {}
      BY <1>1, <1>7, <3>2
    <3> QED
      BY <1>7, <2>1, <3>1, <3>2, <3>3 DEF PtInv, Tapped, Clicks
  <2> QED
    BY <2>3, <2>4
<1> QED
  BY <1>1, <1>6, <1>8, <1>10, <1>11, <1>12, <1>13, <1>14 DEF PtInv

LEMMA FingersMoveKeeps ==
  ASSUME PtInv(ptr), NEW x \in Positions, NEW scaled, NEW ok, FingersMove(x, scaled, ok)
  PROVE  PtInv(ptr') /\ Clicks(ptr, ptr')
<1> DEFINE p0 == [ptr EXCEPT !.x = x]
           p1 == DragMove(p0)
           p2 == PinchMove(p1, scaled)
<1>1. /\ ptr' = IF p2.tap.on THEN [p2 EXCEPT !.tap.ok = ok] ELSE p2
      /\ ptr.device = "touch" /\ ptr.held # {}
  BY DEF FingersMove
<1>2. /\ Shape(p0) /\ SameDrag(ptr, p0) /\ SameBox(ptr, p0) /\ SameZoom(ptr, p0) /\ SameTap(ptr, p0)
      /\ p0.device = ptr.device /\ p0.x = x /\ p0.pane = ptr.pane /\ p0.lost = ptr.lost
      /\ p0.wheel = ptr.wheel /\ p0.wheelTimer = ptr.wheelTimer
      /\ p0.held = ptr.held /\ p0.went = ptr.went /\ p0.again = ptr.again
  BY DEF PtInv, Shape, SameDrag, SameBox, SameZoom, SameTap, PtFields
<1>3. Shape(p1) /\ Follows(p0, p1)
  BY <1>2, DragMoveDoes
<1>4. Shape(p2) /\ Pinched(p1, p2)
  BY <1>3, PinchMoveDoes
<1> HIDE DEF p0, p1, p2
<1>5. /\ Shape(ptr') /\ SameInput(p2, ptr') /\ SameDrag(p2, ptr') /\ SameBox(p2, ptr')
      /\ SameZoom(p2, ptr') /\ ptr'.went = p2.went /\ ptr'.again = p2.again
      /\ ptr'.tap.on = p2.tap.on /\ ptr'.tap.fire = p2.tap.fire /\ ptr'.tap.hold = p2.tap.hold
      /\ ptr'.stale = p2.stale /\ ptr'.taps = p2.taps /\ ptr'.dbls = p2.dbls
      /\ ptr'.joined = p2.joined
  BY <1>1, <1>4 DEF Shape, SameInput, SameDrag, SameBox, SameZoom, PtFields
<1>6. ptr.held \subseteq {"one", "two"} /\ (TwoFingers(p0) <=> ptr.held = {"one", "two"})
  <2>1. ptr.held \subseteq {"one", "two"}
    BY <1>1 DEF PtInv, Hands
  <2> QED
    BY <1>1, <1>2, <2>1, TwoDown DEF TwoFingers
<1>7. ptr.x \in Int /\ x \in Int /\ ptr.pane \in Int /\ ptr.drag.startX \in Int
  BY PositionsAssumption DEF PtInv, Hands, Grabbed
<1>8. ~ptr.box.on /\ "left" \notin ptr.held
  BY <1>1, <1>6 DEF PtInv, Boxed
<1>9. /\ Hands(p1) /\ Dragged(p1) /\ Grabbed(p1) /\ Boxed(p1) /\ p1.device = ptr.device
      /\ SameZoom(ptr, p1) /\ SameTap(ptr, p1) /\ p1.held = ptr.held /\ p1.lost = ptr.lost
  <2>1. CASE p1 = p0 /\ (~p0.drag.on \/ p0.x - p0.drag.startX = 0)
    <3>1. Hands(p1)
      BY <1>2, <2>1 DEF PtInv, Hands
    <3>2. Dragged(p1)
      BY <1>2, <2>1 DEF PtInv, Dragged, SameDrag
    <3>3. Grabbed(p1)
      <4>1. p1.drag = ptr.drag /\ p1.grab = ptr.grab /\ p1.x = x
        BY <1>2, <2>1 DEF SameDrag
      <4>2. p1.drag.moving => p1.x = p1.drag.startX
        BY <1>2, <1>7, <2>1, <4>1 DEF PtInv, Dragged
      <4> QED
        BY <1>2, <2>1, <4>1, <4>2 DEF PtInv, Grabbed, SameDrag
    <3> QED
      BY <1>2, <2>1, <3>1, <3>2, <3>3, BoxedKept DEF PtInv, SameDrag
  <2>2. CASE MovedByTwo(p0, p1) /\ p0.drag.on /\ TwoFingers(p0)
    <3>1. Hands(p1)
      BY <1>2, <2>2 DEF PtInv, Hands, MovedByTwo, SameInput
    <3>2. Dragged(p1)
      BY <1>1, <1>2, <1>6, <2>2 DEF PtInv, Dragged, SameDrag, MovedByTwo, SameInput
    <3>3. Grabbed(p1)
      BY <1>1, <1>2, <1>6, <2>2 DEF PtInv, Grabbed, SameDrag, MovedByTwo, SameInput
    <3>4. Boxed(p1)
      BY <1>1, <1>2, <1>8, <2>2 DEF PtInv, Boxed, SameBox, MovedByTwo, SameInput
    <3> QED
      BY <1>2, <2>2, <3>1, <3>2, <3>3, <3>4 DEF SameZoom, SameTap, MovedByTwo, SameInput
  <2>3. CASE MovedOn(p0, p1) /\ p0.drag.on /\ p0.drag.moved /\ ~TwoFingers(p0)
    <3>1. Hands(p1)
      BY <1>2, <2>3 DEF PtInv, Hands, MovedOn, SameInput
    <3>2. Dragged(p1)
      BY <1>1, <1>2, <2>3 DEF PtInv, Dragged, SameDrag, MovedOn, SameInput
    <3>3. ptr.drag.moving
      BY <1>1, <1>2, <1>6, <2>3 DEF PtInv, Dragged, SameDrag
    <3>4. Grabbed(p1)
      BY <1>1, <1>2, <1>6, <1>7, <2>3, <3>3 DEF PtInv, Grabbed, SameDrag, MovedOn, SameInput
    <3>5. Boxed(p1)
      BY <1>1, <1>2, <1>8, <2>3 DEF PtInv, Boxed, SameBox, MovedOn, SameInput
    <3> QED
      BY <1>2, <2>3, <3>1, <3>2, <3>4, <3>5 DEF SameZoom, SameTap, MovedOn, SameInput
  <2>4. CASE MovedFirst(p0, p1) /\ p0.drag.on /\ ~TwoFingers(p0)
    <3>1. Hands(p1)
      BY <1>2, <2>4 DEF PtInv, Hands, MovedFirst, SameInput
    <3>2. Dragged(p1)
      BY <1>1, <1>2, <2>4 DEF PtInv, Dragged, SameDrag, MovedFirst, SameInput
    <3>3. Grabbed(p1)
      BY <1>1, <1>2, <1>6, <1>7, <2>4 DEF PtInv, Grabbed, SameDrag, MovedFirst, SameInput
    <3>4. Boxed(p1)
      BY <1>1, <1>2, <1>8, <2>4 DEF PtInv, Boxed, SameBox, MovedFirst, SameInput
    <3> QED
      BY <1>2, <2>4, <3>1, <3>2, <3>3, <3>4 DEF SameZoom, SameTap, MovedFirst, SameInput
  <2> QED
    BY <1>3, <2>1, <2>2, <2>3, <2>4 DEF Follows
<1>10. Hands(ptr') /\ Dragged(ptr') /\ Grabbed(ptr')
  BY <1>4, <1>5, <1>9 DEF Hands, Dragged, Grabbed, Pinched, SameInput, SameDrag
<1>11. Boxed(ptr')
  <2>1. SameBox(p1, ptr') /\ ptr'.went = p1.went /\ ptr'.again = p1.again
    BY <1>4, <1>5 DEF Pinched, SameBox
  <2> QED
    BY <1>4, <1>5, <1>9, <2>1, BoxedKept DEF Pinched, SameInput, SameDrag
<1>12. ZoomsGo(ptr')
  <2>1. ZoomsGo(p1)
    BY <1>9 DEF PtInv, ZoomsGo, SameZoom
  <2> QED
    BY <1>4, <1>5, <1>9, <2>1 DEF ZoomsGo, Pinched, SameInput, SameZoom
<1>13. /\ ptr'.tap.on = ptr.tap.on /\ ptr'.tap.fire = ptr.tap.fire /\ ptr'.tap.hold = ptr.tap.hold
       /\ ptr'.stale = ptr.stale /\ ptr'.taps = ptr.taps /\ ptr'.dbls = ptr.dbls
       /\ ptr'.joined = ptr.joined /\ ptr'.held = ptr.held /\ ptr'.lost = ptr.lost
       /\ ptr'.device = ptr.device
  BY <1>4, <1>5, <1>9 DEF Pinched, SameInput, SameTap
<1>14. Tapped(ptr') /\ Clicks(ptr, ptr')
  BY <1>13 DEF PtInv, Tapped, Clicks
<1> QED
  BY <1>5, <1>10, <1>11, <1>12, <1>14 DEF PtInv

LEMMA FingersUpKeeps ==
  ASSUME PtInv(ptr), NEW fingers \in SUBSET {"one", "two"}, NEW inertia,
         FingersUp(fingers, inertia)
  PROVE  PtInv(ptr') /\ Clicks(ptr, ptr')
<1> DEFINE p0 == [ptr EXCEPT !.held = @ \ fingers]
           p1 == DragUp(p0, inertia)
           p2 == PinchEnd(p1)
           p3 == TapUp(p2)
           p4 == DoubleUp(p3)
<1>1. /\ ptr' = p4 /\ ptr.device = "touch" /\ fingers # {} /\ fingers \subseteq ptr.held
  BY DEF FingersUp
<1>2. /\ Shape(p0) /\ SameDrag(ptr, p0) /\ SameBox(ptr, p0) /\ SameZoom(ptr, p0) /\ SameTap(ptr, p0)
      /\ p0.device = ptr.device /\ p0.x = ptr.x /\ p0.pane = ptr.pane /\ p0.lost = ptr.lost
      /\ p0.wheel = ptr.wheel /\ p0.wheelTimer = ptr.wheelTimer
      /\ p0.held = ptr.held \ fingers /\ p0.went = ptr.went /\ p0.again = ptr.again
  BY DEF PtInv, Shape, SameDrag, SameBox, SameZoom, SameTap, PtFields
<1>3. Shape(p1) /\ Released(p0, p1)
  BY <1>2, DragUpDoes
<1>4. Shape(p2) /\ PinchEnded(p1, p2)
  BY <1>3, PinchEndDoes
<1>5. Shape(p3) /\ TapEnded(p2, p3)
  BY <1>4, TapUpDoes
<1>6. Shape(p4) /\ DoubleEnded(p3, p4)
  BY <1>5, DoubleUpDoes
<1> HIDE DEF p0, p1, p2, p3, p4
<1>7. SameInput(p0, ptr')
  BY <1>1, <1>3, <1>4, <1>5, <1>6 DEF SameInput, Released, PinchEnded, TapEnded, DoubleEnded
<1>8. /\ ptr'.held = ptr.held \ fingers /\ ptr'.held \subseteq {"one", "two"}
      /\ ptr'.held # {"one", "two"} /\ ptr'.device = "touch" /\ ptr'.lost = ptr.lost
      /\ ptr'.x = ptr.x /\ ptr'.pane = ptr.pane
  BY <1>1, <1>2, <1>7 DEF PtInv, Hands, SameInput
<1>9. Hands(ptr')
  BY <1>1, <1>2, <1>7, <1>8 DEF PtInv, Hands, SameInput
<1>10. SameDrag(p1, ptr') /\ ptr'.again = p1.again /\ ptr'.went = p1.went /\ SameBox(p1, ptr')
  BY <1>1, <1>4, <1>5, <1>6 DEF SameDrag, SameBox, PinchEnded, TapEnded, DoubleEnded
<1>11. Dragged(ptr')
  <2>1. CASE ptr.drag.on
    BY <1>1, <1>2, <1>3, <1>8, <1>10, <2>1 DEF PtInv, Dragged, SameDrag, Released
  <2>2. CASE ~ptr.drag.on
    BY <1>1, <1>2, <1>3, <1>8, <1>10, <2>2 DEF PtInv, Dragged, SameDrag, Released
  <2> QED
    BY <2>1, <2>2
<1>12. Grabbed(ptr')
  <2>1. ~ptr'.drag.moving
    BY <1>2, <1>3, <1>10 DEF PtInv, Dragged, SameDrag, Released
  <2> QED
    BY <1>2, <1>3, <1>10, <2>1 DEF PtInv, Grabbed, SameDrag, Released
<1>13. Boxed(ptr')
  <2>1. SameBox(ptr, ptr') /\ ptr'.went = ptr.went /\ ptr'.again = ptr.again
    BY <1>2, <1>3, <1>10 DEF SameBox, Released
  <2>2. ~ptr.box.on /\ "left" \notin ptr'.held
    BY <1>1, <1>8 DEF PtInv, Boxed
  <2> QED
    BY <1>8, <2>1, <2>2 DEF PtInv, Boxed, SameBox
<1>14. ZoomsGo(ptr')
  <2>1. SameZoom(ptr, p1) /\ SameZoom(p2, ptr')
    BY <1>1, <1>2, <1>3, <1>5, <1>6 DEF SameZoom, Released, TapEnded, DoubleEnded
  <2>2. /\ ptr'.timers = ptr.timers /\ ptr'.endFrames = ptr.endFrames /\ ~ptr'.pinch.zooming
        /\ \/ /\ ~ptr'.pinch.on /\ ~ptr'.pinch.frame
              /\ ptr'.animating = TRUE /\ ptr'.zoomFrames = ptr.zoomFrames + 1
           \/ /\ ~(ptr.pinch.on /\ ptr.pinch.moved /\ ptr.pinch.zooming)
              /\ ptr'.pinch.on = ptr.pinch.on /\ ptr'.pinch.frame = ptr.pinch.frame
              /\ ptr'.animating = ptr.animating /\ ptr'.zoomFrames = ptr.zoomFrames
              /\ ptr'.zoomBegun = ptr.zoomBegun /\ ptr'.disabled = ptr.disabled
    BY <1>4, <2>1 DEF PtInv, ZoomsGo, SameZoom, PinchEnded
  <2> QED
    BY <1>1, <1>8, <2>2 DEF PtInv, ZoomsGo
<1>15. /\ SameTap(ptr, p2)
       /\ ptr'.tap = p3.tap /\ ptr'.stale = p3.stale /\ ptr'.taps = p3.taps
       /\ (ptr'.dbls = p3.dbls \/ ptr'.dbls = p3.dbls + 1) /\ ptr'.joined = p3.joined
  BY <1>1, <1>2, <1>3, <1>4, <1>6 DEF SameTap, Released, PinchEnded, DoubleEnded
<1>16. /\ ptr'.stale = ptr.stale /\ ptr'.joined = ptr.joined
       /\ ptr'.dbls = ptr.dbls \/ ptr'.dbls = ptr.dbls + 1
       /\ ~ptr'.tap.on
       /\ ptr'.tap.hold => ptr.tap.hold /\ ~ptr.tap.on
       /\ \/ ptr'.taps = ptr.taps
          \/ ptr'.taps = ptr.taps + 1 /\ ptr.tap.on /\ ptr.tap.fire
  BY <1>5, <1>15 DEF SameTap, TapEnded
<1>17. ptr.held # {} /\ (ptr'.held # {} => ptr.held = {"one", "two"}) /\ "left" \notin ptr.held
  <2>1. ptr.held \subseteq {"one", "two"}
    BY <1>1 DEF PtInv, Hands
  <2>2. PICK f \in fingers : f \in ptr.held
    BY <1>1
  <2>3. ASSUME NEW g \in ptr'.held
        PROVE  ptr.held = {"one", "two"}
    BY <1>8, <2>1, <2>2, <2>3
  <2> QED
    BY <2>1, <2>2, <2>3
<1>18. Tapped(ptr') /\ Clicks(ptr, ptr')
  BY <1>1, <1>8, <1>16, <1>17 DEF PtInv, Tapped, Clicks
<1> QED
  BY <1>1, <1>6, <1>9, <1>11, <1>12, <1>13, <1>14, <1>18 DEF PtInv

LEMMA TouchCancelKeeps ==
  ASSUME PtInv(ptr), TouchCancel
  PROVE  PtInv(ptr') /\ Clicks(ptr, ptr')
<1>1. /\ Shape(ptr') /\ SameDrag(ptr, ptr') /\ SameBox(ptr, ptr') /\ SameZoom(ptr, ptr')
      /\ SameTap(ptr, ptr') /\ ptr'.device = ptr.device /\ ptr'.x = ptr.x /\ ptr'.pane = ptr.pane
      /\ ptr'.lost = TRUE /\ ptr'.wheel = ptr.wheel /\ ptr'.wheelTimer = ptr.wheelTimer
      /\ ptr'.held = {} /\ ptr'.went = ptr.went /\ ptr'.again = ptr.again
      /\ ptr.device = "touch"
  BY DEF TouchCancel, PtInv, Shape, SameDrag, SameBox, SameZoom, SameTap, PtFields
<1>2. Hands(ptr') /\ "left" \notin ptr.held
  BY <1>1 DEF PtInv, Hands
<1>3. Dragged(ptr') /\ Grabbed(ptr')
  BY <1>1 DEF PtInv, Dragged, Grabbed, SameDrag
<1>4. Boxed(ptr')
  BY <1>1 DEF PtInv, Boxed, SameBox
<1>5. ZoomsGo(ptr') /\ Tapped(ptr')
  BY <1>1 DEF PtInv, ZoomsGo, Tapped, SameZoom, SameTap
<1>6. Clicks(ptr, ptr')
  BY <1>1, <1>2 DEF PtInv, Tapped, Clicks, SameTap
<1> QED
  BY <1>1, <1>2, <1>3, <1>4, <1>5, <1>6 DEF PtInv

LEMMA HoldTimerKeeps ==
  ASSUME PtInv(ptr), NEW earlier \in BOOLEAN, HoldTimer(earlier)
  PROVE  PtInv(ptr') /\ Clicks(ptr, ptr')
<1> DEFINE p0 == IF earlier THEN [ptr EXCEPT !.stale = @ - 1] ELSE [ptr EXCEPT !.tap.hold = FALSE]
<1>1. /\ ptr' = IF ~p0.tap.ok THEN p0
                ELSE [p0 EXCEPT !.tap.fire = FALSE, !.tap.on = FALSE, !.tap.hold = FALSE,
                                !.taps = @ + 1]
      /\ IF earlier THEN ptr.stale > 0 ELSE ptr.tap.hold
  BY DEF HoldTimer
<1>2. /\ Shape(p0) /\ SameInput(ptr, p0) /\ SameDrag(ptr, p0) /\ SameBox(ptr, p0)
      /\ SameZoom(ptr, p0) /\ p0.went = ptr.went /\ p0.again = ptr.again
      /\ p0.tap.on = ptr.tap.on /\ p0.tap.fire = ptr.tap.fire
      /\ p0.taps = ptr.taps /\ p0.dbls = ptr.dbls /\ p0.joined = ptr.joined
      /\ \/ earlier /\ p0.stale = ptr.stale - 1 /\ p0.tap.hold = ptr.tap.hold
         \/ ~earlier /\ p0.stale = ptr.stale /\ p0.tap.hold = FALSE
  BY DEF PtInv, Shape, SameInput, SameDrag, SameBox, SameZoom, PtFields
<1> HIDE DEF p0
<1>3. /\ Shape(ptr') /\ SameInput(p0, ptr') /\ SameDrag(p0, ptr') /\ SameBox(p0, ptr')
      /\ SameZoom(p0, ptr') /\ ptr'.went = p0.went /\ ptr'.again = p0.again
      /\ ptr'.dbls = p0.dbls /\ ptr'.joined = p0.joined /\ ptr'.stale = p0.stale
      /\ \/ ptr'.tap = p0.tap /\ ptr'.taps = p0.taps
         \/ ~ptr'.tap.on /\ ~ptr'.tap.hold /\ ptr'.taps = p0.taps + 1
  BY <1>1, <1>2 DEF Shape, SameInput, SameDrag, SameBox, SameZoom, PtFields
<1>4. SameInput(ptr, ptr') /\ SameDrag(ptr, ptr') /\ SameBox(ptr, ptr') /\ SameZoom(ptr, ptr')
      /\ ptr'.went = ptr.went /\ ptr'.again = ptr.again
  BY <1>2, <1>3 DEF SameInput, SameDrag, SameBox, SameZoom
<1>5. Hands(ptr') /\ Dragged(ptr') /\ Grabbed(ptr')
  BY <1>4 DEF PtInv, Hands, Dragged, Grabbed, SameInput, SameDrag
<1>6. Boxed(ptr')
  BY <1>4, BoxedKept DEF PtInv, SameInput, SameDrag
<1>7. ZoomsGo(ptr')
  BY <1>4 DEF PtInv, ZoomsGo, SameInput, SameZoom
<1>8. Tapped(ptr') /\ Clicks(ptr, ptr')
  BY <1>1, <1>2, <1>3, <1>4 DEF PtInv, Tapped, Clicks, SameInput
<1> QED
  BY <1>3, <1>5, <1>6, <1>7, <1>8 DEF PtInv

-------------------------------------------------------------------------------
\* Frames and timers.

LEMMA UpdatePositionKeeps ==
  ASSUME PtInv(ptr), UpdatePosition
  PROVE  PtInv(ptr') /\ Clicks(ptr, ptr')
<1>1. /\ Shape(ptr') /\ SameBox(ptr, ptr') /\ SameZoom(ptr, ptr') /\ SameTap(ptr, ptr')
      /\ ptr'.device = ptr.device /\ ptr'.x = ptr.x /\ ptr'.pane = ptr.drag.newPos
      /\ ptr'.lost = ptr.lost /\ ptr'.wheel = ptr.wheel /\ ptr'.wheelTimer = ptr.wheelTimer
      /\ ptr'.held = ptr.held /\ ptr'.went = ptr.went /\ ptr'.again = ptr.again
      /\ ptr'.clicked = ptr.clicked /\ ptr'.grab = ptr.grab /\ ptr'.glide = ptr.glide
      /\ ptr'.begun = ptr.begun /\ ptr'.disturbed = ptr.disturbed
      /\ ptr'.drag.on = ptr.drag.on /\ ptr'.drag.moved = ptr.drag.moved
      /\ ptr'.drag.moving = ptr.drag.moving /\ ptr'.drag.startX = ptr.drag.startX
      /\ ptr'.drag.startPos = ptr.drag.startPos /\ ptr'.drag.newPos = ptr.drag.newPos
  BY DEF UpdatePosition, PtInv, Shape, SameBox, SameZoom, SameTap, PtFields, DragFields
<1>2. Hands(ptr')
  BY <1>1 DEF PtInv, Hands, Grabbed
<1>3. Dragged(ptr') /\ Grabbed(ptr')
  BY <1>1 DEF PtInv, Dragged, Grabbed
<1>4. Boxed(ptr')
  BY <1>1, BoxedKept DEF PtInv
<1>5. ZoomsGo(ptr') /\ Tapped(ptr') /\ Clicks(ptr, ptr')
  BY <1>1 DEF PtInv, ZoomsGo, Tapped, Clicks, SameZoom, SameTap
<1> QED
  BY <1>1, <1>2, <1>3, <1>4, <1>5 DEF PtInv

LEMMA GlideFrameKeeps ==
  ASSUME PtInv(ptr), GlideFrame
  PROVE  PtInv(ptr') /\ Clicks(ptr, ptr')
<1>1. /\ Shape(ptr') /\ SameBox(ptr, ptr') /\ SameZoom(ptr, ptr') /\ SameTap(ptr, ptr')
      /\ ptr'.device = ptr.device /\ ptr'.x = ptr.x /\ ptr'.pane = ptr.pane + 1
      /\ ptr'.lost = ptr.lost /\ ptr'.wheel = ptr.wheel /\ ptr'.wheelTimer = ptr.wheelTimer
      /\ ptr'.held = ptr.held /\ ptr'.went = ptr.went /\ ptr'.again = ptr.again
      /\ ptr'.clicked = ptr.clicked /\ ptr'.grab = ptr.grab /\ ptr'.drag = ptr.drag
      /\ (ptr'.begun => ptr.drag.moving) /\ ptr'.disturbed = TRUE
  BY DEF GlideFrame, PtInv, Shape, SameBox, SameZoom, SameTap, PtFields
<1>2. Hands(ptr')
  BY <1>1 DEF PtInv, Hands
<1>3. Dragged(ptr') /\ Grabbed(ptr')
  BY <1>1 DEF PtInv, Dragged, Grabbed
<1>4. Boxed(ptr')
  BY <1>1, BoxedKept DEF PtInv
<1>5. ZoomsGo(ptr') /\ Tapped(ptr') /\ Clicks(ptr, ptr')
  BY <1>1 DEF PtInv, ZoomsGo, Tapped, Clicks, SameZoom, SameTap
<1> QED
  BY <1>1, <1>2, <1>3, <1>4, <1>5 DEF PtInv

\* What a step of the zoom's frames and timers leaves alone.
OutsideZoom(p, q) ==
  /\ SameInput(p, q) /\ SameDrag(p, q) /\ SameBox(p, q) /\ SameTap(p, q)
  /\ q.went = p.went /\ q.again = p.again

LEMMA OutsideZoomKept ==
  ASSUME NEW p, NEW q, PtInv(p), Shape(q), OutsideZoom(p, q), ZoomsGo(q)
  PROVE  PtInv(q) /\ Clicks(p, q)
<1>1. Hands(q) /\ Dragged(q) /\ Grabbed(q)
  BY DEF PtInv, Hands, Dragged, Grabbed, OutsideZoom, SameInput, SameDrag
<1>2. Boxed(q)
  BY BoxedKept DEF PtInv, OutsideZoom, SameInput, SameDrag
<1>3. Tapped(q) /\ Clicks(p, q)
  BY DEF PtInv, Tapped, Clicks, OutsideZoom, SameInput, SameTap
<1> QED
  BY <1>1, <1>2, <1>3 DEF PtInv

LEMMA UpdateOnMoveKeeps ==
  ASSUME PtInv(ptr), UpdateOnMove
  PROVE  PtInv(ptr') /\ Clicks(ptr, ptr')
<1> DEFINE p0 == [ptr EXCEPT !.pinch.frame = FALSE]
<1>1. ptr' = StartZoomAnim(p0, TRUE) /\ ptr.pinch.frame
  BY DEF UpdateOnMove
<1>2. /\ Shape(p0) /\ OutsideZoom(ptr, p0)
      /\ p0.pinch.on = ptr.pinch.on /\ p0.pinch.zooming = ptr.pinch.zooming
      /\ p0.pinch.moved = ptr.pinch.moved /\ p0.pinch.frame = FALSE
      /\ p0.animating = ptr.animating /\ p0.zoomFrames = ptr.zoomFrames
      /\ p0.timers = ptr.timers /\ p0.endFrames = ptr.endFrames
  BY DEF PtInv, Shape, OutsideZoom, SameInput, SameDrag, SameBox, SameTap, PtFields
<1> HIDE DEF p0
<1>3. Shape(ptr') /\ PinchShown(p0, ptr')
  BY <1>1, <1>2, PinchAnimStarts
<1>4. OutsideZoom(ptr, ptr')
  BY <1>2, <1>3 DEF OutsideZoom, PinchShown, SameInput, SameDrag, SameBox, SameTap
<1>5. ptr.pinch.on /\ ptr.pinch.zooming /\ ptr.pinch.moved
  BY <1>1 DEF PtInv, ZoomsGo
<1>6. /\ ptr'.pinch.on /\ ptr'.pinch.zooming /\ ptr'.pinch.moved
      /\ ptr'.timers = ptr.timers /\ ptr'.endFrames = ptr.endFrames
      /\ ptr'.zoomFrames = ptr.zoomFrames + 1
      /\ ptr'.held = ptr.held /\ ptr'.lost = ptr.lost /\ ptr'.device = ptr.device
  BY <1>2, <1>3, <1>4, <1>5 DEF OutsideZoom, PinchShown, SameInput
<1>7. ZoomsGo(ptr')
  BY <1>5, <1>6 DEF PtInv, ZoomsGo
<1> QED
  BY <1>3, <1>4, <1>7, OutsideZoomKept

LEMMA AnimFrameKeeps ==
  ASSUME PtInv(ptr), AnimFrame
  PROVE  PtInv(ptr') /\ Clicks(ptr, ptr')
<1>1. /\ Shape(ptr') /\ OutsideZoom(ptr, ptr') /\ ptr'.pinch = ptr.pinch
      /\ ptr'.animating = ptr.animating /\ ptr'.endFrames = ptr.endFrames
      /\ ptr'.zoomBegun = ptr.zoomBegun /\ ptr'.disabled = ptr.disabled
      /\ ptr'.zoomFrames = ptr.zoomFrames - 1 /\ ptr'.timers = ptr.timers + 1
      /\ ptr.zoomFrames > 0
  BY DEF AnimFrame, PtInv, Shape, OutsideZoom, SameInput, SameDrag, SameBox, SameTap, PtFields
<1>2. ZoomsGo(ptr')
  BY <1>1 DEF PtInv, ZoomsGo, OutsideZoom, SameInput
<1> QED
  BY <1>1, <1>2, OutsideZoomKept

\* The end of an animated zoom, of a timer's or of a transition's.
LEMMA EndZoomAnimDoes ==
  ASSUME NEW p, Shape(p), p.animating, NEW q, q = EndZoomAnim(p)
  PROVE  /\ Shape(q) /\ OutsideZoom(p, q) /\ q.pinch = p.pinch
         /\ q.animating = FALSE /\ q.endFrames = p.endFrames + 1
         /\ q.zoomBegun = p.zoomBegun /\ q.disabled = p.disabled
         /\ q.zoomFrames = p.zoomFrames /\ q.timers = p.timers
BY DEF EndZoomAnim, Shape, OutsideZoom, SameInput, SameDrag, SameBox, SameTap, PtFields

LEMMA AnimTimerKeeps ==
  ASSUME PtInv(ptr), AnimTimer
  PROVE  PtInv(ptr') /\ Clicks(ptr, ptr')
<1> DEFINE p0 == [ptr EXCEPT !.timers = @ - 1]
<1>1. ptr' = EndZoomAnim(p0) /\ ptr.timers > 0
  BY DEF AnimTimer
<1>2. /\ Shape(p0) /\ OutsideZoom(ptr, p0) /\ p0.pinch = ptr.pinch
      /\ p0.animating = ptr.animating /\ p0.endFrames = ptr.endFrames
      /\ p0.zoomBegun = ptr.zoomBegun /\ p0.disabled = ptr.disabled
      /\ p0.zoomFrames = ptr.zoomFrames /\ p0.timers = ptr.timers - 1
  BY DEF PtInv, Shape, OutsideZoom, SameInput, SameDrag, SameBox, SameTap, PtFields
<1> HIDE DEF p0
<1>3. CASE p0.animating
  <2>1. /\ Shape(ptr') /\ OutsideZoom(p0, ptr') /\ ptr'.pinch = p0.pinch
        /\ ptr'.animating = FALSE /\ ptr'.endFrames = p0.endFrames + 1
        /\ ptr'.zoomBegun = p0.zoomBegun /\ ptr'.disabled = p0.disabled
        /\ ptr'.zoomFrames = p0.zoomFrames /\ ptr'.timers = p0.timers
    BY <1>1, <1>2, <1>3, EndZoomAnimDoes
  <2>2. OutsideZoom(ptr, ptr')
    BY <1>2, <2>1 DEF OutsideZoom, SameInput, SameDrag, SameBox, SameTap
  <2>3. ZoomsGo(ptr')
    BY <1>1, <1>2, <2>1, <2>2 DEF PtInv, ZoomsGo, OutsideZoom, SameInput
  <2> QED
    BY <2>1, <2>2, <2>3, OutsideZoomKept
<1>4. CASE ~p0.animating
  <2>1. ptr' = p0
    BY <1>1, <1>4 DEF EndZoomAnim
  <2>2. ZoomsGo(ptr')
    BY <1>1, <1>2, <1>4, <2>1 DEF PtInv, ZoomsGo, OutsideZoom, SameInput
  <2> QED
    BY <1>2, <2>1, <2>2, OutsideZoomKept
<1> QED
  BY <1>3, <1>4

LEMMA CatchTransitionEndKeeps ==
  ASSUME PtInv(ptr), CatchTransitionEnd
  PROVE  PtInv(ptr') /\ Clicks(ptr, ptr')
<1>1. /\ Shape(ptr') /\ OutsideZoom(ptr, ptr') /\ ptr'.pinch = ptr.pinch
      /\ ptr'.animating = FALSE /\ ptr'.endFrames = ptr.endFrames + 1
      /\ ptr'.zoomBegun = ptr.zoomBegun /\ ptr'.disabled = ptr.disabled
      /\ ptr'.zoomFrames = ptr.zoomFrames /\ ptr'.timers = ptr.timers
  BY EndZoomAnimDoes DEF PtInv, CatchTransitionEnd
<1>2. ZoomsGo(ptr')
  BY <1>1 DEF PtInv, ZoomsGo, OutsideZoom, SameInput
<1> QED
  BY <1>1, <1>2, OutsideZoomKept

LEMMA AnimEndFrameKeeps ==
  ASSUME PtInv(ptr), AnimEndFrame
  PROVE  PtInv(ptr') /\ Clicks(ptr, ptr')
<1>1. /\ Shape(ptr') /\ OutsideZoom(ptr, ptr') /\ ptr'.pinch = ptr.pinch
      /\ ptr'.animating = ptr.animating /\ ptr'.endFrames = ptr.endFrames - 1
      /\ ptr'.zoomBegun = FALSE /\ ptr'.disabled = FALSE
      /\ ptr'.zoomFrames = ptr.zoomFrames /\ ptr'.timers = ptr.timers
      /\ ptr.endFrames > 0
  BY DEF AnimEndFrame, DragAgain, PtInv, Shape, OutsideZoom, SameInput, SameDrag, SameBox, SameTap,
         PtFields
<1>2. ZoomsGo(ptr')
  BY <1>1 DEF PtInv, ZoomsGo, OutsideZoom, SameInput
<1> QED
  BY <1>1, <1>2, OutsideZoomKept

-------------------------------------------------------------------------------
\* It holds at first and each step keeps it.

LEMMA PtInitHolds ==
  ASSUME PtInit
  PROVE  PtInv(ptr)
<1>1. PICK device \in Devices, x \in Positions :
        /\ Shape(ptr) /\ ptr.device = device /\ ptr.x = x /\ ptr.pane = 0 /\ ptr.held = {}
        /\ ~ptr.drag.on /\ ~ptr.drag.moving /\ ptr.drag.startX = x /\ ptr.drag.startPos = 0
        /\ ptr.drag.newPos = 0 /\ ptr.grab.x = x /\ ptr.grab.pane = 0 /\ ~ptr.begun
        /\ ~ptr.box.on /\ ptr.boxes = 0 /\ ptr.wheel = 0
        /\ ~ptr.pinch.on /\ ~ptr.pinch.zooming /\ ~ptr.pinch.frame /\ ~ptr.animating
        /\ ptr.zoomFrames = 0 /\ ptr.timers = 0 /\ ptr.endFrames = 0 /\ ~ptr.zoomBegun
        /\ ~ptr.disabled /\ ~ptr.tap.on /\ ~ptr.tap.hold /\ ptr.stale = 0 /\ ptr.taps = 0
        /\ ptr.dbls = 0
  BY DEF PtInit, Shape, PtFields, DragFields
<1>2. x \in Int
  BY PositionsAssumption
<1>3. Hands(ptr)
  BY <1>1, WheelMaxAssumption DEF Hands
<1>4. Dragged(ptr) /\ Grabbed(ptr)
  BY <1>1, <1>2 DEF Dragged, Grabbed
<1>5. Boxed(ptr) /\ ZoomsGo(ptr)
  BY <1>1 DEF Boxed, ZoomsGo
<1>6. Tapped(ptr)
  BY <1>1 DEF Tapped
<1> QED
  BY <1>1, <1>3, <1>4, <1>5, <1>6 DEF PtInv

LEMMA PtStepKeeps ==
  ASSUME PtInv(ptr), [PtNext]_ptVars
  PROVE  PtInv(ptr') /\ (ptr' # ptr => Clicks(ptr, ptr'))
<1>1. ASSUME NEW button \in {"left", "right"}, NEW shift \in BOOLEAN, MouseDown(button, shift)
      PROVE  PtInv(ptr') /\ Clicks(ptr, ptr')
  BY <1>1, MouseDownKeeps
<1>2. ASSUME NEW button \in {"left", "right"}, NEW inertia \in BOOLEAN, NEW how \in Hows,
             MouseUp(button, inertia, how)
      PROVE  PtInv(ptr') /\ Clicks(ptr, ptr')
  BY <1>2, MouseUpKeeps
<1>3. ASSUME NEW x \in Positions, MouseMove(x)
      PROVE  PtInv(ptr') /\ Clicks(ptr, ptr')
  BY <1>3, MouseMoveKeeps
<1>4. ASSUME NEW x \in Positions, NEW scaled \in BOOLEAN, NEW ok \in BOOLEAN,
             FingersMove(x, scaled, ok)
      PROVE  PtInv(ptr') /\ Clicks(ptr, ptr')
  BY <1>4, FingersMoveKeeps
<1>5. ASSUME MouseLost \/ Escape \/ Blur \/ WheelScroll
      PROVE  PtInv(ptr') /\ Clicks(ptr, ptr')
  BY <1>5, MouseLostKeeps, EscapeKeeps, BlurKeeps, WheelScrollKeeps
<1>6. ASSUME NEW how \in Hows, PerformZoom(how) \/ KeyZoom(how)
      PROVE  PtInv(ptr') /\ Clicks(ptr, ptr')
  BY <1>6, PerformZoomKeeps, KeyZoomKeeps
<1>7. ASSUME NEW offset \in {-1, 1}, KeyPan(offset)
      PROVE  PtInv(ptr') /\ Clicks(ptr, ptr')
  BY <1>7, KeyPanKeeps
<1>8. ASSUME NEW fingers \in SUBSET {"one", "two"}, NEW b \in BOOLEAN,
             FingersDown(fingers, b) \/ FingersUp(fingers, b)
      PROVE  PtInv(ptr') /\ Clicks(ptr, ptr')
  BY <1>8, FingersDownKeeps, FingersUpKeeps
<1>9. ASSUME TouchCancel \/ \E earlier \in BOOLEAN : HoldTimer(earlier)
      PROVE  PtInv(ptr') /\ Clicks(ptr, ptr')
  BY <1>9, TouchCancelKeeps, HoldTimerKeeps
<1>10. ASSUME \/ UpdatePosition \/ GlideFrame \/ UpdateOnMove
              \/ AnimFrame \/ AnimTimer \/ CatchTransitionEnd \/ AnimEndFrame
       PROVE  PtInv(ptr') /\ Clicks(ptr, ptr')
  BY <1>10, UpdatePositionKeeps, GlideFrameKeeps, UpdateOnMoveKeeps, AnimFrameKeeps,
     AnimTimerKeeps, CatchTransitionEndKeeps, AnimEndFrameKeeps
<1>11. ASSUME UNCHANGED ptVars
       PROVE  PtInv(ptr') /\ ptr' = ptr
  BY <1>11 DEF ptVars
<1> QED
  BY <1>1, <1>2, <1>3, <1>4, <1>5, <1>6, <1>7, <1>8, <1>9, <1>10, <1>11 DEF PtNext, Hows

\* The invariant as a state predicate, for the temporal steps.
PointerInv == PtInv(ptr)

LEMMA PtAlways == PtSpec => []PointerInv
<1>1. PtInit => PointerInv
  BY PtInitHolds DEF PointerInv
<1>2. PointerInv /\ [PtNext]_ptVars => PointerInv'
  BY PtStepKeeps DEF PointerInv
<1> QED
  BY <1>1, <1>2, PTL DEF PtSpec

\* The handlers' state keeps its type: the pane and the drag are at whole
\* positions, the counts of boxes, frames and timers never go below zero, and the
\* wheel counts no more notches than one zoom can use.
THEOREM PointerTypeCorrect == PtSpec => []PtTypeOK
<1>1. PointerInv => PtTypeOK
  <2> SUFFICES ASSUME PtInv(ptr)
               PROVE  PtTypeOK
    BY DEF PointerInv
  <2>1. ptr.held \subseteq {"left", "right", "one", "two"}
    BY DEF PtInv, Hands
  <2> QED
    BY <2>1 DEF PtInv, Hands, Grabbed, Boxed, ZoomsGo, Tapped, PtTypeOK
<1> QED
  BY <1>1, PtAlways, PTL

\* Once every button and finger is up and no frame or timer is awaited, each
\* dragstart and zoomstart has had its end (_onUp, _onTouchEnd,
\* _onZoomTransitionEnd), no box is left in the pane (_finish), the wheel's
\* notches have been used (_performZoom) and dragging works again: the handlers
\* let go whatever buttons, fingers, frames and timers there were before.
THEOREM HandlersLetGo == PtSpec => []HandsOff
<1>1. PointerInv => HandsOff
  <2> SUFFICES ASSUME PtInv(ptr), HandsQuiet
               PROVE  /\ ptr.wheel = 0
                      /\ ptr.begun \/ ptr.drag.moving \/ ptr.boxes > 0 => ptr.again \/ ptr.lost
                      /\ ptr.zoomBegun \/ ptr.disabled \/ ptr.animating => ptr.lost
    BY DEF HandsOff, PointerInv
  <2>1. ptr.wheel = 0
    BY DEF PtInv, Hands, HandsQuiet
  <2>2. ptr.begun \/ ptr.drag.moving => ptr.again \/ ptr.lost
    BY DEF PtInv, Dragged, HandsQuiet
  <2>3. ptr.boxes > 0 => ptr.again \/ ptr.lost
    BY DEF PtInv, Boxed, HandsQuiet
  <2>4. ptr.zoomBegun \/ ptr.disabled \/ ptr.animating => ptr.lost
    BY DEF PtInv, ZoomsGo, HandsQuiet
  <2> QED
    BY <2>1, <2>2, <2>3, <2>4
<1> QED
  BY <1>1, PtAlways, PTL

\* While the map is dragged the point that was grabbed stays under the pointer in
\* every frame shown (_onMove, _updatePosition), for any positions of the pointer:
\* the pane has moved by what the pointer has since the first move of the drag,
\* although the press remembered another place for it.
THEOREM GrabbedPointStays == PtSpec => []GrabbedPointHeld
<1>1. PointerInv => GrabbedPointHeld
  <2> SUFFICES ASSUME PtInv(ptr), ptr.drag.moving, ~ptr.drag.frame, ~ptr.disturbed,
                      ptr.x # ptr.drag.startX, ptr.device = "touch" => ~ptr.again
               PROVE  ptr.pane - ptr.grab.pane = ptr.x - ptr.grab.x
    BY DEF GrabbedPointHeld, PointerInv
  <2>1. ptr.x \in Int /\ ptr.pane \in Int
    BY PositionsAssumption DEF PtInv, Hands
  <2>2. /\ ptr.drag.startPos = ptr.grab.pane - (ptr.grab.x - ptr.drag.startX)
        /\ ptr.pane = ptr.drag.newPos
        /\ ptr.drag.newPos = ptr.drag.startPos + (ptr.x - ptr.drag.startX)
        /\ ptr.grab.x \in Int /\ ptr.grab.pane \in Int /\ ptr.drag.startX \in Int
    BY DEF PtInv, Grabbed
  <2> QED
    BY <2>1, <2>2
<1> QED
  BY <1>1, PtAlways, PTL

\* A press of the left button is a click or a drag, never both (_onMouseClick asks
\* whether L.Draggable or the box moved, _onDown resets that), and a touch of one
\* finger clicks at most once, when it ends or when the timer of a held touch
\* fires, whichever is first, and double-clicks at most once.
THEOREM PressClicksOrDrags == PtSpec => ClickOrDrag
<1>1. PointerInv /\ [PtNext]_ptVars =>
        [/\ ptr'.clicked /\ "left" \in ptr.held \ ptr'.held =>
                ~ptr.went \/ ptr.again \/ ptr.lost
         /\ ptr'.taps > ptr.taps => (ptr.taps = 0 /\ ~ptr.joined) \/ ptr.lost
         /\ ptr'.dbls > ptr.dbls => ptr.dbls = 0 \/ ptr.joined \/ ptr.lost]_ptVars
  <2> SUFFICES ASSUME PtInv(ptr), [PtNext]_ptVars, ptr' # ptr
               PROVE  Clicks(ptr, ptr')
    BY DEF Clicks, ptVars, PointerInv
  <2> QED
    BY PtStepKeeps
<1> QED
  BY <1>1, PtAlways, PTL DEF PtSpec, ClickOrDrag

-------------------------------------------------------------------------------
(* The markers, the location control and the view.                          *)

OvState ==
  [group : SUBSET Markers, layers : SUBSET Markers, shown : SUBSET Markers,
   isOpen : [Markers -> BOOLEAN], popup : Markers \cup {NoMarker}, bound : SUBSET Markers,
   at : [Markers -> Sites], popupAt : [Markers -> Sites], dragged : Markers \cup {NoMarker},
   deleting : BOOLEAN, deleted : SUBSET Markers, editing : BOOLEAN,
   backup : [Markers -> Sites] \cup {<<>>}]

\* PopupsAgree of any state of the markers, and what it rests on: only a marker
\* with a popup shows one, and the edit mode has places to go back to.
Agree(o) ==
  /\ o \in OvState
  /\ o.shown = IF o.popup = NoMarker THEN {} ELSE {o.popup}
  /\ \A m \in Markers : o.isOpen[m] <=> m \in o.shown
  /\ o.shown \subseteq o.layers /\ o.layers = o.group /\ o.shown \subseteq o.bound
  /\ \A m \in o.shown : o.popupAt[m] = o.at[m]
  /\ o.editing => o.backup \in [Markers -> Sites]

LEMMA AgreeIsInv == Agree(ovl) => PopupsAgree
<1> SUFFICES ASSUME Agree(ovl) PROVE PopupsAgree
  OBVIOUS
<1>1. ovl.shown = {m \in Markers : ovl.isOpen[m]}
  BY DEF Agree, OvState
<1> QED
  BY <1>1 DEF Agree, PopupsAgree

LEMMA InitAgrees == OvInit => Agree(ovl)
<1> SUFFICES ASSUME OvInit PROVE Agree(ovl)
  OBVIOUS
<1>1. StartSite \in Sites
  BY SitesAssumption DEF StartSite
<1>2. ovl \in OvState
  BY <1>1 DEF OvInit, OvState
<1> QED
  BY <1>2 DEF OvInit, Agree

\* Closing the popup that is shown leaves none.
LEMMA CloseLeavesNone ==
  ASSUME NEW o, Agree(o), NEW m \in o.shown
  PROVE  PopupClose(o, m) = [o EXCEPT !.popup = NoMarker, !.shown = {}, !.isOpen[m] = FALSE]
<1> USE NoMarkerAssumption
<1>1. m \in Markers /\ o.popup = m /\ o.shown = {m} /\ o \in OvState /\ m # NoMarker
  BY DEF Agree, OvState
<1>2. MapClosePopup(o, m) = Closed(PopupRemoved([o EXCEPT !.popup = NoMarker], m), m)
  BY <1>1 DEF MapClosePopup
<1>3. PopupRemoved([o EXCEPT !.popup = NoMarker], m)
        = [o EXCEPT !.popup = NoMarker, !.shown = {}]
  BY <1>1 DEF PopupRemoved, OvState
<1> QED
  BY <1>1, <1>2, <1>3 DEF PopupClose, Closed, OvState

\* What is left after a popup was closed, or was not open.
NoneAt(o, c, m) ==
  /\ Agree(c) /\ m \notin c.shown /\ c.shown \subseteq o.shown
  /\ c.layers = o.layers /\ c.group = o.group /\ c.bound = o.bound /\ c.at = o.at
  /\ c.editing = o.editing /\ c.backup = o.backup /\ c.deleted = o.deleted

LEMMA CloseAgrees ==
  ASSUME NEW o, Agree(o), NEW m \in Markers
  PROVE  NoneAt(o, PopupClose(o, m), m)
<1> USE NoMarkerAssumption
<1>1. CASE m \in o.shown
  <2> DEFINE c == [o EXCEPT !.popup = NoMarker, !.shown = {}, !.isOpen[m] = FALSE]
  <2>1. PopupClose(o, m) = c
    BY <1>1, CloseLeavesNone
  <2>2. c \in OvState /\ c.popup = NoMarker /\ c.shown = {}
        /\ c.isOpen = [o.isOpen EXCEPT ![m] = FALSE]
    BY DEF Agree, OvState
  <2>3. \A w \in Markers : ~c.isOpen[w]
    BY <1>1, <2>2 DEF Agree, OvState
  <2>4. /\ c.layers = o.layers /\ c.group = o.group /\ c.bound = o.bound /\ c.at = o.at
        /\ c.editing = o.editing /\ c.backup = o.backup /\ c.deleted = o.deleted
    BY DEF Agree, OvState
  <2> HIDE DEF c
  <2> QED
    BY <2>1, <2>2, <2>3, <2>4 DEF NoneAt, Agree
<1>2. CASE m \notin o.shown
  BY <1>2 DEF PopupClose, NoneAt
<1> QED
  BY <1>1, <1>2

\* Opening a popup closes the one that is shown.
LEMMA OpenAgrees ==
  ASSUME NEW o, Agree(o), NEW m \in o.bound
  PROVE  /\ Agree(OpenPopup(o, m))
         /\ OpenPopup(o, m).group = o.group /\ OpenPopup(o, m).layers = o.layers
         /\ OpenPopup(o, m).deleted = o.deleted
<1> USE NoMarkerAssumption
<1>1. CASE m \in o.layers /\ m \notin o.shown
  <2> DEFINE p == [o EXCEPT !.popupAt[m] = o.at[m]]
             c == MapClosePopup(p, NoMarker)
             r == PopupAdded([c EXCEPT !.isOpen[m] = TRUE, !.popup = m], m)
  <2>1. m \in Markers
    BY DEF Agree, OvState
  <2>2. Agree(p) /\ p.popupAt[m] = p.at[m] /\ p.shown = o.shown /\ p.bound = o.bound
        /\ p.layers = o.layers /\ p.group = o.group /\ p.deleted = o.deleted
    <3>1. p \in OvState /\ p.shown = o.shown /\ p.bound = o.bound /\ p.layers = o.layers
          /\ p.group = o.group /\ p.deleted = o.deleted /\ p.at = o.at /\ p.popup = o.popup
          /\ p.isOpen = o.isOpen /\ p.editing = o.editing /\ p.backup = o.backup
          /\ p.popupAt = [o.popupAt EXCEPT ![m] = o.at[m]]
      BY <2>1 DEF Agree, OvState
    <3>2. p.popupAt[m] = o.at[m] /\ \A w \in o.shown : p.popupAt[w] = o.popupAt[w]
      BY <1>1, <2>1, <3>1 DEF Agree, OvState
    <3> HIDE DEF p
    <3> QED
      BY <3>1, <3>2 DEF Agree
  <2>3. /\ Agree(c) /\ c.shown = {} /\ c.popup = NoMarker
        /\ c.layers = o.layers /\ c.group = o.group /\ c.bound = o.bound
        /\ c.deleted = o.deleted /\ c.popupAt[m] = c.at[m]
    <3> HIDE DEF p
    <3>1. CASE p.popup = NoMarker
      BY <2>2, <3>1 DEF MapClosePopup, Agree
    <3>2. CASE p.popup # NoMarker
      <4>1. p.popup \in p.shown
        BY <2>2, <3>2 DEF Agree
      <4>2. c = PopupClose(p, p.popup)
        BY <3>2, <4>1 DEF PopupClose, MapClosePopup
      <4>3. c = [p EXCEPT !.popup = NoMarker, !.shown = {}, !.isOpen[p.popup] = FALSE]
        BY <2>2, <4>1, <4>2, CloseLeavesNone
      <4>4. p.popup \in Markers /\ p \in OvState
        BY <2>2, <3>2 DEF Agree, OvState
      <4>5. NoneAt(p, c, p.popup)
        BY <2>2, <4>2, <4>4, CloseAgrees
      <4>6. c.shown = {} /\ c.popup = NoMarker /\ c.popupAt = p.popupAt
        BY <4>3, <4>4 DEF OvState
      <4> QED
        BY <2>2, <4>5, <4>6 DEF NoneAt
    <3> QED
      BY <3>1, <3>2
  <2>4. OpenPopup(o, m) = r
    BY <1>1 DEF OpenPopup, MapOpenPopup
  <2> HIDE DEF c, p
  <2>5. c \in OvState
    BY <2>3 DEF Agree
  <2>6. r = [c EXCEPT !.isOpen[m] = TRUE, !.popup = m, !.shown = {m}]
    BY <2>3, <2>5 DEF PopupAdded, OvState
  <2> HIDE DEF r
  <2>7. /\ r \in OvState /\ r.popup = m /\ r.shown = {m}
        /\ r.isOpen = [c.isOpen EXCEPT ![m] = TRUE]
        /\ r.layers = c.layers /\ r.group = c.group /\ r.bound = c.bound
        /\ r.deleted = c.deleted /\ r.popupAt = c.popupAt /\ r.at = c.at
        /\ r.editing = c.editing /\ r.backup = c.backup
    BY <2>1, <2>5, <2>6 DEF OvState
  <2>8. \A w \in Markers : r.isOpen[w] <=> w = m
    BY <2>1, <2>3, <2>5, <2>7 DEF Agree, OvState
  <2>9. m \in o.layers /\ m # NoMarker
    BY <1>1, <2>1
  <2>10. Agree(r)
    BY <2>1, <2>3, <2>7, <2>8, <2>9 DEF Agree
  <2> QED
    BY <2>3, <2>4, <2>7, <2>10
<1>2. CASE ~(m \in o.layers /\ m \notin o.shown)
  <2>1. OpenPopup(o, m) = o
    BY <1>2 DEF OpenPopup
  <2> QED
    BY <2>1
<1> QED
  BY <1>1, <1>2

LEMMA ToggleAgrees ==
  ASSUME NEW o, Agree(o), NEW m \in Markers
  PROVE  /\ Agree(TogglePopup(o, m))
         /\ TogglePopup(o, m).group = o.group /\ TogglePopup(o, m).layers = o.layers
<1>1. CASE m \notin o.bound
  BY <1>1 DEF TogglePopup
<1>2. CASE m \in o.bound /\ o.isOpen[m]
  BY <1>2, CloseAgrees DEF TogglePopup, NoneAt
<1>3. CASE m \in o.bound /\ ~o.isOpen[m]
  BY <1>3, OpenAgrees DEF TogglePopup
<1> QED
  BY <1>1, <1>2, <1>3

\* A marker comes into the group and onto the map, and goes from both, with its
\* popup.
LEMMA AddAgrees ==
  ASSUME NEW o, Agree(o), NEW m \in Markers
  PROVE  Agree(GroupAdd(o, m))
<1>1. CASE m \in o.group
  BY <1>1 DEF GroupAdd
<1>2. CASE m \notin o.group
  <2> DEFINE r == [o EXCEPT !.group = @ \cup {m}, !.layers = @ \cup {m}]
  <2>1. GroupAdd(o, m) = r
    BY <1>2 DEF GroupAdd, LayerGroupAdd, MapAdd, Agree, OvState
  <2>2. /\ r \in OvState /\ r.group = o.group \cup {m} /\ r.layers = o.layers \cup {m}
        /\ r.shown = o.shown /\ r.popup = o.popup /\ r.isOpen = o.isOpen /\ r.bound = o.bound
        /\ r.popupAt = o.popupAt /\ r.at = o.at
        /\ r.editing = o.editing /\ r.backup = o.backup
    BY DEF Agree, OvState
  <2> HIDE DEF r
  <2> QED
    BY <2>1, <2>2 DEF Agree
<1> QED
  BY <1>1, <1>2

LEMMA RemoveAgrees ==
  ASSUME NEW o, Agree(o), NEW m \in Markers
  PROVE  Agree(GroupRemove(o, m))
<1>1. CASE m \notin o.group
  BY <1>1 DEF GroupRemove
<1>2. CASE m \in o.group
  <2> DEFINE c == MarkerRemoved(o, m)
             r == [c EXCEPT !.layers = @ \ {m}, !.group = @ \ {m}]
  <2>1. NoneAt(o, c, m)
    <3>1. CASE m \in o.bound
      BY <3>1, CloseAgrees DEF MarkerRemoved
    <3>2. CASE m \notin o.bound
      BY <3>2 DEF MarkerRemoved, NoneAt, Agree
    <3> QED
      BY <3>1, <3>2
  <2> HIDE DEF c
  <2>2. Agree(c) /\ m \notin c.shown /\ c \in OvState
    BY <2>1 DEF NoneAt, Agree
  <2>3. m \in o.layers
    BY <1>2 DEF Agree
  <2>4. GroupRemove(o, m) = r
    BY <1>2, <2>2, <2>3 DEF GroupRemove, LayerGroupRemove, MapRemove, OvState, c
  <2>5. /\ r \in OvState /\ r.group = c.group \ {m} /\ r.layers = c.layers \ {m}
        /\ r.shown = c.shown /\ r.popup = c.popup /\ r.isOpen = c.isOpen /\ r.bound = c.bound
        /\ r.popupAt = c.popupAt /\ r.at = c.at
        /\ r.editing = c.editing /\ r.backup = c.backup
    BY <2>2 DEF OvState
  <2> HIDE DEF r
  <2> QED
    BY <2>2, <2>4, <2>5 DEF Agree
<1> QED
  BY <1>1, <1>2

\* A change of the rest of the state, in which every marker shown keeps its
\* popup where it is.
LEMMA RestAgrees ==
  ASSUME NEW o, Agree(o), NEW r \in OvState,
         r.shown = o.shown, r.popup = o.popup, r.isOpen = o.isOpen,
         r.layers = r.group, o.layers \subseteq r.layers, o.bound \subseteq r.bound,
         \A m \in o.shown : r.popupAt[m] = r.at[m],
         r.editing => r.backup \in [Markers -> Sites]
  PROVE  Agree(r)
BY DEF Agree

LEMMA DrawAgrees ==
  ASSUME Agree(ovl), NEW m \in Markers, NEW site \in Sites, DrawMarker(m, site)
  PROVE  Agree(ovl)'
<1> DEFINE r == [ovl EXCEPT !.bound = @ \cup {m}, !.at[m] = site]
<1>1. ovl' = GroupAdd(r, m) /\ m \notin ovl.bound /\ ovl \in OvState
  BY DEF DrawMarker, Agree
<1>2. /\ r \in OvState /\ r.shown = ovl.shown /\ r.popup = ovl.popup /\ r.isOpen = ovl.isOpen
      /\ r.layers = ovl.layers /\ r.group = ovl.group /\ r.bound = ovl.bound \cup {m}
      /\ r.popupAt = ovl.popupAt /\ r.at = [ovl.at EXCEPT ![m] = site]
      /\ r.editing = ovl.editing /\ r.backup = ovl.backup
  BY <1>1 DEF OvState
<1>3. \A w \in ovl.shown : r.at[w] = ovl.at[w]
  BY <1>1, <1>2 DEF Agree, OvState
<1> HIDE DEF r
<1>4. Agree(r)
  BY <1>2, <1>3 DEF Agree
<1>5. Agree(GroupAdd(r, m))
  BY <1>4, AddAgrees
<1> QED
  BY <1>1, <1>5 DEF Agree

LEMMA ClickMarkerAgrees ==
  ASSUME Agree(ovl), NEW m \in Markers, ClickMarker(m)
  PROVE  Agree(ovl)'
<1> DEFINE o == TogglePopup(ovl, m)
           d == [o EXCEPT !.deleted = @ \cup {m}]
<1>1. ovl' = IF o.deleting THEN GroupRemove(d, m) ELSE o
  BY DEF ClickMarker
<1>2. Agree(o)
  BY ToggleAgrees
<1> HIDE DEF o
<1>3. /\ d \in OvState /\ d.shown = o.shown /\ d.popup = o.popup /\ d.isOpen = o.isOpen
      /\ d.layers = o.layers /\ d.group = o.group /\ d.bound = o.bound
      /\ d.popupAt = o.popupAt /\ d.at = o.at
      /\ d.editing = o.editing /\ d.backup = o.backup
  BY <1>2 DEF Agree, OvState
<1> HIDE DEF d
<1>4. Agree(d)
  BY <1>2, <1>3 DEF Agree
<1>5. Agree(GroupRemove(d, m))
  BY <1>4, RemoveAgrees
<1>6. Agree(ovl') 
  BY <1>1, <1>2, <1>5
<1> QED
  BY <1>6 DEF Agree

LEMMA ClickMapAgrees ==
  ASSUME Agree(ovl), ClickMap
  PROVE  Agree(ovl)'
<1>1. ovl \in OvState /\ NoMarker \notin Markers
  BY NoMarkerAssumption DEF Agree
<1>2. ovl' = [ovl EXCEPT !.shown = {},
                         !.isOpen = [m \in Markers |-> ovl.isOpen[m] /\ m \notin ovl.shown],
                         !.popup = IF @ \in ovl.shown THEN NoMarker ELSE @]
  BY <1>1 DEF ClickMap, OvState
<1>3. /\ ovl' \in OvState /\ ovl'.shown = {} /\ ovl'.popup = NoMarker
      /\ ovl'.isOpen = [m \in Markers |-> ovl.isOpen[m] /\ m \notin ovl.shown]
      /\ ovl'.layers = ovl.layers /\ ovl'.group = ovl.group /\ ovl'.bound = ovl.bound
      /\ ovl'.editing = ovl.editing /\ ovl'.backup = ovl.backup
  BY <1>1, <1>2 DEF Agree, OvState
<1>4. \A m \in Markers : ~ovl'.isOpen[m]
  BY <1>3 DEF Agree
<1> QED
  BY <1>3, <1>4 DEF Agree

LEMMA DragAgrees ==
  ASSUME Agree(ovl), NEW m \in Markers, DragMarker(m)
  PROVE  Agree(ovl)'
<1> DEFINE c == IF m \in ovl.bound THEN PopupClose(ovl, m) ELSE ovl
<1>1. ovl' = [c EXCEPT !.dragged = m]
  BY DEF DragMarker
<1>2. Agree(c)
  BY CloseAgrees DEF NoneAt
<1> HIDE DEF c
<1>3. c \in OvState
  BY <1>2 DEF Agree
<1>4. /\ ovl' \in OvState /\ ovl'.shown = c.shown /\ ovl'.popup = c.popup
      /\ ovl'.isOpen = c.isOpen /\ ovl'.layers = c.layers /\ ovl'.group = c.group
      /\ ovl'.bound = c.bound /\ ovl'.popupAt = c.popupAt /\ ovl'.at = c.at
      /\ ovl'.editing = c.editing /\ ovl'.backup = c.backup
  BY <1>1, <1>3 DEF OvState
<1> QED
  BY <1>2, <1>4 DEF Agree

LEMMA DraggedAgrees ==
  ASSUME Agree(ovl), NEW site \in Sites, MarkerDragged(site)
  PROVE  Agree(ovl)'
<1> DEFINE m == ovl.dragged
<1>1. m \in Markers /\ ovl \in OvState
  BY DEF MarkerDragged, Agree, OvState
<1>2. ovl' = [ovl EXCEPT !.at[m] = site, !.popupAt[m] = IF m \in ovl.bound THEN site ELSE @]
  BY DEF MarkerDragged, Moved
<1>3. /\ ovl' \in OvState /\ ovl'.shown = ovl.shown /\ ovl'.popup = ovl.popup
      /\ ovl'.isOpen = ovl.isOpen /\ ovl'.layers = ovl.layers /\ ovl'.group = ovl.group
      /\ ovl'.bound = ovl.bound /\ ovl'.editing = ovl.editing /\ ovl'.backup = ovl.backup
      /\ ovl'.at = [ovl.at EXCEPT ![m] = site]
      /\ ovl'.popupAt = [ovl.popupAt EXCEPT ![m] = IF m \in ovl.bound THEN site ELSE @]
  BY <1>1, <1>2 DEF OvState
<1>4. \A w \in ovl.shown : ovl'.popupAt[w] = ovl'.at[w]
  BY <1>1, <1>3 DEF Agree, OvState
<1> QED
  BY <1>3, <1>4 DEF Agree

LEMMA EditAgrees ==
  ASSUME Agree(ovl), EditMode
  PROVE  Agree(ovl)'
<1>1. ovl' = [ovl EXCEPT !.editing = TRUE, !.backup = ovl.at] /\ ovl \in OvState
  BY DEF EditMode, Agree
<1>2. /\ ovl' \in OvState /\ ovl'.shown = ovl.shown /\ ovl'.popup = ovl.popup
      /\ ovl'.isOpen = ovl.isOpen /\ ovl'.layers = ovl.layers /\ ovl'.group = ovl.group
      /\ ovl'.bound = ovl.bound /\ ovl'.popupAt = ovl.popupAt /\ ovl'.at = ovl.at
      /\ ovl'.backup \in [Markers -> Sites]
  BY <1>1 DEF OvState
<1> QED
  BY <1>2 DEF Agree

LEMMA LeaveEditAgrees ==
  ASSUME Agree(ovl), NEW restore \in BOOLEAN, LeaveEditMode(restore)
  PROVE  Agree(ovl)'
<1> DEFINE back == IF restore
                   THEN [ovl EXCEPT !.at = ovl.backup,
                                    !.popupAt = [m \in Markers |->
                                      IF m \in ovl.bound THEN ovl.backup[m] ELSE ovl.popupAt[m]]]
                   ELSE ovl
<1>1. ovl \in OvState /\ ovl.backup \in [Markers -> Sites]
  BY DEF Agree, LeaveEditMode
<1>2. ovl' = [back EXCEPT !.editing = FALSE, !.backup = <<>>, !.dragged = NoMarker]
  BY <1>1 DEF LeaveEditMode, OvState
<1>3. /\ back \in OvState /\ back.shown = ovl.shown /\ back.popup = ovl.popup
      /\ back.isOpen = ovl.isOpen /\ back.layers = ovl.layers /\ back.group = ovl.group
      /\ back.bound = ovl.bound
      /\ \A m \in ovl.shown : back.popupAt[m] = back.at[m]
  BY <1>1 DEF Agree, OvState
<1> HIDE DEF back
<1>4. /\ ovl' \in OvState /\ ovl'.shown = ovl.shown /\ ovl'.popup = ovl.popup
      /\ ovl'.isOpen = ovl.isOpen /\ ovl'.layers = ovl.layers /\ ovl'.group = ovl.group
      /\ ovl'.bound = ovl.bound /\ ovl'.popupAt = back.popupAt /\ ovl'.at = back.at
      /\ ~ovl'.editing
  BY <1>2, <1>3 DEF OvState
<1> QED
  BY <1>3, <1>4 DEF Agree

LEMMA LeaveDeleteAgrees ==
  ASSUME Agree(ovl), NEW restore \in BOOLEAN, LeaveDeleteMode(restore)
  PROVE  Agree(ovl)'
<1> DEFINE back == IF restore
                   THEN [ovl EXCEPT !.group = @ \cup ovl.deleted,
                                    !.layers = @ \cup (ovl.deleted \ ovl.group)]
                   ELSE ovl
<1>1. ovl \in OvState /\ ovl.layers = ovl.group
  BY DEF Agree
<1>2. ovl' = [back EXCEPT !.deleting = FALSE, !.deleted = {}]
  BY DEF LeaveDeleteMode
<1>3. /\ back \in OvState /\ back.shown = ovl.shown /\ back.popup = ovl.popup
      /\ back.isOpen = ovl.isOpen /\ back.layers = back.group /\ ovl.layers \subseteq back.layers
      /\ back.bound = ovl.bound /\ back.popupAt = ovl.popupAt /\ back.at = ovl.at
      /\ back.editing = ovl.editing /\ back.backup = ovl.backup
  BY <1>1 DEF OvState
<1> HIDE DEF back
<1>4. /\ ovl' \in OvState /\ ovl'.shown = back.shown /\ ovl'.popup = back.popup
      /\ ovl'.isOpen = back.isOpen /\ ovl'.layers = back.layers /\ ovl'.group = back.group
      /\ ovl'.bound = back.bound /\ ovl'.popupAt = back.popupAt /\ ovl'.at = back.at
      /\ ovl'.editing = back.editing /\ ovl'.backup = back.backup
  BY <1>2, <1>3 DEF OvState
<1> QED
  BY <1>3, <1>4 DEF Agree

\* The end of a drag and the begin of the delete mode change nothing of it.
LEMMA OtherAgrees ==
  ASSUME Agree(ovl), DragEnd \/ DeleteMode
  PROVE  Agree(ovl)'
<1>1. ovl \in OvState
  BY DEF Agree
<1>2. /\ ovl' \in OvState /\ ovl'.shown = ovl.shown /\ ovl'.popup = ovl.popup
      /\ ovl'.isOpen = ovl.isOpen /\ ovl'.layers = ovl.layers /\ ovl'.group = ovl.group
      /\ ovl'.bound = ovl.bound /\ ovl'.popupAt = ovl.popupAt /\ ovl'.at = ovl.at
      /\ ovl'.editing = ovl.editing /\ ovl'.backup = ovl.backup
  BY <1>1 DEF DragEnd, DeleteMode, OvState
<1> QED
  BY <1>2 DEF Agree

LEMMA NextAgrees == Agree(ovl) /\ [OvNext]_ovVars => Agree(ovl)'
<1> SUFFICES ASSUME Agree(ovl), [OvNext]_ovVars PROVE Agree(ovl)'
  OBVIOUS
<1>1. ASSUME NEW m \in Markers, NEW site \in Sites, DrawMarker(m, site) PROVE Agree(ovl)'
  BY <1>1, DrawAgrees
<1>2. ASSUME NEW m \in Markers, ClickMarker(m) PROVE Agree(ovl)'
  BY <1>2, ClickMarkerAgrees
<1>3. ASSUME NEW m \in Markers, CloseButton(m) PROVE Agree(ovl)'
  <2>1. Agree(PopupClose(ovl, m))
    BY CloseAgrees DEF NoneAt
  <2> QED
    BY <1>3, <2>1 DEF CloseButton, Agree
<1>4. ASSUME NEW m \in Markers, DragMarker(m) PROVE Agree(ovl)'
  BY <1>4, DragAgrees
<1>5. ASSUME NEW site \in Sites, MarkerDragged(site) PROVE Agree(ovl)'
  BY <1>5, DraggedAgrees
<1>6. CASE ClickMap
  BY <1>6, ClickMapAgrees
<1>7. CASE EditMode
  BY <1>7, EditAgrees
<1>8. ASSUME NEW restore \in BOOLEAN, LeaveEditMode(restore) PROVE Agree(ovl)'
  BY <1>8, LeaveEditAgrees
<1>9. ASSUME NEW restore \in BOOLEAN, LeaveDeleteMode(restore) PROVE Agree(ovl)'
  BY <1>9, LeaveDeleteAgrees
<1>10. CASE DragEnd \/ DeleteMode
  BY <1>10, OtherAgrees
<1>11. CASE UNCHANGED ovl
  BY <1>11 DEF Agree
<1> QED
  BY <1>1, <1>2, <1>3, <1>4, <1>5, <1>6, <1>7, <1>8, <1>9, <1>10, <1>11
     DEF OvNext, MarkersNext, ovVars

\* At most one popup is open, in every place it is kept in, on a marker that is
\* on the map and where that marker is: through clicks, drags, edits, deletions
\* and what is taken back of them.
THEOREM PopupsAlwaysAgree == OvSpec => []PopupsAgree
<1>1. Agree(ovl) => PopupsAgree
  BY AgreeIsInv
<1> QED
  BY InitAgrees, NextAgrees, <1>1, PTL DEF OvSpec

-------------------------------------------------------------------------------
\* The layers control.

LEMMA Inputs ==
  /\ Len(BaseLayers) \in Nat /\ DOMAIN BaseLayers = 1..Len(BaseLayers)
  /\ \A i \in 1..Len(BaseLayers) : BaseLayers[i] \in Range(BaseLayers)
  /\ \A base \in Range(BaseLayers) : \E i \in 1..Len(BaseLayers) : base = BaseLayers[i]
<1>1. BaseLayers \in Seq(Range(BaseLayers))
  BY BaseLayersAssumption
<1>2. Len(BaseLayers) \in Nat /\ DOMAIN BaseLayers = 1..Len(BaseLayers)
  BY <1>1
<1> QED
  BY <1>2 DEF Range

\* The control while a click is handled.
Handling ==
  [bases : SUBSET Range(BaseLayers), checked : Range(BaseLayers), handling : {TRUE},
   expanded : BOOLEAN, timers : Nat]

\* One input turns its layer on or off, as it is set or not.
LEMMA OneInputDoes ==
  ASSUME NEW c \in Handling, NEW base \in Range(BaseLayers)
  PROVE  /\ OneInput(c, base) \in Handling
         /\ OneInput(c, base)
              = [c EXCEPT !.bases = IF base = c.checked THEN @ \cup {base} ELSE @ \ {base}]
BY DEF OneInput, OnLayerChange, Handling

\* All the inputs in their order: the fold of a click takes them one by one.
InputStep == [p \in Handling \X (1..Len(BaseLayers)) |-> OneInput(p[1], BaseLayers[p[2]])]

InputTable(t, c) ==
  t = [s \in SUBSET (DOMAIN BaseLayers) |->
         IF s = {} THEN c ELSE OneInput(t[s \ {Max(s)}], BaseLayers[Max(s)])]

LEMMA InputStepIsStep == InputStep \in [Handling \X (1..Len(BaseLayers)) -> Handling]
BY Inputs, OneInputDoes DEF InputStep

LEMMA InputTableExists ==
  ASSUME NEW c \in Handling
  PROVE  \E t : InputTable(t, c)
<1> DEFINE n == Len(BaseLayers)
<1>1. HasTable(InputStep, c, Handling, n)
  BY InputStepIsStep, Inputs, TableExists
<1>2. PICK t \in [SUBSET (1..n) -> Handling] : Table(t, InputStep, c, n)
  BY <1>1 DEF HasTable
<1>3. ASSUME NEW s \in SUBSET (1..n), s # {}
      PROVE  InputStep[<<t[s \ {Max(s)}], Max(s)>>]
               = OneInput(t[s \ {Max(s)}], BaseLayers[Max(s)])
  <2>1. Max(s) \in 1..n /\ t[s \ {Max(s)}] \in Handling
    BY <1>3, Inputs, MaxOfNumbers
  <2> QED
    BY <2>1 DEF InputStep
<1>4. t = [s \in SUBSET (1..n) |->
             IF s = {} THEN c ELSE OneInput(t[s \ {Max(s)}], BaseLayers[Max(s)])]
  BY <1>2, <1>3 DEF Table
<1> QED
  BY <1>4, Inputs DEF InputTable

LEMMA InputsFold ==
  ASSUME NEW c \in Handling
  PROVE  \E made \in [0..Len(BaseLayers) -> Handling] :
           /\ made[0] = c /\ FoldLeft(OneInput, c, BaseLayers) = made[Len(BaseLayers)]
           /\ \A k \in 1..Len(BaseLayers) : made[k] = OneInput(made[k - 1], BaseLayers[k])
<1> DEFINE n == Len(BaseLayers)
           t == CHOOSE t : InputTable(t, c)
<1>1. InputTable(t, c)
  BY InputTableExists
<1>2. FoldLeft(OneInput, c, BaseLayers) = t[1..n]
  BY Inputs DEF FoldLeft, MapThenFoldSet, InputTable
<1> HIDE DEF t
<1>3. t[{}] = c
  BY <1>1 DEF InputTable
<1>4. ASSUME NEW k \in 1..n, t[1..k - 1] \in Handling
      PROVE  t[1..k] = InputStep[<<t[1..k - 1], k>>]
  <2>1. (1..k) \in SUBSET (1..n) /\ 1..k # {} /\ Max(1..k) = k /\ (1..k) \ {k} = 1..k - 1
    BY Inputs, TableRow
  <2>2. t[1..k] = OneInput(t[1..k - 1], BaseLayers[k])
    BY <1>1, <2>1, Inputs DEF InputTable
  <2> QED
    BY <1>4, <2>2 DEF InputStep
<1>5. PICK made \in [0..n -> Handling] : StepsFrom(made, InputStep, c, n) /\ made[n] = t[1..n]
  <2>1. Unfolds(t, InputStep, Handling, c, n)
    BY <1>3, <1>4 DEF Unfolds
  <2>2. HasSteps(InputStep, Handling, c, n, t[1..n])
    BY <2>1, Inputs, InputStepIsStep, StepsOfTable
  <2> QED
    BY <2>2 DEF HasSteps
<1>6. \A k \in 1..n : made[k] = OneInput(made[k - 1], BaseLayers[k])
  BY <1>5, Inputs, TableRow DEF StepsFrom, InputStep
<1> QED
  BY <1>2, <1>5, <1>6 DEF StepsFrom

\* After k inputs: the layers of these are on the map as they are set.
Made(c, d, k) ==
  /\ d \in Handling /\ d.checked = c.checked /\ d.expanded = c.expanded /\ d.timers = c.timers
  /\ \A base \in Range(BaseLayers) :
       base \in d.bases <=> IF \E i \in 1..k : BaseLayers[i] = base THEN base = c.checked
                             ELSE base \in c.bases

LEMMA OneInputMakes ==
  ASSUME NEW c \in Handling, NEW k \in Nat, k + 1 <= Len(BaseLayers), NEW d, Made(c, d, k)
  PROVE  Made(c, OneInput(d, BaseLayers[k + 1]), k + 1)
<1> DEFINE e == OneInput(d, BaseLayers[k + 1])
<1>1. BaseLayers[k + 1] \in Range(BaseLayers) /\ d \in Handling
  BY Inputs DEF Made
<1>2. /\ e \in Handling
      /\ e = [d EXCEPT !.bases = IF BaseLayers[k + 1] = d.checked THEN @ \cup {BaseLayers[k + 1]}
                                 ELSE @ \ {BaseLayers[k + 1]}]
  BY <1>1, OneInputDoes
<1> HIDE DEF e
<1>3. /\ e.checked = d.checked /\ e.expanded = d.expanded /\ e.timers = d.timers
      /\ e.bases = IF BaseLayers[k + 1] = d.checked THEN d.bases \cup {BaseLayers[k + 1]}
                   ELSE d.bases \ {BaseLayers[k + 1]}
  BY <1>1, <1>2 DEF Handling
<1>4. ASSUME NEW base \in Range(BaseLayers)
      PROVE  base \in e.bases <=> IF \E i \in 1..k + 1 : BaseLayers[i] = base
                                   THEN base = c.checked ELSE base \in c.bases
  <2>1. (\E i \in 1..k + 1 : BaseLayers[i] = base)
          <=> (BaseLayers[k + 1] = base \/ \E i \in 1..k : BaseLayers[i] = base)
    <3>1. \A i \in 1..k + 1 : i = k + 1 \/ i \in 1..k
      OBVIOUS
    <3>2. k + 1 \in 1..k + 1 /\ \A i \in 1..k : i \in 1..k + 1
      OBVIOUS
    <3> QED
      BY <3>1, <3>2
  <2>2. d.checked = c.checked
    BY DEF Made
  <2>3. base \in d.bases <=> IF \E i \in 1..k : BaseLayers[i] = base THEN base = c.checked
                              ELSE base \in c.bases
    BY DEF Made
  <2>4. CASE BaseLayers[k + 1] = base
    BY <1>3, <2>1, <2>2, <2>4
  <2>5. CASE BaseLayers[k + 1] # base
    BY <1>3, <2>1, <2>3, <2>5
  <2> QED
    BY <2>4, <2>5
<1>5. Made(c, e, k + 1)
  BY <1>2, <1>3, <1>4 DEF Made
<1> QED
  BY <1>5 DEF e

\* Whatever was on the map, the layer that is set is alone on it afterwards.
LEMMA InputsLeaveOne ==
  ASSUME NEW c \in Handling
  PROVE  FoldLeft(OneInput, c, BaseLayers) = [c EXCEPT !.bases = {c.checked}]
<1> DEFINE n == Len(BaseLayers)
<1>1. PICK made \in [0..n -> Handling] :
        /\ made[0] = c /\ FoldLeft(OneInput, c, BaseLayers) = made[n]
        /\ \A k \in 1..n : made[k] = OneInput(made[k - 1], BaseLayers[k])
  BY InputsFold
<1> DEFINE T == {k \in Nat : k <= n => Made(c, made[k], k)}
<1>2. 0 \in T
  BY <1>1 DEF Made
<1>3. ASSUME NEW k \in Nat, k \in T PROVE k + 1 \in T
  <2> SUFFICES ASSUME k + 1 <= n PROVE Made(c, made[k + 1], k + 1)
    OBVIOUS
  <2>1. k + 1 \in 1..n /\ (k + 1) - 1 = k /\ Made(c, made[k], k)
    BY <1>3, Inputs
  <2>2. made[k + 1] = OneInput(made[k], BaseLayers[k + 1])
    BY <1>1, <2>1
  <2> QED
    BY <2>1, <2>2, OneInputMakes
<1>4. Nat \subseteq T
  <2> HIDE DEF T
  <2> QED
    BY <1>2, <1>3, SetInduction
<1>5. Made(c, made[n], n)
  BY <1>4, Inputs
<1>6. made[n].bases = {c.checked}
  <2>1. \A base \in Range(BaseLayers) : base \in made[n].bases <=> base = c.checked
    BY <1>5, Inputs DEF Made
  <2>2. made[n].bases \subseteq Range(BaseLayers) /\ c.checked \in Range(BaseLayers)
    BY <1>5 DEF Made, Handling
  <2> QED
    BY <2>1, <2>2
<1>7. made[n] = [c EXCEPT !.bases = {c.checked}]
  BY <1>5, <1>6 DEF Made, Handling
<1> QED
  BY <1>1, <1>7

Control ==
  [bases : SUBSET Range(BaseLayers), checked : Range(BaseLayers), handling : {FALSE},
   expanded : BOOLEAN, timers : Nat]

CtlInv == ctl \in Control /\ BaseLayerAgrees

LEMMA ClickLeavesOne ==
  ASSUME NEW c \in Control
  PROVE  OnInputClick(c) = [c EXCEPT !.bases = {c.checked}]
<1> DEFINE h == [c EXCEPT !.handling = TRUE]
<1>1. h \in Handling /\ h.checked = c.checked
  BY DEF Handling, Control
<1>2. OnInputClick(c) = [FoldLeft(OneInput, h, BaseLayers) EXCEPT !.handling = FALSE]
  BY DEF OnInputClick
<1>3. FoldLeft(OneInput, h, BaseLayers) = [h EXCEPT !.bases = {h.checked}]
  <2> HIDE DEF h
  <2> QED
    BY <1>1, InputsLeaveOne
<1> QED
  BY <1>1, <1>2, <1>3 DEF Control

LEMMA ControlInit == OvInit => CtlInv
<1> SUFFICES ASSUME OvInit PROVE CtlInv
  OBVIOUS
<1> DEFINE on == {i \in DOMAIN BaseLayers : BaseLayers[i] \in {StartLayer}}
<1>1. on \in SUBSET (1..Len(BaseLayers)) /\ on # {}
  BY Inputs, BaseLayersAssumption
<1>2. Max(on) \in on
  <2> HIDE DEF on
  <2> QED
    BY <1>1, Inputs, MaxOfNumbers
<1>3. BaseLayers[Max(on)] = StartLayer
  BY <1>2
<1>4. ctl = [bases |-> {StartLayer}, checked |-> StartLayer, handling |-> FALSE,
             expanded |-> FALSE, timers |-> 0]
  BY <1>1, <1>3 DEF OvInit, UpdateInputs
<1> QED
  BY <1>4, BaseLayersAssumption DEF CtlInv, Control, BaseLayerAgrees

LEMMA ControlNextKeeps ==
  ASSUME CtlInv, [OvNext]_ovVars
  PROVE  CtlInv'
<1>1. ctl \in Control
  BY DEF CtlInv
<1>2. ASSUME NEW base \in Range(BaseLayers), ClickInput(base) PROVE CtlInv'
  <2> DEFINE c == [ctl EXCEPT !.checked = base]
  <2>1. c \in Control /\ c.checked = base
    BY <1>1 DEF Control
  <2>2. ctl' = [OnInputClick(c) EXCEPT !.timers = @ + 1]
    BY <1>2 DEF ClickInput
  <2>3. OnInputClick(c) = [c EXCEPT !.bases = {c.checked}]
    <3> HIDE DEF c
    <3> QED
      BY <2>1, ClickLeavesOne
  <2> HIDE DEF c
  <2> DEFINE n == c.timers + 1
  <2>4. ctl' = [c EXCEPT !.bases = {base}, !.timers = n] /\ n \in Nat
    BY <2>1, <2>2, <2>3 DEF Control
  <2> HIDE DEF n
  <2>5. ctl' \in Control /\ ctl'.bases = {base} /\ ctl'.checked = base
    BY <2>1, <2>4 DEF Control
  <2> QED
    BY <2>5 DEF CtlInv, BaseLayerAgrees
<1>3. CASE InputTimer
  <2>1. ctl' = [OnInputClick(ctl) EXCEPT !.timers = @ - 1] /\ ctl.timers > 0
    BY <1>3 DEF InputTimer
  <2>2. OnInputClick(ctl) = [ctl EXCEPT !.bases = {ctl.checked}]
    BY <1>1, ClickLeavesOne
  <2>3. ctl' = [ctl EXCEPT !.bases = {ctl.checked}, !.timers = ctl.timers - 1]
    BY <1>1, <2>1, <2>2 DEF Control
  <2>4. /\ ctl.timers - 1 \in Nat /\ {ctl.checked} \in SUBSET Range(BaseLayers)
    BY <1>1, <2>1 DEF Control
  <2>5. ctl' \in Control /\ ctl'.bases = {ctl.checked} /\ ctl'.checked = ctl.checked
    BY <1>1, <2>3, <2>4 DEF Control
  <2> QED
    BY <2>5 DEF CtlInv, BaseLayerAgrees
<1>4. ASSUME NEW is \in BOOLEAN, Expanded(is) PROVE CtlInv'
  BY <1>1, <1>4 DEF Expanded, CtlInv, Control, BaseLayerAgrees
<1>5. CASE UNCHANGED ctl
  BY <1>5 DEF CtlInv, BaseLayerAgrees
<1> QED
  BY <1>2, <1>3, <1>4, <1>5 DEF OvNext, ControlNext, ovVars

\* On the map and in the control is the same base layer, after any clicks on the
\* inputs and their timers; and what lies on the map agrees.
THEOREM OverlaysAlwaysAgree == OvSpec => []OverlaysAgree
<1>1. Agree(ovl) /\ CtlInv => OverlaysAgree
  BY AgreeIsInv DEF CtlInv, OverlaysAgree
<1> QED
  BY InitAgrees, NextAgrees, ControlInit, ControlNextKeeps, <1>1, PTL DEF OvSpec

\* Markers, popups and layers are of their kinds.
THEOREM OverlayTypeCorrect == OvSpec => []OvTypeOK
<1>1. Agree(ovl) /\ CtlInv => OvTypeOK
  BY DEF Agree, OvState, CtlInv, Control, OvTypeOK
<1> QED
  BY InitAgrees, NextAgrees, ControlInit, ControlNextKeeps, <1>1, PTL DEF OvSpec

-------------------------------------------------------------------------------
\* The location control.

LocState ==
  [supported : BOOLEAN, watch : BOOLEAN, view : Spots, active : BOOLEAN, onNext : BOOLEAN,
   event : Spots \cup {NoSpot}, button : {"", "requesting", "active"},
   circle : Spots \cup {NoSpot}, animating : BOOLEAN, to : Spots, ends : 0..MaxEnds,
   shows : Spots \cup {NoSpot}]

\* The flags, the button and the circle say the same.
FlagsAgree(l) ==
  /\ l.watch <=> l.active /\ l.supported
  /\ (l.button = "") <=> ~l.active
  /\ (l.button = "active") <=> l.circle # NoSpot
  /\ l.circle \in {NoSpot, l.event}

\* The location that was asked for is in view, or is what the zoom goes to.
Heading(l) ==
  l.shows # NoSpot => IF l.animating \/ l.ends > 0 THEN l.to = l.shows ELSE l.view = l.shows

\* Only the first location found moves the view.
FirstAwaited(l) == l.watch => (l.onNext <=> l.event = NoSpot)

Located(l) == l \in LocState /\ FlagsAgree(l) /\ Heading(l) /\ FirstAwaited(l)

LocInv == Located(loc)

LEMMA StateIsTyped == loc \in LocState => LoTypeOK
BY DEF LocState, LoTypeOK

LEMMA LocatedAgrees == LocInv => LocateAgrees
<1> SUFFICES ASSUME LocInv PROVE LocateAgrees
  OBVIOUS
<1>1. ~loc.animating /\ loc.ends = 0 /\ loc.shows # NoSpot => loc.view = loc.shows
  BY DEF LocInv, Located, Heading
<1> QED
  BY <1>1 DEF LocInv, Located, FlagsAgree, LocateAgrees

LEMMA InitLocates == LoInit => LocInv
<1> SUFFICES ASSUME LoInit PROVE LocInv
  OBVIOUS
<1> USE NoSpotAssumption, EndsAssumption
<1>1. PICK supported \in Supports, spot \in Spots :
        loc = ResetVariables(
                [supported |-> supported, watch |-> FALSE, view |-> spot,
                 active |-> FALSE, onNext |-> FALSE, event |-> NoSpot, button |-> "",
                 circle |-> NoSpot, animating |-> FALSE, to |-> spot, ends |-> 0,
                 shows |-> NoSpot])
  BY DEF LoInit
<1>2. supported \in BOOLEAN
  BY SupportsAssumption
<1>3. loc \in LocState
  <2>1. 0 \in 0..MaxEnds
    OBVIOUS
  <2> DEFINE Ends == 0..MaxEnds
  <2> HIDE DEF Ends
  <2>2. 0 \in Ends
    BY <2>1 DEF Ends
  <2>3. loc \in [supported : BOOLEAN, watch : BOOLEAN, view : Spots, active : BOOLEAN, onNext : BOOLEAN,
                 event : Spots \cup {NoSpot}, button : {"", "requesting", "active"},
                 circle : Spots \cup {NoSpot}, animating : BOOLEAN, to : Spots, ends : Ends,
                 shows : Spots \cup {NoSpot}]
    BY <1>1, <1>2, <2>2 DEF ResetVariables
  <2> QED
    BY <2>3 DEF LocState, Ends
<1> QED
  BY <1>1, <1>2, <1>3
     DEF ResetVariables, LocInv, Located, FlagsAgree, Heading, FirstAwaited

\* fitBounds leaves the control alone, and takes the view to the spot unless a
\* zoom overtakes it.
SameLocate(l, q) ==
  /\ q.supported = l.supported /\ q.watch = l.watch /\ q.active = l.active
  /\ q.onNext = l.onNext /\ q.event = l.event /\ q.button = l.button /\ q.circle = l.circle
  /\ q.shows = l.shows

LEMMA FitBoundsDoes ==
  ASSUME NEW l \in LocState, NEW spot \in Spots, NEW same \in BOOLEAN, NEW animated \in BOOLEAN,
         NEW q, q = FitBounds(l, spot, same, animated)
  PROVE  /\ q \in LocState /\ SameLocate(l, q)
         /\ ~Overtaken(l, same, animated) =>
              IF q.animating \/ q.ends > 0 THEN q.to = spot ELSE q.view = spot
<1> USE EndsAssumption
<1>1. CASE same \/ (~animated /\ ~l.animating)
  <2>1. q = [l EXCEPT !.view = spot]
    BY <1>1 DEF FitBounds
  <2> QED
    BY <1>1, <2>1 DEF LocState, SameLocate, Overtaken
<1>2. CASE ~(same \/ (~animated /\ ~l.animating)) /\ l.animating
  <2>1. q = l
    BY <1>2 DEF FitBounds
  <2> QED
    BY <1>2, <2>1 DEF SameLocate, Overtaken
<1>3. CASE ~(same \/ (~animated /\ ~l.animating)) /\ ~l.animating
  <2>1. q = [l EXCEPT !.animating = TRUE, !.to = spot]
    BY <1>3 DEF FitBounds
  <2> QED
    BY <2>1 DEF LocState, SameLocate
<1> QED
  BY <1>1, <1>2, <1>3

\* The result is shown: the circle, the button, and the view when that is due.
Visualized(l, q) ==
  /\ q \in LocState /\ Heading(q)
  /\ q.supported = l.supported /\ q.watch = l.watch /\ q.active = l.active
  /\ q.event = l.event /\ ~q.onNext /\ q.button = "active" /\ q.circle = l.event

Visualizing(l, same, animated) ==
  [VisualizeLocation(l, same, animated) EXCEPT !.shows = Shows(l, l.event, same, animated)]

LEMMA VisualizeShows ==
  ASSUME NEW l \in LocState, l.event # NoSpot, l.onNext,
         NEW same \in BOOLEAN, NEW animated \in BOOLEAN
  PROVE  Visualized(l, Visualizing(l, same, animated))
<1> DEFINE f == FitBounds(l, l.event, same, animated)
           shows == Shows(l, l.event, same, animated)
           e == l.event
           q == Visualizing(l, same, animated)
<1>1. l.event \in Spots
  BY DEF LocState
<1>2. /\ f \in LocState /\ SameLocate(l, f)
      /\ ~Overtaken(l, same, animated) =>
           IF f.animating \/ f.ends > 0 THEN f.to = l.event ELSE f.view = l.event
  BY <1>1, FitBoundsDoes
<1>3. q = [[f EXCEPT !.onNext = FALSE, !.circle = e, !.button = "active"]
             EXCEPT !.shows = shows]
  BY DEF Visualizing, VisualizeLocation
<1> HIDE DEF q
<1>4. shows \in Spots \cup {NoSpot} /\ (shows # NoSpot => ~Overtaken(l, same, animated) /\ shows = l.event)
  BY <1>1 DEF Shows
<1> HIDE DEF f, shows
<1>8. e \in Spots \cup {NoSpot} /\ shows \in Spots \cup {NoSpot} /\ e = l.event
  BY <1>1, <1>4
<1> HIDE DEF e
<1> DEFINE shown == [f EXCEPT !.onNext = FALSE, !.circle = e, !.button = "active"]
<1>9. /\ shown \in LocState /\ shown.supported = f.supported /\ shown.watch = f.watch
      /\ shown.active = f.active /\ shown.event = f.event /\ shown.animating = f.animating
      /\ shown.ends = f.ends /\ shown.to = f.to /\ shown.view = f.view
      /\ ~shown.onNext /\ shown.circle = e /\ shown.button = "active"
  BY <1>2, <1>8 DEF LocState
<1>10. q = [shown EXCEPT !.shows = shows]
  BY <1>3
<1> HIDE DEF shown
<1>5. q \in LocState
  BY <1>8, <1>9, <1>10 DEF LocState
<1>6. /\ q.supported = f.supported /\ q.watch = f.watch /\ q.active = f.active
      /\ q.event = f.event /\ ~q.onNext /\ q.button = "active" /\ q.circle = l.event
      /\ q.animating = f.animating /\ q.ends = f.ends /\ q.to = f.to /\ q.view = f.view
      /\ q.shows = shows
  BY <1>8, <1>9, <1>10 DEF LocState
<1>7. Heading(q)
  BY <1>2, <1>4, <1>6 DEF Heading
<1> QED
  BY <1>2, <1>5, <1>6, <1>7 DEF SameLocate, Visualized, q

\* Ending the watch, by the button or by an error.
LEMMA StopAgrees ==
  ASSUME NEW l, Located(l), NEW q, q = StopLocate(l)
  PROVE  Located(q)
<1> USE NoSpotAssumption
<1>1. q \in LocState
  BY DEF Located, LocState, StopLocate, MapStopLocate, ResetVariables
<1>2. /\ ~q.watch /\ ~q.active /\ q.button = "" /\ q.circle = NoSpot
      /\ q.animating = l.animating /\ q.ends = l.ends /\ q.to = l.to /\ q.view = l.view
      /\ q.shows = l.shows
  BY DEF Located, LocState, StopLocate, MapStopLocate, ResetVariables
<1> QED
  BY <1>1, <1>2 DEF Located, FlagsAgree, Heading, FirstAwaited

LEMMA ErrorAgrees ==
  ASSUME LocInv, NEW code \in 1..3, LocationError(code)
  PROVE  LocInv'
<1>1. CASE code = 3
  <2>1. loc' = loc
    BY <1>1 DEF LocationError, OnLocationError
  <2> QED
    BY <2>1 DEF LocInv
<1>2. CASE code # 3
  <2>1. loc' = StopLocate(loc)
    BY <1>2 DEF LocationError, OnLocationError
  <2> QED
    BY <2>1, StopAgrees DEF LocInv
<1> QED
  BY <1>1, <1>2

LEMMA FoundAgrees ==
  ASSUME LocInv, NEW spot \in Spots, NEW same \in BOOLEAN, NEW animated \in BOOLEAN,
         LocationFound(spot, same, animated)
  PROVE  LocInv'
<1> USE NoSpotAssumption
<1> DEFINE found == [loc EXCEPT !.active = TRUE, !.event = spot]
           shows == IF loc.event = NoSpot THEN Shows(loc, spot, same, animated) ELSE loc.shows
<1>1. loc.watch /\ loc.active /\ loc.supported /\ loc \in LocState
      /\ (loc.onNext <=> loc.event = NoSpot) /\ Heading(loc)
  BY DEF LocationFound, LocInv, Located, FlagsAgree, FirstAwaited
<1>2. /\ found \in LocState /\ found.active /\ found.event = spot /\ found.watch /\ found.supported
      /\ found.onNext = loc.onNext /\ found.animating = loc.animating /\ found.ends = loc.ends
      /\ found.to = loc.to /\ found.view = loc.view /\ found.shows = loc.shows
  BY <1>1 DEF LocState
<1>3. loc' = [VisualizeLocation(found, same, animated) EXCEPT
                !.shows = IF loc.event = NoSpot THEN Shows(loc, spot, same, animated) ELSE @]
  BY DEF LocationFound
<1> HIDE DEF found
<1>4. CASE loc.event = NoSpot
  <2>1. Shows(loc, spot, same, animated) = Shows(found, found.event, same, animated)
    BY <1>2 DEF Shows, Overtaken
  <2>2. loc' = Visualizing(found, same, animated)
    BY <1>3, <1>4, <2>1 DEF Visualizing
  <2>3. found.onNext /\ found.event # NoSpot
    BY <1>1, <1>2, <1>4
  <2>4. Visualized(found, loc')
    BY <1>2, <2>2, <2>3, VisualizeShows
  <2> QED
    BY <1>2, <2>4 DEF Visualized, LocInv, Located, FlagsAgree, FirstAwaited
<1>5. CASE loc.event # NoSpot
  <2>1. VisualizeLocation(found, same, animated)
          = [found EXCEPT !.onNext = FALSE, !.circle = spot, !.button = "active"]
    BY <1>1, <1>2, <1>5 DEF VisualizeLocation
  <2>2. loc' = [found EXCEPT !.onNext = FALSE, !.circle = spot, !.button = "active"]
    BY <1>2, <1>3, <1>5, <2>1 DEF LocState
  <2>3. /\ loc' \in LocState /\ loc'.watch /\ loc'.active /\ loc'.supported /\ ~loc'.onNext
        /\ loc'.event = spot /\ loc'.circle = spot /\ loc'.button = "active"
        /\ loc'.animating = loc.animating /\ loc'.ends = loc.ends /\ loc'.to = loc.to
        /\ loc'.view = loc.view /\ loc'.shows = loc.shows
    BY <1>2, <2>2 DEF LocState
  <2>4. Heading(loc')
    BY <1>1, <2>3 DEF Heading
  <2> QED
    BY <2>3, <2>4 DEF LocInv, Located, FlagsAgree, FirstAwaited
<1> QED
  BY <1>4, <1>5

\* The map moves, zooms, and a zoom ends and is set.
SameFlags(l, q) ==
  /\ q.supported = l.supported /\ q.watch = l.watch /\ q.active = l.active
  /\ q.onNext = l.onNext /\ q.event = l.event /\ q.button = l.button /\ q.circle = l.circle

LEMMA MoveAgrees ==
  ASSUME LocInv,
         \/ \E spot \in Spots : MoveMap(spot) \/ ZoomMap(spot)
         \/ LocateZoomEnds \/ LocateZoomSet
  PROVE  LocInv'
<1> USE NoSpotAssumption, EndsAssumption
<1>1. loc \in LocState /\ Heading(loc)
  BY DEF LocInv, Located
<1>2. ASSUME loc' \in LocState, SameFlags(loc, loc'), Heading(loc')
      PROVE  LocInv'
  BY <1>2 DEF LocInv, Located, FlagsAgree, FirstAwaited, SameFlags
<1>3. ASSUME NEW spot \in Spots, MoveMap(spot) \/ ZoomMap(spot)
      PROVE  LocInv'
  <2>1. loc' \in LocState /\ SameFlags(loc, loc')
    BY <1>1, <1>3 DEF MoveMap, ZoomMap, LocState, SameFlags
  <2>2. Heading(loc')
    BY <1>1, <1>3 DEF MoveMap, ZoomMap, LocState, Heading
  <2> QED
    BY <1>2, <2>1, <2>2
<1>4. ASSUME LocateZoomEnds
      PROVE  LocInv'
  <2> DEFINE n == loc.ends + 1
  <2>1. n \in 0..MaxEnds /\ n > 0
    <3>1. loc.ends \in 0..MaxEnds /\ loc.to \in Spots
      BY <1>1 DEF LocState
    <3>2. loc.ends < MaxEnds
      BY <1>4 DEF LocateZoomEnds
    <3> QED
      BY <3>1, <3>2
  <2>2. loc.animating /\ loc' = [loc EXCEPT !.animating = FALSE, !.ends = n]
    BY <1>4 DEF LocateZoomEnds
  <2> HIDE DEF n
  <2>3. loc' \in LocState /\ SameFlags(loc, loc')
    BY <1>1, <2>1, <2>2 DEF LocState, SameFlags
  <2>4. loc'.ends = n /\ loc'.to = loc.to /\ loc'.shows = loc.shows
    BY <1>1, <2>2 DEF LocState
  <2>5. Heading(loc')
    BY <1>1, <2>1, <2>2, <2>4 DEF Heading
  <2> QED
    BY <1>2, <2>3, <2>5
<1>5. ASSUME LocateZoomSet
      PROVE  LocInv'
  <2> DEFINE n == loc.ends - 1
  <2>1. n \in 0..MaxEnds /\ loc.ends > 0 /\ loc.to \in Spots
    <3>1. loc.ends \in 0..MaxEnds /\ loc.to \in Spots
      BY <1>1 DEF LocState
    <3>2. loc.ends > 0
      BY <1>5 DEF LocateZoomSet
    <3> QED
      BY <3>1, <3>2
  <2>2. loc' = [loc EXCEPT !.view = loc.to, !.ends = n]
    BY <1>5 DEF LocateZoomSet
  <2> HIDE DEF n
  <2>3. loc' \in LocState /\ SameFlags(loc, loc')
    BY <1>1, <2>1, <2>2 DEF LocState, SameFlags
  <2>4. loc'.view = loc.to /\ loc'.to = loc.to /\ loc'.shows = loc.shows
    BY <1>1, <2>2 DEF LocState
  <2>5. Heading(loc')
    BY <1>1, <2>1, <2>4 DEF Heading
  <2> QED
    BY <1>2, <2>3, <2>5
<1> QED
  BY <1>3, <1>4, <1>5

\* A click that starts the watch, finds that there is none, or asks again.
AskedOn == [loc EXCEPT !.onNext = TRUE]
Started == [IF loc.active THEN AskedOn ELSE Locate(AskedOn) EXCEPT !.active = TRUE]

LEMMA ClickStarts ==
  ASSUME LocInv
  PROVE  /\ Started \in LocState /\ Started.active /\ Started.onNext
         /\ Started.supported = loc.supported /\ (Started.watch <=> Started.supported)
         /\ Started.event = loc.event /\ Started.view = loc.view /\ Started.to = loc.to
         /\ Started.animating = loc.animating /\ Started.ends = loc.ends
         /\ Started.shows = loc.shows
         /\ Started.event = NoSpot => Started.circle = NoSpot
<1> USE NoSpotAssumption
<1>1. loc \in LocState /\ FlagsAgree(loc)
  BY DEF LocInv, Located
<1>2. CASE loc.active
  <2>1. Started = [loc EXCEPT !.onNext = TRUE, !.active = TRUE]
    BY <1>1, <1>2 DEF Started, AskedOn, LocState
  <2> QED
    BY <1>1, <1>2, <2>1 DEF LocState, FlagsAgree
<1>3. CASE ~loc.active /\ loc.supported
  <2>1. Started = [loc EXCEPT !.onNext = TRUE, !.watch = TRUE, !.active = TRUE]
    BY <1>1, <1>3 DEF Started, AskedOn, Locate, LocState
  <2> QED
    BY <1>1, <1>3, <2>1 DEF LocState, FlagsAgree
<1>4. CASE ~loc.active /\ ~loc.supported
  <2>1. ~AskedOn.supported
    BY <1>1, <1>4 DEF AskedOn, LocState
  <2>2. Locate(AskedOn) = StopLocate(AskedOn)
    BY <2>1 DEF Locate, OnLocationError
  <2>3. Started = [loc EXCEPT !.onNext = TRUE, !.watch = FALSE, !.button = "",
                              !.circle = NoSpot, !.active = TRUE]
    BY <1>1, <1>4, <2>2
       DEF Started, AskedOn, StopLocate, MapStopLocate, ResetVariables, LocState
  <2> QED
    BY <1>1, <1>4, <2>3 DEF LocState
<1> QED
  BY <1>2, <1>3, <1>4

LEMMA ClickAgrees ==
  ASSUME LocInv, NEW same \in BOOLEAN, NEW animated \in BOOLEAN, ClickLocate(same, animated)
  PROVE  LocInv'
<1> USE NoSpotAssumption
<1>1. CASE loc.active /\ loc.view = loc.event
  <2>1. loc' = StopLocate(loc)
    BY <1>1 DEF ClickLocate
  <2> QED
    BY <2>1, StopAgrees DEF LocInv
<1>2. CASE ~(loc.active /\ loc.view = loc.event)
  <2> DEFINE on == Started
  <2>1. loc' = IF on.event = NoSpot THEN [on EXCEPT !.button = "requesting"]
               ELSE [VisualizeLocation(on, same, animated) EXCEPT
                      !.shows = Shows(loc, loc.event, same, animated)]
    BY <1>2 DEF ClickLocate, Started, AskedOn
  <2>2. /\ on \in LocState /\ on.active /\ on.onNext
        /\ on.supported = loc.supported /\ (on.watch <=> on.supported)
        /\ on.event = loc.event /\ on.view = loc.view /\ on.to = loc.to
        /\ on.animating = loc.animating /\ on.ends = loc.ends /\ on.shows = loc.shows
        /\ on.event = NoSpot => on.circle = NoSpot
    BY ClickStarts
  <2> HIDE DEF on
  <2>3. CASE on.event = NoSpot
    <3>1. loc' = [on EXCEPT !.button = "requesting"]
      BY <2>1, <2>3
    <3>2. /\ loc' \in LocState /\ loc'.button = "requesting" /\ loc'.active = on.active
          /\ loc'.onNext = on.onNext /\ loc'.supported = on.supported /\ loc'.watch = on.watch
          /\ loc'.event = on.event /\ loc'.view = on.view /\ loc'.to = on.to
          /\ loc'.animating = on.animating /\ loc'.ends = on.ends /\ loc'.shows = on.shows
          /\ loc'.circle = on.circle
      BY <2>2, <3>1 DEF LocState
    <3>3. Heading(loc')
      BY <2>2, <3>2 DEF LocInv, Located, Heading
    <3> QED
      BY <2>2, <2>3, <3>2, <3>3 DEF LocInv, Located, FlagsAgree, FirstAwaited
  <2>4. CASE on.event # NoSpot
    <3>1. Shows(loc, loc.event, same, animated) = Shows(on, on.event, same, animated)
      BY <2>2 DEF Shows, Overtaken
    <3>2. loc' = Visualizing(on, same, animated)
      BY <2>1, <2>4, <3>1 DEF Visualizing
    <3>3. Visualized(on, loc')
      BY <2>2, <2>4, <3>2, VisualizeShows
    <3> QED
      BY <2>2, <2>4, <3>3 DEF Visualized, LocInv, Located, FlagsAgree, FirstAwaited
  <2> QED
    BY <2>3, <2>4
<1> QED
  BY <1>1, <1>2

LEMMA LocateNextAgrees == LocInv /\ [LoNext]_loVars => LocInv'
<1> SUFFICES ASSUME LocInv, [LoNext]_loVars PROVE LocInv'
  OBVIOUS
<1>1. ASSUME NEW same \in BOOLEAN, NEW animated \in BOOLEAN, ClickLocate(same, animated)
      PROVE  LocInv'
  BY <1>1, ClickAgrees
<1>2. ASSUME NEW same \in BOOLEAN, NEW animated \in BOOLEAN, NEW spot \in Spots,
             LocationFound(spot, same, animated)
      PROVE  LocInv'
  BY <1>2, FoundAgrees
<1>3. ASSUME \/ \E spot \in Spots : MoveMap(spot) \/ ZoomMap(spot)
             \/ LocateZoomEnds \/ LocateZoomSet
      PROVE  LocInv'
  BY <1>3, MoveAgrees
<1>4. ASSUME NEW code \in 1..3, LocationError(code) PROVE LocInv'
  BY <1>4, ErrorAgrees
<1>5. CASE UNCHANGED loVars
  BY <1>5 DEF loVars, LocInv
<1> QED
  BY <1>1, <1>2, <1>3, <1>4, <1>5 DEF LoNext

\* The control is well typed whatever is clicked, found or refused.
THEOREM LocateTypeCorrect == LoSpec => []LoTypeOK
<1>1. LocInv => LoTypeOK
  BY StateIsTyped DEF LocInv, Located
<1> QED
  BY InitLocates, LocateNextAgrees, <1>1, PTL DEF LoSpec

\* The browser is asked for locations exactly while the control is active, the
\* circle, the button and the flags agree, and the location the view was asked to
\* show is in view once no zoom runs, unless another zoom overtook the request or
\* the user has moved the map.
THEOREM LocateAlwaysAgrees == LoSpec => []LocateAgrees
BY InitLocates, LocateNextAgrees, LocatedAgrees, PTL DEF LoSpec

-------------------------------------------------------------------------------
\* The view.  What waits for a frame, in the order it was asked for;
FrameKinds == {"zoomanim", "zoomend", "resize"}
Frames == Seq(FrameKinds)

\* of an animated zoom that has ended, its end comes after its start.
EndsLater(q) ==
  \A i \in 1..Len(q) : q[i] = "zoomanim" => \E j \in 1..Len(q) : i < j /\ q[j] = "zoomend"

LEMMA FrameAppended ==
  ASSUME NEW q \in Frames, NEW f \in FrameKinds
  PROVE  /\ Append(q, f) \in Frames
         /\ \A e : Contains(Append(q, f), e) <=> (Contains(q, e) \/ e = f)
         /\ f = "zoomend" => EndsLater(Append(q, f))
         /\ f = "resize" /\ EndsLater(q) => EndsLater(Append(q, f))
<1> DEFINE a == Append(q, f)
           n == Len(q)
<1>1. /\ a \in Seq(FrameKinds) /\ Len(a) = n + 1 /\ n \in Nat
      /\ \A i \in 1..n : a[i] = q[i]
      /\ a[n + 1] = f
  BY AppendProperties, LenProperties DEF Frames
<1> HIDE DEF a, n
<1>2. 1..(n + 1) = (1..n) \cup {n + 1}
  BY <1>1
<1>3. \A e : Contains(a, e) <=> (Contains(q, e) \/ e = f)
  BY <1>1, <1>2 DEF Contains, n
<1>4. f = "zoomend" => EndsLater(a)
  <2> SUFFICES ASSUME f = "zoomend", NEW i \in 1..Len(a), a[i] = "zoomanim"
               PROVE  \E j \in 1..Len(a) : i < j /\ a[j] = "zoomend"
    BY DEF EndsLater
  <2>1. i # n + 1
    BY <1>1
  <2> QED
    BY <1>1, <1>2, <2>1
<1>5. f = "resize" /\ EndsLater(q) => EndsLater(a)
  <2> SUFFICES ASSUME f = "resize", EndsLater(q), NEW i \in 1..Len(a), a[i] = "zoomanim"
               PROVE  \E j \in 1..Len(a) : i < j /\ a[j] = "zoomend"
    BY DEF EndsLater
  <2>1. i \in 1..n
    BY <1>1, <1>2
  <2>2. PICK j \in 1..n : i < j /\ q[j] = "zoomend"
    BY <1>1, <2>1 DEF EndsLater, n
  <2> QED
    BY <1>1, <1>2, <2>2
<1> QED
  BY <1>1, <1>3, <1>4, <1>5 DEF a, Frames

LEMMA FrameTaken ==
  ASSUME NEW q \in Frames, q # <<>>
  PROVE  /\ Head(q) \in FrameKinds /\ Tail(q) \in Frames
         /\ \A e : Contains(Tail(q), e) => Contains(q, e)
         /\ \A e : Contains(q, e) /\ Head(q) # e => Contains(Tail(q), e)
         /\ EndsLater(q) => EndsLater(Tail(q))
         /\ EndsLater(q) /\ Head(q) = "zoomanim" => Contains(Tail(q), "zoomend")
<1> DEFINE t == Tail(q)
           n == Len(t)
<1>1. /\ Head(q) \in FrameKinds /\ t \in Seq(FrameKinds) /\ n \in Nat /\ Len(q) = n + 1
      /\ \A i \in 1..n : t[i] = q[i + 1]
      /\ Head(q) = q[1]
  <2>1. /\ Head(q) \in FrameKinds /\ t \in Seq(FrameKinds) /\ n = Len(q) - 1
        /\ \A i \in 1..n : t[i] = q[i + 1]
    BY HeadTailProperties DEF Frames
  <2>2. Len(q) \in Nat /\ n \in Nat
    BY <2>1, LenProperties DEF Frames
  <2>3. Head(q) = q[1]
    OBVIOUS
  <2> QED
    BY <2>1, <2>2, <2>3
<1> HIDE DEF t, n
<1>2. \A i \in 1..(n + 1) : i = 1 \/ (i - 1 \in 1..n /\ t[i - 1] = q[i])
  BY <1>1
<1>3. \A i \in 1..n : i + 1 \in 1..(n + 1)
  BY <1>1
<1>4. \A e : Contains(t, e) => Contains(q, e)
  BY <1>1, <1>3 DEF Contains, n
<1>5. \A e : Contains(q, e) /\ Head(q) # e => Contains(t, e)
  BY <1>1, <1>2 DEF Contains, n
<1>6. EndsLater(q) => EndsLater(t)
  <2> SUFFICES ASSUME EndsLater(q), NEW i \in 1..n, t[i] = "zoomanim"
               PROVE  \E j \in 1..n : i < j /\ t[j] = "zoomend"
    BY DEF EndsLater, n
  <2>1. PICK j \in 1..(n + 1) : i + 1 < j /\ q[j] = "zoomend"
    BY <1>1, <1>3 DEF EndsLater
  <2>2. j - 1 \in 1..n /\ i < j - 1 /\ t[j - 1] = "zoomend"
    BY <1>1, <1>2, <2>1
  <2> QED
    BY <2>2
<1>7. EndsLater(q) /\ Head(q) = "zoomanim" => Contains(t, "zoomend")
  <2> SUFFICES ASSUME EndsLater(q), q[1] = "zoomanim"
               PROVE  Contains(t, "zoomend")
    BY <1>1
  <2>1. PICK j \in 1..(n + 1) : 1 < j /\ q[j] = "zoomend"
    BY <1>1 DEF EndsLater
  <2> QED
    BY <1>1, <1>2, <2>1 DEF Contains, n
<1> QED
  BY <1>1, <1>4, <1>5, <1>6, <1>7 DEF t, Frames

LEMMA FrameCancelled ==
  ASSUME NEW q \in Frames
  PROVE  /\ CancelFrame(q, "resize") \in Frames
         /\ \A e : e # "resize" => (Contains(CancelFrame(q, "resize"), e) <=> Contains(q, e))
         /\ EndsLater(q) => EndsLater(CancelFrame(q, "resize"))
<1> DEFINE r == CancelFrame(q, "resize")
           k == CHOOSE i \in DOMAIN q : q[i] = "resize"
           n == Len(q)
           p == SubSeq(q, 1, k - 1)
           s == SubSeq(q, k + 1, n)
<1>1. n \in Nat /\ DOMAIN q = 1..n /\ \A i \in 1..n : q[i] \in FrameKinds
  BY LenProperties DEF Frames
<1>2. CASE ~Contains(q, "resize")
  BY <1>2 DEF CancelFrame
<1>3. CASE Contains(q, "resize")
  <2>1. r = p \o s
    BY <1>3 DEF CancelFrame, RemoveAt
  <2>2. k \in 1..n /\ q[k] = "resize"
    BY <1>1, <1>3 DEF Contains
  <2> HIDE DEF r, k, n
  <2>3. /\ p \in Seq(FrameKinds) /\ Len(p) = k - 1
        /\ \A i \in 1..(k - 1) : p[i] = q[i]
    <3>1. 1 \in Int /\ k - 1 \in Int /\ \A i \in 1..(k - 1) : q[i] \in FrameKinds
      BY <1>1, <2>2
    <3>2. /\ p \in Seq(FrameKinds) /\ Len(p) = IF 1 <= k - 1 THEN k - 1 - 1 + 1 ELSE 0
          /\ \A i \in 1..(k - 1 - 1 + 1) : p[i] = q[1 + i - 1]
      BY <3>1, SubSeqProperties
    <3> HIDE DEF p
    <3> QED
      BY <1>1, <2>2, <3>2
  <2>4. /\ s \in Seq(FrameKinds) /\ Len(s) = n - k
        /\ \A i \in 1..(n - k) : s[i] = q[k + i]
    <3>1. k + 1 \in Int /\ n \in Int /\ \A i \in (k + 1)..n : q[i] \in FrameKinds
      BY <1>1, <2>2
    <3>2. /\ s \in Seq(FrameKinds) /\ Len(s) = IF k + 1 <= n THEN n - (k + 1) + 1 ELSE 0
          /\ \A i \in 1..(n - (k + 1) + 1) : s[i] = q[(k + 1) + i - 1]
      BY <3>1, SubSeqProperties
    <3> HIDE DEF s
    <3> QED
      BY <1>1, <2>2, <3>2
  <2> HIDE DEF p, s
  <2>5. /\ r \in Seq(FrameKinds) /\ Len(r) = n - 1
        /\ \A i \in 1..(n - 1) : r[i] = IF i < k THEN q[i] ELSE q[i + 1]
    <3>1. /\ p \o s \in Seq(FrameKinds) /\ Len(p \o s) = Len(p) + Len(s)
          /\ \A i \in 1..(Len(p) + Len(s)) :
               (p \o s)[i] = IF i <= Len(p) THEN p[i] ELSE s[i - Len(p)]
      BY <2>3, <2>4, ConcatProperties
    <3>2. Len(p) + Len(s) = n - 1
      BY <1>1, <2>2, <2>3, <2>4
    <3>3. ASSUME NEW i \in 1..(n - 1)
          PROVE  r[i] = IF i < k THEN q[i] ELSE q[i + 1]
      <4>1. CASE i < k
        BY <1>1, <2>1, <2>2, <2>3, <3>1, <3>2, <4>1
      <4>2. CASE ~(i < k)
        <5>1. i - (k - 1) \in 1..(n - k) /\ k + (i - (k - 1)) = i + 1
          BY <1>1, <2>2, <4>2
        <5> QED
          BY <1>1, <2>1, <2>2, <2>3, <2>4, <3>1, <3>2, <4>2, <5>1
      <4> QED
        BY <4>1, <4>2
    <3> QED
      BY <2>1, <3>1, <3>2, <3>3
  \* Where an element of the queue is in the rest of it.
  <2> DEFINE At(i) == IF i < k THEN i ELSE i - 1
  <2>6. \A i \in 1..n : i # k => At(i) \in 1..(n - 1) /\ r[At(i)] = q[i]
    BY <1>1, <2>2, <2>5
  <2>7. \A i \in 1..(n - 1) : \E j \in 1..n : j # k /\ At(j) = i /\ q[j] = r[i]
    <3> SUFFICES ASSUME NEW i \in 1..(n - 1)
                 PROVE  \E j \in 1..n : j # k /\ At(j) = i /\ q[j] = r[i]
      OBVIOUS
    <3>1. CASE i < k
      <4>1. i \in 1..n /\ i # k /\ At(i) = i /\ q[i] = r[i]
        BY <1>1, <2>2, <2>5, <3>1
      <4> QED
        BY <4>1
    <3>2. CASE ~(i < k)
      <4>1. i + 1 \in 1..n /\ i + 1 # k /\ At(i + 1) = i /\ q[i + 1] = r[i]
        BY <1>1, <2>2, <2>5, <3>2
      <4> QED
        BY <4>1
    <3> QED
      BY <3>1, <3>2
  <2>8. \A i, j \in 1..n : i # k /\ j # k /\ i < j => At(i) < At(j)
    BY <1>1, <2>2
  <2> HIDE DEF At
  <2>9. \A e : e # "resize" => (Contains(r, e) <=> Contains(q, e))
    BY <1>1, <2>2, <2>5, <2>6, <2>7 DEF Contains, n
  <2>10. ASSUME EndsLater(q) PROVE EndsLater(r)
    <3> SUFFICES ASSUME NEW i \in 1..(n - 1), r[i] = "zoomanim"
                 PROVE  \E j \in 1..(n - 1) : i < j /\ r[j] = "zoomend"
      BY <2>5 DEF EndsLater
    <3>1. PICK a \in 1..n : a # k /\ At(a) = i /\ q[a] = "zoomanim"
      BY <2>7
    <3>2. PICK b \in 1..n : a < b /\ q[b] = "zoomend"
      BY <2>10, <3>1 DEF EndsLater, n
    <3>3. b # k
      BY <2>2, <3>2
    <3> QED
      BY <2>6, <2>8, <3>1, <3>2, <3>3
  <2> QED
    BY <2>5, <2>9, <2>10 DEF r, Frames
<1> QED
  BY <1>2, <1>3

\* The view's fields and their types.
VwFields ==
  {"transitions", "zoom", "base", "half", "container", "pos", "style", "shown", "panning",
   "panTo", "animating", "css", "toPlace", "toZoom", "dragOff", "viewport", "pathZooming",
   "buttonsOff", "frames", "timers", "sizeTimer", "moving", "zooming", "stale", "asked",
   "popup", "overtaken", "asks"}

Viewed(v) ==
  /\ DOMAIN v = VwFields
  /\ v.base \in Int /\ v.pos \in Int /\ v.style \in Int /\ v.shown \in Int
  /\ v.panTo \in Int /\ v.toPlace \in Int /\ v.half \in Halves /\ v.container \in Halves
  /\ v.frames \in Frames /\ v.timers \in Nat
  /\ v.zoom \in Zooms /\ v.toZoom \in Zooms /\ v.asked \in Zooms
  /\ v.css => v.animating

\* An animated zoom whose end has not been set yet.
Ending(v) == v.animating \/ Contains(v.frames, "zoomend")

\* What has begun has its end to come: an animated zoom by a timer, that of its
\* first frame if need be, and then by a frame.
Begun(v) ==
  /\ v.animating => v.timers > 0 \/ Contains(v.frames, "zoomanim")
  /\ v.zooming \/ v.dragOff \/ v.pathZooming => Ending(v)
  /\ v.moving => v.panning \/ Ending(v)
  /\ ~v.animating => EndsLater(v.frames)

\* The zoom is the one asked for, or will be.
ZoomAsked(v) ==
  /\ Ending(v) => v.overtaken \/ v.asked = v.toZoom
  /\ ~Ending(v) => v.zoom = IF v.overtaken THEN v.toZoom ELSE v.asked
  /\ v.buttonsOff = DisabledAt(v.zoom)

\* Paths are drawn where the map is, or a moveend that will see to it is to come.
PathsFollow(v) ==
  v.stale \/ v.panning \/ v.pathZooming \/ v.viewport = [pos |-> v.pos, half |-> v.half]

\* A popup that fits is in view when the pane is at a position.
PopupInView(v, at, pos) ==
  PopupWidth + 2 * Padding <= 2 * v.half =>
    /\ at - v.base + pos >= Padding
    /\ at - v.base + pos + PopupWidth + Padding <= 2 * v.half

\* The popup is in view where the pane is going, and no zoom is under way.
PopupShown(v) ==
  v.popup # {} =>
    /\ ~v.animating /\ v.frames = <<>>
    /\ \A at \in v.popup : PopupInView(v, at, IF v.panning THEN v.panTo ELSE v.pos)

VwInv(v) == Viewed(v) /\ Begun(v) /\ ZoomAsked(v) /\ PathsFollow(v) /\ PopupShown(v)

-------------------------------------------------------------------------------
\* What the functions do to a view.  Those of a pan leave alone
Panned(v, m) ==
  /\ m.transitions = v.transitions /\ m.zoom = v.zoom /\ m.asked = v.asked
  /\ m.toZoom = v.toZoom /\ m.overtaken = v.overtaken /\ m.buttonsOff = v.buttonsOff
  /\ m.animating = v.animating /\ m.frames = v.frames /\ m.timers = v.timers
  /\ m.zooming = v.zooming /\ m.dragOff = v.dragOff /\ m.pathZooming = v.pathZooming
  /\ m.base = v.base /\ m.half = v.half /\ m.popup = v.popup

LEMMA PannedAfter ==
  ASSUME NEW v, NEW w, NEW m, Panned(v, w), Panned(w, m)
  PROVE  Panned(v, m)
<1> QED
  BY DEF Panned

LEMMA MoveEndDoes ==
  ASSUME NEW v, Viewed(v), NEW m, m = MoveEnd(v)
  PROVE  /\ Viewed(m) /\ Panned(v, m) /\ PathsFollow(m) /\ m.moving = FALSE
         /\ m.pos = v.pos /\ m.style = v.style /\ m.shown = v.shown
         /\ m.panning = v.panning /\ m.panTo = v.panTo
<1> DEFINE w == [v EXCEPT !.moving = FALSE, !.stale = FALSE]
<1>1. /\ Viewed(w) /\ Panned(v, w) /\ w.moving = FALSE
      /\ w.pos = v.pos /\ w.style = v.style /\ w.shown = v.shown
      /\ w.panning = v.panning /\ w.panTo = v.panTo
  BY DEF Viewed, Panned, VwFields
<1>2. m = IF w.pathZooming THEN w ELSE [w EXCEPT !.viewport = [pos |-> w.pos, half |-> w.half]]
  BY DEF MoveEnd, UpdateSvgViewport, UpdatePathViewport
<1> HIDE DEF w
<1>3. CASE w.pathZooming
  BY <1>1, <1>2, <1>3 DEF PathsFollow
<1>4. CASE ~w.pathZooming
  <2>1. /\ Viewed(m) /\ Panned(w, m) /\ m.moving = w.moving
        /\ m.pos = w.pos /\ m.style = w.style /\ m.shown = w.shown
        /\ m.panning = w.panning /\ m.panTo = w.panTo
        /\ m.viewport = [pos |-> w.pos, half |-> w.half]
    BY <1>1, <1>2, <1>4 DEF Viewed, Panned, VwFields
  <2> QED
    BY <1>1, <2>1 DEF PathsFollow, Panned
<1> QED
  BY <1>3, <1>4

LEMMA SetPositionDoes ==
  ASSUME NEW v, Viewed(v), NEW p \in Int, NEW m, m = SetPosition(v, p)
  PROVE  /\ Viewed(m) /\ Panned(v, m) /\ m.pos = p /\ m.moving = v.moving
         /\ m.panning = v.panning /\ m.panTo = v.panTo /\ m.stale = v.stale
<1> QED
  BY DEF SetPosition, Viewed, Panned, VwFields

LEMMA EndPanDoes ==
  ASSUME NEW v, Viewed(v), NEW m, m = EndPan(v)
  PROVE  /\ Viewed(m) /\ Panned(v, m) /\ PathsFollow(m) /\ m.moving = FALSE
         /\ m.panning = FALSE /\ m.pos = v.panTo
<1> DEFINE w == [v EXCEPT !.panning = FALSE, !.pos = v.panTo, !.shown = v.style]
<1>1. Viewed(w) /\ Panned(v, w) /\ w.panning = FALSE /\ w.pos = v.panTo
  BY DEF Viewed, Panned, VwFields
<1>2. m = MoveEnd(w)
  BY DEF EndPan
<1> HIDE DEF w
<1>3. /\ Viewed(m) /\ Panned(w, m) /\ PathsFollow(m) /\ m.moving = FALSE
      /\ m.panning = w.panning /\ m.pos = w.pos
  BY <1>1, <1>2, MoveEndDoes
<1> QED
  BY <1>1, <1>3, PannedAfter

LEMMA FallbackStepDoes ==
  ASSUME NEW v, Viewed(v), NEW m, m = FallbackStep(v)
  PROVE  /\ Viewed(m) /\ Panned(v, m) /\ m.panTo = v.panTo
         /\ \/ /\ PathsFollow(m) /\ m.moving = FALSE /\ m.panning = FALSE /\ m.pos = v.panTo
            \/ m.stale = TRUE /\ m.panning = v.panning /\ m.moving = v.moving
<1>1. CASE v.shown = v.panTo
  <2> DEFINE w == [v EXCEPT !.pos = v.shown, !.style = v.shown, !.panning = FALSE]
  <2>1. /\ Viewed(w) /\ Panned(v, w) /\ w.panning = FALSE /\ w.pos = v.panTo
        /\ w.panTo = v.panTo
    BY <1>1 DEF Viewed, Panned, VwFields
  <2>2. m = MoveEnd(w)
    BY <1>1 DEF FallbackStep
  <2> HIDE DEF w
  <2>3. /\ Viewed(m) /\ Panned(w, m) /\ PathsFollow(m) /\ m.moving = FALSE
        /\ m.panning = w.panning /\ m.pos = w.pos /\ m.panTo = w.panTo
    BY <2>1, <2>2, MoveEndDoes
  <2> QED
    BY <2>1, <2>3, PannedAfter
<1>2. CASE v.shown # v.panTo
  <2>1. m = [v EXCEPT !.pos = v.shown, !.style = v.shown, !.stale = TRUE]
    BY <1>2 DEF FallbackStep
  <2> QED
    BY <2>1 DEF Viewed, Panned, VwFields
<1> QED
  BY <1>1, <1>2

LEMMA StopPanDoes ==
  ASSUME NEW v, Viewed(v), PathsFollow(v), NEW m, m = StopPan(v)
  PROVE  /\ Viewed(m) /\ Panned(v, m) /\ PathsFollow(m) /\ ~m.panning
         /\ m.moving => v.moving /\ ~v.panning
<1>1. CASE ~v.panning
  BY <1>1 DEF StopPan, Panned
<1>2. CASE v.panning /\ v.transitions
  <2>1. Viewed(SetPosition(v, v.shown)) /\ Panned(v, SetPosition(v, v.shown))
    BY SetPositionDoes DEF Viewed
  <2>2. m = EndPan(SetPosition(v, v.shown))
    BY <1>2 DEF StopPan
  <2>3. /\ Viewed(m) /\ Panned(SetPosition(v, v.shown), m) /\ PathsFollow(m)
        /\ m.moving = FALSE /\ m.panning = FALSE
    BY <2>1, <2>2, EndPanDoes
  <2> QED
    BY <2>1, <2>3, PannedAfter
<1>3. CASE v.panning /\ ~v.transitions
  <2> DEFINE w == FallbackStep(v)
             x == [w EXCEPT !.panning = FALSE]
  <2>1. Viewed(w) /\ Panned(v, w)
    BY FallbackStepDoes
  <2>2. m = MoveEnd(x)
    BY <1>3 DEF StopPan, FallbackStop
  <2> HIDE DEF w
  <2>3. Viewed(x) /\ Panned(w, x) /\ x.panning = FALSE
    BY <2>1 DEF Viewed, Panned, VwFields
  <2> HIDE DEF x
  <2>4. /\ Viewed(m) /\ Panned(x, m) /\ PathsFollow(m) /\ m.moving = FALSE
        /\ m.panning = x.panning
    BY <2>2, <2>3, MoveEndDoes
  <2>5. Panned(v, x)
    BY <2>1, <2>3, PannedAfter
  <2> QED
    BY <2>3, <2>4, <2>5, PannedAfter
<1> QED
  BY <1>1, <1>2, <1>3

LEMMA RunPanDoes ==
  ASSUME NEW v, Viewed(v), PathsFollow(v), NEW to \in Int, NEW m, m = RunPan(v, to)
  PROVE  Viewed(m) /\ Panned(v, m) /\ m.panning = TRUE /\ m.panTo = to
<1> DEFINE w == StopPan(v)
           x == [w EXCEPT !.panning = TRUE, !.panTo = to]
<1>1. Viewed(w) /\ Panned(v, w)
  BY StopPanDoes
<1>2. m = IF v.transitions THEN SetPosition(x, to) ELSE [x EXCEPT !.stale = TRUE]
  BY DEF RunPan
<1> HIDE DEF w
<1>3. Viewed(x) /\ Panned(w, x) /\ x.panning = TRUE /\ x.panTo = to
  BY <1>1 DEF Viewed, Panned, VwFields
<1> HIDE DEF x
<1>4. CASE v.transitions
  <2>1. /\ Viewed(m) /\ Panned(x, m) /\ m.panning = x.panning /\ m.panTo = x.panTo
    BY <1>2, <1>3, <1>4, SetPositionDoes
  <2>2. Panned(v, x)
    BY <1>1, <1>3, PannedAfter
  <2> QED
    BY <1>3, <2>1, <2>2, PannedAfter
<1>5. CASE ~v.transitions
  <2>1. Viewed(m) /\ Panned(x, m) /\ m.panning = x.panning /\ m.panTo = x.panTo
    BY <1>2, <1>3, <1>5 DEF Viewed, Panned, VwFields
  <2> QED
    BY <1>1, <1>3, <2>1 DEF Panned
<1> QED
  BY <1>4, <1>5

\* A pan that is animated, or not asked to be.
PansTo(v, m, offset) ==
  IF offset = 0 THEN m = v ELSE m.panning = TRUE /\ m.panTo = v.pos - offset

LEMMA PanByDoes ==
  ASSUME NEW v, Viewed(v), PathsFollow(v), NEW offset \in Int, NEW animate \in BOOLEAN,
         NEW silent \in BOOLEAN, NEW m, m = PanBy(v, offset, animate, silent)
  PROVE  /\ Viewed(m) /\ Panned(v, m) /\ PathsFollow(m)
         /\ m.moving => m.panning \/ (v.moving /\ ~v.panning)
         /\ animate = TRUE => PansTo(v, m, offset)
<1>1. CASE offset = 0
  BY <1>1 DEF PanBy, Panned, PansTo
<1>2. CASE offset # 0
  <2> DEFINE w == IF silent THEN v ELSE [v EXCEPT !.moving = TRUE]
  <2>1. /\ Viewed(w) /\ Panned(v, w) /\ w.pos = v.pos /\ w.panning = v.panning
        /\ PathsFollow(w)
    BY DEF Viewed, Panned, VwFields, PathsFollow
  <2> DEFINE to == v.pos - offset
  <2>2. m = IF animate THEN RunPan(w, to) ELSE MoveEnd(SetPosition(w, to))
    BY <1>2 DEF PanBy
  <2> HIDE DEF w
  <2>3. to \in Int
    BY DEF Viewed
  <2> HIDE DEF to
  <2>4. CASE animate = TRUE
    <3>1. m = RunPan(w, to)
      BY <2>2, <2>4
    <3>2. Viewed(m) /\ Panned(w, m) /\ m.panning = TRUE /\ m.panTo = to
      BY <2>1, <2>3, <3>1, RunPanDoes
    <3>3. Panned(v, m)
      BY <2>1, <3>2, PannedAfter
    <3> QED
      BY <1>2, <3>2, <3>3 DEF PathsFollow, PansTo, to
  <2>5. CASE animate = FALSE
    <3> DEFINE x == SetPosition(w, to)
    <3>1. Viewed(x) /\ Panned(w, x)
      BY <2>1, <2>3, SetPositionDoes
    <3>2. m = MoveEnd(x)
      BY <2>2, <2>5
    <3> HIDE DEF x
    <3>3. Viewed(m) /\ Panned(x, m) /\ PathsFollow(m) /\ m.moving = FALSE
      BY <3>1, <3>2, MoveEndDoes
    <3>4. Panned(v, x)
      BY <2>1, <3>1, PannedAfter
    <3>5. Panned(v, m)
      BY <3>3, <3>4, PannedAfter
    <3> QED
      BY <1>2, <2>5, <3>3, <3>5
  <2> QED
    BY <2>4, <2>5
<1> QED
  BY <1>1, <1>2

\* What a pan does keeps the invariant.
LEMMA PannedKeeps ==
  ASSUME NEW v, NEW m, VwInv(v), Viewed(m), Panned(v, m), PathsFollow(m),
         m.moving => m.panning \/ (v.moving /\ ~v.panning), PopupShown(m)
  PROVE  VwInv(m)
<1>1. Begun(m)
  BY DEF VwInv, Begun, Ending, Panned
<1>2. ZoomAsked(m)
  BY DEF VwInv, ZoomAsked, Ending, Panned
<1> QED
  BY <1>1, <1>2 DEF VwInv

\* A view set at once is that of another zoom;
Set(v, m) ==
  /\ m.animating = v.animating /\ m.frames = v.frames /\ m.timers = v.timers
  /\ m.dragOff = v.dragOff /\ m.toZoom = v.toZoom /\ m.popup = v.popup

WasSet(v, m, zoom) ==
  /\ Viewed(m) /\ Set(v, m) /\ PathsFollow(m) /\ m.moving = FALSE /\ m.zoom = zoom
  /\ m.buttonsOff = DisabledAt(zoom) /\ m.asked = v.asked /\ m.overtaken = v.overtaken
  /\ (m.zooming => v.zooming) /\ (m.pathZooming => v.pathZooming)

LEMMA ResetViewDoes ==
  ASSUME NEW v, Viewed(v), v.buttonsOff = DisabledAt(v.zoom), NEW place \in Int,
         NEW zoom \in Zooms,
         NEW preserve \in BOOLEAN, NEW m, m = ResetView(v, place, zoom, preserve)
  PROVE  /\ WasSet(v, m, zoom)
         /\ preserve = TRUE => m.zooming = FALSE /\ m.pathZooming = FALSE
<1> DEFINE at == IF preserve THEN v ELSE SetPosition(v, 0)
           base == place - v.half + at.pos
           set == [at EXCEPT !.zoom = zoom, !.base = base]
           ended == ZoomEnded(set)
           w == IF preserve \/ zoom # v.zoom THEN ended ELSE set
<1>1. m = MoveEnd(w)
  BY DEF ResetView
<1>2. Viewed(at) /\ Panned(v, at)
  BY SetPositionDoes DEF Panned
<1> HIDE DEF at
<1>3. base \in Int
  <2>1. at.pos \in Int /\ v.half \in Int
    BY <1>2, HalvesAssumption DEF Viewed
  <2> QED
    BY <2>1
<1> HIDE DEF base
<1>4. /\ Viewed(set) /\ Set(at, set) /\ set.zoom = zoom /\ set.asked = at.asked
      /\ set.overtaken = at.overtaken /\ set.zooming = at.zooming
      /\ set.pathZooming = at.pathZooming /\ set.buttonsOff = at.buttonsOff
  BY <1>2, <1>3 DEF Viewed, Set, VwFields
<1> HIDE DEF set
<1>5. /\ Viewed(ended) /\ Set(set, ended) /\ ended.zoom = zoom /\ ended.asked = set.asked
      /\ ended.overtaken = set.overtaken /\ ended.zooming = FALSE
      /\ ended.pathZooming = FALSE /\ ended.buttonsOff = DisabledAt(zoom)
  BY <1>4 DEF ZoomEnded, Viewed, Set, VwFields
<1> HIDE DEF ended
<1>6. /\ Viewed(w) /\ Set(v, w) /\ w.zoom = zoom /\ w.buttonsOff = DisabledAt(zoom)
      /\ w.asked = v.asked /\ w.overtaken = v.overtaken
      /\ preserve = TRUE => w.zooming = FALSE /\ w.pathZooming = FALSE
      /\ (w.zooming => v.zooming) /\ (w.pathZooming => v.pathZooming)
  <2>1. /\ Set(v, set) /\ set.asked = v.asked /\ set.overtaken = v.overtaken
        /\ set.zooming = v.zooming /\ set.pathZooming = v.pathZooming
        /\ set.buttonsOff = v.buttonsOff
    BY <1>2, <1>4 DEF Set, Panned
  <2>2. Set(v, ended)
    BY <1>5, <2>1 DEF Set
  <2>3. CASE preserve = TRUE \/ zoom # v.zoom
    <3>1. w = ended
      BY <2>3
    <3> QED
      BY <1>5, <2>1, <2>2, <3>1
  <2>4. CASE preserve = FALSE /\ zoom = v.zoom
    <3>1. w = set
      BY <2>4
    <3> QED
      BY <1>4, <2>1, <2>4, <3>1
  <2> QED
    BY <2>3, <2>4
<1> HIDE DEF w
<1>7. /\ Viewed(m) /\ Panned(w, m) /\ PathsFollow(m) /\ m.moving = FALSE
  BY <1>1, <1>6, MoveEndDoes
<1> QED
  BY <1>6, <1>7 DEF Set, Panned, WasSet

\* and an animated zoom will set one.
\* A view with a request for a zoom recorded, which a pending one overtakes.
Requested(v, zoom) ==
  /\ Viewed(v) /\ Begun(v) /\ PathsFollow(v) /\ v.popup = {}
  /\ v.buttonsOff = DisabledAt(v.zoom)
  /\ v.asked = zoom /\ (v.overtaken <=> Ending(v))

LEMMA AnimateZoomKeeps ==
  ASSUME NEW v, NEW place \in Int, NEW zoom \in Zooms, Requested(v, zoom),
         NEW m, m = AnimateZoom(ZoomStarts(v), place, zoom)
  PROVE  VwInv(m)
<1> DEFINE w == ZoomStarts(v)
           q == Append(w.frames, "zoomanim")
<1>1. w.frames \in Frames /\ w.frames = v.frames
  BY DEF Requested, Viewed, ZoomStarts, VwFields
<1>2. q \in Frames /\ Contains(q, "zoomanim")
  BY <1>1, FrameAppended DEF FrameKinds
<1>3. m = [w EXCEPT !.animating = TRUE, !.css = FALSE, !.toPlace = place, !.toZoom = zoom,
                    !.dragOff = TRUE, !.frames = q, !.overtaken = FALSE]
  BY DEF AnimateZoom
<1>4. /\ Viewed(w) /\ w.popup = v.popup /\ w.asked = v.asked /\ w.buttonsOff = v.buttonsOff /\ w.zoom = v.zoom
      /\ w.stale = v.stale /\ w.panning = v.panning /\ w.pathZooming = v.pathZooming
      /\ w.viewport = v.viewport /\ w.pos = v.pos /\ w.half = v.half
  BY <1>1 DEF ZoomStarts, Requested, Viewed, VwFields
<1> HIDE DEF q, w
<1>5. /\ Viewed(m) /\ m.animating = TRUE /\ m.frames = q /\ m.popup = v.popup
      /\ m.asked = v.asked /\ m.toZoom = zoom /\ m.buttonsOff = v.buttonsOff /\ m.zoom = v.zoom
      /\ m.stale = v.stale /\ m.panning = v.panning /\ m.pathZooming = v.pathZooming
      /\ m.viewport = v.viewport /\ m.pos = v.pos /\ m.half = v.half
  BY <1>2, <1>3, <1>4 DEF Viewed, VwFields
<1>6. Begun(m)
  BY <1>2, <1>5 DEF Begun, Ending
<1>7. ZoomAsked(m)
  BY <1>5 DEF Requested, ZoomAsked, Ending
<1>8. PathsFollow(m) /\ PopupShown(m)
  BY <1>5 DEF Requested, PathsFollow, PopupShown
<1> QED
  BY <1>5, <1>6, <1>7, <1>8 DEF VwInv

LEMMA ZoomTransitionEndKeeps ==
  ASSUME NEW v, Viewed(v), Begun(v) \/ v.animating, ZoomAsked(v), PathsFollow(v),
         PopupShown(v), NEW m, m = ZoomTransitionEnd(v)
  PROVE  VwInv(m)
<1>1. CASE ~v.animating
  BY <1>1 DEF ZoomTransitionEnd, VwInv
<1>2. CASE v.animating
  <2> DEFINE q == Append(v.frames, "zoomend")
  <2>1. v.frames \in Frames
    BY DEF Viewed
  <2>2. q \in Frames /\ Contains(q, "zoomend") /\ EndsLater(q)
    BY <2>1, FrameAppended DEF FrameKinds
  <2>3. m = [v EXCEPT !.animating = FALSE, !.css = FALSE, !.frames = q]
    BY <1>2 DEF ZoomTransitionEnd
  <2> HIDE DEF q
  <2>4. /\ Viewed(m) /\ m.animating = FALSE /\ m.frames = q /\ m.popup = v.popup
        /\ m.asked = v.asked /\ m.toZoom = v.toZoom /\ m.buttonsOff = v.buttonsOff
        /\ m.zoom = v.zoom /\ m.overtaken = v.overtaken
        /\ m.stale = v.stale /\ m.panning = v.panning /\ m.pathZooming = v.pathZooming
        /\ m.viewport = v.viewport /\ m.pos = v.pos /\ m.half = v.half
    BY <2>2, <2>3 DEF Viewed, VwFields
  <2>5. Begun(m)
    BY <2>2, <2>4 DEF Begun, Ending
  <2>6. ZoomAsked(m)
    BY <1>2, <2>2, <2>4 DEF ZoomAsked, Ending
  <2>7. v.popup = {}
    BY <1>2 DEF PopupShown
  <2>8. PathsFollow(m) /\ PopupShown(m)
    BY <2>4, <2>7 DEF PathsFollow, PopupShown
  <2> QED
    BY <2>4, <2>5, <2>6, <2>8 DEF VwInv
<1> QED
  BY <1>1, <1>2

\* Fields that the invariant does not read.
Same(v, m) ==
  /\ Panned(v, m) /\ Viewed(m) /\ m.moving = v.moving /\ m.panning = v.panning
  /\ m.panTo = v.panTo /\ m.pos = v.pos /\ m.stale = v.stale /\ m.viewport = v.viewport

LEMMA SameKeeps ==
  ASSUME NEW v, NEW m, VwInv(v), Same(v, m)
  PROVE  VwInv(m)
<1>1. PathsFollow(m) /\ PopupShown(m)
  BY DEF VwInv, Same, Panned, PathsFollow, PopupShown, PopupInView
<1> QED
  BY <1>1, PannedKeeps DEF Same, VwInv, Begun, Ending, Panned

\* Recording a request, with no pan under way any more.
LEMMA RequestRecorded ==
  ASSUME NEW u, VwInv(u), u.popup = {}, NEW zoom \in Zooms, NEW over, over <=> ZoomPending(u),
         NEW v, v = [StopPan(u) EXCEPT !.asked = zoom, !.overtaken = over]
  PROVE  Requested(v, zoom)
<1> DEFINE w == StopPan(u)
<1>1. VwInv(w) /\ w.popup = {} /\ w.animating = u.animating /\ w.frames = u.frames
  <2>1. /\ Viewed(w) /\ Panned(u, w) /\ PathsFollow(w) /\ ~w.panning
        /\ w.moving => u.moving /\ ~u.panning
    BY StopPanDoes DEF VwInv
  <2>2. w.popup = {} /\ PopupShown(w) /\ w.animating = u.animating /\ w.frames = u.frames
    BY <2>1 DEF Panned, PopupShown
  <2> HIDE DEF w
  <2> QED
    BY <2>1, <2>2, PannedKeeps
<1>2. v = [w EXCEPT !.asked = zoom, !.overtaken = over]
  OBVIOUS
<1> HIDE DEF w
<1>3. Viewed(w) /\ DOMAIN w = VwFields
  BY <1>1 DEF VwInv, Viewed
<1>4. Viewed(v) /\ v.asked = zoom /\ v.overtaken = over
  <2>1. DOMAIN v = VwFields /\ v.asked = zoom /\ v.overtaken = over
    BY <1>2, <1>3 DEF VwFields
  <2>2. /\ v.base = w.base /\ v.pos = w.pos /\ v.style = w.style /\ v.shown = w.shown
        /\ v.panTo = w.panTo /\ v.toPlace = w.toPlace /\ v.half = w.half
        /\ v.container = w.container
    BY <1>2, <1>3 DEF VwFields
  <2>3. /\ v.frames = w.frames /\ v.timers = w.timers /\ v.zoom = w.zoom
        /\ v.toZoom = w.toZoom /\ v.css = w.css /\ v.animating = w.animating
    BY <1>2, <1>3 DEF VwFields
  <2> QED
    BY <1>3, <2>1, <2>2, <2>3 DEF Viewed
<1>5. /\ v.animating = w.animating /\ v.frames = w.frames /\ v.timers = w.timers
      /\ v.zooming = w.zooming /\ v.dragOff = w.dragOff /\ v.pathZooming = w.pathZooming
      /\ v.moving = w.moving /\ v.panning = w.panning /\ v.buttonsOff = w.buttonsOff
      /\ v.zoom = w.zoom /\ v.popup = w.popup
  BY <1>2, <1>3 DEF VwFields
<1>6. v.stale = w.stale /\ v.viewport = w.viewport /\ v.pos = w.pos /\ v.half = w.half
  BY <1>2, <1>3 DEF VwFields
<1>7. Begun(v)
  BY <1>1, <1>5 DEF VwInv, Begun, Ending
<1>8. PathsFollow(v)
  BY <1>1, <1>5, <1>6 DEF VwInv, PathsFollow
<1>9. over <=> Ending(v)
  BY <1>1, <1>5 DEF ZoomPending, Ending
<1>10. v.buttonsOff = DisabledAt(v.zoom)
  BY <1>1, <1>5 DEF VwInv, ZoomAsked
<1> QED
  BY <1>1, <1>4, <1>5, <1>7, <1>8, <1>9, <1>10 DEF Requested

\* A request that leaves the zoom to be what it was, or is taken by a running
\* animation, is settled as it is recorded.
LEMMA RequestSettled ==
  ASSUME NEW v, NEW zoom, Requested(v, zoom), zoom = v.zoom \/ v.animating
  PROVE  VwInv(v)
<1>1. ZoomAsked(v)
  BY DEF Requested, ZoomAsked, Ending
<1>2. PopupShown(v)
  BY DEF Requested, PopupShown
<1> QED
  BY <1>1, <1>2 DEF Requested, VwInv

LEMMA CancelRefreshKeeps ==
  ASSUME NEW w, VwInv(w)
  PROVE  VwInv(CancelRefresh(w))
<1>1. Same(w, CancelRefresh(w))
  BY DEF VwInv, Same, Panned, Viewed, VwFields, CancelRefresh
<1> QED
  BY <1>1, SameKeeps

\* A view set at once is the one asked for, but for a pending zoom.
LEMMA ResetSettles ==
  ASSUME NEW v, NEW place \in Int, NEW zoom \in Zooms, Requested(v, zoom),
         NEW m, m = ResetView(v, place, zoom, FALSE)
  PROVE  VwInv(m)
<1>1. WasSet(v, m, zoom)
  <2> DEFINE no == FALSE
  <2>1. Viewed(v) /\ v.buttonsOff = DisabledAt(v.zoom) /\ no \in BOOLEAN
    BY DEF Requested
  <2>2. m = ResetView(v, place, zoom, no)
    OBVIOUS
  <2> HIDE DEF no
  <2> QED
    BY <2>1, <2>2, ResetViewDoes
<1>2. Begun(m)
  BY <1>1 DEF Requested, WasSet, Begun, Ending, Set
<1>3. ZoomAsked(m)
  BY <1>1 DEF Requested, WasSet, ZoomAsked, Ending, Set
<1>4. PopupShown(m)
  BY <1>1 DEF Requested, WasSet, PopupShown, Set
<1> QED
  BY <1>1, <1>2, <1>3, <1>4 DEF WasSet, VwInv

LEMMA SetViewKeeps ==
  ASSUME NEW u, VwInv(u), u.popup = {}, NEW place \in Int, NEW zoom \in Zooms, NEW layers \in BOOLEAN,
         NEW m, m = SetView(u, place, zoom, layers)
  PROVE  VwInv(m)
<1> DEFINE over == ZoomPending(u)
           v == [StopPan(u) EXCEPT !.asked = zoom, !.overtaken = over]
           offset == place - Centre(v)
           r == ResetView(v, place, zoom, FALSE)
           pan == PanBy(v, offset, TRUE, FALSE)
           anim == AnimateZoom(ZoomStarts(v), place, zoom)
<1>1. Requested(v, zoom)
  <2> HIDE DEF over
  <2>1. over <=> ZoomPending(u)
    BY DEF over
  <2> QED
    BY <2>1, RequestRecorded
<1>2. \/ m = CancelRefresh(v) /\ v.animating
      \/ m = CancelRefresh(anim) \/ m = r
      \/ m = CancelRefresh(pan) /\ zoom = v.zoom
  BY DEF SetView
<1> HIDE DEF v
<1>3. VwInv(anim)
  BY <1>1, AnimateZoomKeeps
<1>4. VwInv(r)
  BY <1>1, ResetSettles
<1>5. ASSUME zoom = v.zoom PROVE VwInv(pan)
  <2>1. VwInv(v) /\ v.popup = {}
    BY <1>1, <1>5, RequestSettled DEF Requested
  <2>2. offset \in Int
    <3>1. v.base \in Int /\ v.pos \in Int /\ v.half \in Int
      BY <2>1, HalvesAssumption DEF VwInv, Viewed
    <3> QED
      BY <3>1 DEF Centre
  <2> HIDE DEF offset
  <2>3. /\ Viewed(pan) /\ Panned(v, pan) /\ PathsFollow(pan)
        /\ pan.moving => pan.panning \/ (v.moving /\ ~v.panning)
    BY <2>1, <2>2, PanByDoes DEF VwInv
  <2>4. PopupShown(pan)
    BY <2>1, <2>3 DEF Panned, PopupShown
  <2> HIDE DEF pan
  <2> QED
    BY <2>1, <2>3, <2>4, PannedKeeps
<1>6. ASSUME v.animating PROVE VwInv(v)
  BY <1>1, <1>6, RequestSettled
<1> HIDE DEF anim, pan, r
<1> QED
  BY <1>2, <1>3, <1>4, <1>5, <1>6, CancelRefreshKeeps

\* A request, whatever it does, closes the popup of the last.
LEMMA AskedKeeps ==
  ASSUME NEW v, VwInv(v), NEW m, m = Asked(v)
  PROVE  /\ VwInv(m) /\ m.popup = {} /\ m.base = v.base /\ m.pos = v.pos /\ m.half = v.half
         /\ m.animating = v.animating /\ m.frames = v.frames /\ m.panning = v.panning
<1>1. Viewed(v)
  BY DEF VwInv
<1>2. /\ Viewed(m) /\ m.popup = {} /\ m.pos = v.pos /\ m.base = v.base /\ m.half = v.half
      /\ m.animating = v.animating /\ m.frames = v.frames /\ m.panning = v.panning
      /\ m.timers = v.timers /\ m.zooming = v.zooming /\ m.dragOff = v.dragOff
      /\ m.pathZooming = v.pathZooming /\ m.moving = v.moving /\ m.overtaken = v.overtaken
      /\ m.asked = v.asked /\ m.toZoom = v.toZoom /\ m.zoom = v.zoom
      /\ m.buttonsOff = v.buttonsOff /\ m.stale = v.stale /\ m.viewport = v.viewport
  BY <1>1 DEF Asked, Viewed, VwFields
<1>3. Begun(m)
  BY <1>2 DEF VwInv, Begun, Ending
<1>4. ZoomAsked(m)
  BY <1>2 DEF VwInv, ZoomAsked, Ending
<1>5. PathsFollow(m) /\ PopupShown(m)
  BY <1>2 DEF VwInv, PathsFollow, PopupShown
<1> QED
  BY <1>2, <1>3, <1>4, <1>5 DEF VwInv

LEMMA PanByKeeps ==
  ASSUME NEW v, VwInv(v), v.popup = {}, NEW offset \in Int, NEW animate \in BOOLEAN,
         NEW silent \in BOOLEAN, NEW m, m = PanBy(v, offset, animate, silent)
  PROVE  VwInv(m)
<1>1. /\ Viewed(m) /\ Panned(v, m) /\ PathsFollow(m)
      /\ m.moving => m.panning \/ (v.moving /\ ~v.panning)
  BY PanByDoes DEF VwInv
<1>2. PopupShown(m)
  BY <1>1 DEF Panned, PopupShown
<1> QED
  BY <1>1, <1>2, PannedKeeps

\* A popup that fits is in view when the pan it asks for has come to its end.
LEMMA AdjustPanDoes ==
  ASSUME NEW v, Viewed(v), NEW at \in Int
  PROVE  AdjustPan(v, at) \in Int /\ PopupInView(v, at, v.pos - AdjustPan(v, at))
<1>1. /\ v.base \in Int /\ v.pos \in Int /\ v.half \in Int
      /\ PopupWidth \in Int /\ Padding \in Int
  <2>1. v.half \in Int
    BY HalvesAssumption DEF Viewed
  <2>2. PopupWidth \in Int /\ Padding \in Int
    BY PopupAssumption
  <2> QED
    BY <2>1, <2>2 DEF Viewed
<1> DEFINE left == at - v.base + v.pos
           right == left + PopupWidth + Padding - 2 * v.half
           dx == IF right > 0 THEN right ELSE 0
           d == AdjustPan(v, at)
<1>2. d = IF left - dx - Padding < 0 THEN left - Padding ELSE dx
  BY DEF AdjustPan, Left
<1>3. d \in Int
  <2>1. left \in Int /\ right \in Int
    BY <1>1
  <2> QED
    BY <1>1, <1>2, <2>1
<1>4. at - v.base + (v.pos - d) = left - d
  BY <1>1, <1>3
<1> HIDE DEF d
<1>5. ASSUME PopupWidth + 2 * Padding <= 2 * v.half
      PROVE  left - d >= Padding /\ left - d + PopupWidth + Padding <= 2 * v.half
  <2>1. left \in Int
    BY <1>1
  <2> HIDE DEF left
  <2>2. CASE right > 0
    BY <1>1, <1>2, <1>5, <2>1, <2>2
  <2>3. CASE ~(right > 0)
    BY <1>1, <1>2, <1>5, <2>1, <2>3
  <2> QED
    BY <2>2, <2>3
<1> QED
  BY <1>3, <1>4, <1>5 DEF PopupInView, d

-------------------------------------------------------------------------------
\* What the steps do.
LEMMA AskPopupKeeps ==
  ASSUME VwInv(view), NEW at \in Int, AskPopup(at)
  PROVE  VwInv(view')
<1> DEFINE v == Asked(view)
           d == AdjustPan(view, at)
           w == PanBy(v, d, TRUE, FALSE)
           opened == IF view.animating \/ view.frames # <<>> \/ (view.panning /\ d = 0)
                     THEN {} ELSE {at}
<1>1. view' = [w EXCEPT !.popup = opened]
  BY DEF AskPopup
<1>2. /\ VwInv(v) /\ v.popup = {} /\ v.base = view.base /\ v.pos = view.pos
      /\ v.half = view.half /\ v.animating = view.animating /\ v.frames = view.frames
      /\ v.panning = view.panning
  BY AskedKeeps
<1>3. d \in Int /\ PopupInView(view, at, view.pos - d)
  BY AdjustPanDoes DEF VwInv
<1> HIDE DEF v, d
<1>4. VwInv(w)
  BY <1>2, <1>3, PanByKeeps
<1>5. /\ Panned(v, w) /\ (d = 0 => w = v)
      /\ d # 0 => w.panning = TRUE /\ w.panTo = v.pos - d
  <2> DEFINE yes == TRUE
             no == FALSE
  <2>1. Viewed(v) /\ PathsFollow(v) /\ yes \in BOOLEAN /\ no \in BOOLEAN /\ yes = TRUE
    BY <1>2 DEF VwInv
  <2>2. w = PanBy(v, d, yes, no)
    OBVIOUS
  <2> HIDE DEF w, yes, no
  <2> HIDE DEF d, v
  <2>3. d \in Int
    BY <1>3
  <2>4. Panned(v, w) /\ (yes = TRUE => PansTo(v, w, d))
    BY <2>1, <2>2, <2>3, PanByDoes
  <2> QED
    BY <2>1, <2>4 DEF PansTo
<1>6. Viewed(w)
  BY <1>4 DEF VwInv
<1> HIDE DEF w, opened
<1>7. /\ Viewed(view') /\ view'.popup = opened
      /\ view'.animating = w.animating /\ view'.frames = w.frames /\ view'.timers = w.timers
      /\ view'.zooming = w.zooming /\ view'.dragOff = w.dragOff
      /\ view'.pathZooming = w.pathZooming /\ view'.moving = w.moving
      /\ view'.panning = w.panning /\ view'.panTo = w.panTo /\ view'.pos = w.pos
      /\ view'.overtaken = w.overtaken /\ view'.asked = w.asked
      /\ view'.toZoom = w.toZoom /\ view'.zoom = w.zoom /\ view'.buttonsOff = w.buttonsOff
      /\ view'.stale = w.stale /\ view'.viewport = w.viewport
      /\ view'.base = w.base /\ view'.half = w.half
  BY <1>1, <1>6 DEF Viewed, VwFields
<1>8. Begun(view') /\ ZoomAsked(view') /\ PathsFollow(view')
  <2>1. Begun(view')
    BY <1>4, <1>7 DEF VwInv, Begun, Ending
  <2>2. ZoomAsked(view')
    BY <1>4, <1>7 DEF VwInv, ZoomAsked, Ending
  <2>3. PathsFollow(view')
    BY <1>4, <1>7 DEF VwInv, PathsFollow
  <2> QED
    BY <2>1, <2>2, <2>3
<1>9. PopupShown(view')
  <2>1. CASE opened = {}
    BY <1>7, <2>1 DEF PopupShown
  <2>2. CASE opened # {}
    <3>1. /\ opened = {at} /\ ~view.animating /\ view.frames = <<>>
          /\ d = 0 => ~view.panning
      BY <2>2 DEF opened
    <3>2. ~view'.animating /\ view'.frames = <<>>
      BY <1>2, <1>5, <1>7, <3>1 DEF Panned
    <3>3. (IF view'.panning THEN view'.panTo ELSE view'.pos) = view.pos - d
      <4>1. CASE d = 0
        <5>1. view.pos - d = view.pos
          BY <4>1 DEF VwInv, Viewed
        <5> QED
          BY <1>2, <1>5, <1>7, <3>1, <4>1, <5>1
      <4>2. CASE d # 0
        BY <1>2, <1>5, <1>7, <4>2
      <4> QED
        BY <4>1, <4>2
    <3>4. PopupInView(view', at, view.pos - d)
      BY <1>2, <1>3, <1>5, <1>7 DEF PopupInView, Panned
    <3> QED
      BY <1>7, <3>1, <3>2, <3>3, <3>4 DEF PopupShown
  <2> QED
    BY <2>1, <2>2
<1> QED
  BY <1>7, <1>8, <1>9 DEF VwInv

LEMMA ResizeKeeps ==
  ASSUME VwInv(view), NEW half \in Halves, Resize(half)
  PROVE  VwInv(view')
<1> DEFINE v == Asked(view)
           c == CancelFrame(v.frames, "resize")
           q == Append(c, "resize")
<1>1. view' = [v EXCEPT !.container = half, !.frames = q]
  BY DEF Resize
<1>2. VwInv(v) /\ v.popup = {}
  BY AskedKeeps
<1> HIDE DEF v
<1>3. v.frames \in Frames /\ Viewed(v)
  BY <1>2 DEF VwInv, Viewed
<1>4. /\ c \in Frames /\ (EndsLater(v.frames) => EndsLater(c))
      /\ \A e : e # "resize" => (Contains(c, e) <=> Contains(v.frames, e))
  BY <1>3, FrameCancelled
<1> HIDE DEF c
<1>5. /\ q \in Frames /\ (EndsLater(c) => EndsLater(q))
      /\ \A e : Contains(q, e) <=> (Contains(c, e) \/ e = "resize")
  BY <1>4, FrameAppended DEF FrameKinds
<1> HIDE DEF q
<1>6. /\ Viewed(view') /\ view'.frames = q /\ view'.popup = v.popup
      /\ view'.animating = v.animating /\ view'.timers = v.timers
      /\ view'.zooming = v.zooming /\ view'.dragOff = v.dragOff
      /\ view'.pathZooming = v.pathZooming /\ view'.moving = v.moving
      /\ view'.panning = v.panning /\ view'.pos = v.pos /\ view'.half = v.half
      /\ view'.overtaken = v.overtaken /\ view'.asked = v.asked
      /\ view'.toZoom = v.toZoom /\ view'.zoom = v.zoom /\ view'.buttonsOff = v.buttonsOff
      /\ view'.stale = v.stale /\ view'.viewport = v.viewport
  BY <1>1, <1>3, <1>5 DEF Viewed, VwFields
<1>7. /\ Contains(q, "zoomend") <=> Contains(v.frames, "zoomend")
      /\ Contains(q, "zoomanim") <=> Contains(v.frames, "zoomanim")
      /\ EndsLater(v.frames) => EndsLater(q)
  BY <1>4, <1>5
<1>8. Begun(view')
  BY <1>2, <1>6, <1>7 DEF VwInv, Begun, Ending
<1>9. ZoomAsked(view')
  BY <1>2, <1>6, <1>7 DEF VwInv, ZoomAsked, Ending
<1>10. PathsFollow(view') /\ PopupShown(view')
  BY <1>2, <1>6 DEF VwInv, PathsFollow, PopupShown
<1> QED
  BY <1>6, <1>8, <1>9, <1>10 DEF VwInv

LEMMA PanStepKeeps ==
  ASSUME VwInv(view), PanStep
  PROVE  VwInv(view')
<1>1. Viewed(view) /\ PopupShown(view) /\ PathsFollow(view) /\ view.panning
  BY DEF VwInv, PanStep
<1>2. CASE view.transitions
  <2>1. view' = [view EXCEPT !.pos = view.shown, !.stale = TRUE]
    BY <1>2 DEF PanStep
  <2>2. /\ Viewed(view') /\ Panned(view, view') /\ view'.stale = TRUE
        /\ view'.panning = view.panning /\ view'.panTo = view.panTo
    BY <1>1, <2>1 DEF Viewed, Panned, VwFields
  <2>3. PathsFollow(view')
    BY <2>2 DEF PathsFollow
  <2>4. PopupShown(view')
    BY <1>1, <2>2 DEF PopupShown, Panned, PopupInView
  <2> QED
    BY <1>1, <2>2, <2>3, <2>4, PannedKeeps
<1>3. CASE ~view.transitions
  <2>1. view' = FallbackStep(view)
    BY <1>3 DEF PanStep
  <2>2. /\ Viewed(view') /\ Panned(view, view') /\ view'.panTo = view.panTo
        /\ \/ /\ PathsFollow(view') /\ view'.moving = FALSE /\ view'.panning = FALSE
              /\ view'.pos = view.panTo
           \/ /\ view'.stale = TRUE /\ view'.panning = view.panning
              /\ view'.moving = view.moving
    BY <1>1, <2>1, FallbackStepDoes
  <2>3. PathsFollow(view')
    BY <2>2 DEF PathsFollow
  <2>4. PopupShown(view')
    BY <1>1, <2>2 DEF PopupShown, Panned, PopupInView
  <2> QED
    BY <1>1, <2>2, <2>3, <2>4, PannedKeeps
<1> QED
  BY <1>2, <1>3

LEMMA TransitionEndKeeps ==
  ASSUME VwInv(view), NEW kind, TransitionEnd(kind)
  PROVE  VwInv(view')
<1> DEFINE v == IF view.panning THEN EndPan(view) ELSE view
<1>1. view' = IF kind = "fade" THEN v ELSE ZoomTransitionEnd(v)
  BY DEF TransitionEnd
<1>2. VwInv(v)
  <2>1. CASE ~view.panning
    BY <2>1
  <2>2. CASE view.panning
    <3> DEFINE e == EndPan(view)
    <3>1. Viewed(view) /\ PopupShown(view)
      BY DEF VwInv
    <3>2. /\ Viewed(e) /\ Panned(view, e) /\ PathsFollow(e) /\ e.moving = FALSE
          /\ e.panning = FALSE /\ e.pos = view.panTo
      BY <3>1, EndPanDoes
    <3> HIDE DEF e
    <3>3. PopupShown(e)
      BY <2>2, <3>1, <3>2 DEF PopupShown, Panned, PopupInView
    <3>4. VwInv(e)
      BY <3>2, <3>3, PannedKeeps
    <3> QED
      BY <2>2, <3>4 DEF e
  <2> QED
    BY <2>1, <2>2
<1> HIDE DEF v
<1>3. VwInv(ZoomTransitionEnd(v))
  BY <1>2, ZoomTransitionEndKeeps DEF VwInv
<1> QED
  BY <1>1, <1>2, <1>3

LEMMA FrameKeeps ==
  ASSUME VwInv(view), Frame
  PROVE  VwInv(view')
<1> DEFINE t == Tail(view.frames)
           v == [view EXCEPT !.frames = t]
<1>1. view.frames \in Frames /\ view.frames # <<>> /\ Viewed(view)
  BY DEF VwInv, Viewed, Frame
<1>2. /\ Head(view.frames) \in FrameKinds /\ t \in Frames
      /\ \A e : Contains(t, e) => Contains(view.frames, e)
      /\ \A e : Contains(view.frames, e) /\ Head(view.frames) # e => Contains(t, e)
      /\ EndsLater(view.frames) => EndsLater(t)
      /\ EndsLater(view.frames) /\ Head(view.frames) = "zoomanim" => Contains(t, "zoomend")
  BY <1>1, FrameTaken
<1>3. view' = CASE Head(view.frames) = "zoomanim" -> ZoomAnimFrame(v)
                [] Head(view.frames) = "zoomend" -> ZoomEndFrame(v)
                [] Head(view.frames) = "resize" -> InvalidateSize(v)
  BY DEF Frame
<1> HIDE DEF t
<1>4. /\ Viewed(v) /\ v.frames = t /\ v.popup = view.popup
      /\ v.animating = view.animating /\ v.timers = view.timers
      /\ v.zooming = view.zooming /\ v.dragOff = view.dragOff
      /\ v.pathZooming = view.pathZooming /\ v.moving = view.moving
      /\ v.panning = view.panning /\ v.pos = view.pos /\ v.half = view.half
      /\ v.overtaken = view.overtaken /\ v.asked = view.asked
      /\ v.toZoom = view.toZoom /\ v.zoom = view.zoom /\ v.buttonsOff = view.buttonsOff
      /\ v.stale = view.stale /\ v.viewport = view.viewport
  BY <1>1, <1>2 DEF Viewed, VwFields
<1> HIDE DEF v
<1>5. v.popup = {}
  BY <1>1, <1>4 DEF VwInv, PopupShown
<1>6. CASE Head(view.frames) = "zoomanim"
  <2>1. view' = [v EXCEPT !.css = v.animating, !.timers = @ + 1, !.pathZooming = TRUE]
    BY <1>3, <1>6 DEF ZoomAnimFrame
  <2>2. /\ Viewed(view') /\ view'.frames = t /\ view'.popup = v.popup
        /\ view'.animating = v.animating /\ view'.timers = v.timers + 1
        /\ view'.zooming = v.zooming /\ view'.dragOff = v.dragOff
        /\ view'.pathZooming = TRUE /\ view'.moving = v.moving
        /\ view'.panning = v.panning
        /\ view'.overtaken = v.overtaken /\ view'.asked = v.asked
        /\ view'.toZoom = v.toZoom /\ view'.zoom = v.zoom
        /\ view'.buttonsOff = v.buttonsOff
    BY <1>4, <2>1 DEF Viewed, VwFields
  <2>3. view'.timers > 0
    BY <1>4, <2>2 DEF Viewed
  <2>4. view.animating \/ Contains(t, "zoomend")
    BY <1>2, <1>6 DEF VwInv, Begun
  <2>5. Begun(view')
    BY <1>2, <1>4, <2>2, <2>3, <2>4 DEF VwInv, Begun, Ending
  <2>6. ZoomAsked(view')
    BY <1>2, <1>4, <2>2, <2>4 DEF VwInv, ZoomAsked, Ending
  <2>7. PathsFollow(view') /\ PopupShown(view')
    BY <1>5, <2>2 DEF PathsFollow, PopupShown
  <2> QED
    BY <2>2, <2>5, <2>6, <2>7 DEF VwInv
<1>7. CASE Head(view.frames) = "zoomend"
  <2> DEFINE yes == TRUE
             to == v.toZoom
             r == ResetView(v, v.toPlace, to, yes)
  <2>1. view' = [r EXCEPT !.dragOff = FALSE]
    BY <1>3, <1>7 DEF ZoomEndFrame
  <2>2. WasSet(v, r, to) /\ r.zooming = FALSE /\ r.pathZooming = FALSE
    <3>1. v.toPlace \in Int /\ to \in Zooms /\ yes \in BOOLEAN /\ yes = TRUE
      BY <1>4 DEF Viewed
    <3>2. v.buttonsOff = DisabledAt(v.zoom)
      BY <1>4 DEF VwInv, ZoomAsked
    <3> HIDE DEF yes, to
    <3>3. /\ WasSet(v, r, to)
          /\ yes = TRUE => r.zooming = FALSE /\ r.pathZooming = FALSE
      BY <1>4, <3>1, <3>2, ResetViewDoes
    <3> QED
      BY <3>1, <3>3
  <2> HIDE DEF r, to
  <2>3. /\ Viewed(view') /\ view'.frames = t /\ view'.popup = v.popup
        /\ view'.animating = v.animating /\ view'.timers = v.timers
        /\ view'.zooming = FALSE /\ view'.dragOff = FALSE
        /\ view'.pathZooming = FALSE /\ view'.moving = FALSE
        /\ view'.overtaken = v.overtaken /\ view'.asked = v.asked
        /\ view'.toZoom = v.toZoom /\ view'.zoom = to
        /\ view'.buttonsOff = DisabledAt(to)
        /\ view'.stale = r.stale /\ view'.viewport = r.viewport /\ view'.pos = r.pos
        /\ view'.half = r.half /\ view'.panning = r.panning /\ r.pathZooming = FALSE
    BY <1>4, <2>1, <2>2 DEF WasSet, Set, Viewed, VwFields
  <2>4. Contains(view.frames, "zoomend")
    <3>1. 1 \in 1..Len(view.frames) /\ view.frames[1] = "zoomend"
      BY <1>1, <1>7, EmptySeq, LenProperties DEF Frames
    <3> QED
      BY <3>1 DEF Contains
  <2>5. Begun(view')
    BY <1>2, <1>4, <1>7, <2>3 DEF VwInv, Begun, Ending
  <2>6. ZoomAsked(view')
    BY <1>2, <1>4, <2>3, <2>4 DEF VwInv, ZoomAsked, Ending, to
  <2>7. PathsFollow(view') /\ PopupShown(view')
    BY <1>5, <2>2, <2>3 DEF WasSet, PathsFollow, PopupShown
  <2> QED
    BY <2>3, <2>5, <2>6, <2>7 DEF VwInv
<1>8. CASE Head(view.frames) = "resize"
  <2>1. VwInv(v)
    <3>1. Begun(v)
      BY <1>2, <1>4, <1>8 DEF VwInv, Begun, Ending
    <3>2. ZoomAsked(v)
      BY <1>2, <1>4, <1>8 DEF VwInv, ZoomAsked, Ending
    <3>3. PathsFollow(v) /\ PopupShown(v)
      BY <1>4, <1>5 DEF VwInv, PathsFollow, PopupShown
    <3> QED
      BY <1>4, <3>1, <3>2, <3>3 DEF VwInv
  <2> DEFINE offset == v.half - v.container
             to == v.pos - offset
             w == SetPosition(v, to)
  <2>2. view' = IF offset = 0 THEN v
                ELSE [w EXCEPT !.half = v.container, !.sizeTimer = TRUE, !.stale = TRUE]
    BY <1>3, <1>8 DEF InvalidateSize
  <2>3. to \in Int
    <3>1. v.half \in Int /\ v.container \in Int /\ v.pos \in Int
      BY <1>4, HalvesAssumption DEF Viewed
    <3> QED
      BY <3>1
  <2> HIDE DEF to, offset
  <2>4. Viewed(w) /\ Panned(v, w) /\ w.moving = v.moving /\ w.panning = v.panning
    BY <1>4, <2>3, SetPositionDoes
  <2> HIDE DEF w
  <2>5. CASE offset = 0
    BY <2>1, <2>2, <2>5
  <2>6. CASE offset # 0
    <3>1. view' = [w EXCEPT !.half = v.container, !.sizeTimer = TRUE, !.stale = TRUE]
      BY <2>2, <2>6
    <3>2. /\ Viewed(view') /\ view'.frames = w.frames /\ view'.popup = w.popup
          /\ view'.animating = w.animating /\ view'.timers = w.timers
          /\ view'.zooming = w.zooming /\ view'.dragOff = w.dragOff
          /\ view'.pathZooming = w.pathZooming /\ view'.moving = w.moving
          /\ view'.panning = w.panning /\ view'.stale = TRUE
          /\ view'.overtaken = w.overtaken /\ view'.asked = w.asked
          /\ view'.toZoom = w.toZoom /\ view'.zoom = w.zoom
          /\ view'.buttonsOff = w.buttonsOff
      BY <1>4, <2>4, <3>1 DEF Viewed, VwFields
    <3>3. Begun(view')
      BY <2>1, <2>4, <3>2 DEF VwInv, Begun, Ending, Panned
    <3>4. ZoomAsked(view')
      BY <2>1, <2>4, <3>2 DEF VwInv, ZoomAsked, Ending, Panned
    <3>5. PathsFollow(view') /\ PopupShown(view')
      BY <1>5, <2>4, <3>2 DEF PathsFollow, PopupShown, Panned
    <3> QED
      BY <3>2, <3>3, <3>4, <3>5 DEF VwInv
  <2> QED
    BY <2>5, <2>6
<1> QED
  BY <1>2, <1>6, <1>7, <1>8 DEF FrameKinds

LEMMA ZoomTimerKeeps ==
  ASSUME VwInv(view), ZoomTimer
  PROVE  VwInv(view')
<1> DEFINE v == [view EXCEPT !.timers = @ - 1]
<1>1. view' = ZoomTransitionEnd(v) /\ view.timers > 0
  BY DEF ZoomTimer
<1>2. Viewed(view)
  BY DEF VwInv
<1>3. /\ Viewed(v) /\ v.frames = view.frames /\ v.popup = view.popup
      /\ v.animating = view.animating
      /\ v.zooming = view.zooming /\ v.dragOff = view.dragOff
      /\ v.pathZooming = view.pathZooming /\ v.moving = view.moving
      /\ v.panning = view.panning /\ v.panTo = view.panTo /\ v.pos = view.pos
      /\ v.half = view.half /\ v.base = view.base
      /\ v.overtaken = view.overtaken /\ v.asked = view.asked
      /\ v.toZoom = view.toZoom /\ v.zoom = view.zoom /\ v.buttonsOff = view.buttonsOff
      /\ v.stale = view.stale /\ v.viewport = view.viewport
  BY <1>1, <1>2 DEF Viewed, VwFields
<1> HIDE DEF v
<1>4. Begun(v) \/ v.animating
  BY <1>3 DEF VwInv, Begun, Ending
<1>5. ZoomAsked(v)
  BY <1>3 DEF VwInv, ZoomAsked, Ending
<1>6. PathsFollow(v) /\ PopupShown(v)
  BY <1>3 DEF VwInv, PathsFollow, PopupShown, PopupInView
<1> QED
  BY <1>1, <1>3, <1>4, <1>5, <1>6, ZoomTransitionEndKeeps

LEMMA SizeTimerKeeps ==
  ASSUME VwInv(view), SizeTimer
  PROVE  VwInv(view')
<1> DEFINE v == [view EXCEPT !.sizeTimer = FALSE]
<1>1. view' = MoveEnd(v)
  BY DEF SizeTimer
<1>2. Viewed(view) /\ PopupShown(view)
  BY DEF VwInv
<1>3. /\ Viewed(v) /\ Panned(view, v) /\ v.panning = view.panning /\ v.panTo = view.panTo
      /\ v.pos = view.pos
  BY <1>2 DEF Viewed, Panned, VwFields
<1> HIDE DEF v
<1>4. /\ Viewed(view') /\ Panned(v, view') /\ PathsFollow(view') /\ view'.moving = FALSE
      /\ view'.panning = v.panning /\ view'.panTo = v.panTo /\ view'.pos = v.pos
  BY <1>1, <1>3, MoveEndDoes
<1>5. Panned(view, view')
  BY <1>3, <1>4, PannedAfter
<1>6. PopupShown(view')
  BY <1>2, <1>3, <1>4, <1>5 DEF PopupShown, Panned, PopupInView
<1> QED
  BY <1>4, <1>5, <1>6, PannedKeeps

\* A zoom that is limited is one of the page.
LEMMA LimitedZoom ==
  ASSUME NEW zoom \in Zooms, NEW delta \in Int
  PROVE  LimitZoom(zoom + delta) \in Zooms
<1> DEFINE least == Min(Zooms)
           most == Max(Zooms)
<1>1. least \in Int /\ most \in Int /\ Zooms = least..most
  BY ZoomsAssumption
<1> HIDE DEF least, most
<1>2. (IF zoom + delta < least THEN least ELSE IF zoom + delta > most THEN most
       ELSE zoom + delta) \in Zooms
  BY <1>1
<1> QED
  BY <1>2 DEF LimitZoom, least, most

LEMMA ViewStep ==
  ASSUME VwInv(view), [VwNext]_vwVars
  PROVE  VwInv(view')
<1>1. ASSUME NEW place \in Places, NEW zoom \in Zooms, NEW layers \in BOOLEAN,
             AskView(place, zoom, layers)
      PROVE  VwInv(view')
  <2> DEFINE v == Asked(view)
  <2>1. VwInv(v) /\ v.popup = {}
    BY AskedKeeps
  <2>2. view' = SetView(v, place, zoom, layers) /\ place \in Int
    BY <1>1, PlacesAssumption DEF AskView
  <2> HIDE DEF v
  <2> QED
    BY <2>1, <2>2, SetViewKeeps
<1>2. ASSUME NEW delta \in {-3, -1, 1, 3}, NEW layers \in BOOLEAN, ClickZoom(delta, layers)
      PROVE  VwInv(view')
  <2> DEFINE v == Asked(view)
             place == Centre(view)
             zoom == LimitZoom(view.zoom + delta)
  <2>1. VwInv(v) /\ v.popup = {}
    BY AskedKeeps
  <2>2. view' = SetView(v, place, zoom, layers)
    BY <1>2 DEF ClickZoom
  <2>3. place \in Int
    <3>1. view.base \in Int /\ view.pos \in Int /\ view.half \in Int
      BY HalvesAssumption DEF VwInv, Viewed
    <3> QED
      BY <3>1 DEF Centre
  <2>4. zoom \in Zooms
    BY LimitedZoom DEF VwInv, Viewed
  <2> HIDE DEF v, place, zoom
  <2> QED
    BY <2>1, <2>2, <2>3, <2>4, SetViewKeeps
<1>3. ASSUME NEW offset \in {-1, 1}, NEW animate \in BOOLEAN, NEW silent \in BOOLEAN,
             AskPan(offset, animate, silent)
      PROVE  VwInv(view')
  <2> DEFINE v == Asked(view)
  <2>1. VwInv(v) /\ v.popup = {}
    BY AskedKeeps
  <2>2. view' = PanBy(v, offset, animate, silent) /\ offset \in Int
    BY <1>3 DEF AskPan
  <2> HIDE DEF v
  <2> QED
    BY <2>1, <2>2, PanByKeeps
<1>4. ASSUME NEW at \in Places, AskPopup(at)
      PROVE  VwInv(view')
  BY <1>4, AskPopupKeeps, PlacesAssumption
<1>5. ASSUME NEW half \in Halves, Resize(half)
      PROVE  VwInv(view')
  BY <1>5, ResizeKeeps
<1>6. CASE PaneMoves
  <2> DEFINE s == view'.shown
  <2>1. PICK to \in Int : view' = [view EXCEPT !.shown = to]
    <3> DEFINE end == IF view.transitions THEN view.style ELSE view.panTo
    <3>1. view' = [view EXCEPT !.shown = IF view.shown < end THEN view.shown + 1
                                         ELSE view.shown - 1]
      BY <1>6 DEF PaneMoves
    <3>2. view.shown + 1 \in Int /\ view.shown - 1 \in Int
      BY DEF VwInv, Viewed
    <3> HIDE DEF end
    <3> QED
      BY <3>1, <3>2
  <2>2. Viewed(view)
    BY DEF VwInv
  <2>3. Same(view, view')
    BY <2>1, <2>2 DEF Same, Panned, Viewed, VwFields
  <2> QED
    BY <2>3, SameKeeps
<1>7. ASSUME NEW kind \in {"pan", "zoom", "fade"}, TransitionEnd(kind)
      PROVE  VwInv(view')
  BY <1>7, TransitionEndKeeps
<1>8. CASE UNCHANGED vwVars
  BY <1>8 DEF vwVars
<1> QED
  BY <1>1, <1>2, <1>3, <1>4, <1>5, <1>6, <1>7, <1>8, PanStepKeeps, FrameKeeps,
     ZoomTimerKeeps, SizeTimerKeeps DEF VwNext

LEMMA ViewStarts == VwInit => VwInv(view)
<1> SUFFICES ASSUME VwInit PROVE VwInv(view)
  OBVIOUS
<1>1. /\ StartPlace \in Int /\ StartHalf \in Int /\ StartHalf \in Halves
      /\ StartPlace - StartHalf \in Int /\ <<>> \in Frames
  BY PlacesAssumption, HalvesAssumption DEF Frames
<1>2. /\ Viewed(view) /\ view.frames = <<>> /\ view.animating = FALSE /\ view.moving = FALSE
      /\ view.zooming = FALSE /\ view.dragOff = FALSE /\ view.pathZooming = FALSE
      /\ view.popup = {} /\ view.overtaken = FALSE /\ view.asked = view.zoom
      /\ view.buttonsOff = DisabledAt(view.zoom)
      /\ view.viewport = [pos |-> view.pos, half |-> view.half]
  BY <1>1, ZoomsAssumption DEF VwInit, Viewed, VwFields
<1>3. EndsLater(<<>>) /\ ~Contains(<<>>, "zoomend") /\ ~Contains(<<>>, "zoomanim")
  BY DEF EndsLater, Contains
<1> QED
  BY <1>2, <1>3 DEF VwInv, Begun, Ending, ZoomAsked, PathsFollow, PopupShown

ViewInv == VwInv(view)

\* The view's type: among the rest, no zoom beyond the limits of the page is ever
\* set or asked for, and a zoom's transition runs only while a zoom does.
THEOREM ViewTypeCorrect == VwSpec => []VwTypeOK
<1>1. VwInit => ViewInv
  BY ViewStarts DEF ViewInv
<1>2. ViewInv /\ [VwNext]_vwVars => ViewInv'
  BY ViewStep DEF ViewInv
<1>3. ViewInv => VwTypeOK
  <2>1. ASSUME NEW zoom PROVE DisabledAt(zoom) \subseteq {"in", "out"}
    BY DEF DisabledAt
  <2> QED
    BY <2>1 DEF ViewInv, VwInv, Viewed, ZoomAsked, VwTypeOK, Frames, FrameKinds
<1> QED
  BY <1>1, <1>2, <1>3, PTL DEF VwSpec

\* However pans, animated zooms and resizes overlap, each with the frames, timers
\* and transition events it leaves behind: when nothing runs or is awaited any
\* more, every movestart and zoomstart has had its end, dragging works, the zoom
\* is the one asked for, and paths, buttons and the popup agree with the view.
THEOREM ViewSettles == VwSpec => []QuietMeansSettled
<1>1. VwInit => ViewInv
  BY ViewStarts DEF ViewInv
<1>2. ViewInv /\ [VwNext]_vwVars => ViewInv'
  BY ViewStep DEF ViewInv
<1>3. ViewInv => QuietMeansSettled
  <2> SUFFICES ASSUME VwInv(view), ViewQuiet
               PROVE  QuietMeansSettled
    BY DEF ViewInv, QuietMeansSettled
  <2>1. ~Contains(<<>>, "zoomend")
    BY DEF Contains
  <2>2. ~Ending(view) /\ ~view.panning
    BY <2>1 DEF ViewQuiet, Ending
  <2>3. ~view.moving /\ ~view.zooming /\ ~view.dragOff /\ ~view.pathZooming
    BY <2>2 DEF VwInv, Begun
  <2>4. /\ view.buttonsOff = DisabledAt(view.zoom)
        /\ view.zoom = IF view.overtaken THEN view.toZoom ELSE view.asked
    BY <2>2 DEF VwInv, ZoomAsked
  <2>5. ~view.stale => view.viewport = [pos |-> view.pos, half |-> view.half]
    BY <2>2, <2>3 DEF VwInv, PathsFollow
  <2>6. ASSUME NEW at \in view.popup, PopupWidth + 2 * Padding <= 2 * view.half
        PROVE  /\ Left(view, at) >= Padding
               /\ Left(view, at) + PopupWidth + Padding <= 2 * view.half
    BY <2>2, <2>6 DEF VwInv, PopupShown, PopupInView, Left
  <2> QED
    BY <2>3, <2>4, <2>5, <2>6 DEF QuietMeansSettled
<1> QED
  BY <1>1, <1>2, <1>3, PTL DEF VwSpec

-------------------------------------------------------------------------------
(* The tile layer.                                                          *)

TileStates == {"loading", "done", "behind", "stopped"}

\* What _tiles may hold: a state for each of some tiles.
TileMaps == UNION {[D -> TileStates] : D \in SUBSET UNION {Visible(area) : area \in Areas}}

TlState ==
  [onMap : BOOLEAN, platform : Platforms, area : Areas, zooming : BOOLEAN, ended : BOOLEAN,
   tiles : TileMaps, toLoad : Int, strays : Nat, frontDone : Nat, bg : Nat,
   animating : BOOLEAN, timer : BOOLEAN, lock : BOOLEAN, due : BOOLEAN, early : Nat, lost : Nat,
   needed : BOOLEAN, leftover : BOOLEAN]

Done(l) == {x \in DOMAIN l.tiles : l.tiles[x] = "done"}

\* The counter, `extra` loads having arrived that are not counted yet.
Counts(l, extra) == l.toLoad = Cardinality(Loading(l)) + extra + l.lost - l.early

\* CounterExact of any state of the layer, and what it rests on: finitely many
\* tiles, and no more of them complete than images in the container.
ExactBut(l, extra) ==
  /\ l \in TlState
  /\ IsFiniteSet(DOMAIN l.tiles)
  /\ Cardinality(Done(l)) <= l.frontDone
  /\ Counts(l, extra)

Exact(l) == ExactBut(l, 0)

\* The timer and what it may clear.
SameTimer(l, m) ==
  /\ m.timer = l.timer /\ m.leftover = l.leftover /\ m.needed = l.needed
  /\ m.animating = l.animating

\* The map's side of the layer.
SameMap(l, m) ==
  /\ m.onMap = l.onMap /\ m.zooming = l.zooming /\ m.ended = l.ended

-------------------------------------------------------------------------------
\* The union of disjoint sets.
LEMMA DisjointUnion ==
  ASSUME NEW S, NEW T, IsFiniteSet(S), IsFiniteSet(T), S \cap T = {}
  PROVE  /\ IsFiniteSet(S \cup T)
         /\ Cardinality(S \cup T) = Cardinality(S) + Cardinality(T)
<1>1. Cardinality(S \cup T) = Cardinality(S) + Cardinality(T) - Cardinality({})
  BY FS_Union
<1>2. Cardinality({}) = 0 /\ Cardinality(S) \in Nat /\ Cardinality(T) \in Nat
  BY FS_EmptySet, FS_CardinalityType
<1> QED
  BY <1>1, <1>2, FS_Union

\* Tiles in a state are finitely many.
LEMMA TilesFinite ==
  ASSUME NEW l, IsFiniteSet(DOMAIN l.tiles)
  PROVE  /\ IsFiniteSet(Loading(l)) /\ Cardinality(Loading(l)) \in Nat
         /\ IsFiniteSet(Done(l)) /\ Cardinality(Done(l)) \in Nat
<1>1. Loading(l) \subseteq DOMAIN l.tiles /\ Done(l) \subseteq DOMAIN l.tiles
  BY DEF Loading, Done
<1> QED
  BY <1>1, FS_Subset, FS_CardinalityType

\* A function from tiles to states is what _tiles may hold.
LEMMA TileMapsHave ==
  /\ \A t \in TileMaps : t \in [DOMAIN t -> TileStates]
                         /\ DOMAIN t \subseteq UNION {Visible(area) : area \in Areas}
  /\ \A D \in SUBSET UNION {Visible(area) : area \in Areas} : [D -> TileStates] \subseteq TileMaps
<1> QED
  BY DEF TileMaps

\* _update asks for the missing tiles: each is loading, and counted.
LEMMA AddTilesExact ==
  ASSUME NEW l, Exact(l)
  PROVE  /\ Exact(AddTiles(l)) /\ SameMap(l, AddTiles(l)) /\ SameTimer(l, AddTiles(l))
         /\ AddTiles(l).bg = l.bg /\ AddTiles(l).early = l.early
<1> DEFINE m == AddTiles(l)
           t == [x \in DOMAIN l.tiles \cup Missing(l) |->
                   IF x \in Missing(l) THEN "loading" ELSE l.tiles[x]]
<1>1. l \in TlState /\ IsFiniteSet(DOMAIN l.tiles) /\ l.area \in Areas /\ l.tiles \in TileMaps
  BY DEF Exact, ExactBut, TlState
<1>2. /\ IsFiniteSet(Missing(l)) /\ Cardinality(Missing(l)) \in Nat
      /\ Missing(l) \subseteq UNION {Visible(area) : area \in Areas}
  <2>1. IsFiniteSet(Visible(l.area)) /\ Missing(l) \subseteq Visible(l.area)
    BY <1>1, VisibleAssumption DEF Missing
  <2> QED
    BY <1>1, <2>1, FS_Subset, FS_CardinalityType
<1>3. t \in TileMaps /\ DOMAIN t = DOMAIN l.tiles \cup Missing(l)
  <2>1. l.tiles \in [DOMAIN l.tiles -> TileStates]
        /\ DOMAIN l.tiles \subseteq UNION {Visible(area) : area \in Areas}
    BY <1>1, TileMapsHave
  <2>2. t \in [DOMAIN l.tiles \cup Missing(l) -> TileStates]
    BY <2>1 DEF TileStates
  <2> QED
    BY <1>2, <2>1, <2>2, TileMapsHave
<1>4. Loading([l EXCEPT !.tiles = t]) = Loading(l) \cup Missing(l)
      /\ Done([l EXCEPT !.tiles = t]) = Done(l)
  <2>1. [l EXCEPT !.tiles = t].tiles = t
    BY <1>1 DEF TlState
  <2>2. \A x \in DOMAIN t : t[x] = IF x \in Missing(l) THEN "loading" ELSE l.tiles[x]
    BY <1>3
  <2>3. Missing(l) \cap DOMAIN l.tiles = {}
    BY DEF Missing
  <2> HIDE DEF t
  <2> QED
    BY <1>3, <2>1, <2>2, <2>3 DEF Loading, Done
<1> HIDE DEF t
<1>5. m = [l EXCEPT !.tiles = t, !.toLoad = l.toLoad + Cardinality(Missing(l))]
  BY <1>1 DEF AddTiles, t, TlState
<1>6. /\ m \in TlState /\ m.tiles = t /\ m.toLoad = l.toLoad + Cardinality(Missing(l))
      /\ m.lost = l.lost /\ m.early = l.early /\ m.frontDone = l.frontDone /\ m.bg = l.bg
      /\ SameMap(l, m) /\ SameTimer(l, m)
  <2> DEFINE n == l.toLoad + Cardinality(Missing(l))
  <2>1. n \in Int /\ m = [l EXCEPT !.tiles = t, !.toLoad = n]
    BY <1>1, <1>2, <1>5 DEF TlState
  <2> HIDE DEF n, m
  <2>2. m \in TlState /\ m.tiles = t /\ m.toLoad = n
    BY <1>1, <1>3, <2>1 DEF TlState
  <2>3. m.lost = l.lost /\ m.early = l.early /\ m.frontDone = l.frontDone /\ m.bg = l.bg
    BY <1>1, <2>1 DEF TlState
  <2>4. SameMap(l, m) /\ SameTimer(l, m)
    BY <1>1, <2>1 DEF TlState, SameMap, SameTimer
  <2> QED
    BY <2>2, <2>3, <2>4 DEF n
<1>7. Loading(m) = Loading(l) \cup Missing(l) /\ Done(m) = Done(l)
  <2>1. [l EXCEPT !.tiles = t].tiles = m.tiles
    BY <1>1, <1>6 DEF TlState
  <2> QED
    BY <1>4, <2>1 DEF Loading, Done
<1>8. Cardinality(Loading(m)) = Cardinality(Loading(l)) + Cardinality(Missing(l))
  <2>1. Loading(l) \cap Missing(l) = {}
    BY DEF Loading, Missing
  <2> QED
    BY <1>1, <1>2, <1>7, <2>1, TilesFinite, DisjointUnion
<1>9. IsFiniteSet(DOMAIN m.tiles)
  <2>1. IsFiniteSet(DOMAIN l.tiles \cup Missing(l))
    BY <1>1, <1>2, FS_Union
  <2> QED
    BY <1>3, <1>6, <2>1
<1>10. Counts(m, 0)
  BY <1>1, <1>2, <1>6, <1>8, TilesFinite DEF Exact, ExactBut, Counts, TlState
<1> QED
  BY <1>6, <1>7, <1>9, <1>10 DEF Exact, ExactBut

\* A mobile browser drops the tiles out of view: those that were loading are
\* still counted, and those that were complete leave the container.
LEMMA RemoveOtherTilesExact ==
  ASSUME NEW l, Exact(l)
  PROVE  LET m == RemoveOtherTiles(l)
         IN  Exact(m) /\ SameMap(l, m) /\ SameTimer(l, m) /\ m.bg = l.bg /\ m.early = l.early
<1> DEFINE m == RemoveOtherTiles(l)
           away == DOMAIN l.tiles \ Visible(l.area)
           gone == {x \in away : l.tiles[x] = "done"}
           t == Only(l.tiles, Visible(l.area))
           left == away \cap Loading(l)
<1>1. l \in TlState /\ IsFiniteSet(DOMAIN l.tiles) /\ l.area \in Areas /\ l.tiles \in TileMaps
  BY DEF Exact, ExactBut, TlState
<1>2. /\ t \in TileMaps /\ DOMAIN t = DOMAIN l.tiles \cap Visible(l.area)
      /\ \A x \in DOMAIN t : t[x] = l.tiles[x]
  <2>1. l.tiles \in [DOMAIN l.tiles -> TileStates]
        /\ DOMAIN l.tiles \subseteq UNION {Visible(area) : area \in Areas}
    BY <1>1, TileMapsHave
  <2>2. t \in [DOMAIN l.tiles \cap Visible(l.area) -> TileStates]
        /\ \A x \in DOMAIN t : t[x] = l.tiles[x]
    BY <2>1 DEF Only
  <2> QED
    BY <2>1, <2>2, TileMapsHave
<1>3. /\ IsFiniteSet(left) /\ Cardinality(left) \in Nat
      /\ IsFiniteSet(gone) /\ Cardinality(gone) \in Nat
  <2>1. left \subseteq DOMAIN l.tiles /\ gone \subseteq DOMAIN l.tiles
    OBVIOUS
  <2> QED
    BY <1>1, <2>1, FS_Subset, FS_CardinalityType
<1>4. m = [l EXCEPT !.tiles = t, !.lost = l.lost + Cardinality(left),
                    !.frontDone = l.frontDone - Cardinality(gone)]
  BY <1>1 DEF RemoveOtherTiles, TlState
<1> HIDE DEF t, left, gone, m
<1>5. \A n : n.tiles = t => /\ Loading(l) = Loading(n) \cup left /\ Loading(n) \cap left = {}
                            /\ Done(l) = Done(n) \cup gone /\ Done(n) \cap gone = {}
  BY <1>2 DEF Loading, Done, left, gone
<1>6. \A n : n.tiles = t =>
        /\ Cardinality(Loading(l)) = Cardinality(Loading(n)) + Cardinality(left)
        /\ Cardinality(Done(l)) = Cardinality(Done(n)) + Cardinality(gone)
        /\ IsFiniteSet(DOMAIN n.tiles)
  <2> SUFFICES ASSUME NEW n, n.tiles = t
               PROVE  /\ Cardinality(Loading(l)) = Cardinality(Loading(n)) + Cardinality(left)
                      /\ Cardinality(Done(l)) = Cardinality(Done(n)) + Cardinality(gone)
                      /\ IsFiniteSet(DOMAIN n.tiles)
    OBVIOUS
  <2>1. DOMAIN t \subseteq DOMAIN l.tiles
    BY <1>2
  <2>2. IsFiniteSet(DOMAIN n.tiles)
    BY <1>1, <2>1, FS_Subset
  <2>3. IsFiniteSet(Loading(n)) /\ IsFiniteSet(Done(n))
    BY <2>2, TilesFinite
  <2> QED
    BY <1>3, <1>5, <2>2, <2>3, DisjointUnion
<1>7. m.tiles = t
  BY <1>1, <1>4 DEF TlState
<1>8. l.frontDone - Cardinality(gone) \in Nat /\ l.lost + Cardinality(left) \in Nat
  <2>1. l.frontDone \in Nat /\ Cardinality(Done(l)) <= l.frontDone /\ l.lost \in Nat
    BY DEF Exact, ExactBut, TlState
  <2>2. Cardinality(Done(l)) = Cardinality(Done(m)) + Cardinality(gone)
        /\ Cardinality(Done(m)) \in Nat
    BY <1>6, <1>7, TilesFinite
  <2> QED
    BY <1>3, <2>1, <2>2
<1>9. /\ m \in TlState /\ m.frontDone = l.frontDone - Cardinality(gone)
      /\ m.lost = l.lost + Cardinality(left)
  <2> DEFINE f == l.frontDone - Cardinality(gone)
             k == l.lost + Cardinality(left)
  <2>1. f \in Nat /\ k \in Nat /\ m = [l EXCEPT !.tiles = t, !.lost = k, !.frontDone = f]
    BY <1>4, <1>8
  <2> HIDE DEF f, k
  <2>2. m \in TlState /\ m.frontDone = f /\ m.lost = k
    BY <1>1, <1>2, <2>1 DEF TlState
  <2> QED
    BY <2>2 DEF f, k
<1>10. /\ SameMap(l, m) /\ SameTimer(l, m) /\ m.bg = l.bg /\ m.early = l.early
       /\ m.toLoad = l.toLoad
  BY <1>1, <1>4 DEF TlState, SameMap, SameTimer
<1>11. Cardinality(Done(m)) <= m.frontDone /\ Counts(m, 0)
  <2>1. /\ Cardinality(Loading(m)) \in Nat /\ Cardinality(Done(m)) \in Nat
        /\ l.toLoad \in Int /\ l.lost \in Nat /\ l.early \in Nat /\ l.frontDone \in Nat
        /\ Counts(l, 0) /\ Cardinality(Done(l)) <= l.frontDone
    BY <1>6, <1>7, TilesFinite DEF Exact, ExactBut, TlState
  <2>2. /\ Cardinality(Loading(l)) = Cardinality(Loading(m)) + Cardinality(left)
        /\ Cardinality(Done(l)) = Cardinality(Done(m)) + Cardinality(gone)
    BY <1>6, <1>7
  <2> QED
    BY <1>3, <1>9, <1>10, <2>1, <2>2 DEF Counts
<1>12. IsFiniteSet(DOMAIN m.tiles)
  BY <1>6, <1>7
<1> QED
  BY <1>9, <1>10, <1>11, <1>12 DEF Exact, ExactBut, m

\* _update on any browser.
LEMMA UpdateExact ==
  ASSUME NEW l, Exact(l)
  PROVE  /\ Exact(Update(l)) /\ SameMap(l, Update(l)) /\ SameTimer(l, Update(l))
         /\ Update(l).bg = l.bg /\ Update(l).early = l.early
<1>1. CASE Update(l) = l
  BY <1>1 DEF SameMap, SameTimer
<1>2. CASE Update(l) = AddTiles(l)
  BY <1>2, AddTilesExact
<1>3. CASE Update(l) = RemoveOtherTiles(AddTiles(l))
  <2> DEFINE m == AddTiles(l)
  <2>1. Exact(m) /\ SameMap(l, m) /\ SameTimer(l, m) /\ m.bg = l.bg /\ m.early = l.early
    BY AddTilesExact
  <2> HIDE DEF m
  <2>2. /\ Exact(RemoveOtherTiles(m)) /\ SameMap(m, RemoveOtherTiles(m))
        /\ SameTimer(m, RemoveOtherTiles(m))
        /\ RemoveOtherTiles(m).bg = m.bg /\ RemoveOtherTiles(m).early = m.early
    BY <2>1, RemoveOtherTilesExact
  <2> QED
    BY <1>3, <2>1, <2>2 DEF m, SameMap, SameTimer
<1> QED
  BY <1>1, <1>2, <1>3 DEF Update

\* _reset starts the counter again, whatever it was: no tile is left.
LEMMA ResetExact ==
  ASSUME NEW l \in TlState, IsFiniteSet(DOMAIN l.tiles), NEW hard
  PROVE  /\ Exact(Reset(l, hard)) /\ SameMap(l, Reset(l, hard)) /\ SameTimer(l, Reset(l, hard))
         /\ Reset(l, hard).bg = IF hard /\ l.onMap /\ ~l.zooming THEN 0 ELSE l.bg
<1> DEFINE n == l.strays + Cardinality(Loading(l))
           e == [l EXCEPT !.tiles = NoTiles, !.toLoad = 0, !.frontDone = 0,
                          !.strays = n, !.early = 0, !.lost = 0]
           m == Reset(l, hard)
<1>1. n \in Nat
  BY TilesFinite DEF TlState
<1>2. NoTiles \in TileMaps /\ DOMAIN NoTiles = {}
  <2>1. NoTiles \in [{} -> TileStates] /\ DOMAIN NoTiles = {}
    BY DEF NoTiles
  <2> QED
    BY <2>1, TileMapsHave
<1>3. m = IF hard THEN ClearBgBuffer(e) ELSE e
  BY DEF Reset, TlState
<1> HIDE DEF n, m
<1>4. /\ e \in TlState /\ e.tiles = NoTiles /\ e.toLoad = 0 /\ e.early = 0 /\ e.lost = 0
      /\ e.frontDone = 0
  <2> DEFINE t == NoTiles
             z == 0
  <2>1. t \in TileMaps /\ z \in Int /\ z \in Nat
    BY <1>2
  <2>2. e = [l EXCEPT !.tiles = t, !.toLoad = z, !.frontDone = z,
                      !.strays = n, !.early = z, !.lost = z]
    OBVIOUS
  <2> HIDE DEF t, z, e
  <2>3. e \in TlState
    BY <1>1, <2>1, <2>2 DEF TlState
  <2>4. e.tiles = t /\ e.toLoad = z /\ e.early = z /\ e.lost = z /\ e.frontDone = z
    BY <2>2 DEF TlState
  <2> QED
    BY <2>3, <2>4 DEF t, z
<1>5. SameMap(l, e) /\ SameTimer(l, e) /\ e.bg = l.bg
  BY DEF TlState, SameMap, SameTimer
<1> HIDE DEF e
<1>6. /\ m \in TlState /\ m.tiles = NoTiles /\ m.toLoad = 0 /\ m.early = 0 /\ m.lost = 0
      /\ m.frontDone = 0 /\ SameMap(e, m) /\ SameTimer(e, m)
      /\ m.bg = IF hard /\ e.onMap /\ ~e.zooming THEN 0 ELSE e.bg
  BY <1>3, <1>4 DEF ClearBgBuffer, TlState, SameMap, SameTimer
<1>7. Loading(m) = {} /\ Done(m) = {} /\ IsFiniteSet(DOMAIN m.tiles)
  BY <1>2, <1>6, FS_EmptySet DEF Loading, Done
<1>8. Cardinality(Loading(m)) = 0 /\ Cardinality(Done(m)) = 0
  BY <1>7, FS_EmptySet
<1>9. Exact(m)
  BY <1>6, <1>7, <1>8 DEF Exact, ExactBut, Counts
<1> QED
  BY <1>5, <1>6, <1>9 DEF SameMap, SameTimer, m

\* _stopLoadingImages: what was loading is stopped, and goes on being counted.
LEMMA StopLoadingExact ==
  ASSUME NEW l, Exact(l)
  PROVE  LET m == StopLoading(l)
         IN  /\ Exact(m) /\ SameMap(l, m) /\ SameTimer(l, m)
             /\ m.bg = l.bg /\ m.early = l.early /\ Loading(m) = {}
             /\ m.frontDone = l.frontDone
<1> DEFINE m == StopLoading(l)
           t == [x \in DOMAIN l.tiles |-> IF l.tiles[x] = "loading" THEN "stopped" ELSE l.tiles[x]]
           k == l.lost + Cardinality(Loading(l))
<1>1. l \in TlState /\ IsFiniteSet(DOMAIN l.tiles) /\ l.tiles \in TileMaps
  BY DEF Exact, ExactBut, TlState
<1>2. k \in Nat
  BY <1>1, TilesFinite DEF TlState
<1>3. /\ t \in TileMaps /\ DOMAIN t = DOMAIN l.tiles
      /\ \A x \in DOMAIN t : t[x] = IF l.tiles[x] = "loading" THEN "stopped" ELSE l.tiles[x]
  <2>1. l.tiles \in [DOMAIN l.tiles -> TileStates]
        /\ DOMAIN l.tiles \subseteq UNION {Visible(area) : area \in Areas}
    BY <1>1, TileMapsHave
  <2>2. t \in [DOMAIN l.tiles -> TileStates]
    BY <2>1 DEF TileStates
  <2> QED
    BY <2>1, <2>2, TileMapsHave
<1>4. m = [l EXCEPT !.tiles = t, !.lost = k]
  BY <1>1 DEF StopLoading, TlState
<1> HIDE DEF t, m
<1>5. m \in TlState /\ m.tiles = t /\ m.lost = k
  <2> HIDE DEF k
  <2> QED
    BY <1>1, <1>2, <1>3, <1>4 DEF TlState
<1>6. /\ SameMap(l, m) /\ SameTimer(l, m) /\ m.bg = l.bg /\ m.early = l.early
      /\ m.frontDone = l.frontDone /\ m.toLoad = l.toLoad
  BY <1>1, <1>4 DEF TlState, SameMap, SameTimer
<1>7. Loading(m) = {} /\ Done(m) = Done(l)
  BY <1>3, <1>5 DEF Loading, Done
<1>8. Counts(m, 0)
  <2>1. Cardinality(Loading(m)) = 0 /\ Cardinality(Loading(l)) \in Nat
    BY <1>1, <1>7, TilesFinite, FS_EmptySet
  <2>2. l.toLoad \in Int /\ l.lost \in Nat /\ l.early \in Nat /\ Counts(l, 0)
    BY <1>1 DEF Exact, ExactBut, TlState
  <2> QED
    BY <1>5, <1>6, <2>1, <2>2 DEF Counts
<1> QED
  BY <1>1, <1>3, <1>5, <1>6, <1>7, <1>8 DEF Exact, ExactBut, m

\* _prepareBgBuffer keeps the counter exact: in the swap the complete tiles go
\* behind with their container.
LEMMA PrepareBgBufferExact ==
  ASSUME NEW l, Exact(l)
  PROVE  LET m == PrepareBgBuffer(l)
         IN  /\ Exact(m) /\ SameMap(l, m) /\ m.early = l.early
             /\ m.needed = l.needed /\ m.animating = l.animating
             /\ IF KeepBuffer(l) THEN SameTimer(l, m) ELSE ~m.timer /\ ~m.leftover
<1> DEFINE s == StopLoading(l)
           m == PrepareBgBuffer(l)
           t == [x \in DOMAIN s.tiles |-> IF s.tiles[x] = "done" THEN "behind" ELSE s.tiles[x]]
<1>1. /\ Exact(s) /\ SameMap(l, s) /\ SameTimer(l, s) /\ s.bg = l.bg /\ s.early = l.early
      /\ Loading(s) = {} /\ s.frontDone = l.frontDone
  BY StopLoadingExact
<1>2. CASE KeepBuffer(l)
  <2>1. m = s
    BY <1>2 DEF PrepareBgBuffer
  <2> QED
    BY <1>1, <1>2, <2>1 DEF SameTimer
<1>3. CASE ~KeepBuffer(l)
  <2>1. m = [s EXCEPT !.frontDone = l.bg, !.bg = l.frontDone, !.tiles = t,
                      !.timer = FALSE, !.leftover = FALSE]
    BY <1>3 DEF PrepareBgBuffer
  <2> HIDE DEF s, m
  <2>2. s \in TlState /\ IsFiniteSet(DOMAIN s.tiles) /\ s.tiles \in TileMaps
    BY <1>1 DEF Exact, ExactBut, TlState
  <2>3. /\ t \in TileMaps /\ DOMAIN t = DOMAIN s.tiles
        /\ \A x \in DOMAIN t : t[x] = IF s.tiles[x] = "done" THEN "behind" ELSE s.tiles[x]
    <3>1. s.tiles \in [DOMAIN s.tiles -> TileStates]
          /\ DOMAIN s.tiles \subseteq UNION {Visible(area) : area \in Areas}
      BY <2>2, TileMapsHave
    <3>2. t \in [DOMAIN s.tiles -> TileStates]
      BY <3>1 DEF TileStates
    <3> QED
      BY <3>1, <3>2, TileMapsHave
  <2> HIDE DEF t
  <2>4. l.bg \in Nat /\ l.frontDone \in Nat
    BY DEF Exact, ExactBut, TlState
  <2>5. m \in TlState /\ m.tiles = t /\ m.frontDone = l.bg /\ ~m.timer /\ ~m.leftover
    BY <2>1, <2>2, <2>3, <2>4 DEF TlState
  <2>6. /\ SameMap(s, m) /\ m.early = s.early /\ m.needed = s.needed
        /\ m.animating = s.animating /\ m.lost = s.lost /\ m.toLoad = s.toLoad
    BY <2>1, <2>2 DEF TlState, SameMap
  <2>7. Loading(m) = {} /\ Done(m) = {}
    BY <1>1, <2>3, <2>5 DEF Loading, Done
  <2>8. Counts(m, 0)
    BY <1>1, <2>6, <2>7 DEF Exact, ExactBut, Counts
  <2>9. Cardinality(Done(m)) <= m.frontDone
    BY <2>4, <2>5, <2>7, FS_EmptySet
  <2>10. Exact(m)
    BY <2>2, <2>3, <2>5, <2>8, <2>9 DEF Exact, ExactBut
  <2> QED
    BY <1>1, <1>3, <2>5, <2>6, <2>10 DEF SameMap, SameTimer, m
<1> QED
  BY <1>2, <1>3

\* What the counter counts.
SameCount(l, m) ==
  /\ m.tiles = l.tiles /\ m.toLoad = l.toLoad /\ m.frontDone = l.frontDone
  /\ m.early = l.early /\ m.lost = l.lost

LEMMA SameCountExact ==
  ASSUME NEW l, NEW m \in TlState, Exact(l), SameCount(l, m)
  PROVE  Exact(m) /\ Loading(m) = Loading(l)
<1> QED
  BY DEF Exact, ExactBut, Counts, SameCount, Loading, Done

\* A zoom begins to animate the layer: the timer that may be left is an older one.
LEMMA AnimateLayerExact ==
  ASSUME NEW l, Exact(l), ~l.animating
  PROVE  LET m == AnimateLayer(l)
         IN  /\ Exact(m) /\ SameMap(l, m) /\ m.early = l.early
             /\ m.animating /\ m.needed
             /\ m.timer <=> m.leftover
<1> DEFINE p == PrepareBgBuffer(l)
           b == l.timer /\ KeepBuffer(l)
           m == AnimateLayer(l)
<1>1. /\ Exact(p) /\ SameMap(l, p) /\ p.early = l.early
      /\ p.timer <=> b
  BY PrepareBgBufferExact DEF SameTimer
<1>2. m = [p EXCEPT !.animating = TRUE, !.needed = TRUE, !.leftover = b]
  BY DEF AnimateLayer
<1>3. b \in BOOLEAN
  OBVIOUS
<1> HIDE DEF p, b, m
<1>4. p \in TlState
  BY <1>1 DEF Exact, ExactBut
<1>5. m \in TlState /\ m.animating /\ m.needed /\ m.leftover = b
  BY <1>2, <1>3, <1>4 DEF TlState
<1>6. SameCount(p, m) /\ SameMap(p, m) /\ m.timer = p.timer
  BY <1>2, <1>4 DEF TlState, SameCount, SameMap
<1>7. Exact(m)
  BY <1>1, <1>5, <1>6, SameCountExact
<1> QED
  BY <1>1, <1>5, <1>6, <1>7 DEF SameMap, SameCount, m

-------------------------------------------------------------------------------
\* Which timers may clear the scaled tiles: one that a zoom runs with is an older
\* one; outside a zoom an answer to an image of an earlier view may have set it.
\* A layer animated outside a zoom has come back to the map without its tiles.
Scaled(l) ==
  /\ l.leftover => l.timer
  /\ l.onMap /\ l.timer /\ l.needed /\ l.bg > 0 =>
       l.leftover \/ (l.early > 0 /\ ~l.zooming /\ ~l.ended)
  /\ l.onMap /\ l.animating /\ ~l.zooming /\ ~l.ended => ~l.needed

\* The inductive invariant of the layer.
TlInv(l) == Exact(l) /\ Scaled(l)

\* _tileLoaded counts the load that has just arrived.  At zero it sets the
\* timer; tiles that are loading all the same mean an answer came early.
LEMMA TileLoadedKeeps ==
  ASSUME NEW l, ExactBut(l, 1), Scaled(l)
  PROVE  TlInv(TileLoaded(l)) /\ (l.timer => TileLoaded(l).timer)
<1> DEFINE z == l.toLoad - 1
           c == [l EXCEPT !.toLoad = z]
           q == l.zooming \/ l.ended
           n == l.needed /\ (q \/ Loading(l) # {})
           m == TileLoaded(l)
<1>1. l \in TlState /\ z \in Int
  BY DEF ExactBut, TlState
<1>2. /\ c \in TlState /\ c.toLoad = z /\ c.tiles = l.tiles /\ c.frontDone = l.frontDone
      /\ c.early = l.early /\ c.lost = l.lost /\ c.bg = l.bg /\ c.needed = l.needed
      /\ SameMap(l, c) /\ SameTimer(l, c)
  <2> HIDE DEF z
  <2> QED
    BY <1>1 DEF TlState, SameMap, SameTimer
<1>3. Loading(c) = Loading(l) /\ Done(c) = Done(l)
  BY <1>2 DEF Loading, Done
<1>4. /\ Cardinality(Loading(l)) \in Nat /\ IsFiniteSet(Loading(l))
      /\ l.lost \in Nat /\ l.early \in Nat /\ l.toLoad \in Int
  BY <1>1, TilesFinite DEF ExactBut, TlState
<1>5. z = Cardinality(Loading(l)) + l.lost - l.early
  BY <1>4 DEF ExactBut, Counts
<1>6. Exact(c)
  BY <1>2, <1>3, <1>4, <1>5 DEF Exact, ExactBut, Counts
<1>7. m = IF z # 0 THEN c ELSE [c EXCEPT !.timer = TRUE, !.leftover = q, !.needed = n]
  BY <1>1 DEF TileLoaded, TlState
<1>8. q \in BOOLEAN /\ n \in BOOLEAN
  BY <1>1 DEF TlState
<1>9. z = 0 /\ n /\ ~q => l.early > 0
  <2> SUFFICES ASSUME z = 0, n, ~q PROVE l.early > 0
    OBVIOUS
  <2>1. Cardinality(Loading(l)) # 0
    BY <1>4, FS_EmptySet
  <2> QED
    BY <1>4, <1>5, <2>1
<1>10. n => l.needed
  OBVIOUS
<1>11. q <=> (c.zooming \/ c.ended)
  BY <1>2 DEF SameMap
<1> HIDE DEF z, c, q, n, m
<1>12. CASE z # 0
  BY <1>2, <1>6, <1>7, <1>12 DEF TlInv, Scaled, SameMap, SameTimer, m
<1>13. CASE z = 0
  <2>1. m = [c EXCEPT !.timer = TRUE, !.leftover = q, !.needed = n]
    BY <1>7, <1>13
  <2>2. m \in TlState /\ m.timer /\ m.leftover = q /\ m.needed = n
    BY <1>2, <1>8, <2>1 DEF TlState
  <2>3. /\ SameCount(c, m) /\ SameMap(c, m) /\ m.animating = c.animating
    BY <1>2, <2>1 DEF TlState, SameCount, SameMap
  <2>4. Exact(m)
    BY <1>6, <2>2, <2>3, SameCountExact
  <2>5. /\ m.early = l.early
        /\ m.zooming = l.zooming /\ m.ended = l.ended /\ m.animating = l.animating
        /\ m.onMap = l.onMap
    BY <1>2, <2>3 DEF SameCount, SameMap, SameTimer
  <2>6. q <=> (m.zooming \/ m.ended)
    BY <1>11, <2>3 DEF SameMap
  <2>7. Scaled(m)
    BY <1>9, <1>10, <1>13, <2>2, <2>5, <2>6 DEF Scaled
  <2> QED
    BY <2>2, <2>4, <2>7 DEF TlInv, m
<1> QED
  BY <1>12, <1>13

LEMMA InitHoldsTiles == TlInit => TlInv(layer)
<1> SUFFICES ASSUME TlInit PROVE TlInv(layer)
  OBVIOUS
<1>1. NoTiles \in TileMaps /\ DOMAIN NoTiles = {}
  <2>1. NoTiles \in [{} -> TileStates] /\ DOMAIN NoTiles = {}
    BY DEF NoTiles
  <2> QED
    BY <2>1, TileMapsHave
<1>2. layer \in TlState
  BY <1>1 DEF TlInit, TlState
<1>3. /\ layer.tiles = NoTiles /\ layer.toLoad = 0 /\ layer.lost = 0 /\ layer.early = 0
      /\ layer.frontDone = 0 /\ ~layer.onMap /\ ~layer.leftover
  BY DEF TlInit
<1>4. Loading(layer) = {} /\ Done(layer) = {} /\ IsFiniteSet(DOMAIN layer.tiles)
  BY <1>1, <1>3, FS_EmptySet DEF Loading, Done
<1>5. Cardinality(Loading(layer)) = 0 /\ Cardinality(Done(layer)) = 0
  BY <1>4, FS_EmptySet
<1> QED
  BY <1>2, <1>3, <1>4, <1>5 DEF TlInv, Exact, ExactBut, Counts, Scaled

\* A layer comes back with new containers, emptied and filled again.
LEMMA AddLayerKeeps ==
  ASSUME TlInv(layer), AddLayer
  PROVE  TlInv(layer') /\ layer'.timer = layer.timer
<1> DEFINE on == [layer EXCEPT !.onMap = TRUE]
           set == NewContainers(on)
           r == Reset(set, FALSE)
<1>1. layer \in TlState /\ IsFiniteSet(DOMAIN layer.tiles)
  BY DEF TlInv, Exact, ExactBut
<1>2. on \in TlState /\ on.tiles = layer.tiles /\ on.timer = layer.timer /\ on.leftover = layer.leftover
  BY <1>1 DEF TlState
<1> HIDE DEF on
<1>3. set \in TlState /\ set.tiles = on.tiles /\ set.timer = on.timer /\ set.leftover = on.leftover /\ ~set.needed
  BY <1>2 DEF NewContainers, TlState
<1>4. layer' = Update(r)
  BY DEF AddLayer, on
<1> HIDE DEF set
<1>5. Exact(r) /\ SameTimer(set, r)
  BY <1>1, <1>2, <1>3, ResetExact
<1> HIDE DEF r
<1>6. Exact(layer') /\ SameTimer(r, layer')
  BY <1>4, <1>5, UpdateExact
<1>7. ~layer'.needed /\ layer'.timer = layer.timer /\ layer'.leftover = layer.leftover
  BY <1>2, <1>3, <1>5, <1>6 DEF SameTimer
<1> QED
  BY <1>6, <1>7 DEF TlInv, Scaled

\* An update, of a layer that has moved or of the limit on its updates.
SameButLimit(u, l) ==
  /\ SameCount(u, l) /\ SameMap(u, l) /\ SameTimer(u, l) /\ l.bg = u.bg

LEMMA LimitKeeps ==
  ASSUME NEW u, TlInv(u), NEW l \in TlState, SameButLimit(u, l)
  PROVE  TlInv(l) /\ l.timer = u.timer
<1>1. Exact(l)
  BY SameCountExact DEF TlInv, SameButLimit
<1>2. Scaled(l)
  BY DEF TlInv, Scaled, SameButLimit, SameMap, SameTimer, SameCount
<1> QED
  BY <1>1, <1>2 DEF TlInv, SameButLimit, SameTimer

LEMMA UpdateKeeps ==
  ASSUME NEW l, TlInv(l)
  PROVE  TlInv(Update(l)) /\ Update(l).timer = l.timer
<1> DEFINE u == Update(l)
<1>1. /\ Exact(u) /\ SameMap(l, u) /\ SameTimer(l, u) /\ u.bg = l.bg /\ u.early = l.early
  BY UpdateExact DEF TlInv
<1> HIDE DEF u
<1>2. TlInv(u) /\ u.timer = l.timer
  BY <1>1 DEF TlInv, Scaled, SameMap, SameTimer
<1> QED
  BY <1>2 DEF u

\* The layer is updated at its end, or when the interval of the limit is over.
LEMMA UpdatesKeep ==
  ASSUME TlInv(layer), Unlock \/ UpdateAtEnd
  PROVE  TlInv(layer') /\ layer'.timer = layer.timer
<1> DEFINE u == Update(layer)
<1>1. TlInv(u) /\ u.timer = layer.timer
  BY UpdateKeeps
<1>2. \/ layer' = u \/ layer' = [u EXCEPT !.due = FALSE]
      \/ layer' = [layer EXCEPT !.lock = FALSE]
  BY DEF Unlock, UpdateAtEnd
<1> HIDE DEF u
<1>3. layer \in TlState /\ u \in TlState
  BY <1>1 DEF TlInv, Exact, ExactBut
<1>4. CASE layer' = u
  BY <1>1, <1>4
<1>5. CASE layer' = [u EXCEPT !.due = FALSE]
  <2>1. layer' \in TlState /\ SameButLimit(u, layer')
    BY <1>3, <1>5 DEF TlState, SameButLimit, SameCount, SameMap, SameTimer
  <2> QED
    BY <1>1, <2>1, LimitKeeps
<1>6. CASE layer' = [layer EXCEPT !.lock = FALSE]
  <2>1. layer' \in TlState /\ SameButLimit(layer, layer')
    BY <1>3, <1>6 DEF TlState, SameButLimit, SameCount, SameMap, SameTimer
  <2> QED
    BY <2>1, LimitKeeps
<1> QED
  BY <1>2, <1>4, <1>5, <1>6

\* A layer is removed, the map moves: the first touches nothing that is counted,
\* the second may update the layer.
LEMMA MoveKeeps ==
  ASSUME TlInv(layer), RemoveLayer \/ \E area \in Areas : Move(area)
  PROVE  TlInv(layer') /\ layer'.timer = layer.timer
<1>1. layer \in TlState
  BY DEF TlInv, Exact, ExactBut
<1>2. CASE RemoveLayer
  <2>1. layer' = [layer EXCEPT !.onMap = FALSE]
    BY <1>2 DEF RemoveLayer
  <2>2. layer' \in TlState /\ SameCount(layer, layer') /\ ~layer'.onMap /\ SameTimer(layer, layer')
    BY <1>1, <2>1 DEF TlState, SameCount, SameTimer
  <2> QED
    BY <2>2, SameCountExact DEF TlInv, Scaled, SameTimer
<1>3. ASSUME NEW area \in Areas, Move(area) PROVE TlInv(layer') /\ layer'.timer = layer.timer
  <2> DEFINE moved == [layer EXCEPT !.area = area]
             u == Update(moved)
  <2>1. layer' \in {moved, [moved EXCEPT !.due = TRUE], [u EXCEPT !.lock = TRUE]}
    BY <1>3 DEF Move, LimitExec
  <2>2. moved \in TlState /\ SameButLimit(layer, moved)
    BY <1>1 DEF TlState, SameButLimit, SameCount, SameMap, SameTimer
  <2> HIDE DEF moved
  <2>3. TlInv(moved) /\ moved.timer = layer.timer
    BY <2>2, LimitKeeps
  <2>4. TlInv(u) /\ u.timer = layer.timer
    BY <2>3, UpdateKeeps
  <2> HIDE DEF u
  <2>5. u \in TlState
    BY <2>4 DEF TlInv, Exact, ExactBut
  <2>6. CASE layer' = moved
    BY <2>3, <2>6
  <2>7. CASE layer' = [moved EXCEPT !.due = TRUE]
    <3>1. layer' \in TlState /\ SameButLimit(moved, layer')
      BY <2>2, <2>7 DEF TlState, SameButLimit, SameCount, SameMap, SameTimer
    <3> QED
      BY <2>3, <3>1, LimitKeeps
  <2>8. CASE layer' = [u EXCEPT !.lock = TRUE]
    <3>1. layer' \in TlState /\ SameButLimit(u, layer')
      BY <2>5, <2>8 DEF TlState, SameButLimit, SameCount, SameMap, SameTimer
    <3> QED
      BY <2>4, <3>1, LimitKeeps
  <2> QED
    BY <2>1, <2>6, <2>7, <2>8
<1> QED
  BY <1>2, <1>3

\* A zoom set at once: the scaled tiles go, unless an animated zoom runs, whose
\* timer is an older one.
LEMMA HardResetKeeps ==
  ASSUME TlInv(layer), NEW area \in Areas, NEW zoomChanged \in BOOLEAN,
         HardReset(area, zoomChanged)
  PROVE  TlInv(layer') /\ layer'.timer = layer.timer
<1> DEFINE set == [layer EXCEPT !.area = area]
           r == Reset(set, TRUE)
           u == Update(r)
           b == u.animating /\ ~zoomChanged
<1>1. layer \in TlState /\ IsFiniteSet(DOMAIN layer.tiles)
  BY DEF TlInv, Exact, ExactBut
<1>2. set \in TlState /\ SameCount(layer, set) /\ SameMap(layer, set)
  BY <1>1 DEF TlState, SameCount, SameMap
<1>3. SameTimer(layer, set) /\ set.bg = layer.bg
  BY <1>1 DEF TlState, SameTimer
<1>4. IF layer.onMap THEN layer' = [u EXCEPT !.animating = b] ELSE layer' = set
  BY DEF HardReset
<1> HIDE DEF set
<1>5. CASE ~layer.onMap
  BY <1>2, <1>3, <1>4, <1>5, SameCountExact DEF TlInv, Scaled, SameMap, SameTimer, SameCount
<1>6. CASE layer.onMap
  <2>1. /\ Exact(r) /\ SameMap(set, r) /\ SameTimer(set, r)
        /\ r.bg = IF set.onMap /\ ~set.zooming THEN 0 ELSE set.bg
    BY <1>1, <1>2, ResetExact DEF SameCount
  <2> HIDE DEF r
  <2>2. /\ Exact(u) /\ SameMap(r, u) /\ SameTimer(r, u) /\ u.bg = r.bg
    BY <2>1, UpdateExact
  <2>3. layer' = [u EXCEPT !.animating = b] /\ (b => u.animating) /\ b \in BOOLEAN
    BY <1>4, <1>6
  <2> HIDE DEF u, b
  <2>4. u \in TlState
    BY <2>2 DEF Exact, ExactBut
  <2>5. layer' \in TlState /\ SameCount(u, layer') /\ SameMap(u, layer') /\ layer'.animating = b
    BY <2>3, <2>4 DEF TlState, SameCount, SameMap
  <2>6. layer'.timer = u.timer /\ layer'.leftover = u.leftover /\ layer'.needed = u.needed /\ layer'.bg = u.bg
    BY <2>3, <2>4 DEF TlState
  <2>7. Exact(layer')
    BY <2>2, <2>5, SameCountExact
  <2>8. /\ layer'.timer = layer.timer /\ layer'.leftover = layer.leftover
        /\ layer'.needed = layer.needed /\ (layer'.animating => layer.animating)
        /\ SameMap(layer, layer')
        /\ layer'.bg = IF ~layer.zooming THEN 0 ELSE layer.bg
    BY <1>2, <1>3, <1>6, <2>1, <2>2, <2>3, <2>5, <2>6 DEF SameMap, SameTimer
  <2>9. Scaled(layer')
    BY <2>8 DEF TlInv, Scaled, SameMap
  <2> QED
    BY <2>7, <2>8, <2>9 DEF TlInv
<1> QED
  BY <1>5, <1>6

\* The frame that sets the new zoom: only older timers are left.
LEMMA ZoomFrameKeeps ==
  ASSUME TlInv(layer), NEW area \in Areas, ZoomFrame(area)
  PROVE  TlInv(layer') /\ layer'.timer = layer.timer
<1> DEFINE set == [layer EXCEPT !.ended = FALSE, !.area = area]
           r == Reset(set, FALSE)
           u == Update(r)
<1>1. layer \in TlState /\ IsFiniteSet(DOMAIN layer.tiles) /\ layer.ended
  BY DEF TlInv, Exact, ExactBut, ZoomFrame
<1>2. set \in TlState /\ SameCount(layer, set) /\ set.onMap = layer.onMap
  BY <1>1 DEF TlState, SameCount
<1>3. SameTimer(layer, set) /\ set.bg = layer.bg
  BY <1>1 DEF TlState, SameTimer
<1>4. IF layer.onMap THEN layer' = [u EXCEPT !.animating = FALSE] ELSE layer' = set
  BY DEF ZoomFrame
<1> HIDE DEF set
<1>5. CASE ~layer.onMap
  BY <1>2, <1>3, <1>4, <1>5, SameCountExact DEF TlInv, Scaled, SameTimer, SameCount
<1>6. CASE layer.onMap
  <2>1. /\ Exact(r) /\ SameMap(set, r) /\ SameTimer(set, r) /\ r.bg = set.bg
    BY <1>1, <1>2, ResetExact DEF SameCount
  <2> HIDE DEF r
  <2>2. /\ Exact(u) /\ SameMap(r, u) /\ SameTimer(r, u) /\ u.bg = r.bg
    BY <2>1, UpdateExact
  <2>3. layer' = [u EXCEPT !.animating = FALSE]
    BY <1>4, <1>6
  <2> HIDE DEF u
  <2>4. u \in TlState
    BY <2>2 DEF Exact, ExactBut
  <2>5. layer' \in TlState /\ SameCount(u, layer') /\ ~layer'.animating
    BY <2>3, <2>4 DEF TlState, SameCount
  <2>6. layer'.timer = u.timer /\ layer'.leftover = u.leftover /\ layer'.needed = u.needed /\ layer'.bg = u.bg
    BY <2>3, <2>4 DEF TlState
  <2>7. Exact(layer')
    BY <2>2, <2>5, SameCountExact
  <2>8. /\ layer'.timer = layer.timer /\ layer'.leftover = layer.leftover
        /\ layer'.needed = layer.needed /\ layer'.bg = layer.bg
    BY <1>3, <2>1, <2>2, <2>6 DEF SameTimer
  <2>9. Scaled(layer')
    BY <1>1, <1>6, <2>5, <2>8 DEF TlInv, Scaled
  <2> QED
    BY <2>7, <2>8, <2>9 DEF TlInv
<1> QED
  BY <1>5, <1>6

\* What the clearing of the buffer may be blamed on.
Spared(l, m) ==
  l.timer /\ ~m.timer /\ l.bg > 0 /\ m.bg = 0 /\ l.needed => l.leftover \/ l.early > 0

\* An animated zoom starts or ends.
LEMMA ZoomKeeps ==
  ASSUME TlInv(layer), ZoomStart \/ ZoomEnd
  PROVE  TlInv(layer') /\ Spared(layer, layer')
<1>1. layer \in TlState
  BY DEF TlInv, Exact, ExactBut
<1>2. CASE ZoomEnd
  <2>1. layer' = [layer EXCEPT !.zooming = FALSE, !.ended = TRUE] /\ layer.zooming
    BY <1>2 DEF ZoomEnd
  <2>2. layer' \in TlState /\ SameCount(layer, layer') /\ layer'.ended /\ layer'.onMap = layer.onMap
    BY <1>1, <2>1 DEF TlState, SameCount
  <2>3. SameTimer(layer, layer') /\ layer'.bg = layer.bg
    BY <1>1, <2>1 DEF TlState, SameTimer
  <2> QED
    BY <2>1, <2>2, <2>3, SameCountExact DEF TlInv, Scaled, Spared, SameTimer, SameCount
<1>3. CASE ZoomStart
  <2> DEFINE set == [layer EXCEPT !.zooming = TRUE]
  <2>1. set \in TlState /\ SameCount(layer, set) /\ set.onMap = layer.onMap /\ set.zooming
    BY <1>1 DEF TlState, SameCount
  <2>2. SameTimer(layer, set) /\ set.bg = layer.bg
    BY <1>1 DEF TlState, SameTimer
  <2>3. /\ layer' = IF layer.onMap THEN AnimateLayer(set) ELSE set
        /\ ~layer.zooming /\ ~layer.ended
    BY <1>3 DEF ZoomStart
  <2> HIDE DEF set
  <2>4. Exact(set)
    BY <2>1, SameCountExact DEF TlInv
  <2>5. CASE layer' = set /\ (~layer.onMap \/ layer.animating)
    BY <2>1, <2>2, <2>3, <2>4, <2>5 DEF TlInv, Scaled, Spared, SameTimer
  <2>6. CASE layer.onMap /\ ~layer.animating
    <3>1. ~set.animating /\ layer' = AnimateLayer(set)
      BY <2>2, <2>3, <2>6 DEF SameTimer
    <3>2. /\ Exact(layer') /\ SameMap(set, layer') /\ layer'.needed
          /\ layer'.timer <=> layer'.leftover
      BY <2>4, <3>1, AnimateLayerExact
    <3>3. Scaled(layer')
      BY <2>1, <3>2 DEF Scaled, SameMap
    <3>4. Spared(layer, layer')
      BY <2>6 DEF TlInv, Scaled, Spared
    <3> QED
      BY <3>2, <3>3, <3>4 DEF TlInv
  <2>7. layer.onMap /\ layer.animating => layer' = set
    BY <2>2, <2>3 DEF SameTimer, AnimateLayer
  <2> QED
    BY <2>3, <2>5, <2>6, <2>7
<1> QED
  BY <1>2, <1>3

\* The timer clears the buffer, unless a zoom runs.
LEMMA ClearTimerKeeps ==
  ASSUME TlInv(layer), ClearTimer
  PROVE  TlInv(layer') /\ Spared(layer, layer')
<1> DEFINE c == ClearBgBuffer(layer)
<1>1. layer \in TlState
  BY DEF TlInv, Exact, ExactBut
<1>2. /\ c \in TlState /\ SameCount(layer, c) /\ SameMap(layer, c) /\ SameTimer(layer, c)
      /\ c.bg = IF layer.onMap /\ ~layer.zooming THEN 0 ELSE layer.bg
  BY <1>1 DEF ClearBgBuffer, TlState, SameCount, SameMap, SameTimer
<1>3. layer' = [c EXCEPT !.timer = FALSE, !.leftover = FALSE]
  BY DEF ClearTimer
<1> HIDE DEF c
<1>4. layer' \in TlState /\ SameCount(c, layer') /\ SameMap(c, layer') /\ ~layer'.timer
  BY <1>2, <1>3 DEF TlState, SameCount, SameMap
<1>5. ~layer'.leftover /\ layer'.needed = c.needed /\ layer'.animating = c.animating /\ layer'.bg = c.bg
  BY <1>2, <1>3 DEF TlState
<1>6. Exact(layer')
  BY <1>2, <1>4, SameCountExact DEF TlInv
<1>7. Scaled(layer')
  BY <1>2, <1>4, <1>5 DEF TlInv, Scaled, SameMap, SameTimer
<1>8. Spared(layer, layer')
  BY <1>2, <1>5 DEF TlInv, Scaled, Spared
<1> QED
  BY <1>6, <1>7, <1>8 DEF TlInv

\* An answer to an image that is a tile no more.
LEMMA StrayAnsweredKeeps ==
  ASSUME TlInv(layer), StrayAnswered
  PROVE  TlInv(layer') /\ (layer.timer => layer'.timer)
<1> DEFINE n == layer.strays - 1
           e == layer.early + 1
           set == [layer EXCEPT !.strays = n, !.early = e]
<1>1. layer \in TlState /\ n \in Nat /\ e \in Nat
  BY DEF TlInv, Exact, ExactBut, StrayAnswered, TlState
<1>2. layer' = TileLoaded(set)
  BY <1>1 DEF StrayAnswered, TlState
<1>3. e = layer.early + 1
  OBVIOUS
<1>4. layer.early \in Nat /\ layer.lost \in Nat /\ layer.toLoad \in Int
  BY <1>1 DEF TlState
<1> HIDE DEF n, e
<1>5. /\ set \in TlState /\ set.tiles = layer.tiles /\ set.early = e /\ set.lost = layer.lost
      /\ set.toLoad = layer.toLoad /\ set.frontDone = layer.frontDone
  BY <1>1 DEF TlState
<1>6. SameMap(layer, set) /\ SameTimer(layer, set) /\ set.bg = layer.bg
  BY <1>1 DEF TlState, SameMap, SameTimer
<1> HIDE DEF set
<1>7. Loading(set) = Loading(layer) /\ Done(set) = Done(layer)
  BY <1>5 DEF Loading, Done
<1>8. Cardinality(Loading(layer)) \in Nat /\ Counts(layer, 0)
  BY TilesFinite DEF TlInv, Exact, ExactBut
<1>9. Counts(set, 1)
  BY <1>3, <1>4, <1>5, <1>7, <1>8 DEF Counts
<1>10. ExactBut(set, 1)
  BY <1>5, <1>7, <1>9 DEF TlInv, Exact, ExactBut
<1>11. Scaled(set)
  BY <1>3, <1>4, <1>5, <1>6 DEF TlInv, Scaled, SameMap, SameTimer
<1> QED
  BY <1>2, <1>6, <1>10, <1>11, TileLoadedKeeps DEF SameTimer

\* An answer to a tile of the layer.
LEMMA TileAnsweredKeeps ==
  ASSUME TlInv(layer), NEW x, TileAnswered(x)
  PROVE  TlInv(layer') /\ (layer.timer => layer'.timer)
<1> DEFINE t == [layer.tiles EXCEPT ![x] = "done"]
           n == layer.frontDone + 1
           set == [layer EXCEPT !.tiles = t, !.frontDone = n]
<1>1. /\ layer \in TlState /\ IsFiniteSet(DOMAIN layer.tiles) /\ layer.tiles \in TileMaps
      /\ n \in Nat /\ layer.frontDone \in Nat
      /\ layer.early \in Nat /\ layer.lost \in Nat /\ layer.toLoad \in Int
  BY DEF TlInv, Exact, ExactBut, TlState
<1>2. x \in Loading(layer) /\ layer' = TileLoaded(set)
  BY <1>1 DEF TileAnswered, TlState
<1>3. x \in DOMAIN layer.tiles /\ layer.tiles[x] = "loading"
  BY <1>2 DEF Loading
<1>4. /\ t \in TileMaps /\ DOMAIN t = DOMAIN layer.tiles
      /\ \A y \in DOMAIN t : t[y] = IF y = x THEN "done" ELSE layer.tiles[y]
  <2>1. layer.tiles \in [DOMAIN layer.tiles -> TileStates]
        /\ DOMAIN layer.tiles \subseteq UNION {Visible(area) : area \in Areas}
    BY <1>1, TileMapsHave
  <2>2. t \in [DOMAIN layer.tiles -> TileStates]
    BY <2>1 DEF TileStates
  <2> QED
    BY <1>3, <2>1, <2>2, TileMapsHave
<1>5. n = layer.frontDone + 1
  OBVIOUS
<1> HIDE DEF t, n
<1>6. /\ set \in TlState /\ set.tiles = t /\ set.early = layer.early /\ set.lost = layer.lost
      /\ set.toLoad = layer.toLoad /\ set.frontDone = n
  BY <1>1, <1>4 DEF TlState
<1>7. SameMap(layer, set) /\ SameTimer(layer, set) /\ set.bg = layer.bg
  BY <1>1 DEF TlState, SameMap, SameTimer
<1> HIDE DEF set
<1>8. Loading(set) = Loading(layer) \ {x} /\ Done(set) = Done(layer) \cup {x} /\ x \notin Done(layer)
  BY <1>3, <1>4, <1>6 DEF Loading, Done
<1>9. /\ Cardinality(Loading(set)) = Cardinality(Loading(layer)) - 1
      /\ Cardinality(Done(set)) = Cardinality(Done(layer)) + 1
      /\ Cardinality(Loading(layer)) \in Nat /\ Cardinality(Done(layer)) \in Nat
  <2>1. /\ IsFiniteSet(Loading(layer)) /\ Cardinality(Loading(layer)) \in Nat
        /\ IsFiniteSet(Done(layer)) /\ Cardinality(Done(layer)) \in Nat
    BY <1>1, TilesFinite
  <2>2. Cardinality(Loading(layer) \ {x}) = Cardinality(Loading(layer)) - 1
    BY <1>2, <2>1, FS_RemoveElement
  <2>3. Cardinality(Done(layer) \cup {x}) = Cardinality(Done(layer)) + 1
    BY <1>8, <2>1, FS_AddElement
  <2> QED
    BY <1>8, <2>1, <2>2, <2>3
<1>10. Counts(layer, 0) /\ Cardinality(Done(layer)) <= layer.frontDone
  BY DEF TlInv, Exact, ExactBut
<1>11. Counts(set, 1) /\ Cardinality(Done(set)) <= set.frontDone
  BY <1>1, <1>5, <1>6, <1>9, <1>10 DEF Counts
<1>12. ExactBut(set, 1)
  BY <1>1, <1>4, <1>6, <1>11 DEF ExactBut
<1>13. Scaled(set)
  BY <1>6, <1>7 DEF TlInv, Scaled, SameMap, SameTimer
<1> QED
  BY <1>2, <1>7, <1>12, <1>13, TileLoadedKeeps DEF SameTimer

-------------------------------------------------------------------------------
\* Every step of the layer keeps the invariant, and clears the scaled tiles only
\* as it may.
LEMMA TlStep ==
  ASSUME TlInv(layer), [TlNext]_tlVars
  PROVE  TlInv(layer') /\ Spared(layer, layer')
<1>1. ASSUME TlInv(layer'), layer.timer => layer'.timer
      PROVE  TlInv(layer') /\ Spared(layer, layer')
  BY <1>1 DEF Spared
<1>2. CASE AddLayer
  BY <1>1, <1>2, AddLayerKeeps
<1>3. CASE RemoveLayer \/ \E area \in Areas : Move(area)
  BY <1>1, <1>3, MoveKeeps
<1>4. CASE Unlock \/ UpdateAtEnd
  BY <1>1, <1>4, UpdatesKeep
<1>5. CASE \E area \in Areas, zoomChanged \in BOOLEAN : HardReset(area, zoomChanged)
  BY <1>1, <1>5, HardResetKeeps
<1>6. CASE \E area \in Areas : ZoomFrame(area)
  BY <1>1, <1>6, ZoomFrameKeeps
<1>7. CASE ZoomStart \/ ZoomEnd
  BY <1>7, ZoomKeeps
<1>8. CASE StrayAnswered \/ \E x \in DOMAIN layer.tiles : TileAnswered(x)
  BY <1>1, <1>8, StrayAnsweredKeeps, TileAnsweredKeeps
<1>9. CASE ClearTimer
  BY <1>9, ClearTimerKeeps
<1>10. CASE UNCHANGED tlVars
  BY <1>10 DEF tlVars, Spared
<1> QED
  BY <1>2, <1>3, <1>4, <1>5, <1>6, <1>7, <1>8, <1>9, <1>10 DEF TlNext

\* The layer's inductive invariant holds.
LEMMA LayerInvariant == TlSpec => []TlInv(layer)
<1>1. TlInv(layer) /\ [TlNext]_tlVars => TlInv(layer)'
  BY TlStep
<1> QED
  BY <1>1, InitHoldsTiles, PTL DEF TlSpec

\* The tile layer is well typed, whatever is answered, moved and zoomed: its
\* counts of images never fall below zero.
THEOREM LayerTypeCorrect == TlSpec => []TlTypeOK
<1>1. TlInv(layer) => TlTypeOK
  <2> SUFFICES ASSUME TlInv(layer) PROVE TlTypeOK
    OBVIOUS
  <2>1. layer \in TlState /\ layer.tiles \in [DOMAIN layer.tiles -> TileStates]
    BY TileMapsHave DEF TlInv, Exact, ExactBut, TlState
  <2> QED
    BY <2>1 DEF TlInv, Scaled, TlTypeOK, TileStates, TlState
<1> QED
  BY <1>1, LayerInvariant, PTL

\* The counter behind `load` counts the tiles that are loading and those it lost
\* sight of, less the answers to images of earlier views, in every run.
THEOREM CounterAlwaysExact == TlSpec => []CounterExact
<1>1. TlInv(layer) => CounterExact
  <2> SUFFICES ASSUME TlInv(layer) PROVE CounterExact
    OBVIOUS
  <2>1. /\ Cardinality(Loading(layer)) \in Nat /\ Counts(layer, 0)
        /\ layer.lost \in Nat /\ layer.early \in Nat
    BY TilesFinite DEF TlInv, Exact, ExactBut, TlState
  <2> QED
    BY <2>1 DEF Counts, CounterExact
<1> QED
  BY <1>1, LayerInvariant, PTL

\* While they are needed the scaled tiles are cleared only by an older timer or
\* after an answer to an image of an earlier view.
THEOREM ScaledTilesKept == TlSpec => BufferKept
<1>1. TlInv(layer) /\ [TlNext]_tlVars =>
        [layer.timer /\ ~layer'.timer /\ layer.bg > 0 /\ layer'.bg = 0 /\ layer.needed
           => layer.leftover \/ layer.early > 0]_tlVars
  BY TlStep DEF Spared
<1> QED
  BY <1>1, LayerInvariant, PTL DEF TlSpec, BufferKept

-------------------------------------------------------------------------------
(* The station search.                                                      *)

SeFields ==
  {"expanded", "text", "autoType", "cancel", "keyTimer", "alert", "alertTimer", "cache",
   "tips", "open", "sel", "count", "markers", "draws", "asked", "live", "timerAnim",
   "lateSearch", "mixed", "overlapped"}

\* What the search control's functions leave to the page and to the intervals.
SameMarkers(s, m) ==
  /\ m.markers = s.markers /\ m.draws = s.draws /\ m.mixed = s.mixed
  /\ m.asked = s.asked

SameIntervals(s, m) ==
  m.live = s.live /\ m.timerAnim = s.timerAnim /\ m.overlapped = s.overlapped

\* TipsUnderInput of any state of the search.
Tips(s) == s.open /\ ~s.expanded => s.lateSearch

\* While no animation began before another was over, an interval that goes on is
\* the one the circle has the name of, and is not at its end.
Intervals(s) ==
  /\ s.live \in Seq(-1..Ticks)
  /\ ~s.overlapped =>
       \A i \in 1..Len(s.live) : s.live[i] # -1 => i = s.timerAnim /\ s.live[i] > 0

\* While no answer came late, the markers are those of the last drawing.
LastDrawn(s) ==
  /\ s.markers \in Seq([title : Titles \cup {NoTitle}, area : Int])
  /\ s.draws \in Int /\ s.asked \subseteq Int
  /\ ~s.mixed => \A i \in 1..Len(s.markers) : s.markers[i].area = s.draws

SeInv(s) == DOMAIN s = SeFields /\ Tips(s) /\ Intervals(s) /\ LastDrawn(s)

\* What the control's functions do leaves the markers alone and closes the tips,
\* or leaves them as they were under the same control.
SameControl(s, m) ==
  /\ DOMAIN m = SeFields /\ SameMarkers(s, m) /\ SameIntervals(s, m)
  /\ \/ ~m.open
     \/ m.open = s.open /\ m.expanded = s.expanded /\ m.lateSearch = s.lateSearch

LEMMA ControlKeeps ==
  ASSUME NEW s, SeInv(s), NEW m, SameControl(s, m)
  PROVE  SeInv(m)
<1> QED
  BY DEF SameControl, SeInv, SameMarkers, SameIntervals, Tips, Intervals, LastDrawn

\* Hiding the tips, cancelling and collapsing close them.
LEMMA Closes ==
  ASSUME NEW s, DOMAIN s = SeFields
  PROVE  /\ \A m \in {HideTooltip(s), Cancel(s), Collapse(s)} : SameControl(s, m) /\ ~m.open
         /\ SameControl(s, ShowAlert(s))
<1>1. SameControl(s, HideTooltip(s)) /\ ~HideTooltip(s).open
  BY DEF HideTooltip, SameControl, SameMarkers, SameIntervals, SeFields
<1>2. ASSUME NEW t, DOMAIN t = SeFields
      PROVE  SameControl(t, Cancel(t)) /\ ~Cancel(t).open
  <2> DEFINE c == [t EXCEPT !.text = "", !.autoType = FALSE, !.cancel = FALSE]
  <2>1. /\ DOMAIN c = SeFields /\ SameMarkers(t, c) /\ SameIntervals(t, c)
    BY <1>2 DEF SameMarkers, SameIntervals, SeFields
  <2>2. Cancel(t) = HideTooltip(c)
    BY DEF Cancel
  <2> HIDE DEF c
  <2> QED
    BY <2>1, <2>2 DEF HideTooltip, SameControl, SameMarkers, SameIntervals, SeFields
<1>3. SameControl(s, Collapse(s)) /\ ~Collapse(s).open
  <2> DEFINE h == HideTooltip(s)
             c == Cancel(h)
  <2>1. DOMAIN c = SeFields /\ SameMarkers(s, c) /\ SameIntervals(s, c) /\ ~c.open
    BY <1>1, <1>2 DEF SameControl, SameMarkers, SameIntervals
  <2>2. Collapse(s) = [c EXCEPT !.alert = FALSE, !.expanded = FALSE]
    BY DEF Collapse
  <2> HIDE DEF c
  <2> QED
    BY <2>1, <2>2 DEF SameControl, SameMarkers, SameIntervals, SeFields
<1>4. SameControl(s, ShowAlert(s))
  BY DEF ShowAlert, SameControl, SameMarkers, SameIntervals, SeFields
<1> QED
  BY <1>1, <1>2, <1>3, <1>4

\* An animation begins with an interval of its own, and gives it the name.
LEMMA AnimateKeeps ==
  ASSUME NEW s, SeInv(s)
  PROVE  SeInv(Animate(s))
<1> DEFINE q == Append(s.live, Ticks)
           n == Len(s.live) + 1
           o == s.overlapped \/ \E i \in 1..Len(s.live) : s.live[i] # -1
           m == Animate(s)
<1>1. DOMAIN s = SeFields /\ s.live \in Seq(-1..Ticks)
  BY DEF SeInv, Intervals
<1>2. CASE m = s
  BY <1>2
<1>3. CASE m = [s EXCEPT !.live = q, !.timerAnim = n, !.overlapped = o]
  <2>1. /\ q \in Seq(-1..Ticks) /\ Len(q) = n /\ q[n] = Ticks
        /\ \A i \in 1..Len(s.live) : q[i] = s.live[i]
    BY <1>1, TicksAssumption
  <2>2. ~o => \A i \in 1..Len(s.live) : s.live[i] = -1
    OBVIOUS
  <2>3. 1..n = 1..Len(s.live) \cup {n}
    BY <1>1
  <2>4. ~o => \A i \in 1..Len(q) : q[i] # -1 => i = n /\ q[i] > 0
    BY <2>1, <2>2, <2>3, TicksAssumption
  <2> HIDE DEF q, n, o, m
  <2>5. DOMAIN m = SeFields /\ m.live = q /\ m.timerAnim = n /\ m.overlapped = o
    BY <1>1, <1>3 DEF SeFields
  <2>6. /\ SameMarkers(s, m)
        /\ m.open = s.open /\ m.expanded = s.expanded /\ m.lateSearch = s.lateSearch
    BY <1>1, <1>3 DEF SeFields, SameMarkers
  <2> QED
    BY <2>1, <2>4, <2>5, <2>6 DEF SeInv, Tips, Intervals, LastDrawn, SameMarkers, m
<1> QED
  BY <1>1, <1>2, <1>3 DEF Animate, SeFields

\* Enter, the button and a tip submit what is in the input.
LEMMA HandleSubmitKeeps ==
  ASSUME NEW s0, SeInv(s0)
  PROVE  SeInv(HandleSubmit(s0))
<1> DEFINE a == [s0 EXCEPT !.alert = FALSE]
           s == HideTooltip(a)
<1>1. DOMAIN a = SeFields /\ SameControl(s0, a)
  BY DEF SeInv, SameControl, SameMarkers, SameIntervals, SeFields
<1> HIDE DEF a
<1>2. SeInv(a) /\ SameControl(a, s)
  BY <1>1, ControlKeeps, Closes
<1>3. SeInv(s) /\ DOMAIN s = SeFields /\ ~s.open
  BY <1>1, <1>2, ControlKeeps, Closes DEF SameControl
<1>4. HandleSubmit(s0) \in {Expand(s), Collapse(s), Animate(s), ShowAlert(s)}
  BY DEF HandleSubmit, ShowLocation, a
<1> HIDE DEF s
<1>5. SameControl(s, Expand(s))
  BY <1>3 DEF Expand, SameControl, SameMarkers, SameIntervals, SeFields
<1>6. SameControl(s, Collapse(s)) /\ SameControl(s, ShowAlert(s))
  BY <1>3, Closes
<1> QED
  BY <1>3, <1>4, <1>5, <1>6, ControlKeeps, AnimateKeeps

\* An arrow only selects.
LEMMA ArrowControls ==
  ASSUME NEW s, DOMAIN s = SeFields, NEW v
  PROVE  SameControl(s, HandleArrowSelect(s, v))
<1>1. SameControl(s, s)
  BY DEF SameControl, SameMarkers, SameIntervals
<1>2. SameControl(s, [s EXCEPT !.sel = -1])
  BY DEF SameControl, SameMarkers, SameIntervals, SeFields
<1>3. ASSUME NEW n, NEW t PROVE SameControl(s, [s EXCEPT !.sel = n, !.text = t])
  BY DEF SameControl, SameMarkers, SameIntervals, SeFields
<1>4. [s EXCEPT !.sel = @ + v, !.text = s.tips[s.sel + v + 1]]
        = [s EXCEPT !.sel = s.sel + v, !.text = s.tips[s.sel + v + 1]]
  BY DEF SeFields
<1> QED
  BY <1>1, <1>2, <1>3, <1>4 DEF HandleArrowSelect

\* The timer of the last key searches: it opens the tips under a collapsed
\* control only as a late search.
LEMMA SearchKeeps ==
  ASSUME NEW s, SeInv(s), ~s.expanded => s.lateSearch
  PROVE  SeInv(FillRecordsCache(s))
<1>1. ASSUME NEW c, NEW found,
             FillRecordsCache(s) = ShowTooltip([s EXCEPT !.cache = c], found)
      PROVE  SeInv(FillRecordsCache(s))
  <2> DEFINE d == [s EXCEPT !.cache = c]
             shown == [d EXCEPT !.tips = found, !.sel = -1, !.count = Len(found), !.open = TRUE]
             typed == IF d.autoType THEN AutoType(shown) ELSE shown
             last == [typed EXCEPT !.autoType = TRUE]
  <2>1. /\ DOMAIN shown = SeFields /\ SameMarkers(s, shown) /\ SameIntervals(s, shown)
        /\ shown.expanded = s.expanded /\ shown.lateSearch = s.lateSearch
    BY DEF SeInv, SameMarkers, SameIntervals, SeFields
  <2>2. FillRecordsCache(s) \in {HideTooltip(shown), last}
    BY <1>1 DEF ShowTooltip
  <2> HIDE DEF shown
  <2>3. SeInv(shown)
    BY <2>1 DEF SeInv, Tips, Intervals, LastDrawn, SameMarkers, SameIntervals
  <2>4. typed = shown \/ typed = [shown EXCEPT !.text = shown.tips[1]]
    BY DEF AutoType
  <2> HIDE DEF typed
  <2>5. SameControl(shown, typed) /\ DOMAIN typed = SeFields
    BY <2>1, <2>4 DEF SameControl, SameMarkers, SameIntervals, SeFields
  <2>6. SameControl(typed, last)
    BY <2>5 DEF SameControl, SameMarkers, SameIntervals, SeFields
  <2>7. SeInv(last)
    BY <2>3, <2>5, <2>6, ControlKeeps
  <2>8. SeInv(HideTooltip(shown))
    BY <2>1, <2>3, Closes, ControlKeeps
  <2> QED
    BY <2>2, <2>7, <2>8
<1>2. ASSUME NEW c, FillRecordsCache(s) = [s EXCEPT !.cache = c]
      PROVE  SeInv(FillRecordsCache(s))
  BY <1>2 DEF SeInv, Tips, Intervals, LastDrawn, SeFields
<1> QED
  BY <1>1, <1>2 DEF FillRecordsCache

LEMMA InitHoldsSearch == SeInit => SeInv(srch)
<1> SUFFICES ASSUME SeInit PROVE SeInv(srch)
  OBVIOUS
<1>1. /\ DOMAIN srch = SeFields /\ ~srch.open /\ srch.live = <<>> /\ srch.markers = <<>>
      /\ srch.draws = 0 /\ srch.asked = {}
  BY DEF SeInit, SeFields
<1> QED
  BY <1>1 DEF SeInv, Tips, Intervals, LastDrawn

\* Keys and clicks.
LEMMA KeysKeep ==
  ASSUME SeInv(srch),
         \/ \E text : Type(text) \/ Backspace(text)
         \/ \E v : Arrow(v)
         \/ \E i : ClickTip(i)
         \/ Esc \/ Enter \/ ClickButton \/ ClickCancel \/ MapTouched
  PROVE  SeInv(srch')
<1>1. DOMAIN srch = SeFields
  BY DEF SeInv
<1>2. ASSUME NEW text, Type(text) PROVE SeInv(srch')
  <2> DEFINE c == [srch EXCEPT !.cancel = FALSE]
  <2>1. SameControl(srch, c) /\ DOMAIN c = SeFields
    BY <1>1 DEF SameControl, SameMarkers, SameIntervals, SeFields
  <2>2. SameControl(srch, [srch EXCEPT !.text = text, !.cancel = TRUE, !.keyTimer = TRUE])
    BY <1>1 DEF SameControl, SameMarkers, SameIntervals, SeFields
  <2>3. srch' \in {HideTooltip(c), [srch EXCEPT !.text = text, !.cancel = TRUE, !.keyTimer = TRUE]}
    BY <1>2 DEF Type
  <2> HIDE DEF c
  <2> QED
    BY <2>1, <2>2, <2>3, Closes, ControlKeeps
<1>3. ASSUME NEW text, Backspace(text) PROVE SeInv(srch')
  <2>1. srch' = [srch EXCEPT !.text = text, !.autoType = FALSE]
    BY <1>3 DEF Backspace
  <2>2. SameControl(srch, srch')
    BY <1>1, <2>1 DEF SameControl, SameMarkers, SameIntervals, SeFields
  <2> QED
    BY <2>2, ControlKeeps
<1>4. ASSUME NEW v, Arrow(v) PROVE SeInv(srch')
  BY <1>1, <1>4, ArrowControls, ControlKeeps DEF Arrow
<1>5. ASSUME NEW i, ClickTip(i) PROVE SeInv(srch')
  <2> DEFINE c == [srch EXCEPT !.text = srch.tips[i]]
  <2>1. SameControl(srch, c) /\ DOMAIN c = SeFields
    BY <1>1 DEF SameControl, SameMarkers, SameIntervals, SeFields
  <2>2. srch' = HandleSubmit(HideTooltip(c))
    BY <1>5 DEF ClickTip
  <2> HIDE DEF c
  <2>3. SeInv(HideTooltip(c))
    BY <2>1, Closes, ControlKeeps
  <2> QED
    BY <2>2, <2>3, HandleSubmitKeeps
<1>6. CASE Enter \/ ClickButton
  <2>1. srch' \in {HandleSubmit(srch), HandleSubmit(HandleArrowSelect(srch, 1))}
    BY <1>6 DEF Enter, ClickButton
  <2> QED
    BY <1>1, <2>1, ArrowControls, ControlKeeps, HandleSubmitKeeps
<1>7. CASE Esc \/ ClickCancel \/ MapTouched
  <2>1. srch' \in {Collapse(srch), Cancel(srch)}
    BY <1>7 DEF Esc, ClickCancel, MapTouched
  <2> QED
    BY <1>1, <2>1, Closes, ControlKeeps
<1> QED
  BY <1>2, <1>3, <1>4, <1>5, <1>6, <1>7

\* The timers of the last key and of the alert.
LEMMA TimersKeep ==
  ASSUME SeInv(srch), KeyTimer \/ AlertTimer
  PROVE  SeInv(srch')
<1>1. DOMAIN srch = SeFields
  BY DEF SeInv
<1>2. CASE KeyTimer
  <2> DEFINE c == [srch EXCEPT !.keyTimer = FALSE, !.lateSearch = ~srch.expanded]
  <2>1. /\ DOMAIN c = SeFields /\ SameMarkers(srch, c) /\ SameIntervals(srch, c)
        /\ c.open = srch.open /\ c.expanded = srch.expanded /\ c.lateSearch = ~srch.expanded
    BY <1>1 DEF SameMarkers, SameIntervals, SeFields
  <2>2. srch' = FillRecordsCache(c)
    BY <1>2 DEF KeyTimer
  <2> HIDE DEF c
  <2>3. SeInv(c)
    BY <2>1 DEF SeInv, Tips, Intervals, LastDrawn, SameMarkers, SameIntervals
  <2> QED
    BY <2>1, <2>2, <2>3, SearchKeeps
<1>3. CASE AlertTimer
  <2>1. srch' = [srch EXCEPT !.alertTimer = FALSE, !.alert = FALSE]
    BY <1>3 DEF AlertTimer
  <2>2. SameControl(srch, srch')
    BY <1>1, <2>1 DEF SameControl, SameMarkers, SameIntervals, SeFields
  <2> QED
    BY <2>2, ControlKeeps
<1> QED
  BY <1>2, <1>3

\* A tick of an interval; the one that reaches its end stops the named one,
\* itself while no other animation began before its own was over.
LEMMA TickKeeps ==
  ASSUME SeInv(srch), NEW i \in 1..Len(srch.live), AnimTick(i)
  PROVE  SeInv(srch')
<1> DEFINE left == IF srch.live[i] = 0 THEN 0 ELSE srch.live[i] - 1
           ticked == [srch.live EXCEPT ![i] = left]
           cleared == [ticked EXCEPT ![srch.timerAnim] = -1]
           q == IF left = 0 THEN cleared ELSE ticked
<1>1. DOMAIN srch = SeFields /\ srch.live \in Seq(-1..Ticks) /\ Intervals(srch)
  BY DEF SeInv, Intervals
<1>2. srch.live[i] \in 0..Ticks /\ left \in 0..Ticks
  BY <1>1, TicksAssumption DEF AnimTick
<1>3. ticked \in Seq(-1..Ticks) /\ Len(ticked) = Len(srch.live)
      /\ \A j \in 1..Len(srch.live) : ticked[j] = IF j = i THEN left ELSE srch.live[j]
  BY <1>1, <1>2, TicksAssumption
<1>4. srch' = [srch EXCEPT !.live = q]
  BY DEF AnimTick, ClearInterval
<1> HIDE DEF left, ticked
<1>5. /\ cleared \in Seq(-1..Ticks) /\ Len(cleared) = Len(srch.live)
      /\ \A j \in 1..Len(srch.live) :
           cleared[j] = IF j = srch.timerAnim THEN -1 ELSE ticked[j]
  <2>1. -1 \in -1..Ticks
    BY TicksAssumption
  <2>2. CASE srch.timerAnim \in 1..Len(ticked)
    BY <1>3, <2>1, <2>2, ExceptSeq
  <2>3. CASE srch.timerAnim \notin 1..Len(ticked)
    <3>1. ticked \in [1..Len(ticked) -> -1..Ticks]
      BY <1>3, LenProperties
    <3>2. cleared = ticked
      BY <2>3, <3>1
    <3> HIDE DEF cleared
    <3> QED
      BY <1>3, <2>3, <3>2
  <2> QED
    BY <2>2, <2>3
<1> HIDE DEF cleared
<1>6. ASSUME ~srch.overlapped, NEW j \in 1..Len(srch.live), q[j] # -1
      PROVE  j = srch.timerAnim /\ q[j] > 0
  <2>1. i = srch.timerAnim
    BY <1>1, <1>2, <1>6 DEF Intervals
  <2>2. CASE left = 0
    BY <1>1, <1>3, <1>5, <1>6, <2>1, <2>2 DEF Intervals
  <2>3. CASE left # 0
    BY <1>1, <1>2, <1>3, <1>6, <2>1, <2>3 DEF Intervals
  <2> QED
    BY <2>2, <2>3
<1>7. q \in Seq(-1..Ticks) /\ Len(q) = Len(srch.live)
  BY <1>3, <1>5
<1> HIDE DEF q
<1>8. /\ DOMAIN srch' = SeFields /\ SameMarkers(srch, srch') /\ srch'.live = q
      /\ srch'.overlapped = srch.overlapped /\ srch'.timerAnim = srch.timerAnim
      /\ srch'.open = srch.open /\ srch'.expanded = srch.expanded
      /\ srch'.lateSearch = srch.lateSearch
  BY <1>1, <1>4 DEF SameMarkers, SeFields
<1>9. Intervals(srch')
  BY <1>6, <1>7, <1>8 DEF Intervals
<1> QED
  BY <1>8, <1>9 DEF SeInv, Tips, LastDrawn, SameMarkers

\* An area is drawn, and the markers go.
LEMMA DrawKeeps ==
  ASSUME SeInv(srch), NEW asks, Draw(asks)
  PROVE  SeInv(srch')
<1> DEFINE n == srch.draws + 1
           q == IF asks THEN srch.asked \cup {srch.draws + 1} ELSE srch.asked
<1>1. DOMAIN srch = SeFields /\ n \in Int /\ q \subseteq Int
  BY DEF SeInv, LastDrawn
<1>2. srch' = [srch EXCEPT !.draws = n, !.markers = <<>>, !.asked = q, !.mixed = FALSE]
  BY <1>1 DEF Draw, ClearLayers, SeFields
<1> HIDE DEF n, q
<1>3. /\ DOMAIN srch' = SeFields /\ SameIntervals(srch, srch') /\ srch'.draws = n /\ srch'.asked = q
      /\ srch'.markers = <<>> /\ srch'.open = srch.open /\ srch'.expanded = srch.expanded
      /\ srch'.lateSearch = srch.lateSearch
  BY <1>1, <1>2 DEF SameIntervals, SeFields
<1>4. LastDrawn(srch')
  BY <1>1, <1>3 DEF LastDrawn
<1> QED
  BY <1>3, <1>4 DEF SeInv, Tips, Intervals, SameIntervals

\* The server answers: the markers of the area are added to those there are.
LEMMA AnswerKeeps ==
  ASSUME SeInv(srch), NEW area \in Int, NEW titles \in Answers, Answer(area, titles)
  PROVE  SeInv(srch')
<1> DEFINE added == [i \in 1..Len(titles) |-> [title |-> titles[i], area |-> area]]
           q == srch.markers \o added
           a == srch.asked \ {area}
           b == srch.mixed \/ area # srch.draws
           Marker == [title : Titles \cup {NoTitle}, area : Int]
<1>1. DOMAIN srch = SeFields /\ srch.markers \in Seq(Marker) /\ LastDrawn(srch) /\ a \subseteq Int
  BY DEF SeInv, LastDrawn
<1>2. /\ added \in Seq(Marker) /\ Len(added) = Len(titles)
      /\ \A i \in 1..Len(added) : added[i].area = area
  <2>1. titles \in Seq(Titles \cup {NoTitle}) /\ Len(titles) \in Nat
    BY AnswersAssumption
  <2>2. \A i \in 1..Len(titles) : [title |-> titles[i], area |-> area] \in Marker
    BY <2>1
  <2> QED
    BY <2>1, <2>2
<1>3. srch' = [srch EXCEPT !.asked = a, !.markers = q, !.mixed = b]
  BY <1>1 DEF Answer, SeFields
<1> HIDE DEF added, Marker
<1>4. q \in Seq(Marker) /\ Len(q) = Len(srch.markers) + Len(added)
      /\ \A i \in 1..Len(q) : q[i] = IF i <= Len(srch.markers) THEN srch.markers[i]
                                     ELSE added[i - Len(srch.markers)]
  <2> DEFINE old == srch.markers
  <2>1. old \in Seq(Marker) /\ added \in Seq(Marker) /\ q = old \o added
    BY <1>1, <1>2
  <2> HIDE DEF old, q
  <2> QED
    BY <2>1 DEF old
<1>5. ASSUME ~b, NEW i \in 1..Len(q) PROVE q[i].area = srch.draws
  <2>1. Len(srch.markers) \in Nat /\ Len(added) \in Nat
    BY <1>1, <1>2
  <2>2. CASE i <= Len(srch.markers)
    BY <1>1, <1>4, <1>5, <2>1, <2>2 DEF LastDrawn
  <2>3. CASE ~(i <= Len(srch.markers))
    <3>1. i - Len(srch.markers) \in 1..Len(added)
      BY <1>4, <2>1, <2>3
    <3>2. added[i - Len(srch.markers)].area = area
      BY <1>2, <3>1
    <3> QED
      BY <1>4, <1>5, <2>3, <3>2
  <2> QED
    BY <2>2, <2>3
<1> HIDE DEF q, a, b
<1>6. /\ DOMAIN srch' = SeFields /\ SameIntervals(srch, srch') /\ srch'.draws = srch.draws /\ srch'.asked = a
      /\ srch'.markers = q /\ srch'.mixed = b /\ srch'.open = srch.open
      /\ srch'.expanded = srch.expanded /\ srch'.lateSearch = srch.lateSearch
  BY <1>1, <1>3 DEF SameIntervals, SeFields
<1>7. LastDrawn(srch')
  BY <1>1, <1>4, <1>5, <1>6 DEF LastDrawn, Marker
<1> QED
  BY <1>6, <1>7 DEF SeInv, Tips, Intervals, SameIntervals

\* Every step of the search keeps its invariant.
LEMMA SeStep == SeInv(srch) /\ [SeNext]_seVars => SeInv(srch')
<1> SUFFICES ASSUME SeInv(srch), [SeNext]_seVars PROVE SeInv(srch')
  OBVIOUS
<1>1. DOMAIN srch = SeFields /\ srch.asked \subseteq Int
  BY DEF SeInv, LastDrawn
<1>2. ASSUME NEW area \in srch.asked, NoAnswer(area) PROVE SeInv(srch')
  <2> DEFINE a == srch.asked \ {area}
  <2>1. srch' = [srch EXCEPT !.asked = a] /\ a \subseteq Int
    BY <1>1, <1>2 DEF NoAnswer, SeFields
  <2> HIDE DEF a
  <2>2. /\ DOMAIN srch' = SeFields /\ SameIntervals(srch, srch') /\ srch'.draws = srch.draws
        /\ srch'.asked = a /\ srch'.markers = srch.markers /\ srch'.mixed = srch.mixed
        /\ srch'.open = srch.open /\ srch'.expanded = srch.expanded
        /\ srch'.lateSearch = srch.lateSearch
    BY <1>1, <2>1 DEF SameIntervals, SeFields
  <2> QED
    BY <2>1, <2>2 DEF SeInv, Tips, Intervals, LastDrawn, SameIntervals
<1>3. CASE UNCHANGED seVars
  BY <1>3 DEF seVars
<1>4. ASSUME NEW area \in srch.asked, NEW titles \in Answers, Answer(area, titles) PROVE SeInv(srch')
  BY <1>1, <1>4, AnswerKeeps
<1>5. CASE KeyTimer \/ AlertTimer
  BY <1>5, TimersKeep
<1>6. CASE \E i \in 1..Len(srch.live) : AnimTick(i)
  BY <1>6, TickKeeps
<1>7. CASE \E asks \in BOOLEAN : Draw(asks)
  BY <1>7, DrawKeeps
<1>8. CASE \/ \E text : Type(text) \/ Backspace(text)
           \/ \E v : Arrow(v)
           \/ \E i : ClickTip(i)
           \/ Esc \/ Enter \/ ClickButton \/ ClickCancel \/ MapTouched
  BY <1>8, KeysKeep
<1> QED
  BY <1>2, <1>3, <1>4, <1>5, <1>6, <1>7, <1>8 DEF SeNext

\* The search's inductive invariant holds.
LEMMA SearchInvariant == SeSpec => []SeInv(srch)
<1>1. SeInv(srch) /\ [SeNext]_seVars => SeInv(srch)'
  BY SeStep
<1> QED
  BY <1>1, InitHoldsSearch, PTL DEF SeSpec

\* Markers of an earlier area are on the map only after a late answer, whatever
\* is drawn and answered in whatever order.
THEOREM MarkersAreOfLastArea == SeSpec => []MarkersOfLastArea
<1>1. SeInv(srch) => MarkersOfLastArea
  <2> SUFFICES ASSUME SeInv(srch), NEW m \in Range(srch.markers), m.area # srch.draws
               PROVE  srch.mixed
    BY DEF MarkersOfLastArea
  <2>1. PICK i \in 1..Len(srch.markers) : m = srch.markers[i]
    BY DEF Range, SeInv, LastDrawn
  <2> QED
    BY <2>1 DEF SeInv, LastDrawn
<1> QED
  BY <1>1, SearchInvariant, PTL

\* Tips stay open under a collapsed control only after a late search.
THEOREM TipsStayUnderInput == SeSpec => []TipsUnderInput
<1>1. SeInv(srch) => TipsUnderInput
  BY DEF SeInv, Tips, TipsUnderInput
<1> QED
  BY <1>1, SearchInvariant, PTL

\* An interval runs on at its end only when animations overlapped, for any
\* number of intervals of any length.
THEOREM IntervalsAlwaysEnd == SeSpec => []IntervalsEnd
<1>1. SeInv(srch) => IntervalsEnd
  BY DEF SeInv, Intervals, IntervalsEnd
<1> QED
  BY <1>1, SearchInvariant, PTL

\* The types of the search.

\* Markers that all have a title.
Titled == [title : Titles, area : 1..MaxDraws]

LEMMA KeepFoundKeeps ==
  ASSUME NEW text, NEW found \in Seq(Titles), NEW m \in Titled
  PROVE  KeepFound(text, found, m) \in Seq(Titles)
BY DEF KeepFound, Titled

\* What the text finds is what each marker adds to it.
FoundAll(text, seq, base) == FoldLeft(LAMBDA f, m : KeepFound(text, f, m), base, seq)

FoundStep(text, seq) == [p \in Seq(Titles) \X (1..Len(seq)) |-> KeepFound(text, p[1], seq[p[2]])]

FoundTable(t, text, seq, base) ==
  t = [s \in SUBSET (DOMAIN seq) |->
         IF s = {} THEN base ELSE KeepFound(text, t[s \ {Max(s)}], seq[Max(s)])]

FoundMade(made, text, seq, base) ==
  /\ made \in [0..Len(seq) -> Seq(Titles)] /\ made[0] = base
  /\ \A k \in 1..Len(seq) : made[k] = KeepFound(text, made[k - 1], seq[k])

LEMMA FoundStepIsStep ==
  ASSUME NEW text,
         NEW seq \in Seq(Titled)
  PROVE  /\ Len(seq) \in Nat /\ DOMAIN seq = 1..Len(seq)
         /\ FoundStep(text, seq) \in [Seq(Titles) \X (1..Len(seq)) -> Seq(Titles)]
<1>1. Len(seq) \in Nat /\ DOMAIN seq = 1..Len(seq) /\ \A i \in 1..Len(seq) : seq[i] \in Titled
  OBVIOUS
<1>2. \A r \in Seq(Titles), i \in 1..Len(seq) : KeepFound(text, r, seq[i]) \in Seq(Titles)
  BY <1>1, KeepFoundKeeps
<1> QED
  BY <1>1, <1>2 DEF FoundStep

LEMMA FoundTableExists ==
  ASSUME NEW text,
         NEW seq \in Seq(Titled),
         NEW base \in Seq(Titles)
  PROVE  \E t : FoundTable(t, text, seq, base)
<1> DEFINE n == Len(seq)
           step == FoundStep(text, seq)
<1>1. n \in Nat /\ DOMAIN seq = 1..n /\ step \in [Seq(Titles) \X (1..n) -> Seq(Titles)]
  BY FoundStepIsStep
<1>2. HasTable(step, base, Seq(Titles), n)
  <2> HIDE DEF step, n
  <2> QED
    BY <1>1, TableExists
<1>3. PICK t \in [SUBSET (1..n) -> Seq(Titles)] : Table(t, step, base, n)
  BY <1>2 DEF HasTable
<1>4. ASSUME NEW s \in SUBSET (1..n), s # {}
      PROVE  step[<<t[s \ {Max(s)}], Max(s)>>] = KeepFound(text, t[s \ {Max(s)}], seq[Max(s)])
  <2>1. Max(s) \in 1..n
    BY <1>1, <1>4, MaxOfNumbers
  <2>2. t[s \ {Max(s)}] \in Seq(Titles)
    OBVIOUS
  <2> QED
    BY <2>1, <2>2 DEF FoundStep
<1>5. t = [s \in SUBSET (1..n) |->
             IF s = {} THEN base ELSE KeepFound(text, t[s \ {Max(s)}], seq[Max(s)])]
  <2> HIDE DEF step
  <2> QED
    BY <1>3, <1>4 DEF Table
<1> QED
  BY <1>1, <1>5 DEF FoundTable

LEMMA FoundFold ==
  ASSUME NEW text,
         NEW seq \in Seq(Titled),
         NEW base \in Seq(Titles)
  PROVE  \E made : FoundMade(made, text, seq, base) /\ FoundAll(text, seq, base) = made[Len(seq)]
<1> DEFINE n == Len(seq)
           step == FoundStep(text, seq)
           t == CHOOSE t : FoundTable(t, text, seq, base)
<1>1. n \in Nat /\ DOMAIN seq = 1..n /\ step \in [Seq(Titles) \X (1..n) -> Seq(Titles)]
  BY FoundStepIsStep
<1>2. FoundTable(t, text, seq, base)
  BY FoundTableExists
<1>3. FoundAll(text, seq, base) = t[1..n]
  BY <1>1 DEF FoundAll, FoldLeft, MapThenFoldSet, FoundTable
<1> HIDE DEF t
<1>4. t[{}] = base
  BY <1>2 DEF FoundTable
<1>5. ASSUME NEW k \in 1..n, t[1..k - 1] \in Seq(Titles)
      PROVE  t[1..k] = step[<<t[1..k - 1], k>>]
  <2>1. (1..k) \in SUBSET (1..n) /\ 1..k # {} /\ Max(1..k) = k /\ (1..k) \ {k} = 1..k - 1
    BY <1>1, TableRow
  <2>2. t[1..k] = KeepFound(text, t[1..k - 1], seq[k])
    BY <1>1, <1>2, <2>1 DEF FoundTable
  <2> QED
    BY <1>5, <2>2 DEF FoundStep
<1>6. PICK made \in [0..n -> Seq(Titles)] : StepsFrom(made, step, base, n) /\ made[n] = t[1..n]
  <2> HIDE DEF step, n
  <2>1. Unfolds(t, step, Seq(Titles), base, n)
    BY <1>4, <1>5 DEF Unfolds
  <2>2. HasSteps(step, Seq(Titles), base, n, t[1..n])
    BY <1>1, <2>1, StepsOfTable
  <2> QED
    BY <2>2 DEF HasSteps
<1>7. \A k \in 1..n : made[k] = KeepFound(text, made[k - 1], seq[k])
  BY <1>1, <1>6, TableRow DEF StepsFrom, FoundStep
<1>8. FoundMade(made, text, seq, base)
  BY <1>6, <1>7 DEF StepsFrom, FoundMade
<1> QED
  BY <1>3, <1>6, <1>8

LEMMA FoundIsTitles ==
  ASSUME NEW markers \in Seq(Titled), NEW text
  PROVE  Found(markers, text) \in Seq(Titles)
<1> DEFINE none == <<>>
<1>1. none \in Seq(Titles) /\ Len(markers) \in Nat
  OBVIOUS
<1>2. Found(markers, text) = FoundAll(text, markers, none)
  BY DEF Found, FoundAll
<1> HIDE DEF none
<1>3. PICK made : FoundMade(made, text, markers, none)
                  /\ FoundAll(text, markers, none) = made[Len(markers)]
  BY <1>1, FoundFold
<1>4. made[Len(markers)] \in Seq(Titles)
  BY <1>1, <1>3 DEF FoundMade
<1> QED
  BY <1>2, <1>3, <1>4

Texts == Typed \cup Titles \cup {""}

\* The text, the tips and which of them is selected: while the list is open the
\* selection is one of it, or stands before the first.
Listed(s) ==
  /\ s.text \in Texts /\ s.tips \in Seq(Titles) /\ s.sel \in Int
  /\ s.open => s.tips # <<>> /\ s.sel \in -1..Len(s.tips) - 1

Placed(s) ==
  /\ s.markers \in Seq([title : Titles \cup {NoTitle}, area : 1..MaxDraws])
  /\ s.draws \in 0..MaxDraws /\ s.asked \subseteq 1..s.draws

Timed(s) == s.live \in Seq(-1..Ticks) /\ s.timerAnim \in 0..Len(s.live)

SeTyped(s) ==
  DOMAIN s = SeFields /\ Listed(s) /\ s.cache \subseteq Titles /\ Placed(s) /\ Timed(s)

\* What most functions of the control leave alone.
SameRest(s, m) ==
  DOMAIN m = SeFields /\ SameMarkers(s, m) /\ SameIntervals(s, m) /\ m.cache = s.cache

LEMMA RestKeeps ==
  ASSUME NEW s, SeTyped(s), NEW m, SameRest(s, m), Listed(m)
  PROVE  SeTyped(m)
BY DEF SeTyped, SameRest, SameMarkers, SameIntervals, Placed, Timed

LEMMA HideTyped ==
  ASSUME NEW s, SeTyped(s)
  PROVE  SeTyped(HideTooltip(s))
<1> DEFINE m == HideTooltip(s)
           none == <<>>
<1>1. DOMAIN s = SeFields /\ none \in Seq(Titles) /\ m = [s EXCEPT !.open = FALSE, !.tips = none]
  BY DEF SeTyped, HideTooltip
<1> HIDE DEF m, none
<1>2. SameRest(s, m) /\ m.text = s.text /\ m.tips = none /\ m.sel = s.sel /\ m.open = FALSE
  BY <1>1 DEF SameRest, SameMarkers, SameIntervals, SeFields
<1>3. Listed(m)
  BY <1>1, <1>2 DEF SeTyped, Listed
<1> QED
  BY <1>2, <1>3, RestKeeps DEF m

LEMMA CancelTyped ==
  ASSUME NEW s, SeTyped(s)
  PROVE  SeTyped(Cancel(s))
<1> DEFINE c == [s EXCEPT !.text = "", !.autoType = FALSE, !.cancel = FALSE]
<1>1. Cancel(s) = HideTooltip(c) /\ DOMAIN s = SeFields
  BY DEF Cancel, SeTyped
<1>2. SameRest(s, c) /\ c.text = "" /\ c.tips = s.tips /\ c.sel = s.sel /\ c.open = s.open
  BY <1>1 DEF SameRest, SameMarkers, SameIntervals, SeFields
<1> HIDE DEF c
<1>3. Listed(c)
  BY <1>2 DEF SeTyped, Listed, Texts
<1> QED
  BY <1>1, <1>2, <1>3, RestKeeps, HideTyped

\* Fields that say nothing of the list.
LEMMA OtherTyped ==
  ASSUME NEW s, SeTyped(s), NEW m, SameRest(s, m), m.text = s.text, m.tips = s.tips,
         m.sel = s.sel, m.open = s.open
  PROVE  SeTyped(m)
<1>1. Listed(m)
  BY DEF SeTyped, Listed
<1> QED
  BY <1>1, RestKeeps

LEMMA CollapseTyped ==
  ASSUME NEW s, SeTyped(s)
  PROVE  SeTyped(Collapse(s))
<1> DEFINE c == Cancel(HideTooltip(s))
           m == Collapse(s)
<1>1. SeTyped(c)
  BY HideTyped, CancelTyped
<1>2. m = [c EXCEPT !.alert = FALSE, !.expanded = FALSE]
  BY DEF Collapse
<1> HIDE DEF c, m
<1>3. DOMAIN c = SeFields
  BY <1>1 DEF SeTyped
<1>4. SameRest(c, m) /\ m.text = c.text /\ m.tips = c.tips /\ m.sel = c.sel /\ m.open = c.open
  BY <1>2, <1>3 DEF SameRest, SameMarkers, SameIntervals, SeFields
<1> QED
  BY <1>1, <1>4, OtherTyped DEF m

LEMMA AnimateTyped ==
  ASSUME NEW s, SeTyped(s)
  PROVE  SeTyped(Animate(s))
<1> DEFINE q == Append(s.live, Ticks)
           n == Len(s.live) + 1
           o == s.overlapped \/ \E i \in 1..Len(s.live) : s.live[i] # -1
           m == Animate(s)
<1>1. DOMAIN s = SeFields /\ s.live \in Seq(-1..Ticks)
  BY DEF SeTyped, Timed
<1>2. CASE m = s
  BY <1>2
<1>3. CASE m = [s EXCEPT !.live = q, !.timerAnim = n, !.overlapped = o]
  <2>1. q \in Seq(-1..Ticks) /\ Len(q) = n /\ n \in 0..n
    BY <1>1, TicksAssumption
  <2> HIDE DEF q, n, o, m
  <2>2. DOMAIN m = SeFields /\ m.live = q /\ m.timerAnim = n
    BY <1>1, <1>3 DEF SeFields
  <2>3. /\ SameMarkers(s, m) /\ m.cache = s.cache
        /\ m.text = s.text /\ m.tips = s.tips /\ m.sel = s.sel /\ m.open = s.open
    BY <1>1, <1>3 DEF SeFields, SameMarkers
  <2> QED
    BY <2>1, <2>2, <2>3 DEF SeTyped, Listed, Placed, Timed, SameMarkers, m
<1> QED
  BY <1>1, <1>2, <1>3 DEF Animate, SeFields

LEMMA SubmitTyped ==
  ASSUME NEW s0, SeTyped(s0)
  PROVE  SeTyped(HandleSubmit(s0))
<1> DEFINE a == [s0 EXCEPT !.alert = FALSE]
           s == HideTooltip(a)
<1>1. SameRest(s0, a) /\ a.text = s0.text /\ a.tips = s0.tips /\ a.sel = s0.sel /\ a.open = s0.open
  BY DEF SeTyped, SameRest, SameMarkers, SameIntervals, SeFields
<1>2. HandleSubmit(s0) \in {Expand(s), Collapse(s), Animate(s), ShowAlert(s)}
  BY DEF HandleSubmit, ShowLocation
<1> HIDE DEF a
<1>3. SeTyped(s)
  BY <1>1, OtherTyped, HideTyped
<1> HIDE DEF s
<1>4. SeTyped(Expand(s))
  <2> DEFINE m == Expand(s)
  <2>1. m = [s EXCEPT !.expanded = TRUE, !.lateSearch = FALSE] /\ DOMAIN s = SeFields
    BY <1>3 DEF Expand, SeTyped
  <2> HIDE DEF m
  <2>2. SameRest(s, m) /\ m.text = s.text /\ m.tips = s.tips /\ m.sel = s.sel /\ m.open = s.open
    BY <2>1 DEF SameRest, SameMarkers, SameIntervals, SeFields
  <2> QED
    BY <1>3, <2>2, OtherTyped DEF m
<1>5. SeTyped(ShowAlert(s))
  <2> DEFINE m == ShowAlert(s)
  <2>1. m = [s EXCEPT !.alert = TRUE, !.alertTimer = TRUE] /\ DOMAIN s = SeFields
    BY <1>3 DEF ShowAlert, SeTyped
  <2> HIDE DEF m
  <2>2. SameRest(s, m) /\ m.text = s.text /\ m.tips = s.tips /\ m.sel = s.sel /\ m.open = s.open
    BY <2>1 DEF SameRest, SameMarkers, SameIntervals, SeFields
  <2> QED
    BY <1>3, <2>2, OtherTyped DEF m
<1> QED
  BY <1>2, <1>3, <1>4, <1>5, CollapseTyped, AnimateTyped

\* An arrow selects an item of the list, and puts it in the input.
LEMMA ArrowTyped ==
  ASSUME NEW s, SeTyped(s), NEW v \in {-1, 1}
  PROVE  SeTyped(HandleArrowSelect(s, v))
<1> DEFINE m == HandleArrowSelect(s, v)
<1>1. DOMAIN s = SeFields /\ Listed(s)
  BY DEF SeTyped
<1>2. CASE m = s
  BY <1>2
<1>3. CASE v = -1 /\ s.sel \in {-1, 0} /\ m = [s EXCEPT !.sel = -1]
  <2> DEFINE before == -1
  <2>1. m = [s EXCEPT !.sel = before] /\ before \in Int
    BY <1>3
  <2>2. s.open => before \in -1..Len(s.tips) - 1
    BY <1>1 DEF Listed
  <2> HIDE DEF m, before
  <2>3. SameRest(s, m) /\ m.text = s.text /\ m.tips = s.tips /\ m.sel = before /\ m.open = s.open
    BY <1>1, <2>1 DEF SameRest, SameMarkers, SameIntervals, SeFields
  <2>4. Listed(m)
    BY <1>1, <2>1, <2>2, <2>3 DEF Listed
  <2> QED
    BY <2>3, <2>4, RestKeeps DEF m
<1>4. CASE /\ s.open /\ ~(v = 1 /\ s.sel # -2 /\ s.sel >= Len(s.tips) - 1)
           /\ ~(v = -1 /\ s.sel \in {-1, 0})
           /\ m = [s EXCEPT !.sel = @ + v, !.text = s.tips[s.sel + v + 1]]
  <2> DEFINE n == s.sel + v
             text == s.tips[n + 1]
  <2>1. /\ s.sel \in -1..Len(s.tips) - 1 /\ s.tips \in Seq(Titles) /\ s.tips # <<>>
        /\ Len(s.tips) \in Nat
    BY <1>1, <1>4 DEF Listed
  <2>2. n \in 0..Len(s.tips) - 1 /\ n + 1 \in 1..Len(s.tips)
    BY <1>4, <2>1
  <2>3. text \in Titles
    <3> HIDE DEF n
    <3> QED
      BY <2>1, <2>2
  <2>4. m = [s EXCEPT !.sel = n, !.text = text]
    BY <1>1, <1>4 DEF SeFields
  <2> HIDE DEF m, n, text
  <2>5. SameRest(s, m) /\ m.text = text /\ m.tips = s.tips /\ m.sel = n /\ m.open = s.open
    BY <1>1, <2>4 DEF SameRest, SameMarkers, SameIntervals, SeFields
  <2>6. text \in Texts
    BY <2>3 DEF Texts
  <2>7. n \in Int /\ n \in -1..Len(s.tips) - 1
    BY <2>1, <2>2
  <2>8. Listed(m)
    BY <2>1, <2>5, <2>6, <2>7 DEF Listed
  <2> QED
    BY <2>5, <2>8, RestKeeps DEF m
<1> QED
  BY <1>2, <1>3, <1>4 DEF HandleArrowSelect

\* A search lists titles, and completes the text to one of them.
LEMMA SearchTyped ==
  ASSUME NEW s, SeTyped(s)
  PROVE  SeTyped(FillRecordsCache(s))
<1> DEFINE cache == {m.title : m \in Range(s.markers)}
           found == Found(s.markers, s.text)
           d == [s EXCEPT !.cache = cache]
<1>1. CASE \E m \in Range(s.markers) : m.title = NoTitle
  BY <1>1 DEF FillRecordsCache
<1>2. CASE ~\E m \in Range(s.markers) : m.title = NoTitle
  <2>1. s.markers \in Seq(Titled) /\ cache \subseteq Titles
    <3>1. s.markers \in Seq([title : Titles \cup {NoTitle}, area : 1..MaxDraws])
      BY DEF SeTyped, Placed
    <3>2. ASSUME NEW i \in 1..Len(s.markers) PROVE s.markers[i] \in Titled /\ s.markers[i].title \in Titles
      <4> DEFINE q == s.markers
                 m == q[i]
      <4>1. q \in Seq([title : Titles \cup {NoTitle}, area : 1..MaxDraws]) /\ i \in 1..Len(q)
            /\ ~\E n \in Range(q) : n.title = NoTitle
        BY <1>2, <3>1
      <4> HIDE DEF q
      <4>2. m \in Range(q) /\ m \in [title : Titles \cup {NoTitle}, area : 1..MaxDraws]
        <5>1. i \in DOMAIN q
          BY <4>1
        <5>2. m \in Range(q)
          BY <5>1 DEF Range
        <5>3. m \in [title : Titles \cup {NoTitle}, area : 1..MaxDraws]
          BY <4>1, ElementOfSeq
        <5> QED
          BY <5>2, <5>3
      <4> HIDE DEF m
      <4> DEFINE Drawings == 1..MaxDraws
      <4>3. m.title # NoTitle /\ m \in [title : Titles \cup {NoTitle}, area : Drawings]
        BY <4>1, <4>2
      <4> HIDE DEF Drawings
      <4>4. m.title \in Titles /\ m \in [title : Titles, area : Drawings]
        BY <4>3
      <4> QED
        BY <4>4 DEF m, q, Drawings, Titled
    <3>3. \A m \in Range(s.markers) : m.title \in Titles
      BY <3>1, <3>2 DEF Range
    <3>4. cache \subseteq Titles
      BY <3>3
    <3> DEFINE q == s.markers
    <3>5. \A i \in 1..Len(q) : q[i] \in Titled
      BY <3>2
    <3>6. q \in Seq([title : Titles \cup {NoTitle}, area : 1..MaxDraws])
      BY <3>1
    <3> HIDE DEF q, cache
    <3>7. q \in Seq(Titled)
      BY <3>5, <3>6
    <3> QED
      BY <3>4, <3>7 DEF q
  <2>2. found \in Seq(Titles)
    BY <2>1, FoundIsTitles
  <2>3. FillRecordsCache(s) = IF s.text \in Invalid THEN d ELSE ShowTooltip(d, found)
    BY <1>2 DEF FillRecordsCache
  <2> DEFINE count == Len(found)
             shown == [d EXCEPT !.tips = found, !.sel = -1, !.count = count, !.open = TRUE]
             typed == IF d.autoType THEN AutoType(shown) ELSE shown
             last == [typed EXCEPT !.autoType = TRUE]
  <2>4. ShowTooltip(d, found) = IF found = <<>> THEN HideTooltip(shown) ELSE last
    BY DEF ShowTooltip
  <2> HIDE DEF cache, found
  <2>5. DOMAIN d = SeFields /\ d.cache = cache /\ SameMarkers(s, d) /\ SameIntervals(s, d)
        /\ d.text = s.text /\ d.tips = s.tips /\ d.sel = s.sel /\ d.open = s.open
    BY DEF SeTyped, SameMarkers, SameIntervals, SeFields
  <2> HIDE DEF d, count
  <2>10. SeTyped(d)
    BY <2>1, <2>5 DEF SeTyped, Placed, Timed, Listed, SameMarkers, SameIntervals
  <2>6. DOMAIN shown = SeFields /\ shown.cache = cache /\ SameMarkers(s, shown) /\ SameIntervals(s, shown)
        /\ shown.text = s.text /\ shown.tips = found /\ shown.sel = -1 /\ shown.open = TRUE
    BY <2>5 DEF SameMarkers, SameIntervals, SeFields
  <2> HIDE DEF shown
  <2>7. Placed(shown) /\ Timed(shown)
    BY <2>6 DEF SeTyped, Placed, Timed, SameMarkers, SameIntervals
  <2>8. ASSUME found = <<>> PROVE SeTyped(ShowTooltip(d, found))
    <3> DEFINE m == HideTooltip(shown)
               none == <<>>
    <3>1. m = [shown EXCEPT !.open = FALSE, !.tips = none] /\ none \in Seq(Titles)
      BY DEF HideTooltip
    <3> HIDE DEF m, none
    <3>2. SameRest(shown, m) /\ m.text = shown.text /\ m.tips = none /\ m.sel = shown.sel /\ m.open = FALSE
      BY <2>6, <3>1 DEF SameRest, SameMarkers, SameIntervals, SeFields
    <3>3. Listed(m)
      BY <2>6, <3>1, <3>2 DEF SeTyped, Listed
    <3>4. SeTyped(m)
      BY <2>1, <2>6, <2>7, <3>2, <3>3 DEF SeTyped, SameRest, SameMarkers, SameIntervals, Placed, Timed
    <3> QED
      BY <2>4, <2>8, <3>4 DEF m
  <2>9. ASSUME found # <<>> PROVE SeTyped(ShowTooltip(d, found))
    <3>1. Len(found) \in Nat /\ Len(found) > 0
      BY <2>2, <2>9
    <3>2. Listed(shown)
      <4>1. -1 \in -1..Len(found) - 1
        BY <3>1
      <4> QED
        BY <2>2, <2>6, <2>9, <4>1 DEF SeTyped, Listed
    <3>3. SeTyped(shown)
      BY <2>1, <2>6, <2>7, <3>2 DEF SeTyped
    <3>4. SeTyped(typed) /\ DOMAIN typed = SeFields
      <4> DEFINE text == found[1]
      <4>1. text \in Titles
        BY <2>2, <3>1
      <4>2. typed = shown \/ typed = [shown EXCEPT !.text = text]
        BY <2>6 DEF AutoType
      <4> HIDE DEF text, typed
      <4>3. CASE typed = shown
        BY <2>6, <3>3, <4>3
      <4>4. CASE typed = [shown EXCEPT !.text = text]
        <5>1. SameRest(shown, typed) /\ typed.text = text /\ typed.tips = shown.tips
              /\ typed.sel = shown.sel /\ typed.open = shown.open
          BY <2>6, <4>4 DEF SameRest, SameMarkers, SameIntervals, SeFields
        <5>2. Listed(typed)
          BY <3>2, <4>1, <5>1 DEF Listed, Texts
        <5> QED
          BY <3>3, <5>1, <5>2, RestKeeps DEF SameRest
      <4> QED
        BY <4>2, <4>3, <4>4
    <3> HIDE DEF typed
    <3>5. SameRest(typed, last) /\ last.text = typed.text /\ last.tips = typed.tips
          /\ last.sel = typed.sel /\ last.open = typed.open
      BY <3>4 DEF SameRest, SameMarkers, SameIntervals, SeFields
    <3> HIDE DEF last
    <3>6. SeTyped(last)
      BY <3>4, <3>5, OtherTyped
    <3> QED
      BY <2>4, <2>9, <3>6
  <2> QED
    BY <2>3, <2>8, <2>9, <2>10
<1> QED
  BY <1>1, <1>2

\* Keys and clicks.
LEMMA KeysTyped ==
  ASSUME SeTyped(srch),
         \/ \E text \in Typed \cup Titles \cup {srch.text} : Type(text)
         \/ \E text \in Typed \cup {""} : Backspace(text)
         \/ \E v \in {-1, 1} : Arrow(v)
         \/ \E i \in 1..Len(srch.tips) : ClickTip(i)
         \/ Esc \/ Enter \/ ClickButton \/ ClickCancel \/ MapTouched
  PROVE  SeTyped(srch')
<1>1. DOMAIN srch = SeFields /\ Listed(srch)
  BY DEF SeTyped
<1>2. ASSUME NEW text \in Typed \cup Titles \cup {srch.text}, Type(text) PROVE SeTyped(srch')
  <2> DEFINE c == [srch EXCEPT !.cancel = FALSE]
             d == [srch EXCEPT !.text = text, !.cancel = TRUE, !.keyTimer = TRUE]
  <2>1. text \in Texts
    BY <1>1 DEF Listed, Texts
  <2>2. srch' = IF text = "" THEN HideTooltip(c) ELSE d
    BY <1>2 DEF Type
  <2>3. /\ SameRest(srch, c) /\ c.text = srch.text /\ c.tips = srch.tips /\ c.sel = srch.sel
        /\ c.open = srch.open
    BY <1>1 DEF SameRest, SameMarkers, SameIntervals, SeFields
  <2>4. /\ SameRest(srch, d) /\ d.text = text /\ d.tips = srch.tips /\ d.sel = srch.sel
        /\ d.open = srch.open
    BY <1>1 DEF SameRest, SameMarkers, SameIntervals, SeFields
  <2> HIDE DEF c, d
  <2>5. SeTyped(HideTooltip(c))
    BY <2>3, OtherTyped, HideTyped
  <2>6. Listed(d)
    BY <1>1, <2>1, <2>4 DEF Listed
  <2>7. SeTyped(d)
    BY <2>4, <2>6, RestKeeps
  <2> QED
    BY <2>2, <2>5, <2>7
<1>3. ASSUME NEW text \in Typed \cup {""}, Backspace(text) PROVE SeTyped(srch')
  <2>1. srch' = [srch EXCEPT !.text = text, !.autoType = FALSE]
    BY <1>3 DEF Backspace
  <2>2. /\ SameRest(srch, srch') /\ srch'.text = text /\ srch'.tips = srch.tips
        /\ srch'.sel = srch.sel /\ srch'.open = srch.open
    BY <1>1, <2>1 DEF SameRest, SameMarkers, SameIntervals, SeFields
  <2>3. Listed(srch')
    BY <1>1, <2>2 DEF Listed, Texts
  <2> QED
    BY <2>2, <2>3, RestKeeps
<1>4. ASSUME NEW v \in {-1, 1}, Arrow(v) PROVE SeTyped(srch')
  BY <1>4, ArrowTyped DEF Arrow
<1>5. ASSUME NEW i \in 1..Len(srch.tips), ClickTip(i) PROVE SeTyped(srch')
  <2> DEFINE text == srch.tips[i]
             c == [srch EXCEPT !.text = text]
  <2>1. srch' = HandleSubmit(HideTooltip(c))
    BY <1>5 DEF ClickTip
  <2>2. text \in Texts
    <3> DEFINE q == srch.tips
    <3>1. q \in Seq(Titles) /\ i \in 1..Len(q) /\ text = q[i]
      BY <1>1 DEF Listed
    <3> HIDE DEF text, q
    <3>2. text \in Titles
      BY <3>1, ElementOfSeq
    <3> QED
      BY <3>2 DEF Texts
  <2> HIDE DEF text
  <2>3. /\ SameRest(srch, c) /\ c.text = text /\ c.tips = srch.tips /\ c.sel = srch.sel
        /\ c.open = srch.open
    BY <1>1 DEF SameRest, SameMarkers, SameIntervals, SeFields
  <2> HIDE DEF c
  <2>4. Listed(c)
    BY <1>1, <2>2, <2>3 DEF Listed
  <2> QED
    BY <2>1, <2>3, <2>4, RestKeeps, HideTyped, SubmitTyped
<1>6. CASE Enter \/ ClickButton
  <2>1. srch' \in {HandleSubmit(srch), HandleSubmit(HandleArrowSelect(srch, 1))}
    BY <1>6 DEF Enter, ClickButton
  <2> QED
    BY <2>1, ArrowTyped, SubmitTyped
<1>7. CASE Esc \/ ClickCancel \/ MapTouched
  <2>1. srch' \in {Collapse(srch), Cancel(srch)}
    BY <1>7 DEF Esc, ClickCancel, MapTouched
  <2> QED
    BY <2>1, CollapseTyped, CancelTyped
<1> QED
  BY <1>2, <1>3, <1>4, <1>5, <1>6, <1>7

LEMMA TimersTyped ==
  ASSUME SeTyped(srch), KeyTimer \/ AlertTimer
  PROVE  SeTyped(srch')
<1>1. DOMAIN srch = SeFields
  BY DEF SeTyped
<1>2. CASE KeyTimer
  <2> DEFINE c == [srch EXCEPT !.keyTimer = FALSE, !.lateSearch = ~srch.expanded]
  <2>1. srch' = FillRecordsCache(c)
    BY <1>2 DEF KeyTimer
  <2>2. /\ SameRest(srch, c) /\ c.text = srch.text /\ c.tips = srch.tips /\ c.sel = srch.sel
        /\ c.open = srch.open
    BY <1>1 DEF SameRest, SameMarkers, SameIntervals, SeFields
  <2> HIDE DEF c
  <2> QED
    BY <2>1, <2>2, OtherTyped, SearchTyped
<1>3. CASE AlertTimer
  <2>1. srch' = [srch EXCEPT !.alertTimer = FALSE, !.alert = FALSE]
    BY <1>3 DEF AlertTimer
  <2>2. /\ SameRest(srch, srch') /\ srch'.text = srch.text /\ srch'.tips = srch.tips
        /\ srch'.sel = srch.sel /\ srch'.open = srch.open
    BY <1>1, <2>1 DEF SameRest, SameMarkers, SameIntervals, SeFields
  <2> QED
    BY <2>2, OtherTyped
<1> QED
  BY <1>2, <1>3

\* A step of the page or of an interval leaves the control alone.
SameList(s, m) ==
  /\ DOMAIN m = SeFields /\ m.cache = s.cache
  /\ m.text = s.text /\ m.tips = s.tips /\ m.sel = s.sel /\ m.open = s.open

LEMMA ListKeeps ==
  ASSUME NEW s, SeTyped(s), NEW m, SameList(s, m), Placed(m), Timed(m)
  PROVE  SeTyped(m)
<1>1. Listed(m)
  BY DEF SeTyped, SameList, Listed
<1> QED
  BY <1>1 DEF SeTyped, SameList

LEMMA TickTyped ==
  ASSUME SeTyped(srch), NEW i \in 1..Len(srch.live), AnimTick(i)
  PROVE  SeTyped(srch')
<1> DEFINE left == IF srch.live[i] = 0 THEN 0 ELSE srch.live[i] - 1
           ticked == [srch.live EXCEPT ![i] = left]
           cleared == [ticked EXCEPT ![srch.timerAnim] = -1]
           q == IF left = 0 THEN cleared ELSE ticked
<1>1. DOMAIN srch = SeFields /\ srch.live \in Seq(-1..Ticks) /\ Timed(srch)
  BY DEF SeTyped, Timed
<1>2. srch.live[i] \in 0..Ticks /\ left \in -1..Ticks /\ -1 \in -1..Ticks
  BY <1>1, TicksAssumption DEF AnimTick
<1>3. srch' = [srch EXCEPT !.live = q]
  BY DEF AnimTick, ClearInterval
<1> HIDE DEF left
<1>4. ticked \in Seq(-1..Ticks) /\ Len(ticked) = Len(srch.live)
  BY <1>1, <1>2, ExceptSeq
<1> HIDE DEF ticked
<1>5. cleared \in Seq(-1..Ticks) /\ Len(cleared) = Len(srch.live)
  <2>1. CASE srch.timerAnim \in 1..Len(ticked)
    BY <1>2, <1>4, <2>1, ExceptSeq
  <2>2. CASE srch.timerAnim \notin 1..Len(ticked)
    <3>1. ticked \in [1..Len(ticked) -> -1..Ticks]
      BY <1>4, LenProperties
    <3>2. cleared = ticked
      BY <2>2, <3>1
    <3> HIDE DEF cleared
    <3> QED
      BY <1>4, <3>2
  <2> QED
    BY <2>1, <2>2
<1> HIDE DEF cleared
<1>6. q \in Seq(-1..Ticks) /\ Len(q) = Len(srch.live)
  BY <1>4, <1>5
<1> HIDE DEF q
<1>7. SameList(srch, srch') /\ SameMarkers(srch, srch') /\ srch'.live = q
      /\ srch'.timerAnim = srch.timerAnim
  BY <1>1, <1>3 DEF SameList, SameMarkers, SeFields
<1>8. Placed(srch') /\ Timed(srch')
  BY <1>1, <1>6, <1>7 DEF SeTyped, Placed, Timed, SameMarkers
<1> QED
  BY <1>7, <1>8, ListKeeps

\* Areas that may still be answered have been drawn.
LEMMA DrawTyped ==
  ASSUME SeTyped(srch), NEW asks, Draw(asks)
  PROVE  SeTyped(srch')
<1> DEFINE n == srch.draws + 1
           q == IF asks THEN srch.asked \cup {srch.draws + 1} ELSE srch.asked
           none == <<>>
           Marker == [title : Titles \cup {NoTitle}, area : 1..MaxDraws]
<1>1. DOMAIN srch = SeFields /\ Placed(srch) /\ Timed(srch)
  BY DEF SeTyped
<1>2. n \in 0..MaxDraws /\ q \subseteq 1..n
  <2>1. srch.draws \in 0..MaxDraws /\ srch.asked \subseteq 1..srch.draws /\ srch.draws < MaxDraws
    BY <1>1 DEF Placed, Draw
  <2>2. n \in 0..MaxDraws /\ n \in 1..n /\ \A area \in 1..srch.draws : area \in 1..n
    BY <2>1, DrawsAssumption
  <2>3. q \subseteq srch.asked \cup {n}
    OBVIOUS
  <2> HIDE DEF n, q
  <2> QED
    BY <2>1, <2>2, <2>3
<1>3. srch' = [srch EXCEPT !.draws = n, !.markers = none, !.asked = q, !.mixed = FALSE]
  BY <1>1 DEF Draw, ClearLayers, SeFields
<1>4. none \in Seq(Marker)
  OBVIOUS
<1> HIDE DEF n, q, none, Marker
<1>5. /\ SameList(srch, srch') /\ SameIntervals(srch, srch') /\ srch'.draws = n /\ srch'.asked = q
      /\ srch'.markers = none
  BY <1>1, <1>3 DEF SameList, SameIntervals, SeFields
<1>6. Placed(srch') /\ Timed(srch')
  BY <1>1, <1>2, <1>4, <1>5 DEF Placed, Timed, SameIntervals, Marker
<1> QED
  BY <1>5, <1>6, ListKeeps

LEMMA AnswerTyped ==
  ASSUME SeTyped(srch), NEW area \in srch.asked, NEW titles \in Answers, Answer(area, titles)
  PROVE  SeTyped(srch')
<1> DEFINE added == [i \in 1..Len(titles) |-> [title |-> titles[i], area |-> area]]
           q == srch.markers \o added
           a == srch.asked \ {area}
           b == srch.mixed \/ area # srch.draws
           Marker == [title : Titles \cup {NoTitle}, area : 1..MaxDraws]
<1>1. DOMAIN srch = SeFields /\ srch.markers \in Seq(Marker) /\ Placed(srch) /\ Timed(srch)
  BY DEF SeTyped, Placed
<1>2. added \in Seq(Marker)
  <2>1. titles \in Seq(Titles \cup {NoTitle}) /\ Len(titles) \in Nat
    BY AnswersAssumption
  <2>2. area \in 1..MaxDraws
    BY <1>1, DrawsAssumption DEF Placed
  <2>3. \A i \in 1..Len(titles) : [title |-> titles[i], area |-> area] \in Marker
    BY <2>1, <2>2
  <2> QED
    BY <2>1, <2>3
<1>3. srch' = [srch EXCEPT !.asked = a, !.markers = q, !.mixed = b]
  BY <1>1 DEF Answer, SeFields
<1> HIDE DEF added, Marker
<1>4. q \in Seq(Marker)
  <2> DEFINE old == srch.markers
  <2>1. old \in Seq(Marker) /\ q = old \o added
    BY <1>1
  <2> HIDE DEF old, q
  <2> QED
    BY <1>2, <2>1
<1>5. a \subseteq srch.asked
  OBVIOUS
<1> HIDE DEF q, a, b
<1>6. /\ SameList(srch, srch') /\ SameIntervals(srch, srch') /\ srch'.draws = srch.draws
      /\ srch'.asked = a /\ srch'.markers = q
  BY <1>1, <1>3 DEF SameList, SameIntervals, SeFields
<1>7. Placed(srch') /\ Timed(srch')
  BY <1>1, <1>4, <1>5, <1>6 DEF Placed, Timed, SameIntervals, Marker
<1> QED
  BY <1>6, <1>7, ListKeeps

LEMMA NoAnswerTyped ==
  ASSUME SeTyped(srch), NEW area, NoAnswer(area)
  PROVE  SeTyped(srch')
<1> DEFINE a == srch.asked \ {area}
<1>1. DOMAIN srch = SeFields /\ Placed(srch) /\ Timed(srch) /\ a \subseteq srch.asked
      /\ srch' = [srch EXCEPT !.asked = a]
  BY DEF SeTyped, NoAnswer, SeFields
<1> HIDE DEF a
<1>2. /\ SameList(srch, srch') /\ SameIntervals(srch, srch') /\ srch'.draws = srch.draws
      /\ srch'.asked = a /\ srch'.markers = srch.markers
  BY <1>1 DEF SameList, SameIntervals, SeFields
<1>3. Placed(srch') /\ Timed(srch')
  BY <1>1, <1>2 DEF Placed, Timed, SameIntervals
<1> QED
  BY <1>2, <1>3, ListKeeps

LEMMA SearchStarts == SeInit => SeTyped(srch)
<1> SUFFICES ASSUME SeInit PROVE SeTyped(srch)
  OBVIOUS
<1> DEFINE none == <<>>
<1>1. none \in Seq(Titles) /\ none \in Seq(-1..Ticks) /\ Len(none) = 0
      /\ none \in Seq([title : Titles \cup {NoTitle}, area : 1..MaxDraws])
  OBVIOUS
<1>2. /\ DOMAIN srch = SeFields /\ srch.open = FALSE /\ srch.live = none /\ srch.markers = none
      /\ srch.draws = 0 /\ srch.asked = {} /\ srch.tips = none /\ srch.text = ""
      /\ srch.sel = -2 /\ srch.timerAnim = 0 /\ srch.cache = {}
  BY DEF SeInit, SeFields
<1> HIDE DEF none
<1>3. 0 \in 0..MaxDraws /\ 0 \in 0..0 /\ -2 \in Int /\ "" \in Texts
  BY DrawsAssumption DEF Texts
<1>4. Placed(srch) /\ Timed(srch)
  BY <1>1, <1>2, <1>3 DEF Placed, Timed
<1>5. Listed(srch)
  BY <1>1, <1>2, <1>3 DEF Listed
<1> QED
  BY <1>2, <1>4, <1>5 DEF SeTyped

LEMMA SearchStep == SeTyped(srch) /\ [SeNext]_seVars => SeTyped(srch')
<1> SUFFICES ASSUME SeTyped(srch), [SeNext]_seVars PROVE SeTyped(srch')
  OBVIOUS
<1>1. CASE UNCHANGED seVars
  BY <1>1 DEF seVars
<1>2. CASE \E area \in srch.asked : NoAnswer(area) \/ \E titles \in Answers : Answer(area, titles)
  BY <1>2, NoAnswerTyped, AnswerTyped
<1>3. CASE KeyTimer \/ AlertTimer
  BY <1>3, TimersTyped
<1>4. CASE \E i \in 1..Len(srch.live) : AnimTick(i)
  BY <1>4, TickTyped
<1>5. CASE \E asks \in BOOLEAN : Draw(asks)
  BY <1>5, DrawTyped
<1>6. CASE \/ \E text \in Typed \cup Titles \cup {srch.text} : Type(text)
           \/ \E text \in Typed \cup {""} : Backspace(text)
           \/ \E v \in {-1, 1} : Arrow(v)
           \/ \E i \in 1..Len(srch.tips) : ClickTip(i)
           \/ Esc \/ Enter \/ ClickButton \/ ClickCancel \/ MapTouched
  BY <1>6, KeysTyped
<1> QED
  BY <1>1, <1>2, <1>3, <1>4, <1>5, <1>6 DEF SeNext

\* The list, whenever it is open, has an item, and what is selected, typed or
\* completed comes from it; only titles of markers are found; every answer that is
\* awaited is of an area that was drawn.
THEOREM SearchTypeCorrect == SeSpec => []SeTypeOK
<1>1. SeTyped(srch) /\ [SeNext]_seVars => SeTyped(srch)'
  BY SearchStep
<1>2. SeTyped(srch) => SeTypeOK
  BY DEF SeTyped, Listed, Placed, Timed, Texts, SeTypeOK
<1> QED
  BY <1>1, <1>2, SearchStarts, PTL DEF SeSpec

-------------------------------------------------------------------------------
\* The export of the server: its types, and that exports read the table page by
\* page, for any number of starts, pages and failures.

ExportSteps == Exporting \cup {"idle", "clear", "mapping", "create", "skipped", "gave up", "finished"}

ExpState ==
  [exists : BOOLEAN, pageNum : Nat, at : [Starts -> ExportSteps], page : [Starts -> Nat],
   read : [1..Pages -> Nat], failed : SUBSET Nat, beside : SUBSET Starts,
   excused : SUBSET Starts, faults : 0..MaxFaults]

\* Between the two reads of the counter.
OverCounter == {"increment", "query"}

\* An index that is there after a deletion was there before it, or was created
\* by an export that should not have come so far.
IndexKept ==
  \A s \in Starts :
    \/ exp.at[s] \in {"idle", "clear", "skipped"}
    \/ exp.at[s] = "mapping" /\ ~exp.exists
    \/ exp.excused # {}

\* The page has been asked for.
PageAsked(p) ==
  p < exp.pageNum \/ (p = exp.pageNum /\ \A s \in Starts : exp.at[s] # "query")

\* One thread at a time: the counter is the page it is at, what was asked for
\* was read once or failed, and nothing else was read.
OneByOne ==
  /\ \A s, t \in Starts : exp.at[s] \in OverCounter /\ exp.at[t] \in OverCounter => s = t
  /\ \A s \in Starts : exp.at[s] \in OverCounter => exp.page[s] = exp.pageNum
  /\ \A s \in Starts : exp.at[s] = "query" => exp.pageNum > 0
  /\ \A s \in Starts : exp.at[s] = "finished" => exp.pageNum > Pages
  /\ \A p \in 1..Pages : exp.read[p] <= 1
  /\ \A p \in 1..Pages : IF PageAsked(p) THEN exp.read[p] = 1 \/ p \in exp.failed
                         ELSE exp.read[p] = 0

ExpInv == exp \in ExpState /\ IndexKept /\ (exp.beside = {} => OneByOne)

LEMMA InvIsType == ExpInv => PeTypeOK
BY DEF ExpInv, ExpState, PeTypeOK, ExportSteps

LEMMA InvExportsTable == ExpInv => ExportsTable
<1> SUFFICES ASSUME ExpInv PROVE ExportsTable
  OBVIOUS
<1>1. (\E s \in Starts : exp.at[s] \in Exporting) => exp.excused # {}
  BY DEF ExpInv, IndexKept, Exporting
<1>2. ASSUME exp.beside = {}
      PROVE  /\ \A p \in 1..Pages : exp.read[p] <= 1
             /\ \A s \in Starts : exp.at[s] = "finished" =>
                  \A p \in 1..Pages : exp.read[p] = 1 \/ p \in exp.failed
  <2>1. OneByOne /\ exp.pageNum \in Nat
    BY <1>2 DEF ExpInv, ExpState
  <2>2. ASSUME NEW s \in Starts, exp.at[s] = "finished", NEW p \in 1..Pages PROVE PageAsked(p)
    BY <2>1, <2>2, PagesAssumption DEF OneByOne, PageAsked
  <2> QED
    BY <2>1, <2>2 DEF OneByOne
<1> QED
  BY <1>1, <1>2 DEF ExportsTable

LEMMA InitExports == PeInit => ExpInv
<1> SUFFICES ASSUME PeInit PROVE ExpInv
  OBVIOUS
<1> USE PagesAssumption
<1>1. exp \in ExpState
  BY DEF PeInit, FirstPage, ExpState, ExportSteps
<1>2. /\ \A s \in Starts : exp.at[s] = "idle"
      /\ \A p \in 1..Pages : exp.read[p] = 0
      /\ exp.pageNum = 0
  BY DEF PeInit, FirstPage
<1>3. IndexKept
  BY <1>2 DEF IndexKept
<1>4. \A p \in 1..Pages : ~PageAsked(p)
  BY <1>2 DEF PageAsked
<1>5. OneByOne
  BY <1>2, <1>4 DEF OneByOne, OverCounter
<1> QED
  BY <1>1, <1>3, <1>5 DEF ExpInv

\* A step outside the reading of the table leaves what was read alone.
LEMMA StartKeepsReading ==
  ASSUME ExpInv, NEW s \in Starts, NEW to \in ExportSteps \ {"increment", "query", "finished"},
         exp.at[s] \notin OverCounter,
         exp' \in ExpState, exp'.at = [exp.at EXCEPT ![s] = to],
         exp'.pageNum = exp.pageNum, exp'.page = exp.page, exp'.read = exp.read,
         exp'.failed = exp.failed, exp'.beside = exp.beside
  PROVE  (exp.beside = {} => OneByOne)'
<1> SUFFICES ASSUME exp.beside = {} PROVE OneByOne'
  OBVIOUS
<1>1. OneByOne /\ exp \in ExpState
  BY DEF ExpInv
<1>2. \A t \in Starts : t # s => exp'.at[t] = exp.at[t]
  BY <1>1 DEF ExpState
<1>3. exp'.at[s] = to
  BY <1>1 DEF ExpState
<1>4. \A t \in Starts : exp'.at[t] \in OverCounter => exp.at[t] = exp'.at[t]
  BY <1>2, <1>3 DEF OverCounter
<1>5. \A t \in Starts : exp'.at[t] = "query" <=> exp.at[t] = "query"
  BY <1>2, <1>3 DEF OverCounter
<1>6. \A t \in Starts : exp'.at[t] = "finished" => exp.at[t] = "finished"
  BY <1>2, <1>3
<1>7. \A p \in 1..Pages : PageAsked(p)' <=> PageAsked(p)
  BY <1>5 DEF PageAsked
<1> QED
  BY <1>1, <1>4, <1>5, <1>6, <1>7 DEF OneByOne, OverCounter

\* What one of start's requests does: it may be excused, and is at its next step.
ExportRequested(s, to, excused) ==
  /\ exp' \in ExpState /\ exp'.at = [exp.at EXCEPT ![s] = to]
  /\ exp'.pageNum = exp.pageNum /\ exp'.page = exp.page /\ exp'.read = exp.read
  /\ exp'.failed = exp.failed /\ exp'.beside = exp.beside /\ exp'.excused = excused

\* A failure counted is one that was allowed.
LEMMA OneMoreFault ==
  ASSUME NEW n \in 0..MaxFaults, n < MaxFaults
  PROVE  n + 1 \in 0..MaxFaults
  BY PagesAssumption

LEMMA FaultyState ==
  ASSUME NEW e \in ExpState, e.faults < MaxFaults, NEW s \in Starts, NEW to \in ExportSteps
  PROVE  Goes(Faulty(e), s, to) = [e EXCEPT !.faults = e.faults + 1,
                                            !.at = [e.at EXCEPT ![s] = to]]
         /\ Goes(Faulty(e), s, to) \in ExpState
<1> DEFINE f == [e EXCEPT !.faults = e.faults + 1]
<1>1. f \in ExpState /\ f.at = e.at
  <2>1. e.faults + 1 \in 0..MaxFaults
    BY PagesAssumption DEF ExpState
  <2> QED
    BY <2>1 DEF ExpState
<1>2. Faulty(e) = f
  BY DEF Faulty
<1>3. Goes(f, s, to) = [f EXCEPT !.at = [e.at EXCEPT ![s] = to]]
  BY <1>1 DEF Goes
<1>4. [f EXCEPT !.at = [e.at EXCEPT ![s] = to]] \in ExpState
  BY <1>1 DEF ExpState
<1>5. [f EXCEPT !.at = [e.at EXCEPT ![s] = to]]
        = [e EXCEPT !.faults = e.faults + 1, !.at = [e.at EXCEPT ![s] = to]]
  BY DEF ExpState
<1> HIDE DEF f
<1> QED
  BY <1>2, <1>3, <1>4, <1>5

LEMMA ClearExports ==
  ASSUME ExpInv, NEW s \in Starts, Start(s) \/ Clear(s)
  PROVE  ExpInv'
<1>1. exp \in ExpState /\ IndexKept
  BY DEF ExpInv
<1>2. CASE Start(s)
  <2>1. ExportRequested(s, "clear", exp.excused) /\ exp.at[s] = "idle" /\ exp'.exists = exp.exists
    BY <1>1, <1>2 DEF Start, Goes, ExportRequested, ExpState, ExportSteps
  <2>2. (exp.beside = {} => OneByOne)'
    BY <2>1, StartKeepsReading DEF ExportSteps, OverCounter, ExportRequested
  <2>3. IndexKept'
    BY <1>1, <2>1 DEF IndexKept, ExpState, ExportRequested
  <2> QED
    BY <2>1, <2>2, <2>3 DEF ExpInv, ExportRequested
<1>3. CASE Clear(s) /\ exp' = Goes([exp EXCEPT !.exists = FALSE], s, "mapping")
  <2>1. ExportRequested(s, "mapping", exp.excused) /\ exp.at[s] = "clear" /\ ~exp'.exists
    BY <1>1, <1>3 DEF Clear, Goes, ExportRequested, ExpState, ExportSteps
  <2>2. (exp.beside = {} => OneByOne)'
    BY <2>1, StartKeepsReading DEF ExportSteps, OverCounter, ExportRequested
  <2>3. IndexKept'
    BY <1>1, <2>1 DEF IndexKept, ExpState, ExportRequested
  <2> QED
    BY <2>1, <2>2, <2>3 DEF ExpInv, ExportRequested
<1>4. CASE /\ exp.at[s] = "clear" /\ exp.faults < MaxFaults
           /\ exp' = Goes(Faulty([exp EXCEPT !.excused = IF exp.exists THEN @ \cup {s} ELSE @]),
                          s, "mapping")
  <2> DEFINE e == IF exp.exists THEN exp.excused \cup {s} ELSE exp.excused
             x == [exp EXCEPT !.excused = e]
  <2>1. x \in ExpState /\ x.faults < MaxFaults
    BY <1>1, <1>4 DEF ExpState
  <2>2. exp' = Goes(Faulty(x), s, "mapping")
    BY <1>4
  <2>3. exp' = [x EXCEPT !.faults = x.faults + 1, !.at = [x.at EXCEPT ![s] = "mapping"]]
        /\ exp' \in ExpState
    <3> HIDE DEF x
    <3>1. "mapping" \in ExportSteps
      BY DEF ExportSteps
    <3> QED
      BY <2>1, <2>2, <3>1, FaultyState
  <2>4. ExportRequested(s, "mapping", e) /\ exp'.exists = exp.exists
    BY <1>1, <2>1, <2>3 DEF ExportRequested, ExpState
  <2>5. (exp.beside = {} => OneByOne)'
    BY <1>4, <2>4, StartKeepsReading DEF ExportSteps, OverCounter, ExportRequested
  <2>6. IndexKept'
    BY <1>1, <2>4 DEF IndexKept, ExpState, ExportRequested
  <2> QED
    BY <2>4, <2>5, <2>6 DEF ExpInv, ExportRequested
<1> QED
  BY <1>2, <1>3, <1>4 DEF Clear

LEMMA MappingExports ==
  ASSUME ExpInv, NEW s \in Starts, CreateIndexMapping(s)
  PROVE  ExpInv'
<1>1. exp \in ExpState /\ IndexKept /\ exp.at[s] = "mapping"
  BY DEF ExpInv, CreateIndexMapping
<1>2. CASE exp' = Goes(exp, s, IF exp.exists THEN "create" ELSE "skipped")
  <2> DEFINE to == IF exp.exists THEN "create" ELSE "skipped"
  <2>1. ExportRequested(s, to, exp.excused) /\ exp'.exists = exp.exists
    BY <1>1, <1>2 DEF Goes, ExportRequested, ExpState, ExportSteps
  <2>2. (exp.beside = {} => OneByOne)'
    BY <1>1, <2>1, StartKeepsReading DEF ExportSteps, OverCounter, ExportRequested
  <2>3. IndexKept'
    BY <1>1, <2>1 DEF IndexKept, ExpState, ExportRequested
  <2> QED
    BY <2>1, <2>2, <2>3 DEF ExpInv, ExportRequested
<1>3. CASE /\ exp.faults < MaxFaults
           /\ exp' = Goes(Faulty([exp EXCEPT !.excused = IF exp.exists THEN @ ELSE @ \cup {s}]),
                          s, "create")
  <2> DEFINE e == IF exp.exists THEN exp.excused ELSE exp.excused \cup {s}
             x == [exp EXCEPT !.excused = e]
  <2>1. x \in ExpState /\ x.faults < MaxFaults
    BY <1>1, <1>3 DEF ExpState
  <2>2. exp' = Goes(Faulty(x), s, "create")
    BY <1>3
  <2>3. exp' = [x EXCEPT !.faults = x.faults + 1, !.at = [x.at EXCEPT ![s] = "create"]]
        /\ exp' \in ExpState
    <3> HIDE DEF x
    <3>1. "create" \in ExportSteps
      BY DEF ExportSteps
    <3> QED
      BY <2>1, <2>2, <3>1, FaultyState
  <2>4. ExportRequested(s, "create", e) /\ exp'.exists = exp.exists
    BY <1>1, <2>1, <2>3 DEF ExportRequested, ExpState
  <2>5. (exp.beside = {} => OneByOne)'
    BY <1>1, <2>4, StartKeepsReading DEF ExportSteps, OverCounter, ExportRequested
  <2>6. IndexKept'
    BY <1>1, <2>4 DEF IndexKept, ExpState, ExportRequested
  <2> QED
    BY <2>4, <2>5, <2>6 DEF ExpInv, ExportRequested
<1> QED
  BY <1>2, <1>3 DEF CreateIndexMapping

LEMMA CreateExports ==
  ASSUME ExpInv, NEW s \in Starts, CreateIndex(s)
  PROVE  ExpInv'
<1>1. exp \in ExpState /\ IndexKept /\ exp.at[s] = "create"
  BY DEF ExpInv, CreateIndex
<1>2. ExportRequested(s, "connect", exp.excused)
  <2>1. CASE exp' = Goes([exp EXCEPT !.exists = TRUE], s, "connect")
    BY <1>1, <2>1 DEF Goes, ExportRequested, ExpState, ExportSteps, Exporting
  <2>2. CASE exp.faults < MaxFaults /\ exp' = Goes(Faulty(exp), s, "connect")
    <3>1. exp' = [exp EXCEPT !.faults = exp.faults + 1, !.at = [exp.at EXCEPT ![s] = "connect"]]
          /\ exp' \in ExpState
      <4>1. "connect" \in ExportSteps
        BY DEF ExportSteps, Exporting
      <4>2. /\ Goes(Faulty(exp), s, "connect")
                 = [exp EXCEPT !.faults = exp.faults + 1, !.at = [exp.at EXCEPT ![s] = "connect"]]
            /\ Goes(Faulty(exp), s, "connect") \in ExpState
        BY <1>1, <2>2, <4>1, FaultyState
      <4> QED
        BY <2>2, <4>2
    <3> QED
      BY <1>1, <3>1 DEF ExportRequested, ExpState
  <2> QED
    BY <2>1, <2>2 DEF CreateIndex
<1>3. (exp.beside = {} => OneByOne)'
  BY <1>1, <1>2, StartKeepsReading DEF ExportSteps, OverCounter, Exporting, ExportRequested
<1>4. exp'.excused # {}
  BY <1>1, <1>2 DEF IndexKept, ExportRequested
<1> QED
  BY <1>2, <1>3, <1>4 DEF ExpInv, IndexKept, ExportRequested

\* IndexKept of a step of an export's thread: it was excused before.
LEMMA ReadingKeepsIndex ==
  ASSUME ExpInv, NEW s \in Starts, exp.at[s] \in Exporting, exp'.excused = exp.excused
  PROVE  IndexKept'
<1>1. exp.excused # {}
  BY DEF ExpInv, IndexKept, Exporting
<1> QED
  BY <1>1 DEF IndexKept

\* The thread gives up, without a connection or with an error, or reads on.
LEMMA ConnectExports ==
  ASSUME ExpInv, NEW s \in Starts, Connect(s)
  PROVE  ExpInv'
<1>1. exp \in ExpState /\ exp.at[s] = "connect" /\ exp.at[s] \in Exporting
  BY DEF ExpInv, Connect, Exporting
<1>2. CASE exp.faults < MaxFaults /\ exp' = Goes(Faulty(exp), s, "gave up")
  <2>1. "gave up" \in ExportSteps
    BY DEF ExportSteps
  <2>2. /\ Goes(Faulty(exp), s, "gave up")
             = [exp EXCEPT !.faults = exp.faults + 1, !.at = [exp.at EXCEPT ![s] = "gave up"]]
        /\ Goes(Faulty(exp), s, "gave up") \in ExpState
    BY <1>1, <1>2, <2>1, FaultyState
  <2>3. ExportRequested(s, "gave up", exp.excused)
    BY <1>1, <1>2, <2>2 DEF ExportRequested, ExpState
  <2>4. (exp.beside = {} => OneByOne)'
    <3>1. "gave up" \in ExportSteps \ {"increment", "query", "finished"} /\ exp.at[s] \notin OverCounter
      BY <1>1, <2>1 DEF OverCounter
    <3> QED
      BY <2>3, <3>1, StartKeepsReading DEF ExportRequested
  <2> QED
    BY <1>1, <2>3, <2>4, ReadingKeepsIndex DEF ExpInv, ExportRequested
<1>3. CASE exp' = [Goes(exp, s, "increment") EXCEPT
                    !.page[s] = exp.pageNum,
                    !.beside = IF \E t \in Starts \ {s} : exp.at[t] \in Exporting
                               THEN @ \cup {s} ELSE @]
  <2> DEFINE others == \E t \in Starts \ {s} : exp.at[t] \in Exporting
             b == IF others THEN exp.beside \cup {s} ELSE exp.beside
  <2>1. b \subseteq Starts
    BY <1>1 DEF ExpState
  <2>2. exp' = [exp EXCEPT !.at = [exp.at EXCEPT ![s] = "increment"],
                           !.page = [exp.page EXCEPT ![s] = exp.pageNum], !.beside = b]
    BY <1>1, <1>3 DEF Goes, ExpState
  <2>3. "increment" \in ExportSteps
    BY DEF ExportSteps, Exporting
  <2> HIDE DEF b
  <2>4. /\ exp' \in ExpState /\ exp'.at = [exp.at EXCEPT ![s] = "increment"]
        /\ exp'.page = [exp.page EXCEPT ![s] = exp.pageNum] /\ exp'.beside = b
        /\ exp'.pageNum = exp.pageNum /\ exp'.read = exp.read /\ exp'.failed = exp.failed
        /\ exp'.excused = exp.excused
    BY <1>1, <2>1, <2>2, <2>3 DEF ExpState
  <2>5. ASSUME exp'.beside = {} PROVE OneByOne'
    <3>1. exp.beside = {} /\ ~others
      BY <2>4, <2>5 DEF b
    <3>2. OneByOne
      BY <3>1 DEF ExpInv
    <3>3. \A t \in Starts : exp'.at[t] = IF t = s THEN "increment" ELSE exp.at[t]
      BY <1>1, <2>4 DEF ExpState
    <3>4. \A t \in Starts : exp'.at[t] \in OverCounter => t = s
      BY <3>1, <3>3 DEF OverCounter, Exporting
    <3>5. exp'.page[s] = exp'.pageNum
      BY <1>1, <2>4 DEF ExpState
    <3>6. \A t \in Starts : exp'.at[t] # "query"
      BY <3>3, <3>4 DEF OverCounter
    <3>7. \A t \in Starts : exp.at[t] # "query"
      BY <1>1, <3>1 DEF Exporting
    <3>8. \A p \in 1..Pages : PageAsked(p)' <=> PageAsked(p)
      BY <2>4, <3>6, <3>7 DEF PageAsked
    <3>9. \A t \in Starts : exp'.at[t] = "finished" => exp.at[t] = "finished"
      BY <3>3
    <3> QED
      BY <2>4, <3>2, <3>4, <3>5, <3>6, <3>8, <3>9 DEF OneByOne
  <2> QED
    BY <1>1, <2>4, <2>5, ReadingKeepsIndex DEF ExpInv
<1> QED
  BY <1>2, <1>3 DEF Connect

LEMMA IncrementExports ==
  ASSUME ExpInv, NEW s \in Starts, Increment(s)
  PROVE  ExpInv'
<1>1. exp \in ExpState /\ exp.at[s] = "increment" /\ exp.at[s] \in Exporting
  BY DEF ExpInv, Increment, Exporting
<1>2. exp.page[s] + 1 \in Nat /\ "query" \in ExportSteps
  <2>1. exp.page[s] \in Nat
    BY <1>1 DEF ExpState
  <2>2. "query" \in ExportSteps
    BY DEF ExportSteps, Exporting
  <2> QED
    BY <2>1, <2>2
<1>3. exp' = [exp EXCEPT !.at = [exp.at EXCEPT ![s] = "query"], !.pageNum = exp.page[s] + 1,
                         !.page = [exp.page EXCEPT ![s] = exp.page[s] + 1]]
  BY <1>1 DEF Increment, Goes, ExpState
<1>4. /\ exp' \in ExpState /\ exp'.at = [exp.at EXCEPT ![s] = "query"]
      /\ exp'.page = [exp.page EXCEPT ![s] = exp.page[s] + 1]
      /\ exp'.pageNum = exp.page[s] + 1 /\ exp'.beside = exp.beside
      /\ exp'.read = exp.read /\ exp'.failed = exp.failed /\ exp'.excused = exp.excused
  BY <1>1, <1>2, <1>3 DEF ExpState
<1>5. ASSUME exp.beside = {} PROVE OneByOne'
  <2>1. OneByOne
    BY <1>5 DEF ExpInv
  <2>2. exp.page[s] = exp.pageNum /\ exp.pageNum \in Nat
    BY <1>1, <2>1 DEF OneByOne, OverCounter, ExpState
  <2>3. \A t \in Starts : exp'.at[t] = IF t = s THEN "query" ELSE exp.at[t]
    BY <1>1, <1>4 DEF ExpState
  <2>4. \A t \in Starts : exp'.at[t] \in OverCounter => t = s
    BY <1>1, <2>1, <2>3 DEF OneByOne, OverCounter
  <2>5. exp'.page[s] = exp'.pageNum /\ exp'.pageNum = exp.pageNum + 1
    BY <1>1, <1>4, <2>2 DEF ExpState
  <2>6. \A t \in Starts : exp.at[t] # "query"
    BY <1>1, <2>1 DEF OneByOne, OverCounter
  <2>7. \A p \in 1..Pages : PageAsked(p)' <=> PageAsked(p)
    <3>1. exp'.at[s] = "query"
      BY <2>3
    <3> QED
      BY <2>2, <2>5, <2>6, <3>1, PagesAssumption DEF PageAsked
  <2>8. \A t \in Starts : exp'.at[t] = "finished" => exp'.pageNum > Pages
    BY <2>1, <2>2, <2>3, <2>5, PagesAssumption DEF OneByOne
  <2>9. exp'.pageNum > 0
    BY <2>2, <2>5
  <2> QED
    BY <1>4, <2>1, <2>4, <2>5, <2>7, <2>8, <2>9 DEF OneByOne
<1> QED
  BY <1>1, <1>4, <1>5, ReadingKeepsIndex DEF ExpInv

\* What a query leaves behind, however it ends.
Queried(s, to, p) ==
  /\ exp' \in ExpState /\ exp'.at = [exp.at EXCEPT ![s] = to]
  /\ exp'.pageNum = exp.pageNum /\ exp'.page = exp.page
  /\ exp'.beside = exp.beside /\ exp'.excused = exp.excused
  /\ exp.failed \subseteq exp'.failed
  /\ \A q \in 1..Pages : q # p => exp'.read[q] = exp.read[q]
  /\ p \in 1..Pages => \/ exp'.read[p] = exp.read[p] + 1
                       \/ exp'.read[p] = exp.read[p] /\ p \in exp'.failed
  /\ to \in {"connect", "gave up", "finished"}
  /\ to = "finished" => p \notin 1..Pages

LEMMA QueriedExports ==
  ASSUME ExpInv, NEW s \in Starts, exp.at[s] = "query",
         NEW p \in {exp.page[s], exp.pageNum}, NEW to, Queried(s, to, p)
  PROVE  ExpInv'
<1>1. exp \in ExpState /\ exp.at[s] \in Exporting /\ exp' \in ExpState
  BY DEF ExpInv, Queried, Exporting
<1>2. ASSUME exp.beside = {} PROVE OneByOne'
  <2>1. OneByOne
    BY <1>2 DEF ExpInv
  <2>2. p = exp.pageNum /\ exp.pageNum \in Nat /\ exp.pageNum > 0
    BY <1>1, <2>1 DEF OneByOne, OverCounter, ExpState
  <2>3. \A t \in Starts : exp'.at[t] = IF t = s THEN to ELSE exp.at[t]
    BY <1>1 DEF ExpState, Queried
  <2>4. \A t \in Starts : exp'.at[t] \notin OverCounter
    BY <2>1, <2>3 DEF OneByOne, OverCounter, Queried
  <2>5. \A q \in 1..Pages : PageAsked(q)' <=> PageAsked(q) \/ q = p
    BY <2>2, <2>4 DEF PageAsked, OverCounter, Queried
  <2>6. ~PageAsked(p)
    BY <2>2 DEF PageAsked
  <2>7. p \in 1..Pages => exp.read[p] = 0
    BY <2>1, <2>6 DEF OneByOne
  <2>8. p \in 1..Pages => exp'.read[p] = 1 \/ (exp'.read[p] = 0 /\ p \in exp'.failed)
    <3> SUFFICES ASSUME p \in 1..Pages
                 PROVE  exp'.read[p] = 1 \/ (exp'.read[p] = 0 /\ p \in exp'.failed)
      OBVIOUS
    <3>1. CASE exp'.read[p] = exp.read[p] + 1
      BY <2>7, <3>1
    <3>2. CASE exp'.read[p] = exp.read[p] /\ p \in exp'.failed
      BY <2>7, <3>2
    <3> QED
      BY <3>1, <3>2 DEF Queried
  <2>9. \A q \in 1..Pages : exp'.read[q] <= 1
    <3> TAKE q \in 1..Pages
    <3>1. CASE q = p
      BY <2>8, <3>1
    <3>2. CASE q # p
      BY <2>1, <3>2 DEF OneByOne, Queried
    <3> QED
      BY <3>1, <3>2
  <2>10. \A q \in 1..Pages : IF PageAsked(q)' THEN exp'.read[q] = 1 \/ q \in exp'.failed
                             ELSE exp'.read[q] = 0
    <3> TAKE q \in 1..Pages
    <3>1. CASE q = p
      BY <2>5, <2>8, <3>1
    <3>2. CASE q # p
      <4>1. exp'.read[q] = exp.read[q] /\ exp.failed \subseteq exp'.failed
        BY <3>2 DEF Queried
      <4>2. IF PageAsked(q) THEN exp.read[q] = 1 \/ q \in exp.failed ELSE exp.read[q] = 0
        BY <2>1 DEF OneByOne
      <4> QED
        BY <2>5, <3>2, <4>1, <4>2
    <3> QED
      BY <3>1, <3>2
  <2>11. ASSUME NEW t \in Starts, exp'.at[t] = "finished" PROVE exp'.pageNum > Pages
    <3>1. exp'.pageNum = exp.pageNum
      BY DEF Queried
    <3>2. CASE t = s
      <4>1. p \notin 1..Pages
        BY <2>3, <2>11, <3>2 DEF Queried
      <4> QED
        BY <2>2, <3>1, <4>1, PagesAssumption
    <3>3. CASE t # s
      BY <2>1, <2>3, <2>11, <3>1, <3>3 DEF OneByOne
    <3> QED
      BY <3>2, <3>3
  <2> QED
    BY <2>4, <2>9, <2>10, <2>11 DEF OneByOne, OverCounter
<1>3. IndexKept'
  BY <1>1, ReadingKeepsIndex DEF Queried
<1> QED
  BY <1>1, <1>2, <1>3 DEF ExpInv, Queried

LEMMA QueryExports ==
  ASSUME ExpInv, NEW s \in Starts, Query(s)
  PROVE  ExpInv'
<1>1. exp \in ExpState /\ exp.at[s] = "query"
  BY DEF ExpInv, Query
<1>2. PICK p \in {exp.page[s], exp.pageNum} :
        \/ exp' = IF p \in 1..Pages THEN [Goes(exp, s, "connect") EXCEPT !.read[p] = @ + 1]
                  ELSE Goes(exp, s, "finished")
        \/ /\ exp.faults < MaxFaults
           /\ \E to \in {"connect", "gave up"} :
                exp' = Faulty([Goes(exp, s, to) EXCEPT !.failed = @ \cup {p}])
  BY DEF Query
<1>3. p \in Nat
  BY <1>1 DEF ExpState
<1>4. CASE p \in 1..Pages /\ exp' = [Goes(exp, s, "connect") EXCEPT !.read[p] = @ + 1]
  <2>1. exp' = [exp EXCEPT !.at = [exp.at EXCEPT ![s] = "connect"],
                           !.read = [exp.read EXCEPT ![p] = exp.read[p] + 1]]
    BY <1>1, <1>4 DEF Goes, ExpState
  <2>2. "connect" \in ExportSteps /\ exp.read[p] \in Nat
    BY <1>1, <1>4 DEF ExportSteps, Exporting, ExpState
  <2>3. exp.read \in [1..Pages -> Nat] /\ exp.read[p] + 1 \in Nat
    BY <1>1, <2>2 DEF ExpState
  <2> DEFINE read == [exp.read EXCEPT ![p] = exp.read[p] + 1]
             at == [exp.at EXCEPT ![s] = "connect"]
  <2>4. read \in [1..Pages -> Nat] /\ at \in [Starts -> ExportSteps]
    BY <1>1, <2>2, <2>3 DEF ExpState
  <2>5. exp' = [exp EXCEPT !.at = at, !.read = read]
    BY <2>1
  <2>6. /\ exp' \in ExpState /\ exp'.at = [exp.at EXCEPT ![s] = "connect"]
        /\ exp'.read = [exp.read EXCEPT ![p] = exp.read[p] + 1]
        /\ exp'.pageNum = exp.pageNum /\ exp'.page = exp.page /\ exp'.beside = exp.beside
        /\ exp'.excused = exp.excused /\ exp'.failed = exp.failed
    <3> HIDE DEF read, at
    <3>1. exp' \in ExpState /\ exp'.at = at /\ exp'.read = read
          /\ exp'.pageNum = exp.pageNum /\ exp'.page = exp.page /\ exp'.beside = exp.beside
          /\ exp'.excused = exp.excused /\ exp'.failed = exp.failed
      BY <1>1, <2>4, <2>5 DEF ExpState
    <3> QED
      BY <3>1 DEF read, at
  <2>7. \A q \in 1..Pages : exp'.read[q] = IF q = p THEN exp.read[p] + 1 ELSE exp.read[q]
    BY <1>1, <2>6 DEF ExpState
  <2>8. Queried(s, "connect", p)
    BY <1>4, <2>6, <2>7 DEF Queried
  <2> QED
    BY <1>1, <2>8, QueriedExports
<1>5. CASE p \notin 1..Pages /\ exp' = Goes(exp, s, "finished")
  <2>1. exp' = [exp EXCEPT !.at = [exp.at EXCEPT ![s] = "finished"]]
    BY <1>1, <1>5 DEF Goes, ExpState
  <2>2. "finished" \in ExportSteps
    BY DEF ExportSteps
  <2>3. exp' \in ExpState /\ exp'.at = [exp.at EXCEPT ![s] = "finished"]
    <3>1. [exp.at EXCEPT ![s] = "finished"] \in [Starts -> ExportSteps]
      BY <1>1, <2>2 DEF ExpState
    <3> QED
      BY <1>1, <2>1, <3>1 DEF ExpState
  <2>4. /\ exp'.pageNum = exp.pageNum /\ exp'.page = exp.page /\ exp'.beside = exp.beside
        /\ exp'.excused = exp.excused /\ exp'.failed = exp.failed /\ exp'.read = exp.read
    BY <1>1, <2>1 DEF ExpState
  <2>5. Queried(s, "finished", p)
    BY <1>5, <2>3, <2>4 DEF Queried
  <2> QED
    BY <1>1, <2>5, QueriedExports
<1>6. ASSUME exp.faults < MaxFaults, NEW to \in {"connect", "gave up"},
             exp' = Faulty([Goes(exp, s, to) EXCEPT !.failed = @ \cup {p}])
      PROVE  ExpInv'
  <2>1. exp' = [exp EXCEPT !.at = [exp.at EXCEPT ![s] = to],
                           !.failed = exp.failed \cup {p}, !.faults = exp.faults + 1]
    BY <1>1, <1>6 DEF Goes, Faulty, ExpState
  <2>2. to \in ExportSteps /\ exp.faults + 1 \in 0..MaxFaults
    <3>1. to \in ExportSteps
      BY DEF ExportSteps, Exporting
    <3>2. exp.faults \in 0..MaxFaults /\ exp.faults < MaxFaults
      BY <1>1, <1>6 DEF ExpState
    <3> QED
      BY <3>1, <3>2, OneMoreFault
  <2>3. Queried(s, to, p)
    BY <1>1, <1>3, <2>1, <2>2 DEF Queried, ExpState
  <2> QED
    BY <1>1, <2>3, QueriedExports
<1> QED
  BY <1>2, <1>4, <1>5, <1>6

LEMMA NextExports == ExpInv /\ [PeNext]_peVars => ExpInv'
<1> SUFFICES ASSUME ExpInv, [PeNext]_peVars PROVE ExpInv'
  OBVIOUS
<1>1. ASSUME NEW s \in Starts, Start(s) \/ Clear(s) PROVE ExpInv'
  BY <1>1, ClearExports
<1>2. ASSUME NEW s \in Starts, CreateIndexMapping(s) PROVE ExpInv'
  BY <1>2, MappingExports
<1>3. ASSUME NEW s \in Starts, CreateIndex(s) PROVE ExpInv'
  BY <1>3, CreateExports
<1>4. ASSUME NEW s \in Starts, Connect(s) PROVE ExpInv'
  BY <1>4, ConnectExports
<1>5. ASSUME NEW s \in Starts, Increment(s) PROVE ExpInv'
  BY <1>5, IncrementExports
<1>6. ASSUME NEW s \in Starts, Query(s) PROVE ExpInv'
  BY <1>6, QueryExports
<1>7. CASE UNCHANGED peVars
  BY <1>7 DEF peVars, ExpInv, IndexKept, OneByOne, PageAsked
<1> QED
  BY <1>1, <1>2, <1>3, <1>4, <1>5, <1>6, <1>7 DEF PeNext

\* The exporter is well typed, whatever fails and however many exports run.
THEOREM ExporterTypeCorrect == PeSpec => []PeTypeOK
<1> QED
  BY InitExports, NextExports, InvIsType, PTL DEF PeSpec

\* For any number of exports, pages and failures: unless two threads ran at once,
\* every page of the table is read once up to where the exports have come, and
\* no export begins over an index that was cleared.
THEOREM ExportAlwaysReadsTable == PeSpec => []ExportsTable
<1> QED
  BY InitExports, NextExports, InvExportsTable, PTL DEF PeSpec
===============================================================================
