-------------------------------- MODULE MapTiles --------------------------------
(***************************************************************************)
(* One tile layer of the map page (L.TileLayer, leaflet-src.js:2397-2985   *)
(* and its zoom animation, 8957-9065): the tiles it has asked the tile     *)
(* service for, the counter behind its `loading` and `load` events, and    *)
(* the background buffer that shows scaled tiles during a zoom.            *)
(*                                                                         *)
(* The map is the environment: it moves, zooms with or without animation,  *)
(* and the layers control takes the layer off and puts it on again.        *)
(***************************************************************************)
EXTENDS Integers, FiniteSets

CONSTANTS Areas,              \* positions of the map
          Visible(_),         \* the tiles in view at a position
          Platforms,          \* "desktop", or "mobile" (not Android)
          MaxStrays, MaxLost  \* bounds of the model: loads left behind, loads stopped

ASSUME VisibleAssumption == \A area \in Areas : IsFiniteSet(Visible(area))

VARIABLE layer

tlVars == <<layer>>

NoTiles == [x \in {} |-> ""]

TlInit ==
  \E platform \in Platforms, area \in Areas :
    layer = [onMap |-> FALSE, platform |-> platform, area |-> area,
             zooming |-> FALSE,        \* map._animatingZoom
             ended |-> FALSE,          \* the frame that sets the new zoom is awaited
             tiles |-> NoTiles,        \* _tiles: the state of each image
             toLoad |-> 0,             \* _tilesToLoad
             strays |-> 0,             \* images still loading that left _tiles
             frontDone |-> 0,          \* complete images in _tileContainer
             bg |-> 0,                 \* images in _bgBuffer, all complete
             animating |-> FALSE, timer |-> FALSE,
             \* limitExecByInterval around _update: locked, with another call due
             lock |-> FALSE, due |-> FALSE,
             \* since the last _reset: loads that left _tiles and arrived, loads
             \* counted that cannot arrive; whether the scaled tiles are needed,
             \* and whether the timer is an older one that nothing cancelled
             early |-> 0, lost |-> 0, needed |-> FALSE, leftover |-> FALSE]

Loading(l) == {x \in DOMAIN l.tiles : l.tiles[x] = "loading"}
Only(tiles, S) == [x \in DOMAIN tiles \cap S |-> tiles[x]]
-------------------------------------------------------------------------------
ClearBgBuffer(l) == IF l.onMap /\ ~l.zooming THEN [l EXCEPT !.bg = 0] ELSE l

\* Faulty variant: the tiles go and the counter stays.
ResetTilesOnly(l, hard) == [l EXCEPT !.tiles = NoTiles, !.frontDone = 0,
                                     !.strays = @ + Cardinality(Loading(l)), !.early = 0, !.lost = 0]

\* _reset: images still loading are dropped from the page but go on loading,
\* and keep their handlers.
Reset(l, hard) ==
  LET emptied == [l EXCEPT !.tiles = NoTiles, !.toLoad = 0, !.frontDone = 0,
                           !.strays = @ + Cardinality(Loading(l)), !.early = 0, !.lost = 0]
  IN IF hard THEN ClearBgBuffer(emptied) ELSE emptied

\* _update: the missing tiles in view are asked for, nearest first; a mobile
\* browser drops the others, and those still loading lose their handler.
Missing(l) == Visible(l.area) \ DOMAIN l.tiles

AddTiles(l) ==
  [l EXCEPT !.tiles = [x \in DOMAIN @ \cup Missing(l) |->
                         IF x \in Missing(l) THEN "loading" ELSE @[x]],
            !.toLoad = @ + Cardinality(Missing(l))]

RemoveOtherTiles(l) ==
  LET away == DOMAIN l.tiles \ Visible(l.area)
      gone == {x \in away : l.tiles[x] = "done"}
  IN [l EXCEPT !.tiles = Only(@, Visible(l.area)),
               !.lost = @ + Cardinality(away \cap Loading(l)),
               !.frontDone = @ - Cardinality(gone)]

Update(l) ==
  IF ~l.onMap THEN l
  ELSE IF l.platform = "mobile" THEN RemoveOtherTiles(AddTiles(l))
  ELSE AddTiles(l)

\* _stopLoadingImages: the counter goes on counting what it stops.
StopLoading(l) ==
  [l EXCEPT !.tiles = [x \in DOMAIN @ |-> IF @[x] = "loading" THEN "stopped" ELSE @[x]],
            !.lost = @ + Cardinality(Loading(l))]

\* A mostly loaded buffer is kept behind a mostly unloaded front.
KeepBuffer(l) == l.bg > 0 /\ l.frontDone < Cardinality(Loading(l))

\* Faulty variant: the timer that clears the buffer is not cancelled.
PrepareBgBufferOnTimer(l) ==
  IF KeepBuffer(l) THEN StopLoading(l)
  ELSE [StopLoading(l) EXCEPT
          !.frontDone = l.bg, !.bg = l.frontDone,
          !.tiles = [x \in DOMAIN @ |-> IF @[x] = "done" THEN "behind" ELSE @[x]]]

\* _prepareBgBuffer: a buffer that is not kept is swapped with the front.
PrepareBgBuffer(l) ==
  IF KeepBuffer(l) THEN StopLoading(l)
  ELSE [StopLoading(l) EXCEPT
          !.frontDone = l.bg, !.bg = l.frontDone,
          !.tiles = [x \in DOMAIN @ |-> IF @[x] = "done" THEN "behind" ELSE @[x]],
          !.timer = FALSE, !.leftover = FALSE]

AnimateLayer(l) ==
  IF l.animating THEN l
  ELSE [PrepareBgBuffer(l) EXCEPT !.animating = TRUE, !.needed = TRUE,
                                  !.leftover = l.timer /\ KeepBuffer(l)]

\* _tileLoaded: with the counter at zero the layer fires `load` and the scaled
\* tiles go half a second later.
TileLoaded(l) ==
  LET counted == [l EXCEPT !.toLoad = @ - 1] IN
  IF counted.toLoad # 0 THEN counted
  ELSE [counted EXCEPT !.timer = TRUE, !.leftover = l.zooming \/ l.ended,
                       !.needed = @ /\ (l.zooming \/ l.ended \/ Loading(l) # {})]
-------------------------------------------------------------------------------
\* The layers control.  A removed layer keeps its tiles and their handlers; it
\* comes back with new containers and a new limit on its updates (the call still
\* due under the old one does what UpdateAtEnd does).
NewContainers(l) ==
  [l EXCEPT !.bg = 0, !.frontDone = 0, !.needed = FALSE, !.lock = FALSE, !.due = FALSE]

AddLayer ==
  /\ ~layer.onMap
  /\ layer.strays + Cardinality(Loading(layer)) <= MaxStrays
  /\ layer' = Update(Reset(NewContainers([layer EXCEPT !.onMap = TRUE]), FALSE))

RemoveLayer ==
  /\ layer.onMap
  /\ layer' = [layer EXCEPT !.onMap = FALSE]

\* The map moves.  On a desktop browser `move` updates at once, and then again
\* every 150 ms while it is called (limitExecByInterval); `moveend` at once.
LimitExec(l) ==
  IF l.lock THEN [l EXCEPT !.due = TRUE] ELSE [Update(l) EXCEPT !.lock = TRUE]

Move(area) ==
  /\ area # layer.area
  /\ layer.lost <= MaxLost
  /\ LET moved == [layer EXCEPT !.area = area] IN
       layer' = IF layer.onMap /\ layer.platform = "desktop" THEN LimitExec(moved) ELSE moved

\* The interval is over: the call that is due is made, and locks again.
Unlock ==
  /\ layer.lock
  /\ layer' = IF layer.due THEN [Update(layer) EXCEPT !.due = FALSE]
              ELSE [layer EXCEPT !.lock = FALSE]

UpdateAtEnd ==
  /\ Update(layer) # layer
  /\ layer' = Update(layer)

\* A zoom without animation resets the view at once (viewreset,
\* zoomend, moveend).
HardReset(area, zoomChanged) ==
  /\ layer.strays + Cardinality(Loading(layer)) <= MaxStrays
  /\ LET set == [layer EXCEPT !.area = area] IN
       layer' = IF layer.onMap
                THEN [Update(Reset(set, TRUE)) EXCEPT !.animating = @ /\ ~zoomChanged]
                ELSE set

\* An animated zoom: zoomanim, its end, and the frame that fires viewreset,
\* zoomend and moveend.
ZoomStart ==
  /\ ~layer.zooming /\ ~layer.ended
  /\ layer' = IF layer.onMap THEN AnimateLayer([layer EXCEPT !.zooming = TRUE])
              ELSE [layer EXCEPT !.zooming = TRUE]

ZoomEnd ==
  /\ layer.zooming
  /\ layer' = [layer EXCEPT !.zooming = FALSE, !.ended = TRUE]

ZoomFrame(area) ==
  /\ layer.ended
  /\ layer.strays + Cardinality(Loading(layer)) <= MaxStrays
  /\ LET set == [layer EXCEPT !.ended = FALSE, !.area = area] IN
       layer' = IF layer.onMap THEN [Update(Reset(set, FALSE)) EXCEPT !.animating = FALSE]
                ELSE set

\* An answer of the tile service, an image or an error, to a tile of the layer
\* and to an image that is no longer one of its tiles.
TileAnswered(x) ==
  /\ x \in Loading(layer)
  /\ layer' = TileLoaded([layer EXCEPT !.tiles[x] = "done", !.frontDone = @ + 1])

StrayAnswered ==
  /\ layer.strays > 0
  /\ layer' = TileLoaded([layer EXCEPT !.strays = @ - 1, !.early = @ + 1])

ClearTimer ==
  /\ layer.timer
  /\ layer' = [ClearBgBuffer(layer) EXCEPT !.timer = FALSE, !.leftover = FALSE]

TlNext ==
  \/ AddLayer \/ RemoveLayer \/ Unlock \/ UpdateAtEnd
  \/ \E area \in Areas : Move(area) \/ ZoomFrame(area)
  \/ \E area \in Areas, zoomChanged \in BOOLEAN : HardReset(area, zoomChanged)
  \/ ZoomStart \/ ZoomEnd
  \/ \E x \in DOMAIN layer.tiles : TileAnswered(x)
  \/ StrayAnswered \/ ClearTimer

TlSpec == TlInit /\ [][TlNext]_tlVars
-------------------------------------------------------------------------------
TlTypeOK ==
  /\ layer.platform \in Platforms /\ layer.area \in Areas
  /\ layer.tiles \in [DOMAIN layer.tiles -> {"loading", "done", "behind", "stopped"}]
  /\ layer.toLoad \in Int
  /\ {layer.strays, layer.bg, layer.frontDone, layer.early, layer.lost} \subseteq Nat
  /\ layer.leftover => layer.timer

\* The counter is the number of tiles still loading, plus the loads it stopped
\* or dropped without uncounting them, less the answers to images of an
\* earlier view: `load` fires early, or never, for these reasons only.
CounterExact ==
  layer.toLoad = Cardinality(Loading(layer)) + layer.lost - layer.early

\* "clear scaled tiles after all new tiles are loaded" (:2947): they are cleared
\* before only by a timer set while the zoom ran or, when the buffer was kept,
\* before it, or after an answer to an image of an earlier view.
BufferKept ==
  [][layer.timer /\ ~layer'.timer /\ layer.bg > 0 /\ layer'.bg = 0 /\ layer.needed
       => layer.leftover \/ layer.early > 0]_tlVars
===============================================================================
