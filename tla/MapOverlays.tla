------------------------------ MODULE MapOverlays ------------------------------
(***************************************************************************)
(* What lies on the map of the page (leaflet-src.js, map.ftl): the markers *)
(* drawn into the feature group drawnItems with the popup each of them has *)
(* (variable ovl), and the base layers of the layers control (ctl).        *)
(*                                                                         *)
(* Who shows a popup is kept in four places: the marker's popup knows      *)
(* whether it is open (_isOpen) and on which map it is (_map), the map     *)
(* knows its popup (_popup) and its layers (_layers); and a popup has a    *)
(* place of its own, which follows its marker's.  Markers are clicked,     *)
(* dragged, deleted and restored while popups are open.  Deleting, editing *)
(* and restoring is the drawing plug-in's (external): it takes markers out *)
(* of the group and puts them back, and makes them draggable.              *)
(***************************************************************************)
EXTENDS Integers, Sequences, FiniteSets, SequencesExt

CONSTANTS Markers, NoMarker,
          Sites,          \* places of markers
          BaseLayers,     \* in the order of the control's inputs
          StartLayer,     \* the one the map is created with
          NoLayer,
          MaxClicks       \* bound of the model: clicks whose timer is awaited

ASSUME NoMarkerAssumption == NoMarker \notin Markers

ASSUME SitesAssumption == Sites # {}

ASSUME BaseLayersAssumption ==
  BaseLayers \in Seq(Range(BaseLayers)) /\ StartLayer \in Range(BaseLayers)

VARIABLES ovl, ctl

ovVars == <<ovl, ctl>>

StartSite == CHOOSE s \in Sites : TRUE

\* L.Control.Layers._update: of the radio inputs it makes, the last one with a
\* layer on the map is set.
UpdateInputs(c) ==
  LET on == {i \in DOMAIN BaseLayers : BaseLayers[i] \in c.bases} IN
  [c EXCEPT !.checked = IF on = {} THEN NoLayer ELSE BaseLayers[Max(on)]]

OvInit ==
  /\ ctl = UpdateInputs([bases |-> {StartLayer}, checked |-> NoLayer,
                         handling |-> FALSE,       \* _handlingClick
                         expanded |-> FALSE, timers |-> 0])
  /\ ovl = [group |-> {},                              \* drawnItems._layers
         layers |-> {},                             \* markers among map._layers
         shown |-> {},                              \* popups among map._layers, with _map
         isOpen |-> [m \in Markers |-> FALSE],
         popup |-> NoMarker,                        \* map._popup
         bound |-> {},                              \* markers with a popup
         at |-> [m \in Markers |-> StartSite],      \* markers' _latlng
         popupAt |-> [m \in Markers |-> StartSite], \* popups' _latlng
         dragged |-> NoMarker,
         \* the plug-in: delete mode, edit mode and the places to go back to
         deleting |-> FALSE, deleted |-> {}, editing |-> FALSE, backup |-> <<>>]

-------------------------------------------------------------------------------
\* Popups.

\* Popup.onAdd and onRemove, from Map.addLayer and removeLayer.
PopupAdded(o, m) == [o EXCEPT !.shown = @ \cup {m}]
PopupRemoved(o, m) == [o EXCEPT !.shown = @ \ {m}]

\* Map.closePopup, of the map's own popup or of another; _isOpen is reset when
\* the layer has gone.
Closed(o, m) == [o EXCEPT !.isOpen[m] = FALSE]

MapClosePopup(o, m) ==
  LET it == IF m = NoMarker THEN o.popup ELSE m
      own == IF it = o.popup THEN [o EXCEPT !.popup = NoMarker] ELSE o
  IN IF it = NoMarker THEN o ELSE Closed(PopupRemoved(own, it), it)

\* Popup._close: only a popup on a map can be closed.
PopupClose(o, m) == IF m \in o.shown THEN MapClosePopup(o, m) ELSE o

\* Map.openPopup closes the map's popup first.
MapOpenPopup(o, m) ==
  PopupAdded([MapClosePopup(o, NoMarker) EXCEPT !.isOpen[m] = TRUE, !.popup = m], m)

\* Marker.openPopup puts the popup where the marker is.
OpenPopup(o, m) ==
  IF m \in o.layers /\ m \notin o.shown
  THEN MapOpenPopup([o EXCEPT !.popupAt[m] = o.at[m]], m)
  ELSE o

\* Marker.togglePopup, with Marker.closePopup.
TogglePopup(o, m) ==
  IF m \notin o.bound THEN o
  ELSE IF o.isOpen[m] THEN PopupClose(o, m) ELSE OpenPopup(o, m)

\* The event move of a marker moves its popup (_movePopup).
Moved(o, m, site) ==
  [o EXCEPT !.at[m] = site, !.popupAt[m] = IF m \in o.bound THEN site ELSE @]
-------------------------------------------------------------------------------
\* Layers.

\* Map.addLayer of a marker.
MapAdd(o, m) == [o EXCEPT !.layers = @ \cup {m}]

\* LayerGroup.addLayer: the group is on the map, and adds its layers to it.
LayerGroupAdd(o, m) == MapAdd([o EXCEPT !.group = @ \cup {m}], m)

\* FeatureGroup.addLayer.
GroupAdd(o, m) == IF m \in o.group THEN o ELSE LayerGroupAdd(o, m)

\* Faulty variant: the popup stays when its marker goes.
MarkerRemovedKeepsPopup(o, m) == o

\* Marker.onRemove fires `remove`, on which the marker closes its popup.
MarkerRemoved(o, m) == IF m \in o.bound THEN PopupClose(o, m) ELSE o

MapRemove(o, m) ==
  IF m \in o.layers THEN [MarkerRemoved(o, m) EXCEPT !.layers = @ \ {m}] ELSE o

\* LayerGroup.removeLayer and FeatureGroup.removeLayer.
LayerGroupRemove(o, m) == [MapRemove(o, m) EXCEPT !.group = @ \ {m}]

GroupRemove(o, m) == IF m \notin o.group THEN o ELSE LayerGroupRemove(o, m)

\* map.ftl, draw:created of a marker: bindPopup and addLayer.
DrawMarker(m, site) ==
  /\ m \notin ovl.bound
  /\ ovl' = GroupAdd([ovl EXCEPT !.bound = @ \cup {m}, !.at[m] = site], m)

\* A click on a marker, or Enter, which works while it is dragged too, toggles
\* its popup; in delete mode the plug-in, which listens after, takes the marker
\* away.
ClickMarker(m) ==
  /\ m \in ovl.layers
  /\ LET o == TogglePopup(ovl, m) IN
       ovl' = IF o.deleting THEN GroupRemove([o EXCEPT !.deleted = @ \cup {m}], m) ELSE o

\* A click on the map: on `preclick` every popup that is on it closes.
ClickMap ==
  /\ ovl.shown # {}
  /\ ovl' = [ovl EXCEPT !.shown = {},
                        !.isOpen = [m \in Markers |-> @[m] /\ m \notin ovl.shown],
                        !.popup = IF @ \in ovl.shown THEN NoMarker ELSE @]

CloseButton(m) ==
  /\ m \in ovl.shown
  /\ ovl' = PopupClose(ovl, m)

\* L.Handler.MarkerDrag: the drag of a marker closes its popup, and moves it.
DragMarker(m) ==
  /\ ovl.editing /\ ovl.dragged = NoMarker /\ m \in ovl.layers
  /\ ovl' = IF m \in ovl.bound THEN [PopupClose(ovl, m) EXCEPT !.dragged = m]
            ELSE [ovl EXCEPT !.dragged = m]

MarkerDragged(site) ==
  /\ ovl.dragged # NoMarker
  /\ ovl' = Moved(ovl, ovl.dragged, site)

DragEnd ==
  /\ ovl.dragged # NoMarker
  /\ ovl' = [ovl EXCEPT !.dragged = NoMarker]

\* The plug-in.  Dragging ends with the edit mode (removeHooks), and a marker
\* that is put back is so by setLatLng.
EditMode ==
  /\ ~ovl.editing /\ ~ovl.deleting
  /\ ovl' = [ovl EXCEPT !.editing = TRUE, !.backup = ovl.at]

LeaveEditMode(restore) ==
  /\ ovl.editing
  /\ LET back == IF restore
                 THEN [ovl EXCEPT !.at = ovl.backup,
                                  !.popupAt = [m \in Markers |->
                                    IF m \in ovl.bound THEN ovl.backup[m] ELSE @[m]]]
                 ELSE ovl
     IN ovl' = [back EXCEPT !.editing = FALSE, !.backup = <<>>, !.dragged = NoMarker]

DeleteMode ==
  /\ ~ovl.deleting /\ ~ovl.editing
  /\ ovl' = [ovl EXCEPT !.deleting = TRUE, !.deleted = {}]

LeaveDeleteMode(restore) ==
  /\ ovl.deleting
  /\ LET back == IF restore
                 THEN [ovl EXCEPT !.group = @ \cup ovl.deleted,
                                  !.layers = @ \cup (ovl.deleted \ ovl.group)]
                 ELSE ovl
     IN ovl' = [back EXCEPT !.deleting = FALSE, !.deleted = {}]
-------------------------------------------------------------------------------
\* L.Control.Layers.  The inputs are made again when a layer comes or goes,
\* unless a click on them is what changes the layers.

OnLayerChange(c) == IF c.handling THEN c ELSE UpdateInputs(c)

OneInput(c, layer) ==
  IF layer = c.checked /\ layer \notin c.bases
  THEN OnLayerChange([c EXCEPT !.bases = @ \cup {layer}])
  ELSE IF layer # c.checked /\ layer \in c.bases
  THEN OnLayerChange([c EXCEPT !.bases = @ \ {layer}])
  ELSE c

\* Faulty variant: the inputs are made again while they are gone through.
OnInputClickUpdates(c) == FoldLeft(OneInput, c, BaseLayers)

OnInputClick(c) ==
  [FoldLeft(OneInput, [c EXCEPT !.handling = TRUE], BaseLayers) EXCEPT !.handling = FALSE]

\* A click sets one radio input and goes through all of them in their order, and
\* does so again from a timer of the form, perhaps after other clicks.
ClickInput(layer) ==
  /\ ctl.expanded /\ ctl.timers < MaxClicks
  /\ ctl' = [OnInputClick([ctl EXCEPT !.checked = layer]) EXCEPT !.timers = @ + 1]

InputTimer ==
  /\ ctl.timers > 0
  /\ ctl' = [OnInputClick(ctl) EXCEPT !.timers = @ - 1]

\* The pointer enters the control, or leaves it, or the map is clicked.
Expanded(is) ==
  /\ ctl.expanded # is
  /\ ctl' = [ctl EXCEPT !.expanded = is]

MarkersNext ==
  \/ \E m \in Markers, site \in Sites : DrawMarker(m, site)
  \/ \E m \in Markers : ClickMarker(m) \/ CloseButton(m) \/ DragMarker(m)
  \/ \E site \in Sites : MarkerDragged(site)
  \/ DragEnd \/ ClickMap \/ EditMode \/ DeleteMode
  \/ \E restore \in BOOLEAN : LeaveEditMode(restore) \/ LeaveDeleteMode(restore)

ControlNext ==
  \/ \E layer \in Range(BaseLayers) : ClickInput(layer)
  \/ \E is \in BOOLEAN : Expanded(is)
  \/ InputTimer

OvNext ==
  \/ MarkersNext /\ UNCHANGED ctl
  \/ ControlNext /\ UNCHANGED ovl

OvSpec == OvInit /\ [][OvNext]_ovVars
-------------------------------------------------------------------------------
OvTypeOK ==
  /\ ovl.group \subseteq Markers /\ ovl.layers \subseteq Markers /\ ovl.shown \subseteq Markers
  /\ ovl.isOpen \in [Markers -> BOOLEAN] /\ ovl.popup \in Markers \cup {NoMarker}
  /\ ovl.at \in [Markers -> Sites] /\ ovl.popupAt \in [Markers -> Sites]
  /\ ovl.dragged \in Markers \cup {NoMarker} /\ ovl.deleted \subseteq Markers
  /\ ctl.bases \subseteq Range(BaseLayers) /\ ctl.timers \in Nat

\* The four places agree: at most one popup is on the map, the one the map
\* takes for its own, its marker is on the map, and a popup believes to be open
\* exactly while it is (togglePopup would otherwise never open it again).  It is
\* where its marker is, also when that is dragged, edited or put back.
PopupsAgree ==
  /\ ovl.shown = IF ovl.popup = NoMarker THEN {} ELSE {ovl.popup}
  /\ ovl.shown = {m \in Markers : ovl.isOpen[m]}
  /\ ovl.shown \subseteq ovl.layers /\ ovl.layers = ovl.group
  /\ \A m \in ovl.shown : ovl.popupAt[m] = ovl.at[m]

\* The layer whose input is set is the only base layer on the map.
BaseLayerAgrees == ctl.bases = {ctl.checked}

\* What lies on the map is what each of the parts takes for it.
OverlaysAgree == PopupsAgree /\ BaseLayerAgrees
===============================================================================
