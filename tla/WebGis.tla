--------------------------------- MODULE WebGis ---------------------------------
(***************************************************************************)
(* The web GIS demo: its map page (map.ftl) with the parts that is made    *)
(* of - the event mixin, the view, a tile layer, what lies on the map, the *)
(* pointer handlers, the search, the shapes and the location control - and *)
(* the export of its server.  No part reads the variables of another: each *)
(* takes what it gets from the others (events, requests, answers) as free  *)
(* choices of its own, so a behaviour is checked one part at a time, the   *)
(* one its scene is about.                                                 *)
(***************************************************************************)
EXTENDS MapEvents, MapView, MapTiles, MapSearch, MapPointer, MapGeometry, MapOverlays,
        MapLocate, PoiExporter

VARIABLE scene

wgVars == <<scene, ev, evStack, view, layer, srch, ptr, geo, ovl, ctl, loc, exp>>

Scenes == {"events", "view", "tiles", "search", "pointer", "shapes", "markers", "control",
           "locate", "export"}

\* A part that is off the scene is in one initial state.
WgInit ==
  /\ scene \in Scenes
  /\ EvInit /\ VwInit /\ TlInit /\ SeInit /\ PtInit /\ OvInit /\ LoInit /\ PeInit
  /\ GeInit
  /\ scene # "view" => view.transitions = CHOOSE b \in Browsers : TRUE
  /\ scene # "locate" => /\ loc.supported = CHOOSE b \in Supports : TRUE
                         /\ loc.view = CHOOSE s \in Spots : TRUE
  /\ scene # "tiles" => /\ layer.platform = CHOOSE p \in Platforms : TRUE
                        /\ layer.area = CHOOSE a \in Areas : TRUE
  /\ scene # "pointer" => /\ ptr.device = CHOOSE d \in Devices : TRUE
                          /\ ptr.x = CHOOSE x \in Positions : TRUE
  /\ scene # "shapes" => geo.kind = "clip"
  /\ scene # "export" => exp.exists

WgNext ==
  \/ scene = "events" /\ EvNext /\ UNCHANGED <<scene, view, layer, srch, ptr, geo, ovl, ctl, loc, exp>>
  \/ scene = "view" /\ VwNext /\ UNCHANGED <<scene, ev, evStack, layer, srch, ptr, geo, ovl, ctl, loc, exp>>
  \/ scene = "tiles" /\ TlNext /\ UNCHANGED <<scene, ev, evStack, view, srch, ptr, geo, ovl, ctl, loc, exp>>
  \/ scene = "search" /\ SeNext /\ UNCHANGED <<scene, ev, evStack, view, layer, ptr, geo, ovl, ctl, loc, exp>>
  \/ scene = "pointer" /\ PtNext /\ UNCHANGED <<scene, ev, evStack, view, layer, srch, geo, ovl, ctl, loc, exp>>
  \/ scene = "shapes" /\ GeNext /\ UNCHANGED <<scene, ev, evStack, view, layer, srch, ptr, ovl, ctl, loc, exp>>
  \/ scene = "markers" /\ MarkersNext /\ UNCHANGED <<scene, ev, evStack, view, layer, srch, ptr, geo, ctl, loc, exp>>
  \/ scene = "control" /\ ControlNext /\ UNCHANGED <<scene, ev, evStack, view, layer, srch, ptr, geo, ovl, loc, exp>>
  \/ scene = "locate" /\ LoNext /\ UNCHANGED <<scene, ev, evStack, view, layer, srch, ptr, geo, ovl, ctl, exp>>
  \/ scene = "export" /\ PeNext /\ UNCHANGED <<scene, ev, evStack, view, layer, srch, ptr, geo, ovl, ctl, loc>>

WgSpec == WgInit /\ [][WgNext]_wgVars

\* The part on the scene is well typed; the others are as they began.
WgTypeOK ==
  CASE scene = "events" -> EvTypeOK
    [] scene = "view" -> VwTypeOK
    [] scene = "tiles" -> TlTypeOK
    [] scene = "search" -> SeTypeOK
    [] scene = "pointer" -> PtTypeOK
    [] scene = "shapes" -> GeTypeOK
    [] scene \in {"markers", "control"} -> OvTypeOK
    [] scene = "locate" -> LoTypeOK
    [] scene = "export" -> PeTypeOK
===============================================================================
