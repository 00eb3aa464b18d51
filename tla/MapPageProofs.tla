----------------------------- MODULE MapPageProofs -----------------------------
(***************************************************************************)
(* Proofs about the map page as a whole: it runs its parts, so that what   *)
(* is proved of a part, in the modules this one extends, holds of the      *)
(* page.                                                                   *)
(***************************************************************************)
EXTENDS WebGis, MapPartsProofs, MapShapeProofs

\* Each part, seen alone, behaves as its own specification says: what is proved
\* of a part, here and in the modules of its own, holds of the page.
THEOREM PageRunsItsParts ==
  WgSpec => /\ EvSpec /\ VwSpec /\ TlSpec /\ SeSpec /\ PtSpec /\ GeSpec /\ OvSpec /\ LoSpec
            /\ PeSpec
<1>1. WgInit => /\ EvInit /\ VwInit /\ TlInit /\ SeInit /\ PtInit /\ GeInit /\ OvInit /\ LoInit
                /\ PeInit
  BY DEF WgInit
<1>2. [WgNext]_wgVars => [EvNext]_evVars
  BY DEF WgNext, wgVars, evVars
<1>3. [WgNext]_wgVars => [VwNext]_vwVars
  BY DEF WgNext, wgVars, vwVars
<1>4. [WgNext]_wgVars => [TlNext]_tlVars
  BY DEF WgNext, wgVars, tlVars
<1>5. [WgNext]_wgVars => [SeNext]_seVars
  BY DEF WgNext, wgVars, seVars
<1>6. [WgNext]_wgVars => [PtNext]_ptVars
  BY DEF WgNext, wgVars, ptVars
<1>7. [WgNext]_wgVars => [GeNext]_geVars
  BY DEF WgNext, wgVars, geVars
<1>8. [WgNext]_wgVars => [OvNext]_ovVars
  BY DEF WgNext, wgVars, ovVars, OvNext
<1>9. [WgNext]_wgVars => [LoNext]_loVars
  BY DEF WgNext, wgVars, loVars
<1>10. [WgNext]_wgVars => [PeNext]_peVars
  BY DEF WgNext, wgVars, peVars
<1> QED
  BY <1>1, <1>2, <1>3, <1>4, <1>5, <1>6, <1>7, <1>8, <1>9, <1>10, PTL
     DEF WgSpec, EvSpec, VwSpec, TlSpec, SeSpec, PtSpec, GeSpec, OvSpec, LoSpec, PeSpec

\* The page's type invariant: whatever part its scene is about is well typed,
\* and the page does not leave its scene.
THEOREM PageTypeCorrect == WgSpec => []WgTypeOK
<1>1. WgInit => scene \in Scenes
  BY DEF WgInit
<1>2. scene \in Scenes /\ [WgNext]_wgVars => (scene \in Scenes)'
  BY DEF WgNext, wgVars
<1>3. /\ scene \in Scenes /\ EvTypeOK /\ VwTypeOK /\ TlTypeOK /\ SeTypeOK /\ PtTypeOK
      /\ GeTypeOK /\ OvTypeOK /\ LoTypeOK /\ PeTypeOK
      => WgTypeOK
  BY DEF Scenes, WgTypeOK
<1> QED
  BY <1>1, <1>2, <1>3, PageRunsItsParts, EmitterTypeCorrect, ViewTypeCorrect,
     LayerTypeCorrect, SearchTypeCorrect, PointerTypeCorrect, ShapeTypeCorrect,
     OverlayTypeCorrect, LocateTypeCorrect, ExporterTypeCorrect, PTL DEF WgSpec

\* What is promised of the parts, the page keeps: the emitter's count and its
\* removed listeners, the view that settles, the tiles counted and the scaled
\* ones kept, the markers, tips and intervals of the search, the pointer's
\* handlers, shapes drawn as what is in view of them, the overlays and their
\* popup, the location shown, and the table exported page by page.
THEOREM PageKeepsItsPromises ==
  WgSpec => /\ []CountFollowsIndex /\ RemovedNotCalled
            /\ []QuietMeansSettled
            /\ []CounterExact /\ BufferKept
            /\ []MarkersOfLastArea /\ []TipsUnderInput /\ []IntervalsEnd
            /\ []HandsOff /\ []GrabbedPointHeld /\ ClickOrDrag
            /\ []DrawnAsGiven
            /\ []OverlaysAgree /\ []LocateAgrees
            /\ []ExportsTable
<1> QED
  BY PageRunsItsParts, CountAlwaysFollows, RemovedNeverCalled, ViewSettles,
     CounterAlwaysExact, ScaledTilesKept, MarkersAreOfLastArea, TipsStayUnderInput,
     IntervalsAlwaysEnd, HandlersLetGo, GrabbedPointStays, PressClicksOrDrags,
     ShapesDrawnAsGiven, OverlaysAlwaysAgree, LocateAlwaysAgrees,
     ExportAlwaysReadsTable, PTL
===============================================================================
