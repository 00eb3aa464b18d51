------------------------------- MODULE MapSearch -------------------------------
(***************************************************************************)
(* The station search of the map page: areas drawn on the map and the      *)
(* stations the server finds in them (map.ftl), and the search control     *)
(* over the markers of those stations (leaflet-search.js, with the options *)
(* the page gives it: layer = searchLayer, initial = false).               *)
(*                                                                         *)
(* Key events, clicks, the timer of the last key (400 ms), the timer of    *)
(* the alert, the answers of the server and the intervals that animate a   *)
(* found location come in any order.                                       *)
(***************************************************************************)
EXTENDS Integers, Sequences, FiniteSets, SequencesExt

CONSTANTS Titles,           \* addresses of stations, the markers' titles
          NoTitle,          \* the address of a station that has none
          Typed,            \* what a user types, "" excluded
          Matches(_),       \* titles a text finds (_filterData)
          Invalid,          \* texts that are no regular expression
          Completes(_, _),  \* a text is a prefix of a title (_autoType)
          Answers,          \* the sequences of titles the server may find
          Ticks,            \* intervals an animation takes
          MaxDraws, MaxAnims    \* bounds of the model

ASSUME AnswersAssumption == Answers \subseteq Seq(Titles \cup {NoTitle})
ASSUME TicksAssumption == Ticks \in Nat \ {0}
ASSUME DrawsAssumption == MaxDraws \in Nat

VARIABLE srch

seVars == <<srch>>

SeInit ==
  srch = [expanded |-> FALSE, text |-> "", autoType |-> TRUE, cancel |-> FALSE,
          keyTimer |-> FALSE, alert |-> FALSE, alertTimer |-> FALSE,
          cache |-> {},                    \* titles in _recordsCache
          tips |-> <<>>, open |-> FALSE,   \* the tooltip's items, and its display
          sel |-> -2,                      \* currentSelection, -2 while undefined
          count |-> 0,                     \* _countertips
          markers |-> <<>>,                \* on searchLayer: [title, area]
          draws |-> 0, asked |-> {},       \* areas drawn, those still to be answered
          live |-> <<>>, timerAnim |-> 0,  \* intervals: ticks left; _timerAnimLoc
          \* a search ran while collapsed; an answer came after a later drawing;
          \* an animation began while another ran
          lateSearch |-> FALSE, mixed |-> FALSE, overlapped |-> FALSE]

-------------------------------------------------------------------------------
\* What the control's functions do.

\* Faulty variant: the list is emptied and stays open.
EmptyTooltip(s) == [s EXCEPT !.tips = <<>>]

HideTooltip(s) == [s EXCEPT !.open = FALSE, !.tips = <<>>]

\* cancel simulates a backspace, which only turns autoType off.
Cancel(s) ==
  HideTooltip([s EXCEPT !.text = "", !.autoType = FALSE, !.cancel = FALSE])

\* Faulty variant: the list of tips stays.
CollapseOnlyInput(s) == [s EXCEPT !.alert = FALSE, !.expanded = FALSE]

\* The timer of the last key goes on.
Collapse(s) == [Cancel(HideTooltip(s)) EXCEPT !.alert = FALSE, !.expanded = FALSE]

Expand(s) == [s EXCEPT !.expanded = TRUE, !.lateSearch = FALSE]

ShowAlert(s) == [s EXCEPT !.alert = TRUE, !.alertTimer = TRUE]

\* Search.Marker.animate: every animation has an interval, and the circle one
\* name for it (no more than MaxAnims in all, a bound).
Animate(s) ==
  IF Len(s.live) >= MaxAnims THEN s
  ELSE [s EXCEPT !.live = Append(@, Ticks), !.timerAnim = Len(s.live) + 1,
                 !.overlapped = @ \/ \E i \in 1..Len(s.live) : s.live[i] # -1]

\* _handleSubmit with showLocation: the marker and its circle are moved
\* whether they are on the map or not.
ShowLocation(s) == Animate(s)

HandleSubmit(s0) ==
  LET s == HideTooltip([s0 EXCEPT !.alert = FALSE]) IN
  IF ~s.expanded THEN Expand(s)
  ELSE IF s.text = "" THEN Collapse(s)
  ELSE IF s.text \in s.cache THEN ShowLocation(s) ELSE ShowAlert(s)

\* _handleArrowSelect.  Past the end of the list it marks the selected item
\* again, and throws when the list has gone and the selection has not.
ArrowThrows(s, v) == v = 1 /\ s.sel # -2 /\ s.sel >= Len(s.tips) - 1 /\ s.tips = <<>>

HandleArrowSelect(s, v) ==
  IF v = 1 /\ s.sel # -2 /\ s.sel >= Len(s.tips) - 1 THEN s
  ELSE IF v = -1 /\ s.sel \in {-1, 0} THEN [s EXCEPT !.sel = -1]
  ELSE IF s.open THEN [s EXCEPT !.sel = @ + v, !.text = s.tips[s.sel + v + 1]]
  ELSE s

\* _autoType completes the text to the first item.
AutoType(s) ==
  IF Completes(s.text, s.tips[1]) THEN [s EXCEPT !.text = s.tips[1]] ELSE s

\* showTooltip, where autoType is off once after a backspace.
ShowTooltip(s, found) ==
  LET shown == [s EXCEPT !.tips = found, !.sel = -1, !.count = Len(found), !.open = TRUE]
      typed == IF s.autoType THEN AutoType(shown) ELSE shown
  IN IF found = <<>> THEN HideTooltip(shown) ELSE [typed EXCEPT !.autoType = TRUE]

\* What the text finds of the markers: a record for each title (_recordsFromLayer),
\* in the order of the markers, and of those the ones that match (_filterData).
KeepFound(text, found, m) ==
  IF m.title \in Matches(text) \ Range(found) THEN Append(found, m.title) ELSE found

Found(markers, text) == FoldLeft(LAMBDA found, m : KeepFound(text, found, m), <<>>, markers)

\* _fillRecordsCache from the layer; a marker without a title throws, and so does
\* a text that makes no regular expression, when the cache has been replaced.
FillRecordsCache(s) ==
  LET filled == [s EXCEPT !.cache = {m.title : m \in Range(s.markers)}] IN
  IF \E m \in Range(s.markers) : m.title = NoTitle THEN s
  ELSE IF s.text \in Invalid THEN filled
  ELSE ShowTooltip(filled, Found(s.markers, s.text))
-------------------------------------------------------------------------------
\* Key events (_handleKeypress) and clicks.

\* Any other key, also one that types nothing; minLength is 1.
Type(text) ==
  /\ srch.expanded
  /\ srch' = IF text = "" THEN HideTooltip([srch EXCEPT !.cancel = FALSE])
             ELSE [srch EXCEPT !.text = text, !.cancel = TRUE, !.keyTimer = TRUE]

Backspace(text) ==
  /\ srch.expanded
  /\ text # srch.text /\ srch.text # ""
  /\ srch' = [srch EXCEPT !.text = text, !.autoType = FALSE]

Esc ==
  /\ srch.expanded
  /\ srch' = Collapse(srch)

Arrow(v) ==
  /\ srch.expanded
  /\ srch' = HandleArrowSelect(srch, v)

\* Enter selects an only item first; if that throws nothing is submitted.
Enter ==
  /\ srch.expanded
  /\ IF srch.count = 1
     THEN /\ ~ArrowThrows(srch, 1)
          /\ srch' = HandleSubmit(HandleArrowSelect(srch, 1))
     ELSE srch' = HandleSubmit(srch)

ClickButton == srch' = HandleSubmit(srch)

ClickTip(i) ==
  /\ srch.open
  /\ i \in DOMAIN srch.tips
  /\ srch' = HandleSubmit(HideTooltip([srch EXCEPT !.text = srch.tips[i]]))

ClickCancel ==
  /\ srch.cancel
  /\ srch' = Cancel(srch)

\* The map is clicked or dragged while the control listens to it.
MapTouched ==
  /\ srch.expanded
  /\ srch' = Collapse(srch)

\* Timers.
KeyTimer ==
  /\ srch.keyTimer
  /\ srch' = FillRecordsCache([srch EXCEPT !.keyTimer = FALSE,
                                           !.lateSearch = ~srch.expanded])

AlertTimer ==
  /\ srch.alertTimer
  /\ srch' = [srch EXCEPT !.alertTimer = FALSE, !.alert = FALSE]

\* Faulty variant: nothing stops the interval.
ClearNoInterval(live, own, named) == live

\* A tick of the i-th interval; one that has reached its end stops the
\* interval the circle has the name of, which may be another.
ClearInterval(live, own, named) == [live EXCEPT ![named] = -1]

AnimTick(i) ==
  /\ srch.live[i] >= 0
  /\ LET left == IF srch.live[i] = 0 THEN 0 ELSE srch.live[i] - 1
         ticked == [srch.live EXCEPT ![i] = left]
     IN srch' = [srch EXCEPT !.live = IF left = 0
                                      THEN ClearInterval(ticked, i, srch.timerAnim)
                                      ELSE ticked]
-------------------------------------------------------------------------------
\* Faulty variant: the markers of the area before stay.
ClearNothing(markers) == markers

\* The page: an area is drawn, the markers go, and for a rectangle or a circle
\* the server is asked; its answer is added to whatever is there.
ClearLayers(markers) == <<>>

Draw(asks) ==
  /\ srch.draws < MaxDraws
  /\ srch' = [srch EXCEPT !.draws = @ + 1, !.markers = ClearLayers(@),
                          !.asked = IF asks THEN @ \cup {srch.draws + 1} ELSE @,
                          !.mixed = FALSE]

Answer(area, titles) ==
  /\ area \in srch.asked
  /\ srch' = [srch EXCEPT
       !.asked = @ \ {area},
       !.markers = @ \o [i \in 1..Len(titles) |-> [title |-> titles[i], area |-> area]],
       !.mixed = @ \/ area # srch.draws]

\* No data, another msg, or an error: nothing happens.
NoAnswer(area) ==
  /\ area \in srch.asked
  /\ srch' = [srch EXCEPT !.asked = @ \ {area}]

SeNext ==
  \/ \E text \in Typed \cup Titles \cup {srch.text} : Type(text)
  \/ \E text \in Typed \cup {""} : Backspace(text)
  \/ \E v \in {-1, 1} : Arrow(v)
  \/ Esc \/ Enter \/ ClickButton \/ ClickCancel \/ MapTouched
  \/ \E i \in 1..Len(srch.tips) : ClickTip(i)
  \/ KeyTimer \/ AlertTimer
  \/ \E i \in 1..Len(srch.live) : AnimTick(i)
  \/ \E asks \in BOOLEAN : Draw(asks)
  \/ \E area \in srch.asked : NoAnswer(area) \/ \E titles \in Answers : Answer(area, titles)

SeSpec == SeInit /\ [][SeNext]_seVars
-------------------------------------------------------------------------------
SeTypeOK ==
  /\ srch.text \in Typed \cup Titles \cup {""}
  /\ srch.tips \in Seq(Titles) /\ srch.sel \in Int
  /\ srch.cache \subseteq Titles
  /\ srch.markers \in Seq([title : Titles \cup {NoTitle}, area : 1..MaxDraws])
  /\ srch.asked \subseteq 1..srch.draws
  /\ srch.live \in Seq(-1..Ticks) /\ srch.timerAnim \in 0..Len(srch.live)
  /\ srch.open => srch.tips # <<>>

\* The markers on the map are those of the area drawn last; others are among
\* them only when the server answered for an earlier area afterwards
\* (map.ftl:228-242, 246-265).
MarkersOfLastArea ==
  (\E m \in Range(srch.markers) : m.area # srch.draws) => srch.mixed

\* The list of tips is open under a collapsed control only when the timer of
\* the last key, which collapse leaves running (leaflet-search.js:202-212,
\* 623-627), searched after the control had collapsed.
TipsUnderInput == srch.open /\ ~srch.expanded => srch.lateSearch

\* An interval whose circle has shrunk to its end goes on, for good, only when
\* another animation began before it was over: the name they share is then the
\* other's (:890-917).
IntervalsEnd ==
  (\E i \in 1..Len(srch.live) : srch.live[i] = 0) => srch.overlapped
===============================================================================
