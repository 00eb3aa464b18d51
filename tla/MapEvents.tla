------------------------------- MODULE MapEvents -------------------------------
(***************************************************************************)
(* The event mixin every object of the map page is built on                *)
(* (L.Mixin.Events, leaflet-src.js:333-500): one emitter and one event     *)
(* type, its two listener stores, and dispatches that their own listeners  *)
(* change while they run.                                                  *)
(*                                                                         *)
(* Listeners of the emitter itself (no context, or the emitter as context) *)
(* are kept in events[type]; listeners of another context are kept in      *)
(* events[type + '_idx'], one list per context, with the number of those   *)
(* contexts counted apart in events[type + '_idx_len'].                    *)
(***************************************************************************)
EXTENDS Integers, Sequences, FiniteSets, SequencesExt

CONSTANTS Fns,         \* listener functions
          Foreign,     \* contexts other than the emitter
          ContextSeq,  \* the same contexts in the order for-in visits them
          Own,         \* the emitter itself as context
          NoContext,   \* no context given
          MaxListeners, MaxStores, MaxDepth, MaxMissed    \* bounds of the model

ASSUME ForeignAssumption == IsFiniteSet(Foreign) /\ {Own, NoContext} \cap Foreign = {}
ASSUME DispatchesAssumption == {MaxListeners, MaxStores, MaxDepth} \subseteq Nat

VARIABLES ev,       \* the emitter's stores and the listener objects
          evStack   \* the dispatches running, innermost last

evVars == <<ev, evStack>>

Contexts == Foreign \cup {Own, NoContext}

\* A listener's function: one of Fns, or the handler that `once` binds for it.
Plain(f) == [f |-> f, once |-> 0]
NoKeys == [c \in Foreign |-> <<>>]
NewStore == [hasOwn |-> FALSE, own |-> <<>>, idx |-> 0, len |-> 0, missed |-> 0]

EvInit ==
  /\ ev = [objs |-> <<>>, noop |-> {}, gone |-> {}, stores |-> <<>>,
           live |-> FALSE, indexes |-> <<>>]
  /\ evStack = <<>>

Current(E) == Len(E.stores)
Keys(index) == {c \in Foreign : index[c] # <<>>}

-------------------------------------------------------------------------------
\* Faulty variant: every listener of a context counts.
NewKeysAlways(index, c) == 1

\* addEventListener: the new listener object goes to the store its context
\* selects; a new context of the index is counted once.
NewKeys(index, c) == IF index[c] = <<>> THEN 1 ELSE 0

Opened(E) == IF E.live THEN E ELSE [E EXCEPT !.live = TRUE, !.stores = Append(@, NewStore)]

Indexed(E) ==
  IF E.stores[Current(E)].idx # 0 THEN E
  ELSE [E EXCEPT !.indexes = Append(@, NoKeys),
                 !.stores[Current(E)].idx = Len(E.indexes) + 1]

Added(E0, fn, c) ==
  LET id == Len(E0.objs) + 1
      E1 == [Opened(E0) EXCEPT !.objs =
               Append(@, [fn |-> fn, ctx |-> IF c = NoContext THEN Own ELSE c, arg |-> c])]
  IN IF c \in Foreign
     THEN LET E == Indexed(E1)
              i == E.stores[Current(E)].idx
          IN [E EXCEPT !.stores[Current(E)].len = @ + NewKeys(E.indexes[i], c),
                       !.indexes[i][c] = Append(@, id)]
     ELSE [E1 EXCEPT !.stores[Current(E1)].hasOwn = TRUE,
                     !.stores[Current(E1)].own = Append(@, id)]

\* Faulty variant: a removed listener keeps its action.
SilencedNot(noop, out) == noop

\* removeEventListener with a function: the matching listeners leave the list
\* that the context selects, their action becomes a no-op, and a list left
\* empty by a removal with a context takes one off the count of contexts,
\* whichever list that was.
Silenced(noop, out) == noop \cup out

\* A list without some listeners: those that stay keep their order.
Without(list, out) ==
  LET kept == {k \in 1..Len(list) : list[k] \notin out}
      Place(i) == CHOOSE k \in kept : Cardinality({j \in kept : j <= k}) = i
  IN [i \in 1..Cardinality(kept) |-> list[Place(i)]]

Removed(E, fn, c) ==
  LET st == E.stores[Current(E)]
      inIndex == c \in Foreign /\ st.idx # 0
      list == IF inIndex THEN E.indexes[st.idx][c] ELSE st.own
      Match(i) == E.objs[i].fn = fn /\ (c = NoContext \/ E.objs[i].ctx = c)
      out == {list[k] : k \in {k \in 1..Len(list) : Match(list[k])}}
      rest == Without(list, out)
      uncount == c # NoContext /\ st.idx # 0 /\ rest = <<>>
  IN IF ~E.live \/ (IF inIndex THEN list = <<>> ELSE ~st.hasOwn) THEN E
     ELSE [E EXCEPT !.noop = Silenced(@, out),
                    !.gone = @ \cup out,
                    !.stores[Current(E)] =
                       [st EXCEPT !.own = IF inIndex THEN @ ELSE rest,
                                  !.len = IF uncount THEN @ - 1 ELSE @,
                                  !.missed = IF uncount /\ ~inIndex THEN @ + 1 ELSE @],
                    !.indexes = IF inIndex THEN [@ EXCEPT ![st.idx][c] = rest] ELSE @]

\* hasEventListeners: what fireEvent asks first.
HasListeners(E) ==
  /\ E.live
  /\ LET st == E.stores[Current(E)] IN \/ st.own # <<>>
                                       \/ st.idx # 0 /\ st.len > 0
-------------------------------------------------------------------------------
Top == evStack[Len(evStack)]

\* Code runs outside every dispatch or inside the listener of the innermost.
Running == evStack # <<>> => Top.running # 0

On(f, c) ==
  /\ Running
  /\ Len(ev.objs) < MaxListeners
  /\ ~ev.live => Current(ev) < MaxStores
  /\ ev' = Added(ev, Plain(f), c)
  /\ UNCHANGED evStack

\* addOneTimeEventListener: the listener and, after it, a handler of its own
\* that removes both.
Once(f, c) ==
  /\ Running
  /\ Len(ev.objs) + 1 < MaxListeners
  /\ ~ev.live => Current(ev) < MaxStores
  /\ LET E == Added(ev, Plain(f), c) IN
       ev' = Added(E, [f |-> f, once |-> Len(E.objs)], c)
  /\ UNCHANGED evStack

Off(f, c) ==
  /\ Running
  /\ ev.live
  /\ ev.stores[Current(ev)].missed < MaxMissed
  /\ ev' = Removed(ev, Plain(f), c)
  /\ UNCHANGED evStack

\* Without a function the stores of the type are deleted, and the listeners
\* keep their actions.
OffType ==
  /\ Running
  /\ ev.live
  /\ ev' = [ev EXCEPT !.stores[Current(ev)] = NewStore]
  /\ UNCHANGED evStack

ClearAll ==
  /\ Running
  /\ ev.live
  /\ ev' = [ev EXCEPT !.live = FALSE]
  /\ UNCHANGED evStack

\* fireEvent: a copy of the emitter's own listeners is taken at once.
Snapshot(own) == own

Fire ==
  /\ Running
  /\ Len(evStack) < MaxDepth
  /\ HasListeners(ev)
  /\ evStack' = Append(evStack,
       [events |-> Current(ev), list |-> Snapshot(ev.stores[Current(ev)].own), at |-> 0,
        inOwn |-> TRUE, index |-> 0, todo |-> <<>>, running |-> 0,
        since |-> Len(ev.objs)])
  /\ UNCHANGED ev

Pending(frame) == {k \in frame.at + 1 .. Len(frame.list) : frame.list[k] \notin ev.noop}

\* The next listener of the list that has not become a no-op is called; a
\* handler of `once` does all its work here.
CallListener ==
  /\ evStack # <<>>
  /\ \E k \in Pending(Top) :
       LET id == Top.list[k]
           obj == ev.objs[id]
       IN /\ \A l \in Pending(Top) : k <= l
          /\ evStack' = [evStack EXCEPT ![Len(evStack)].at = k, ![Len(evStack)].running = id]
          /\ ev' = IF obj.fn.once = 0 THEN ev
                   ELSE Removed(Removed(ev, Plain(obj.fn.f), obj.arg), obj.fn, obj.arg)

\* After its own list a dispatch reads the index from the stores it started
\* with, and for-in takes the contexts that are there.
EnterIndex ==
  /\ evStack # <<>>
  /\ Pending(Top) = {} /\ Top.inOwn
  /\ LET i == ev.stores[Top.events].idx IN
       evStack' = [evStack EXCEPT ![Len(evStack)] =
         [@ EXCEPT !.inOwn = FALSE, !.list = <<>>, !.at = 0, !.running = 0, !.index = i,
                   !.todo = IF i = 0 THEN <<>>
                            ELSE SelectSeq(ContextSeq, LAMBDA c : c \in Keys(ev.indexes[i]))]]
  /\ UNCHANGED ev

NextContext ==
  /\ evStack # <<>>
  /\ Pending(Top) = {} /\ ~Top.inOwn /\ Top.todo # <<>>
  /\ evStack' = [evStack EXCEPT ![Len(evStack)] =
       [@ EXCEPT !.todo = Tail(Top.todo), !.at = 0, !.running = 0,
                 !.list = ev.indexes[Top.index][Head(Top.todo)]]]
  /\ UNCHANGED ev

\* The dispatch returns to the listener that fired it.
Return ==
  /\ evStack # <<>>
  /\ Pending(Top) = {} /\ ~Top.inOwn /\ Top.todo = <<>>
  /\ evStack' = Front(evStack)
  /\ UNCHANGED ev

EvNext ==
  \/ \E f \in Fns, c \in Contexts : On(f, c) \/ Once(f, c) \/ Off(f, c)
  \/ OffType \/ ClearAll \/ Fire
  \/ CallListener \/ EnterIndex \/ NextContext \/ Return

EvSpec == EvInit /\ [][EvNext]_evVars
-------------------------------------------------------------------------------
EvTypeOK ==
  /\ Len(ev.objs) <= MaxListeners /\ Len(ev.stores) <= MaxStores
  /\ ev.noop \subseteq 1..Len(ev.objs) /\ ev.gone \subseteq 1..Len(ev.objs)
  /\ ev.live \in BOOLEAN /\ (ev.live => ev.stores # <<>>)
  /\ \A s \in Range(ev.stores) :
       /\ s.idx \in 0..Len(ev.indexes) /\ s.len \in Int /\ s.missed \in Nat
       /\ s.own # <<>> => s.hasOwn
  /\ Len(evStack) <= MaxDepth
  /\ \A d \in Range(evStack) : d.events \in 1..Len(ev.stores) /\ d.index \in 0..Len(ev.indexes)

\* The number kept "to quickly check if it's empty" (leaflet-src.js:364) is
\* the number of contexts in the index, less the removals that emptied the
\* emitter's OWN list and were counted all the same: events go unheard for no
\* other reason, and are never fired into an empty index.
CountFollowsIndex ==
  ev.live =>
    LET st == ev.stores[Current(ev)] IN
      st.idx # 0 => st.len + st.missed = Cardinality(Keys(ev.indexes[st.idx]))

\* A listener that was removed by its function is never called again, not even
\* by the dispatch that had already copied it ("it is possible that the
\* listener is being iterated over as part of a dispatch", :424), nor by the
\* dispatches around it.
Calls(id) ==
  /\ evStack' # <<>> /\ Len(evStack') = Len(evStack)
  /\ evStack'[Len(evStack)].at # evStack[Len(evStack)].at
  /\ evStack'[Len(evStack)].running = id

RemovedNotCalled ==
  [][\A id \in 1..Len(ev.objs) : Calls(id) => id \notin ev.gone]_evVars

===============================================================================
