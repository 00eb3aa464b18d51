# Formal models of Code4Java

Code4Java is a collection of four Java services. Each is a small program, but
they sit between a broker, a database or a search engine and a set of
clients, and what makes them correct is what happens between two steps: a crash
between a poll and a bulk request, a client that leaves while a message is
broadcast, a connection that comes back with the same message again. This
directory holds TLA+ models of those parts, the TLC configurations that check
them, and proofs for every value of the constants.

## 1. Inventory

| component | state it keeps | operations | what is hard |
|---|---|---|---|
| **LogCollector** (`LogIndexExecutor`, `ElasticSearchClient`, `MainExecutor`) | volatile `isRunning`, consumer position, batch `logList`, REST client; in Kafka the group's offset and membership; in Elasticsearch the documents | boot, start, worker loop (poll, transform, `indexLog`), stop, close, halt | auto-commit against crash and shutdown, zombie members, failed and timed-out bulk requests |
| **NettyMqService, broker to clients** (`MqReceiver`, the `ChannelGroup` in `EchoServerHandler`) | AMQP delivery in hand, group of channels, outbound buffer of each channel | consume, broadcast, acknowledge, join, leave | acknowledgement by a group future, redelivery after a lost connection, slow clients |
| **NettyMqService, clients to broker** (`MessageDecoder`, `EchoServerHandler`, `MqSender`) | decoder buffer per channel, one shared AMQP channel (may be null for ever) | decode, publish, echo, exceptionCaught | length arithmetic, exceptions that disconnect clients, several event loops on one sender |
| NettyMqService lifecycle (`NettyMqServer`) | event loop groups, server channel | start, stop | stop leaves both AMQP connections open |
| **MapHttpService** (`HttpServerInboundHandler`, `MapCache`, `MapRequestParam`, `MapDbOperation`, `MapHttpServer`) | Guava cache of 5000 tiles, pool of 32 connections, 32 handler threads | parse, look up or load a tile, respond, destroy | single-flight loading, key equality by reference, paths without a response |
| **WebGisDemo exporter** (`DataIndexController`, `PoiIndexExecutor`, the index operations of `ElasticSearchClient`) | `pageNum` in a singleton bean, the index in Elasticsearch | start, clear, map and create the index, read a page | concurrent and repeated starts over one counter that is never reset, failures between two requests |
| WebGisDemo, other executors and the rest of the Elasticsearch client | bulk processor buffer, page counters | add, flush, scroll, close | nobody calls them |
| **Station search** (`map.ftl`, `leaflet-search.js`) | layer of markers, tips, records cache, timers and intervals | draw, answer, type, pick, find, expand, collapse | answers out of order, timers that outlive what set them |
| **Map library of the page** (`leaflet-src.js`) | listeners and their index; zoom, pane position, animations; tiles and their counter; handlers' flags; layers and popups | see the modules below | frames, timers, transition events and inputs in any order; state kept in several places |
| **Location control** (`locate.js`) | flags, last location, button, circle, watch | click, location, error | order of clicks and answers |
| beans, configuration, other plug-ins | none of their own | | |

How they interact: LogCollector only through Kafka and Elasticsearch. In
NettyMqService the two directions share the client channels (a fault in the
inbound direction closes a channel and takes it out of the group the broadcast
iterates over) and the broker. The services do not call each other; the map page
of WebGisDemo loads tiles from MapHttpService. In the page, the parts of Leaflet
call each other through the event mixin and through the map: a drag and a zoom
both move the pane the other has measured, a layer hears of the view only by its
events, and frames, timers and transition events belong to whoever asked first.

What makes each one correct:

* LogCollector: an offset is committed only when its record has been dealt
  with; one member stores a record once; the offset never moves back; the worker
  survives every exception and stops when told.
* Broker to clients: a message forgotten by the broker was flushed to everybody
  who was and stayed connected; clients see queue order; a slow client does not
  make the server buffer without bound; the queue drains while clients read.
* Clients to broker: per-client order and at-most-once publication; while the
  client stays connected each message is published, logged as failed, or on the
  way when the AMQP connection is lost; every message is decoded.
* MapHttpService: at most one load of a tile in flight, no null cached, one
  response per request, connections returned on every path.
* Exporter: one after another, exports read every page once; the end of the
  table is where it ends.
* Map page: once no button is down and no frame, timer or answer is awaited, the
  map is where it was asked to be and nothing of a gesture is left; markers,
  popups, tips and buttons agree with what they stand for; what is drawn of a
  shape is its part in view, simplified within the tolerance.

## 2. Plan

1. `LogIndexer`, its abstract specification `LogDelivery`, proofs. *(done)*
2. `MqReceiver`: broker to clients. *(done, with proofs)*
3. `EchoServer`: clients to broker. *(done, with proofs)*
4. `TileService` and its abstract specification `TileReads`. *(done, with proofs,
   the refinement included)*
5. `PoiExporter`: the export of the station table. *(done, with proofs)*
6. The map page, one module for each part: `MapEvents`, `MapView`, `MapTiles`,
   `MapSearch`, `MapPointer`, `MapGeometry`, `MapOverlays`, `MapLocate`, and
   `WebGis`, which runs them side by side. *(done; proofs of all parts)*
7. The record transform of LogCollector as an operator on abstract records,
   checked against a reference definition.
8. Composition of `EchoServer` and `MqReceiver` over the shared channels, and of
   `MapEvents` with the parts that use it.
9. Proofs of every invariant and step property the runs check. *(done)*

The runs stay few: one that checks safety and one that checks liveness per
module, and one per documented claim the code contradicts.

## 3. What is modelled

### LogIndexer (and LogDelivery)

One Kafka partition of the audit topic, and a set of collector processes in the
group `log-collector`. State and actions against the code:

| model | code |
|---|---|
| `Boot` | `ElasticSearchClient.init`, `LogIndexExecutor.init` (consumer created and subscribed) |
| `Start` | `MainExecutor.afterPropertiesSet`: the worker thread |
| `CheckRunning` | `while (isRunning)` |
| `PollFetch`, `PollJoin`, `PollIdle`, `PollRevoke`, `PollThrows` | `kafkaConsumer.poll(1000)` and the record loop that builds `logList` |
| `IndexLog`, `IndexLogClosed` | `elasticSearchClient.indexLog`, on an open and on a closed client |
| `Stop`, `Close`, `Halt` | Spring's shutdown hook: `MainExecutor.destroy`, then the client bean it depends on, then the JVM halts without joining the worker or closing the consumer |
| `Crash` | the process dies between any two steps |
| `CommitLands`, `ExpireSession`, `EvictMember` | the group coordinator |

The record loop touches only locals, so it is one step with the poll. Records
are reduced to their kind (`AllKinds`), which decides whether a document is
made. `processed` and `skipped` are history: what was dropped by the transform
or sent through an open client, and what `auto.offset.reset = latest` passed
over because the group had no committed position. Auto-commit is the client
library's: `poll` may send the position *before* it fetches, the commit lands
later or never, and the coordinator refuses it from a member it has dropped.
A bulk request may store any subset of its documents; the code only logs what
failed, so "processed" means *sent*, and the model does not claim that
Elasticsearch has everything.

`LogDelivery` is what a producer may rely on: an acknowledged prefix that only
grows, over settled records only.

### MqReceiver

The durable queue `MqListenerQueue`, the listener's connection and its
recovery, the broadcast, and the client channels. `Begin`, `Visit`, `EndLoop`
and `AckRound` are the four moments of `broadcastMsgAndAck`: the iteration over
the group is taken channel by channel, because channels join and close while it
runs, and the acknowledgement comes from another thread when the group future
is done - which is at once when the group is empty. `Flush` and `Close` happen
on each channel's event loop. After a lost connection the broker puts the
unacknowledged message back, recovery makes a new connection with the same
prefetch, and acknowledgements of the old connection's tags are ignored; an old
handler may still be in its loop. `overlapped` records that this happened: a
connection came back while the lost one's handler was busy. The code does not
exclude it, and the two properties that need it not to have happened say so; in
practice the loop never blocks and recovery waits five seconds by default. A
server crash closes every channel and takes the deliveries back. Echoes share the outboxes in the program; they are left out here because
they neither delay nor reorder broadcasts of the same channel.

### EchoServer

Each channel's event loop takes whole messages from Netty's frame decoder
(`FrameArrives`), runs `MessageDecoder.decode` until it makes no progress
(`Decode`), and for each decoded message `channelRead`: `Send` (through the one
`MqSender` all channels share, whose channel may be missing, open or
recovering) and `Echo`. `Decodable` is the decoder's arithmetic: the bytes left
after the length field against a length that counts the header. `HasArray` is
`ByteBuf.array()`, which a direct buffer does not have (Netty's default on the
usual platforms): the variable `heap`, chosen in `Init`, says on which platform
a behaviour runs, so every run covers both. An exception closes the client.
`basicPublish` returns when the message is written to the connection, and
`MqSender` asks for no confirms: `published` is what was written, of which the
broker has read the first `taken` (`BrokerTakes`). The rest is on the way, and goes
to `lost` when the connection fails (`LoseBroker`); nobody logs it and the client,
who was echoed, stays connected. `OneFatePerMessage` says that this is the only
silent loss.
Clients send well-formed messages only. `readable` is what the
decoder's buffer has counted: the bytes that arrived and were not decoded.

### TileService (and TileReads)

| model | code |
|---|---|
| `Ask`, `Leave`, `WriteTile` | clients that pipeline requests and disconnect; whoever fills the tile database |
| `executor`, `Serves`, `Takes` | `MapHttpServer`: the handler is added with a `DefaultEventExecutorGroup`, which gives each channel one thread for good |
| `ReadMalformed`, `ReadOther`, `ReadTile` | `HttpServerInboundHandler.channelRead` and the URL forms: an exception that is only logged, 204, or a tile |
| `Hit`, `Join`, `Miss`, `Complete`, `Store` | `MapCache.getMapCacheTile`: Guava's `get(key, loader)`, entered as a hit, a wait for another thread's load, or a load; null becomes an exception that the code answers like null |
| `Connect`, `ConnectFails`, `Query`, `QueryFails` | `MapDbOperation.getTile` with the Hikari pool and its try-with-resources |
| `Respond`, `Reply` | the tile or 204, and the close when keep-alive was not asked for |

Images are version numbers, 0 for no row. `KeyOf` is the key's real equality:
`MapRequestParam.equals` compares the database types with `==`, so in the query
form, where the type is one literal, equal tiles have equal keys, while in the
path form the type is a substring made for the request and its key equals no
other - the model puts the request itself in the key. Guava evicts by segment, so
`Store` may drop any one entry before the cache is full, and must when it is.
With SQLite every load opens a connection of its own and the pool does not
apply; the pool's actions then have no counterpart and the rest is the same.

`TileReads` is what a client may rely on: within one form of request the answers
for a tile never go back to an older image.

### PoiExporter

Each POST to `/data/index` (`Start`) deletes the index, puts its mapping, creates
it (`Clear`, `CreateIndexMapping`, `CreateIndex`) and starts a thread that takes a
connection, increments the one counter and queries a page (`Connect`, `Increment`
- two steps, as `++` on a field is -, `Query`) until a page is empty. Each request
may fail, applied or not, within `MaxFaults`. The mapping comes before the index
it is for: Elasticsearch refuses it, the client throws past its handler, and the
export does not begin - except when the deletion or the mapping failed. So in the
ordinary case nothing is exported at all, and `excused` records the failure that
let an export begin. Documents are left out: `getIndexRequest` calls the varargs
form of `source`, which throws for an odd number of values, so none is ever made;
`indexPoiDataList` catches that and the loop goes on with the next page.

### The map page

The page loads `leaflet.js`, the minified build of `leaflet-src.js`, which is the
text the modules follow. The station search is the page's own. `locate.js` is
loaded (`map.ftl:25`) although the page adds no such control.

| module | code | model |
|---|---|---|
| `MapEvents` | `L.Mixin.Events` | one emitter and event type: the listeners of the emitter itself and, per other context, in an index whose size is counted apart. Dispatch copies a list and calls listeners which add, remove, clear and fire in turn (a stack of dispatches) |
| `MapView` | `L.Map.setView`, `panBy`, `PosAnimation` and its fallback, animated zooms, `_onResize`, path viewport, zoom buttons, `Popup._adjustPan` | places on one axis; every frame, timer and transition event is pending until it runs; frames run in order, timers whenever |
| `MapTiles` | `L.TileLayer` and its zoom animation | tiles being loaded, behind in the background buffer, stopped or stray; the counter `_tilesToLoad`; the buffer and its timer; desktop and mobile |
| `MapSearch` | `map.ftl`, `leaflet-search.js` | areas drawn, answers in any order, the markers they leave; keys, tips, the timer of the last key, the alert, the intervals of animations |
| `MapPointer` | `Draggable`, `Map.Drag`, `BoxZoom`, `ScrollWheelZoom`, `Keyboard`, `TouchZoom`, `Tap`, double tap | buttons or fingers, in any order, with releases lost outside the window and touches cancelled; frames and timers of drags, glides, pinches and zoom animations |
| `MapGeometry` | `L.Bounds`, `LineUtil`, `PolyUtil`, `Polyline`, `Polygon` | the functions as operators, over a shape drawn point by point, in coordinates fine enough for exact division |
| `MapOverlays` | `L.Marker`, `L.Popup`, `LayerGroup`, `FeatureGroup`, `Map.openPopup` and `closePopup`, `Control.Layers` | markers and popups with the four places that record them; base layers and their inputs. The drawing plug-in (minified) is external: it deletes, restores and edits |
| `MapLocate` | `locate.js`, `L.Map.locate` | the three flags, button, circle and watch |
| `WebGis` | all of them with `PoiExporter` | the parts side by side; `scene` says which one moves |

No part reads another's variables: what it gets from the others - a moveend, a
request to pan, an answer - is a free choice of its own environment. Where a part
depends on a state another one keeps, it carries its own abstraction of it: the
pointer, the tiles and the location control each have the animated zoom of the
view (its start, its end, the frame that sets the zoom), because what they ask of
the map meanwhile is refused or overtaken. `WebGis` takes one part at a time, with
the others in their initial state; it is one specification so that they are
checked together. What two parts do to each other beyond these abstractions is not
checked.

Requests the view does not heed. A zoom asked for while an animated zoom runs is
taken by it unread (`leaflet-src.js:8881`), and one asked for between its end and
the frame that sets it is overtaken by that frame. `MapView` records every request
(`asked`) and whether a zoom was pending then (`overtaken`): the zoom that is set
in the end is the one asked for last, or that of the pending animation. The
location control asks for its view once (`locate.js:110-113`), so such a request is
lost: `LocateAgrees` says that the location is shown unless that happened (`shows`
is the spot to be shown, and none after the request was lost). `MapPointer` has the
same zooms for boxes (`MouseUp`), keys and the wheel, ended by a timer (`AnimTimer`,
possibly of an earlier zoom) or by a transition (`CatchTransitionEnd`). In
`MapTiles`, `LimitExec` and `Unlock` are `L.Util.limitExecByInterval`: an update at
the first `move`, then one each 150 ms while more come. `BufferKept` is about the
timer that clears the scaled tiles; a view that is reset at once (`HardReset`)
throws them away with all others, as it should. `ClickOrDrag` says that a press is
never both a click and a drag, not that it is one of them.

Observed fields record what the code does not: that a request was overtaken, an
answer mixed in, a press joined by another or a release lost. They are never read
by a guard of the code, and each property that names one says thereby that this
is the *only* cause of what it excludes. In particular the page does have these
defects, which no text in the repository denies: markers of an earlier area are
added when its answer is late (`mixed`); the timer of the last key opens the tips
under a collapsed control (`lateSearch`); an animation begun over another leaves
an interval running for good (`overlapped`); a second button pressed while
dragging leaves a drag without an end (`again`); `load` fires early or never
after a load that was stopped (`lost`, `early`); a request for a view is lost to an
animated zoom that is not set yet (`overtaken`, `shows`).

## 4. Runs

| run | bounds | what it shows |
|---|---|---|
| `log_safety` | 2 collectors, 2 records, indexed or dropped, batches of up to 2, 2 boots, 1 rebalance | `CommittedIsProcessed`, `DuplicatesNeedHandover`, `CommittedMonotone`, the inductive invariant `Accounted`; `LogDelivery` implemented |
| `log_live` | 2 collectors, 1 record, 2 boots, 1 rebalance, no symmetry | `EventuallyProcessed` |
| `mq_safety` | 2 clients, 3 messages, 2 connections | `AckedReached`, `OutboxBounded`; `InQueueOrder` and `OneMessageBuffered` unless `overlapped` |
| `mq_live` | 1 client, 3 messages, 2 connections | `EventuallyAcked` |
| `mq_consumed` (violated) | 1 client, 1 message | the comment "manually ack to MQ server when message is consumed" |
| `echo_safety` | 2 clients, 4 messages of lengths 5 and 9 between them, 1 connection loss, both kinds of buffer | `PublishedInOrder`, `OneFatePerMessage`, `LagsByOne`, `EventuallyDecoded` |
| `echo_whole` (violated) | 1 client, 2 messages | "decode the message": the last message never is |
| `tile_safety` | 2 threads, 2 connections, 1 tile, every form of request, 3 requests, at most 2 on a connection, 2 versions, a cache of 1, a pool of 2 | `SingleFlight`, `PoolSuffices`, `RepliesInOrder`; `TileReads` implemented |
| `tile_live` | the same without the path form, 1 version, no symmetry | `EventuallyAnswered` |
| `tile_reload` (violated) | 1 thread, 1 connection, 2 requests in the path form | a cached tile is not loaded again |
| `web_gis` | per part, see below | the safety of the map page and of the exporter, part by part |
| `view_refreshed` (violated) | 2 places, 2 zooms, 3 requests | the comment "the view will refresh after animation anyway" |

Why the bounds are enough. In `LogIndexer` every interesting step involves at
most one owner, one former owner and one batch boundary: two collectors, two
boots (both up, or one of them twice) and two records give a takeover in
the middle of the log with a zombie, a dead session and an in-flight commit. In
`MqReceiver` two connections give one redelivery and three messages let a
window of two be wrong; two clients let one be slow, late or gone while the
other goes on. In `EchoServer` three messages are two decoding steps and a
remainder, of the shortest and of a longer length. In `TileService` three
requests on two connections give a load, a thread that joins it, and a client
that asks again after the image was replaced; one cache entry makes every store
an eviction. In `WebGis`: `MapEvents` has three registrations of one function over
the emitter and two contexts, in dispatches two deep, so that a listener can
remove one before, itself and one after, from an inner dispatch and from an outer
one. `MapView` has two places, zooms and window sizes and four requests: one
animation, one that overtakes it, a resize and a popup or pan beside them. A tile
layer has two areas that share a tile, two loads left behind and one stopped;
the search two titles, of which one completes a text and both match another, two
areas drawn and two animations; the pointer two positions and two presses: a button or finger and a second one during the drag or after it, or two fingers at
once and again. A line or ring of up
to three points on a 4 x 4 grid has points in, on the edge and on each side of the
view; lines to simplify have up to five points, two levels of division. Of the
pointer's and the location control's animated zooms two may be under way at once,
so that a timer or frame of one meets the next; of clicks on the layers control
too. What is typed may be no regular expression, upon which the search throws. Three
markers and two sites let one popup close by another; three spots are where the
user was, is and looks. Two exports of two pages, with two failures, follow or
meet each other. Every bound is a constant named in the guards (`MaxLog`, `MaxPoll`, `MaxBoots`, `MaxRebalances`;
`MaxMessages`, `MaxEpochs`; `MaxFrames`, `MaxLosses`;
`MaxRequests`, `MaxTotal`, `MaxVersion`; `MaxListeners`, `MaxStores`, `MaxDepth`,
`MaxMissed`; `MaxAsks`; `MaxStrays`, `MaxLost`; `MaxDraws`, `MaxAnims`;
`WheelMax`, `MaxPresses`, `MaxStale`, `MaxZooms`; `MaxClicks`; `MaxEnds`; `ShapePoints`, `PathPoints`;
`MaxFaults`). Deadlock is not checked:
when the bounds are used up, or a listener has failed for good, these systems
do stop.

Fairness. `LogIndexer`: weak fairness of the worker thread and of each shutdown
step once begun (hooks return), of session timeouts; strong fairness of a
successful join and of a fetch that returns the records there are, because a
poll may come back empty any finite number of times in between. No fairness for
boot (the compose file restarts nothing), stop or crash: `EventuallyProcessed`
supposes that some collector stays up. `MqReceiver`: the broker delivers,
recovery retries, handler threads and the event executor run, clients read from
their sockets. The last is an assumption about clients that the code does not
enforce: `HeartBeatHandler` only logs idle clients, so one that stops reading
holds the whole queue. `EchoServer`: event loops run.
`TileService`: each handler thread takes a step when it can (a query or the wait
for a connection ends, with an answer or an exception); clients and the database
owe nothing. `WebGis` states no fairness: a user and a hidden tab owe the page
nothing, and its properties are about what holds once nothing is pending.

Faulty variants of single definitions (marked so in the modules) accompany the
properties; each makes its property fail under the same configuration.

## 5. Disagreements found

* `mq_consumed`: a message that arrives while no client is connected - or whose
  writes all fail - is acknowledged and gone (`MqReceiver.java:75-78`).
* `echo_whole`: `MessageDecoder.java:23` compares the bytes after the length
  field with a length that includes it. A message is decoded only when four more
  bytes have arrived; the last message of a connection is never published.
  `LagsByOne` states the consequence exactly.
* `tile_reload`: `MapRequestParam.java:62` compares strings by reference, so a
  tile asked for in the path form is loaded on every request, and each load
  leaves an entry that can only push useful ones out of the cache.
* `view_refreshed`: `setView` cancels the timer of a resize because an animated
  move will end with a moveend (`leaflet-src.js:8703`). When the view asked for is
  the one the map has, `_tryAnimatedPan` takes the request and `panBy` returns at
  once on an offset of zero: the move of the resize has no moveend, so tiles and
  paths are not brought up to date until the next one.

## 6. Proofs

The theorems hold for every value of the constants, under the assumptions that
the modules state beside them. They hold of the parts of the map page and, by
`PageRunsItsParts`, of the page.

### LogIndexerProofs

For any set of collectors and any bounds:

* `TypeCorrect`: the type invariant.
* `AccountedInvariant`: the inductive invariant `Accounted`. The safety property
  `CommittedIsProcessed` is not inductive: one must know why the position a
  member sends is safe when it is sent. `PositionSettled` says where each worker
  is relative to what is settled (the batch is outstanding only while indexing;
  when a closed client has refused it, `isRunning` is already false, so the loop
  cannot reach another poll). `CommitsSettled` carries that fact through the
  commit in flight, and orders commit, position and group offset for the owner.
  `WithinLog` bounds everything by the log. The proof has one lemma for the
  broker's, the process's and the worker's steps.
* `CommitIsSafe`, `CommitIsMonotone`: the two safety properties, from it.
* `DeliveryImplemented`: every step is a step of `LogDelivery` or a stutter.
* `DuplicatesTakeHandovers`: `DuplicatesNeedHandover`, by counting. `Attributed`
  says that the documents of a record and the members still able to store it
  (those that hold it in a batch, and the owner while the record is ahead of its
  position) are together no more than the assignments of the partition. A poll
  moves the owner from one kind to the other, a bulk request turns a member into
  a document, and only an assignment adds one.

Assumptions: `None` is not a collector, `Kinds` is a subset of `AllKinds`, the
bounds are natural numbers.

### MqReceiverProofs

For any clients, messages and connections:

* `TypeCorrect`, with `WithinQueue`: what is being broadcast was published.
* `AckedMessagesReached`: `AckedReached`, from `VisitedWritten` - a round has been
  written to each of its clients that the loop has come to and that stays.
* `BuffersBounded`: `OutboxBounded`. `OneInWork`: of the deliveries of a connection
  one at most is in work, and none once the broker waits for nothing (the
  prefetch of one). `OnePerConnection`: so a channel buffers one copy of each.
* `SentInQueueOrder`, `OneMessageAtATime`: `InQueueOrder` and
  `OneMessageBuffered`. `HandedInOrder`: a message is handed out when all before it
  are acknowledged. `Undisturbed`: unless `overlapped`, what is in work belongs to
  the present connection and is not acknowledged; rounds begin, and each channel
  is written, in the order of connections and messages; a channel once written to
  is part of all later rounds; and what is buffered is not acknowledged. None of
  these five holds without the others.

Assumption: `ReceiverAssumption` (the bounds are natural numbers).

### EchoServerProofs

For any clients and lengths:

* `TypeCorrect`, with `Looping`: where a client's event loop is tells what its
  decoder's buffer holds - nothing, the last message that arrived, or that and
  the one before it. That bound of two is what makes the decoder's arithmetic
  exact, and `AlwaysOneBehind` (`LagsByOne`) follows.
* `PublicationKeepsOrder`: `PublishedInOrder`, with `PublishedDecoded`: what the
  broker has of a client was decoded, and the message in hand is not yet there.
* `EveryMessageHasOneFate`: `OneFatePerMessage`, from `AllSettled`: on an open
  channel every decoded message but the one in hand is published, logged as unsent
  or lost on the way; and `OneFate`: no message is two of these.

Assumption: `EchoAssumption` (a length counts its header; bounds are natural
numbers).

### TileServiceProofs

For any threads, connections, tiles, requests and sizes:

* `TypeCorrect`: the type invariant, together with `JobsTaken` - without knowing
  that a busy thread's job is a request handed to it, the thread's key is not
  even well typed.
* `LoadsAreSingleFlight`: `SingleFlight`. A thread's key does not change while
  it is busy (a connection's requests are only appended to), and a load begins
  only by `Miss`, which finds nobody loading the key.
* `PoolNeverExhausted`: `PoolSuffices`, from `LeasedWhileQuerying`: the leased
  connections are those of the threads inside a query, and a thread that wants
  one is not among them.
* `AnswersInOrder`: `RepliesInOrder`. `AtWork` says that a busy thread works on the
  last request taken from a connection that is its own; so up to that request, or
  the one before it, all that can be answered is (`AllAnswered`).
* `ReadsImplemented`: every step is a step of `TileReads` or a stutter. A reader
  never goes back because each place a version passes through - the database, the
  cache, the load under way, the answers in hand, the readers' views - is at least
  as new as those it passes it on to (`Fresh`). That needs one entry for each key,
  no entry while the key is loaded, no entry yet for a path-form request, and a
  waiting thread to wait for a load of its key that is not complete (`Placed`).

Assumptions: `RequestsAssumption` (what a request is), `SizesAssumption` (the
bounds and sizes are natural numbers, the cache is not empty) and
`PoolAssumption`: there are no more handler threads than pooled connections, as
in the code (`MapHttpServer.java:39` and `MapDbOperation.java:50`: 32 and 32).

The proofs about the page are in four modules. `MapEventsProofs` has what the others
need as well as the event mixin; `MapPartsProofs` has all parts but the shapes, which
are in `MapShapeProofs`; `MapPageProofs` puts them together.

### MapEventsProofs

What the page computes from a list is a fold over it, or a function that calls
itself. The library's induction theorems take an operator as a parameter, so the
induction is rebuilt in first-order form: `SetInduction` and, with it,
`BelowInduction`, of sets of numbers, from the least element of a well-founded
relation (`WFMin`). `HasSteps` says that a fold has a table of its intermediate
results; a fact about a fold is then an induction over the rows of the table.

* `CountAlwaysFollows`, `RemovedNeverCalled` and `EmitterTypeCorrect` of `MapEvents`.
  `StoresFollow`: the store in use counts the contexts of its index, and a listener
  removed by its function does nothing any more, although copied lists still hold
  it. With `Dispatches` (what the dispatches that run are) this makes
  `RemovedNotCalled` an invariant of steps. The types are `EvTyped`: numbers stay
  within their bounds, and a running dispatch is what a dispatch may be.

Assumptions: there are finitely many foreign contexts, and neither the emitter nor
the absence of a context is one (`ForeignAssumption`); the bounds are natural
numbers (`DispatchesAssumption`).

### MapPartsProofs

* `PointerTypeCorrect`, `HandlersLetGo` (`HandsOff`), `GrabbedPointStays`
  (`GrabbedPointHeld`) and `PressClicksOrDrags` (the action property `ClickOrDrag`),
  all from one invariant, `PtInv`: a part for each handler says what a flag that is
  still set stands for (a button or finger that is down, a frame or a timer to
  come), and what excuses it (`again`, `lost`, `joined`). An event runs the handlers
  one after the other on one record; for each handler a predicate tells which
  fields it changes and a lemma proves it.

  The attempt to prove `GrabbedPointHeld` showed that it had been stated too
  strongly, and that two positions of the pointer were too few for TLC to find out:
  once a second finger has come down during a drag, the pane need not follow
  the first. The property now leaves that case out. The run keeps two positions,
  because a third multiplies the states of this part by thirteen; the part alone
  holds with three (711,444 states), and the theorem covers any.
* `OverlaysAlwaysAgree` (`OverlaysAgree`) and `OverlayTypeCorrect`, for any markers,
  places and base layers. `PopupsAlwaysAgree` is the part about markers: the
  invariant `Agree` is stated of any value of the state, because the code's
  functions call each other on the way (`togglePopup` closes one popup, which
  removes a layer, which closes a popup); it adds that only markers with a popup
  show one, and that edit mode has places to go back to. The layers control goes
  through its inputs one after the other; what is on the map after any number of
  them is an induction over the inputs (see `MapEventsProofs`).
* `LocateTypeCorrect` and `LocateAlwaysAgrees`. `LocateAgrees` is inductive but for
  its last conjunct, which is of the time when no zoom is under way: `Heading`
  says that the view, or the zoom still to be set, is the spot to be shown, and
  `FirstAwaited` that the first location of all finds `onNext` set.
* `ViewTypeCorrect` and `ViewSettles` (`QuietMeansSettled`), for any zooms, places,
  sizes and requests, with transitions and without. The property speaks of quiet
  states only, so its invariant `VwInv` must say what is still to come in the
  others. `Begun`: an animated zoom has a timer to end it, or the frame that starts the timer; what
  dragging, paths and listeners wait for is an animated zoom not set yet, or a
  pan. In the queue of frames the end of a zoom comes after its start
  (`EndsLater`), although the frame of a resize may be taken out from between and
  put at the end. `ZoomAsked`: until then the zoom to be set is the one asked for
  last, or that request was overtaken; after it the zoom is the one or the other. `PathsFollow`: paths are drawn where the map is
  unless a moveend is to come. `PopupShown`: the popup is in view where the pane is
  going.
* `LayerTypeCorrect`, `CounterAlwaysExact`, `ScaledTilesKept` of `MapTiles`. The
  invariant is `TlInv`. `Exact` is `CounterExact` of any state of the layer, in the
  form `ExactBut`, which also says how far the counter is off while a load that
  has arrived is not counted yet. `Scaled` tells which timers may clear the scaled
  tiles; `BufferKept` is an action property and follows from it.
* `MarkersAreOfLastArea`, `TipsStayUnderInput`, `IntervalsAlwaysEnd` and
  `SearchTypeCorrect` of `MapSearch`, from `SeInv`: `LastDrawn`, `Tips` and
  `Intervals`. The last is more than its property: while no animations overlapped,
  an interval that runs is the one the circle has the name of.
* `ExporterTypeCorrect` and `ExportAlwaysReadsTable` of `PoiExporter`, for any starts,
  pages and failures. The invariant has two parts that `ExportsTable` needs and does
  not say: `IndexKept` (an index present after a deletion was kept or created by an
  export that had its excuse) and `OneByOne`: while no two threads have met, one at
  most is between its reads of the counter, and every page up to the counter was
  read once or failed.

Assumptions: `PositionsAssumption`, `WheelMaxAssumption`; `NoMarkerAssumption`,
`SitesAssumption`, `NoSpotAssumption`, `SupportsAssumption`; the base layers are a
sequence that holds the one the map is created with (`BaseLayersAssumption`); zooms
are an interval of integers (`ZoomsAssumption`); places and sizes are integers, a
popup's width and padding natural numbers (`PlacesAssumption`, `HalvesAssumption`,
`PopupAssumption`); what is visible of an area is finite (`VisibleAssumption`);
answers are sequences of titles (`AnswersAssumption`); an animation has at least one
tick (`TicksAssumption`); bounds and the number of pages are natural numbers
(`DrawsAssumption`, `PagesAssumption`).

### MapShapeProofs

`ShapesDrawnAsGiven` (`DrawnAsGiven`), for any grid, view and number of points: what
the clip leaves of a line or a polygon is exactly what lies in view of it, and
what is drawn is that, simplified within the tolerance. The proof is of every
point of the plane, the samples and probes of the property are for TLC. Its
argument:

* `SimplifyingStaysWithin` (`SimplifiedWithin`): simplifying keeps the ends and stays
  within the tolerance, for a whole line, each part of a line in view and each
  ring of a polygon (`Polygon` inherits `_updatePath`). `MarkedFollow` goes by induction over the length of a
  stretch: with each marked point its two halves are done, so between neighbours
  that are marked every point is near their segment.
* `ViewDecides`: `BoundsDecide` - what lies within the view is drawn whole, of what
  lies apart from it nothing is - and everything drawn of a line or polygon is in
  view. The clip of a segment ends within its four steps because each one takes an
  end nearer to the view (`Rank`), and the crossing with a side lies between the ends
  (`SideCrossing`).
* Where a segment crosses a side is exact, not rounded (`ExactCrossing`): the distance
  of two grid coordinates divides the unit (`ExactAssumption`), so every segment
  of the shape has `Meets`, and so has what the clip leaves of it.
* A line (`LineIsExact`): the clip of one segment leaves a piece of it that still has
  every point of it in view (`LeavesOf`). `DrawnUpTo` is then carried over the
  segments: after each, the points of the parts are on the line, and the parts
  cover what is in view of the line up to there, but for what the part that is
  still open goes on to with the next segment.
* A polygon (`PolygonIsExact`): a point is inside when a ray from it crosses an odd
  number of edges. To clip against one side is to walk along the ring and beside it
  along the new ring; `Walked` says that both have crossed the ray equally often up
  to an even number, not counting the edge from the one walker to the other.
  Both end where they began, so the parity is the same, and the four sides,
  one after the other, keep it for every point strictly in view
  (`PolygonKeepsInside`).
* `ShapeInvariant`, for any grids, units and views.

Assumptions: grids are integers, the view is not turned inside out, the unit is
positive and a multiple of every distance of two grid coordinates (`ExactAssumption`:
the model counts in units so fine that the code's divisions leave no rest; four
coordinates and a unit of six in the run), tolerance and numbers of points are
natural numbers.

### MapPageProofs

`PageRunsItsParts`: a behaviour of `WebGis` is one of each part's specification. With
it, `PageTypeCorrect` (`WgTypeOK`) and `PageKeepsItsPromises`: the properties proved of
the parts hold of the page.

### Only model-checked

All liveness (`EventuallyProcessed`, `EventuallyAcked`, `EventuallyDecoded`,
`EventuallyAnswered`): outside the prover's reach. Every invariant and every
property of steps that a passing run checks is proved.

## 7. Not modelled, and why

* `MysqlIndexExecutor` and `RedshiftIndexExecutor`: nobody calls them, and their
  services need `index.es.cluster.address`, which the shipped properties do not
  set. Their counters differ from `PoiIndexExecutor`'s (Redshift's starts at one
  and skips the first page: `FirstPageOne` in `PoiExporter`).
* The bulk processor (no document reaches it), the scroll loop (nobody calls it)
  and the searches and aggregations of the Elasticsearch client, which only build
  requests.
* The start and stop of the two Netty servers: each is a sequence that runs once.
* Of Leaflet: projections and the formatting of coordinates, the canvas and VML
  renderers, pointer events of Internet Explorer, the registry of DOM listeners,
  `maxBounds`, the counter of tile layers (`tilelayersload`), attribution and
  scale, DOM and style sheets. The drawing plug-in is shipped minified only.
  The other plug-ins (`proj4js`, `proj4leaflet`, `animatedmarker`,
  `mouseposition`) compute or show one value each.
* Of the search control: jsonp, ajax and filter options, which the page does not
  use.
* Beans, configuration and properties readers, Swagger, log formatting,
  single-statement database access.
