---------------------------- MODULE TileService ----------------------------
(***************************************************************************)
(* MapHttpService: HTTP clients ask for map tiles. HttpServerInboundHandler*)
(* runs on a pool of handler threads, looks each tile up in MapCache, and  *)
(* MapDbOperation loads it from the database when it is not there.         *)
(*                                                                         *)
(* rows       the version of each tile in the database, 0 for no row       *)
(* asked      the requests decoded on each connection, in order            *)
(* taken      how many of them have been handed to the handler             *)
(* replied    the positions in asked of those answered, in answer order    *)
(* open       the connections still open                                   *)
(* view       the version last sent, by connection and form, for each tile *)
(* executor   the handler thread Netty gave each connection                *)
(* pc, job    what each handler thread does, and for which request         *)
(* tile       the version the thread has obtained, 0 for none (null)       *)
(* loader     the thread whose load a waiting thread has joined            *)
(* cache      the entries of the Guava cache                               *)
(* leased     the threads that hold a database connection of the pool      *)
(***************************************************************************)
EXTENDS Integers, Sequences, FiniteSetsExt

CONSTANTS Threads,       \* handler threads (DefaultEventExecutorGroup)
          Conns,         \* HTTP connections
          Tiles,         \* map tiles (x, y, zoom) of one database type
          Requests,      \* the requests clients send
          PoolSize,      \* maximumPoolSize of the Hikari pool
          CacheSize,     \* maximumSize of the Guava cache
          MaxRequests,   \* bound: requests on one connection
          MaxTotal,      \* bound: requests on all connections together
          MaxVersion     \* bound: versions of one tile

\* /dbType/z/x/y; ?x=..&y=..&z=..; a legal URL of neither form; a URL whose
\* percent encoding QueryStringDecoder cannot decode.
Forms == {"path", "query", "other", "malformed"}

ASSUME RequestsAssumption == Requests \subseteq [form : Forms, tile : Tiles, keepAlive : BOOLEAN]
ASSUME SizesAssumption ==
    /\ PoolSize \in Nat /\ CacheSize \in Nat \ {0}
    /\ MaxRequests \in Nat /\ MaxTotal \in Nat /\ MaxVersion \in Nat
ASSUME PoolAssumption == IsFiniteSet(Threads) /\ Cardinality(Threads) <= PoolSize

VARIABLES rows, asked, taken, replied, open, view, executor, pc, job, tile,
          loader, cache, leased

connVars   == <<asked, taken, replied, open, view, executor>>
threadVars == <<pc, job, tile, loader>>
vars == <<rows, asked, taken, replied, open, view, executor, pc, job, tile,
          loader, cache, leased>>

Versions == 0..MaxVersion
Readers  == Conns \X Forms
Job      == Conns \X (1..MaxRequests)
Key      == [dbType : Job \cup {<<>>}, tile : Tiles]
LoadingPc == {"connect", "query", "loaded", "store"}

TypeOK ==
    /\ rows \in [Tiles -> Versions]
    /\ asked \in [Conns -> Seq(Requests)]
    /\ taken \in [Conns -> 0..MaxRequests]
    /\ \A k \in Conns : taken[k] <= Len(asked[k]) /\ Len(asked[k]) <= MaxRequests
    /\ replied \in [Conns -> Seq(1..MaxRequests)]
    /\ open \subseteq Conns
    /\ view \in [Readers -> [Tiles -> Versions]]
    /\ executor \in [Conns -> Threads]
    /\ pc \in [Threads -> {"idle", "get", "wait", "respond"} \cup LoadingPc]
    /\ job \in [Threads -> Job \cup {<<>>}]
    /\ tile \in [Threads -> Versions]
    /\ loader \in [Threads -> Threads]
    /\ cache \subseteq [key : Key, version : 1..MaxVersion]
    /\ Cardinality(cache) <= CacheSize
    /\ leased \subseteq Threads

Init ==
    /\ rows = [t \in Tiles |-> 0]
    /\ asked = [k \in Conns |-> <<>>]
    /\ taken = [k \in Conns |-> 0]
    /\ replied = [k \in Conns |-> <<>>]
    /\ open = Conns
    /\ view = [r \in Readers |-> [t \in Tiles |-> 0]]
    /\ executor \in [Conns -> Threads]
    /\ pc = [th \in Threads |-> "idle"]
    /\ job = [th \in Threads |-> <<>>]
    /\ tile = [th \in Threads |-> 0]
    /\ loader = [th \in Threads |-> th]
    /\ cache = {} /\ leased = {}

-----------------------------------------------------------------------------
(* The environment: clients, and whoever fills the tile database.          *)

TotalAsked == MapThenSumSet(LAMBDA k : Len(asked[k]), Conns)

\* A client sends a request, possibly before the previous one is answered.
Ask(k) ==
    /\ k \in open /\ Len(asked[k]) < MaxRequests
    /\ TotalAsked < MaxTotal
    /\ \E r \in Requests : asked' = [asked EXCEPT ![k] = Append(@, r)]
    /\ UNCHANGED <<rows, taken, replied, open, view, executor, threadVars, cache, leased>>

\* A client closes its connection; requests already decoded are still handled.
Leave(k) ==
    /\ k \in open
    /\ open' = open \ {k}
    /\ UNCHANGED <<rows, asked, taken, replied, view, executor, threadVars, cache, leased>>

\* A tile is added to the database, or its image replaced.
WriteTile(t) ==
    /\ rows[t] < MaxVersion
    /\ rows' = [rows EXCEPT ![t] = @ + 1]
    /\ UNCHANGED <<connVars, threadVars, cache, leased>>

-----------------------------------------------------------------------------
(* HttpServerInboundHandler.channelRead: reading the URL, and the answer.  *)

\* Faulty variant: the handler is given to a pool without a fixed thread per channel.
AnyThread(th, k) == TRUE

\* All of a channel's reads run on the thread the group assigned to it.
Serves(th, k) == executor[k] = th

Conn(th)    == job[th][1]
No(th)      == job[th][2]
Request(th) == asked[Conn(th)][No(th)]

\* The next request of k is handed to the handler.
Takes(th, k) ==
    /\ pc[th] = "idle" /\ Serves(th, k) /\ taken[k] < Len(asked[k])
    /\ taken' = [taken EXCEPT ![k] = @ + 1]

Next1(k) == asked[k][taken[k] + 1]

\* The answer to request n of connection k is written; a client that did not
\* ask to keep the connection finds it closed.
Reply(k, n) ==
    /\ replied' = IF k \in open THEN [replied EXCEPT ![k] = Append(@, n)] ELSE replied
    /\ open' = IF asked[k][n].keepAlive THEN open ELSE open \ {k}

\* QueryStringDecoder throws: the exception is logged and nothing is answered.
ReadMalformed(th, k) ==
    /\ Takes(th, k) /\ Next1(k).form = "malformed"
    /\ UNCHANGED <<rows, asked, replied, open, view, executor, threadVars, cache, leased>>

\* A URL of no known form: 204 No Content.
ReadOther(th, k) ==
    /\ Takes(th, k) /\ Next1(k).form = "other"
    /\ Reply(k, taken[k] + 1)
    /\ UNCHANGED <<rows, asked, view, executor, threadVars, cache, leased>>

\* A request for a tile.
ReadTile(th, k) ==
    /\ Takes(th, k) /\ Next1(k).form \in {"path", "query"}
    /\ job' = [job EXCEPT ![th] = <<k, taken[k] + 1>>]
    /\ pc' = [pc EXCEPT ![th] = "get"]
    /\ UNCHANGED <<rows, asked, replied, open, view, executor, tile, loader, cache, leased>>

\* channelRead returns: the thread is free, its locals are gone.
Finished(th) ==
    /\ pc' = [pc EXCEPT ![th] = "idle"]
    /\ job' = [job EXCEPT ![th] = <<>>]
    /\ tile' = [tile EXCEPT ![th] = 0]
    /\ loader' = [loader EXCEPT ![th] = th]

\* Faulty variant: only a tile is answered, the 204 is lost with it.
RespondWithTile(th) ==
    LET reader == <<Conn(th), Request(th).form>>
        sent == Conn(th) \in open /\ tile[th] # 0
    IN  /\ pc[th] = "respond"
        /\ IF tile[th] # 0 THEN Reply(Conn(th), No(th)) ELSE UNCHANGED <<replied, open>>
        /\ view' = IF sent THEN [view EXCEPT ![reader][Request(th).tile] = tile[th]] ELSE view
        /\ Finished(th)
        /\ UNCHANGED <<rows, asked, taken, executor, cache, leased>>

\* The tile is sent, or 204 when there is none.
Respond(th) ==
    LET reader == <<Conn(th), Request(th).form>>
        sent == Conn(th) \in open /\ tile[th] # 0
    IN  /\ pc[th] = "respond"
        /\ Reply(Conn(th), No(th))
        /\ view' = IF sent THEN [view EXCEPT ![reader][Request(th).tile] = tile[th]] ELSE view
        /\ Finished(th)
        /\ UNCHANGED <<rows, asked, taken, executor, cache, leased>>

-----------------------------------------------------------------------------
(* MapCache.getMapCacheTile: Guava's get(key, loader).                     *)

\* The cache key. equals() compares the database types with ==: in the query
\* form that is one interned literal (<<>> here), in the path form a string cut
\* out of this request's URL, which no other request shares.
KeyOf(th) ==
    [dbType |-> IF Request(th).form = "query" THEN <<>> ELSE job[th],
     tile   |-> Request(th).tile]

\* Faulty variant: getIfPresent, then load and put.
NobodyLoading(key) == {}

\* Faulty variant: the loading entry is removed before the value is stored.
LoadingUntilStored(key) ==
    {th \in Threads : pc[th] \in LoadingPc \ {"store"} /\ KeyOf(th) = key}

\* The thread that loads key now.
Loading(key) == {th \in Threads : pc[th] \in LoadingPc /\ KeyOf(th) = key}

\* The tile is in the cache.
Hit(th) ==
    /\ pc[th] = "get"
    /\ \E e \in cache :
          /\ e.key = KeyOf(th)
          /\ tile' = [tile EXCEPT ![th] = e.version]
    /\ pc' = [pc EXCEPT ![th] = "respond"]
    /\ UNCHANGED <<rows, connVars, job, loader, cache, leased>>

\* Another thread is loading it: wait for that load, or take its value if the
\* load has just completed.
Join(th) ==
    /\ pc[th] = "get"
    /\ \E other \in Loading(KeyOf(th)) :
          IF pc[other] = "store"
          THEN /\ tile' = [tile EXCEPT ![th] = tile[other]]
               /\ pc' = [pc EXCEPT ![th] = "respond"]
               /\ UNCHANGED loader
          ELSE /\ loader' = [loader EXCEPT ![th] = other]
               /\ pc' = [pc EXCEPT ![th] = "wait"]
               /\ UNCHANGED tile
    /\ UNCHANGED <<rows, connVars, job, cache, leased>>

\* Nobody has it: this thread loads it.
Miss(th) ==
    /\ pc[th] = "get"
    /\ Loading(KeyOf(th)) = {} /\ \A e \in cache : e.key # KeyOf(th)
    /\ pc' = [pc EXCEPT ![th] = "connect"]
    /\ UNCHANGED <<rows, connVars, job, tile, loader, cache, leased>>

\* The load has completed: everyone who joined it gets its value. Getting
\* null throws in every one of them, and is answered like null.
Complete(th) ==
    LET joined == {w \in Threads : pc[w] = "wait" /\ loader[w] = th}
    IN  /\ pc[th] = "loaded"
        /\ pc' = [w \in Threads |-> CASE w = th -> "store"
                                      [] w \in joined -> "respond"
                                      [] OTHER -> pc[w]]
        /\ tile' = [w \in Threads |-> IF w \in joined THEN tile[th] ELSE tile[w]]
        /\ UNCHANGED <<rows, connVars, job, loader, cache, leased>>

\* Faulty variant: a cache without maximumSize.
StoreUnbounded(th) ==
    /\ pc[th] = "store"
    /\ cache' = cache \cup (IF tile[th] = 0 THEN {} ELSE {[key |-> KeyOf(th), version |-> tile[th]]})
    /\ pc' = [pc EXCEPT ![th] = "respond"]
    /\ UNCHANGED <<rows, connVars, job, tile, loader, leased>>

\* The value is put in the cache, which drops an entry when it is too full (a
\* segment of it may be before the whole is); null is not stored.
Store(th) ==
    LET old == {e \in cache : e.key = KeyOf(th)}
        new == IF tile[th] = 0 THEN {} ELSE {[key |-> KeyOf(th), version |-> tile[th]]}
    IN  /\ pc[th] = "store"
        /\ \E evicted \in {{}} \cup {{e} : e \in cache} :
              /\ tile[th] = 0 => evicted = {}
              /\ cache' = (cache \ (evicted \cup old)) \cup new
        /\ Cardinality(cache') <= CacheSize
        /\ pc' = [pc EXCEPT ![th] = "respond"]
        /\ UNCHANGED <<rows, connVars, job, tile, loader, leased>>

-----------------------------------------------------------------------------
(* MapDbOperation.getTile.                                                 *)

\* dataSource.getConnection returns a connection of the pool.
Connect(th) ==
    /\ pc[th] = "connect" /\ Cardinality(leased) < PoolSize
    /\ leased' = leased \cup {th}
    /\ pc' = [pc EXCEPT ![th] = "query"]
    /\ UNCHANGED <<rows, connVars, job, tile, loader, cache>>

\* getConnection throws (after its timeout): getTile logs it and returns null.
ConnectFails(th) ==
    /\ pc[th] = "connect"
    /\ tile' = [tile EXCEPT ![th] = 0]
    /\ pc' = [pc EXCEPT ![th] = "loaded"]
    /\ UNCHANGED <<rows, connVars, job, loader, cache, leased>>

\* The statement returns the tile, or no row.
Query(th) ==
    /\ pc[th] = "query"
    /\ tile' = [tile EXCEPT ![th] = rows[Request(th).tile]]
    /\ leased' = leased \ {th}
    /\ pc' = [pc EXCEPT ![th] = "loaded"]
    /\ UNCHANGED <<rows, connVars, job, loader, cache>>

\* Faulty variant: the connection is closed only when the query succeeds.
QueryFailsLeaking(th) ==
    /\ pc[th] = "query"
    /\ tile' = [tile EXCEPT ![th] = 0]
    /\ pc' = [pc EXCEPT ![th] = "loaded"]
    /\ UNCHANGED <<rows, connVars, job, loader, cache, leased>>

\* The statement throws: the connection is closed all the same, getTile logs
\* the exception and returns null.
QueryFails(th) ==
    /\ pc[th] = "query"
    /\ tile' = [tile EXCEPT ![th] = 0]
    /\ leased' = leased \ {th}
    /\ pc' = [pc EXCEPT ![th] = "loaded"]
    /\ UNCHANGED <<rows, connVars, job, loader, cache>>

-----------------------------------------------------------------------------
Read(th) == \E k \in Conns : ReadMalformed(th, k) \/ ReadOther(th, k) \/ ReadTile(th, k)
Get(th)  == Hit(th) \/ Join(th) \/ Miss(th)
Load(th) == Connect(th) \/ ConnectFails(th) \/ Query(th) \/ QueryFails(th)

Handle(th) == Read(th) \/ Get(th) \/ Load(th) \/ Complete(th) \/ Store(th) \/ Respond(th)

Next ==
    \/ \E k \in Conns : Ask(k) \/ Leave(k)
    \/ \E t \in Tiles : WriteTile(t)
    \/ \E th \in Threads : Handle(th)

Spec == Init /\ [][Next]_vars

\* The handler threads run; clients and the database owe nothing.
FairSpec == Spec /\ \A th \in Threads : WF_vars(Handle(th))

-----------------------------------------------------------------------------
(* Properties.                                                             *)

\* At most one load of a key is under way, so a burst of requests for a new
\* tile costs one query - from the first miss until the value is stored.
SingleFlight ==
    \A a, b \in Threads :
        pc[a] \in LoadingPc /\ pc[b] \in LoadingPc /\ KeyOf(a) = KeyOf(b) => a = b

\* The pool is never the bottleneck: a handler that wants a connection finds
\* one, because each thread holds at most one and gives it back on every path.
PoolSuffices == \A th \in Threads : pc[th] = "connect" => Cardinality(leased) < PoolSize

\* Connections are held exactly by the threads inside a query, and every busy
\* thread works on a request handed to it: what the two above rest on.
LeasedWhileQuerying == leased = {th \in Threads : pc[th] = "query"}

JobsTaken ==
    \A th \in Threads : pc[th] # "idle" => job[th] \in Job /\ No(th) <= taken[Conn(th)]

\* A connection is answered in the order of its requests, and only malformed
\* ones are passed over (whose client then waits for ever, and if it pipelines,
\* takes the next answer for its own).
RepliesInOrder ==
    \A k \in Conns :
        LET r == replied[k]
        IN  /\ \A i, j \in DOMAIN r : i < j => r[i] < r[j]
            /\ \A last \in Range(r) : \A n \in 1..last :
                  n \in Range(r) <=> asked[k][n].form # "malformed"

\* The cache and its loads implement monotone reads: a client that asks twice
\* in the same form is never given an older image than before, whatever loads,
\* evictions, failures and replaced tiles come between.
Reads == INSTANCE TileReads

ImplementsReads == Reads!RSpec

\* "Map service, map cache": a tile that is in the cache is not loaded again.
CachedTileNotReloaded ==
    \A th \in Threads : pc[th] \in LoadingPc =>
        \A e \in cache : e.key.tile # Request(th).tile

\* Every request but a malformed one is answered, or its client is gone.
EventuallyAnswered ==
    \A k \in Conns, n \in 1..MaxRequests :
        (n <= Len(asked[k]) /\ asked[k][n].form # "malformed")
            ~> (n \in Range(replied[k]) \/ k \notin open)
=============================================================================
