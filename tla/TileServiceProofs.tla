------------------------- MODULE TileServiceProofs -------------------------
(***************************************************************************)
(* Proofs about TileService, for any handler threads, connections, tiles   *)
(* and requests: type correctness, that loads are single-flight, that the  *)
(* connection pool is never exhausted, that a connection is answered in    *)
(* the order it asked, and that the service implements TileReads.          *)
(***************************************************************************)
EXTENDS TileService, FiniteSetTheorems, TLAPS

\* What a busy thread works on does not depend on requests asked later.
LEMMA RequestKept ==
  ASSUME TypeOK, JobsTaken, NEW th \in Threads, pc[th] # "idle",
         NEW k \in Conns, NEW r, asked' = [asked EXCEPT ![k] = Append(@, r)],
         job' = job
  PROVE  Request(th)' = Request(th)
<1>1. job[th] \in Job /\ No(th) \in 1..Len(asked[Conn(th)]) /\ Conn(th) \in Conns
  BY DEF JobsTaken, TypeOK, Job, No, Conn
<1>2. asked[k] \in Seq(Requests) /\ asked[Conn(th)] \in Seq(Requests)
  BY <1>1 DEF TypeOK
<1>3. asked'[Conn(th)][No(th)] = asked[Conn(th)][No(th)]
  <2>1. CASE Conn(th) = k
    BY <1>1, <1>2, <2>1 DEF TypeOK
  <2>2. CASE Conn(th) # k
    BY <1>1, <1>2, <2>2 DEF TypeOK
  <2> QED
    BY <2>1, <2>2
<1> QED
  BY <1>3 DEF Request, Conn, No

\* A busy thread has a request, and a key for it.
LEMMA RequestType ==
  ASSUME TypeOK, JobsTaken, NEW th \in Threads, pc[th] # "idle"
  PROVE  /\ Conn(th) \in Conns /\ No(th) \in 1..MaxRequests
         /\ Request(th) \in [form : Forms, tile : Tiles, keepAlive : BOOLEAN]
         /\ KeyOf(th) \in Key
<1>1. job[th] \in Job /\ No(th) \in 1..Len(asked[Conn(th)]) /\ Conn(th) \in Conns
  BY DEF JobsTaken, TypeOK, Job, No, Conn
<1>2. Request(th) \in Requests
  BY <1>1 DEF TypeOK, Request
<1>3. Request(th) \in [form : Forms, tile : Tiles, keepAlive : BOOLEAN]
  BY <1>2, RequestsAssumption
<1>4. No(th) \in 1..MaxRequests
  BY <1>1 DEF Job, No
<1> QED
  BY <1>1, <1>3, <1>4 DEF KeyOf, Key

\* The steps that a handler thread takes within one request.
Busy(th) == Get(th) \/ Load(th) \/ Complete(th) \/ Store(th)

\* Within a request only the thread, the cache and the pool change.
LEMMA BusyType ==
  ASSUME TypeOK, JobsTaken, NEW th \in Threads, Busy(th)
  PROVE  /\ TypeOK' /\ UNCHANGED <<connVars, job, rows>>
         /\ \A w \in Threads : pc'[w] # "idle" => pc[w] # "idle"
<1> USE SizesAssumption
<1>1. CASE Hit(th)
  <2>1. PICK e \in cache : tile' = [tile EXCEPT ![th] = e.version]
    BY <1>1 DEF Hit
  <2>2. e.version \in Versions
    BY <2>1 DEF TypeOK, Versions
  <2> QED
    BY <1>1, <2>1, <2>2 DEF Hit, TypeOK, connVars
<1>2. CASE Join(th)
  <2>1. PICK other \in Loading(KeyOf(th)) :
          \/ tile' = [tile EXCEPT ![th] = tile[other]] /\ loader' = loader
             /\ pc' = [pc EXCEPT ![th] = "respond"]
          \/ loader' = [loader EXCEPT ![th] = other] /\ tile' = tile
             /\ pc' = [pc EXCEPT ![th] = "wait"]
    BY <1>2 DEF Join
  <2>2. other \in Threads
    BY DEF Loading
  <2>3. tile' \in [Threads -> Versions] /\ loader' \in [Threads -> Threads]
    <3>1. tile \in [Threads -> Versions] /\ loader \in [Threads -> Threads] /\ tile[other] \in Versions
      BY <2>2 DEF TypeOK
    <3> QED
      BY <2>1, <2>2, <3>1
  <2>4. pc' \in [Threads -> {"idle", "get", "wait", "respond"} \cup LoadingPc]
    BY <2>1 DEF TypeOK
  <2>5. \A w \in Threads : pc'[w] # "idle" => pc[w] # "idle"
    BY <1>2, <2>1 DEF Join, TypeOK
  <2> QED
    BY <1>2, <2>3, <2>4, <2>5 DEF Join, TypeOK, connVars
<1>3. CASE Miss(th)
  BY <1>3 DEF Miss, TypeOK, connVars, LoadingPc
<1>4. CASE Connect(th)
  BY <1>4 DEF Connect, TypeOK, connVars, LoadingPc
<1>5. CASE ConnectFails(th)
  BY <1>5 DEF ConnectFails, TypeOK, connVars, LoadingPc, Versions
<1>6. CASE QueryFails(th)
  BY <1>6 DEF QueryFails, TypeOK, connVars, LoadingPc, Versions
<1>7. CASE Query(th)
  <2>1. rows[Request(th).tile] \in Versions
    BY <1>7, RequestType DEF Query, TypeOK
  <2> QED
    BY <1>7, <2>1 DEF Query, TypeOK, connVars, LoadingPc
<1>8. CASE Complete(th)
  BY <1>8 DEF Complete, TypeOK, connVars, LoadingPc
<1>9. CASE Store(th)
  <2>1. KeyOf(th) \in Key
    BY <1>9, RequestType DEF Store
  <2>2. tile[th] \in Versions
    BY DEF TypeOK
  <2>3. cache' \subseteq [key : Key, version : 1..MaxVersion]
    <3>1. tile[th] # 0 => [key |-> KeyOf(th), version |-> tile[th]] \in [key : Key, version : 1..MaxVersion]
      BY <2>1, <2>2 DEF Versions
    <3> QED
      BY <1>9, <3>1 DEF Store, TypeOK
  <2>4. Cardinality(cache') <= CacheSize
    BY <1>9 DEF Store
  <2> QED
    BY <1>9, <2>3, <2>4 DEF Store, TypeOK, connVars, LoadingPc
<1> QED
  BY <1>1, <1>2, <1>3, <1>4, <1>5, <1>7, <1>8, <1>9, <1>6 DEF Busy, Get, Load

\* Answering: the reply and the closing of the connection are well typed.
LEMMA ReplyType ==
  ASSUME TypeOK, NEW k \in Conns, NEW n \in 1..MaxRequests, Reply(k, n)
  PROVE  replied' \in [Conns -> Seq(1..MaxRequests)] /\ open' \subseteq Conns
<1>1. \A q \in Seq(1..MaxRequests) : Append(q, n) \in Seq(1..MaxRequests)
  OBVIOUS
<1> QED
  BY <1>1 DEF Reply, TypeOK

\* The first untaken request has a number within the bound.
LEMMA TakesType ==
  ASSUME TypeOK, NEW th \in Threads, NEW k \in Conns, Takes(th, k)
  PROVE  /\ taken[k] + 1 \in 1..MaxRequests /\ taken[k] + 1 <= Len(asked[k])
         /\ taken' = [taken EXCEPT ![k] = taken[k] + 1]
         /\ taken' \in [Conns -> 0..MaxRequests]
         /\ \A j \in Conns : taken[j] <= taken'[j]
<1>1. taken[k] \in 0..MaxRequests /\ Len(asked[k]) <= MaxRequests /\ taken[k] < Len(asked[k])
  BY DEF Takes, TypeOK
<1>2. Len(asked[k]) \in Nat
  BY DEF TypeOK
<1>3. taken[k] + 1 \in 1..MaxRequests /\ taken[k] + 1 <= Len(asked[k])
  BY <1>1, <1>2, SizesAssumption
<1>4. \A j \in Conns : taken[j] <= taken'[j]
  <2> SUFFICES ASSUME NEW j \in Conns PROVE taken[j] <= taken'[j]
    OBVIOUS
  <2>1. taken[j] \in 0..MaxRequests
    BY DEF TypeOK
  <2> QED
    BY <2>1 DEF Takes, TypeOK
<1> QED
  BY <1>3, <1>4 DEF Takes, TypeOK

\* Handing over another request disturbs no thread's own.
LEMMA JobKept ==
  ASSUME TypeOK, JobsTaken, NEW w \in Threads, pc[w] # "idle", job'[w] = job[w],
         taken' \in [Conns -> 0..MaxRequests], \A j \in Conns : taken[j] <= taken'[j]
  PROVE  job'[w] \in Job /\ job'[w][2] <= taken'[job'[w][1]]
<1>1. job[w] \in Job /\ job[w][2] <= taken[job[w][1]]
  BY DEF JobsTaken, Conn, No
<1>2. job[w][1] \in Conns /\ job[w][2] \in Nat
  BY <1>1 DEF Job
<1>3. taken[job[w][1]] \in Nat /\ taken'[job[w][1]] \in Nat /\ taken[job[w][1]] <= taken'[job[w][1]]
  BY <1>2, SizesAssumption DEF TypeOK
<1> QED
  BY <1>1, <1>2, <1>3

\* Types, and that busy threads work on requests handed to them.
Typed == TypeOK /\ JobsTaken

LEMMA TypedInit == Init => Typed
<1> SUFFICES ASSUME Init PROVE Typed
  OBVIOUS
<1>1. Cardinality({}) = 0
  BY FS_EmptySet
<1>2. <<>> \in Seq(Requests) /\ Len(<<>>) = 0
  OBVIOUS
<1> QED
  BY <1>1, <1>2, SizesAssumption DEF Init, Typed, TypeOK, JobsTaken, Versions

LEMMA TypedStep == Typed /\ [Next]_vars => Typed'
<1> SUFFICES ASSUME TypeOK, JobsTaken, [Next]_vars PROVE TypeOK' /\ JobsTaken'
  BY DEF Typed
<1> USE SizesAssumption
<1>1. ASSUME NEW k \in Conns, Ask(k) PROVE TypeOK' /\ JobsTaken'
  <2>1. PICK r \in Requests : asked' = [asked EXCEPT ![k] = Append(@, r)]
    BY <1>1 DEF Ask
  <2>2. Append(asked[k], r) \in Seq(Requests) /\ Len(Append(asked[k], r)) = Len(asked[k]) + 1
    BY DEF TypeOK
  <2>3. asked' \in [Conns -> Seq(Requests)]
    BY <2>1, <2>2 DEF TypeOK
  <2>4. \A j \in Conns : taken'[j] <= Len(asked'[j]) /\ Len(asked'[j]) <= MaxRequests
    <3> SUFFICES ASSUME NEW j \in Conns PROVE taken[j] <= Len(asked'[j]) /\ Len(asked'[j]) <= MaxRequests
      BY <1>1 DEF Ask
    <3>1. taken[k] \in Nat /\ Len(asked[k]) \in Nat /\ taken[k] <= Len(asked[k]) /\ Len(asked[k]) < MaxRequests
      BY <1>1 DEF Ask, TypeOK
    <3>2. CASE j = k
      BY <2>1, <2>2, <3>1, <3>2 DEF TypeOK
    <3>3. CASE j # k
      BY <2>1, <3>3 DEF TypeOK
    <3> QED
      BY <3>2, <3>3
  <2> QED
    BY <1>1, <2>3, <2>4 DEF Ask, TypeOK, JobsTaken, threadVars, Conn, No
<1>2. ASSUME NEW k \in Conns, Leave(k) PROVE TypeOK' /\ JobsTaken'
  BY <1>2 DEF Leave, TypeOK, JobsTaken, threadVars, Conn, No
<1>3. ASSUME NEW t \in Tiles, WriteTile(t) PROVE TypeOK' /\ JobsTaken'
  <2>1. rows' \in [Tiles -> Versions]
    BY <1>3 DEF WriteTile, TypeOK, Versions
  <2> QED
    BY <1>3, <2>1 DEF WriteTile, TypeOK, JobsTaken, threadVars, connVars, Conn, No
<1>4. ASSUME NEW th \in Threads, NEW k \in Conns, ReadMalformed(th, k) \/ ReadOther(th, k)
      PROVE  TypeOK' /\ JobsTaken'
  <2>1. Takes(th, k)
    BY <1>4 DEF ReadMalformed, ReadOther
  <2>2. /\ replied' \in [Conns -> Seq(1..MaxRequests)] /\ open' \subseteq Conns
        /\ UNCHANGED <<rows, asked, view, executor, threadVars, cache, leased>>
    <3>1. CASE ReadMalformed(th, k)
      BY <3>1 DEF ReadMalformed, TypeOK
    <3>2. CASE ReadOther(th, k)
      BY <2>1, <3>2, TakesType, ReplyType DEF ReadOther
    <3> QED
      BY <1>4, <3>1, <3>2
  <2>3. TypeOK'
    BY <2>1, <2>2, TakesType DEF TypeOK, threadVars
  <2>4. JobsTaken'
    <3> SUFFICES ASSUME NEW w \in Threads, pc'[w] # "idle"
                 PROVE  job'[w] \in Job /\ job'[w][2] <= taken'[job'[w][1]]
      BY DEF JobsTaken, Conn, No
    <3>1. pc[w] # "idle" /\ job'[w] = job[w]
      BY <2>2 DEF threadVars
    <3> QED
      BY <2>1, <3>1, TakesType, JobKept
  <2> QED
    BY <2>3, <2>4
<1>5. ASSUME NEW th \in Threads, NEW k \in Conns, ReadTile(th, k) PROVE TypeOK' /\ JobsTaken'
  <2>1. Takes(th, k)
    BY <1>5 DEF ReadTile
  <2>2. <<k, taken[k] + 1>> \in Job
    BY <2>1, TakesType DEF Job
  <2>3. TypeOK'
    BY <1>5, <2>1, <2>2, TakesType DEF ReadTile, TypeOK
  <2>4. JobsTaken'
    <3> SUFFICES ASSUME NEW w \in Threads, pc'[w] # "idle"
                 PROVE  job'[w] \in Job /\ job'[w][2] <= taken'[job'[w][1]]
      BY DEF JobsTaken, Conn, No
    <3>1. CASE w = th
      BY <1>5, <2>1, <2>2, <3>1, TakesType DEF ReadTile, TypeOK
    <3>2. CASE w # th
      <4>1. job'[w] = job[w] /\ pc[w] # "idle"
        BY <1>5, <3>2 DEF ReadTile, TypeOK
      <4> QED
        BY <2>1, <4>1, TakesType, JobKept
    <3> QED
      BY <3>1, <3>2
  <2> QED
    BY <2>3, <2>4
<1>6. ASSUME NEW th \in Threads, Busy(th) PROVE TypeOK' /\ JobsTaken'
  BY <1>6, BusyType DEF JobsTaken, connVars, Conn, No
<1>7. ASSUME NEW th \in Threads, Respond(th) PROVE TypeOK' /\ JobsTaken'
  <2>1. Conn(th) \in Conns /\ No(th) \in 1..MaxRequests
        /\ Request(th) \in [form : Forms, tile : Tiles, keepAlive : BOOLEAN]
    BY <1>7, RequestType DEF Respond
  <2>2. replied' \in [Conns -> Seq(1..MaxRequests)] /\ open' \subseteq Conns
    BY <1>7, <2>1, ReplyType DEF Respond
  <2>3. view' \in [Readers -> [Tiles -> Versions]]
    <3>1. <<Conn(th), Request(th).form>> \in Readers /\ tile[th] \in Versions /\ Request(th).tile \in Tiles
      BY <2>1 DEF Readers, TypeOK
    <3>2. view \in [Readers -> [Tiles -> Versions]]
      BY DEF TypeOK
    <3> QED
      BY <1>7, <3>1, <3>2 DEF Respond
  <2>4. TypeOK'
    <3>1. /\ pc' \in [Threads -> {"idle", "get", "wait", "respond"} \cup LoadingPc]
          /\ job' \in [Threads -> Job \cup {<<>>}]
          /\ tile' \in [Threads -> Versions] /\ loader' \in [Threads -> Threads]
      BY <1>7 DEF Respond, Finished, TypeOK, Versions
    <3> QED
      BY <1>7, <2>2, <2>3, <3>1 DEF Respond, TypeOK
  <2>5. JobsTaken'
    BY <1>7 DEF Respond, Finished, JobsTaken, TypeOK, Conn, No
  <2> QED
    BY <2>4, <2>5
<1>8. CASE UNCHANGED vars
  BY <1>8 DEF vars, TypeOK, JobsTaken, Conn, No
<1> QED
  BY <1>1, <1>2, <1>3, <1>4, <1>5, <1>6, <1>7, <1>8 DEF Next, Handle, Read, Busy

\* The state stays well typed, for any threads, clients, tiles and bounds.
THEOREM TypeCorrect == Spec => []TypeOK
<1> QED
  BY TypedInit, TypedStep, PTL DEF Spec, Typed

\* The two facts hold of every reachable state.
LEMMA TypedAlways == Spec => []Typed
<1> QED
  BY TypedInit, TypedStep, PTL DEF Spec

\* Only connecting takes a connection, and every way out of a query returns it.
LEMMA LeasedStep == Typed /\ LeasedWhileQuerying /\ [Next]_vars => LeasedWhileQuerying'
<1> SUFFICES ASSUME TypeOK, LeasedWhileQuerying, [Next]_vars PROVE LeasedWhileQuerying'
  BY DEF Typed
<1> USE DEF LeasedWhileQuerying
<1>1. ASSUME NEW k \in Conns, Ask(k) \/ Leave(k) PROVE LeasedWhileQuerying'
  BY <1>1 DEF Ask, Leave, threadVars
<1>2. ASSUME NEW t \in Tiles, WriteTile(t) PROVE LeasedWhileQuerying'
  BY <1>2 DEF WriteTile, threadVars
<1>3. ASSUME NEW th \in Threads, NEW k \in Conns, ReadMalformed(th, k) \/ ReadOther(th, k)
      PROVE  LeasedWhileQuerying'
  BY <1>3 DEF ReadMalformed, ReadOther, threadVars
<1>4. ASSUME NEW th \in Threads, NEW k \in Conns, ReadTile(th, k) PROVE LeasedWhileQuerying'
  BY <1>4 DEF ReadTile, Takes, TypeOK
<1>5. ASSUME NEW th \in Threads, Get(th) PROVE LeasedWhileQuerying'
  BY <1>5 DEF Get, Hit, Join, Miss, TypeOK
<1>6. ASSUME NEW th \in Threads, Load(th) PROVE LeasedWhileQuerying'
  <2>1. CASE Connect(th)
    BY <2>1 DEF Connect, TypeOK
  <2>2. CASE ConnectFails(th)
    BY <2>2 DEF ConnectFails, TypeOK
  <2>3. CASE Query(th)
    BY <2>3 DEF Query, TypeOK
  <2>4. CASE QueryFails(th)
    BY <2>4 DEF QueryFails, TypeOK
  <2> QED
    BY <1>6, <2>1, <2>2, <2>3, <2>4 DEF Load
<1>7. ASSUME NEW th \in Threads, Complete(th) PROVE LeasedWhileQuerying'
  BY <1>7 DEF Complete, TypeOK
<1>8. ASSUME NEW th \in Threads, Store(th) \/ Respond(th) PROVE LeasedWhileQuerying'
  BY <1>8 DEF Store, Respond, Finished, TypeOK
<1>9. CASE UNCHANGED vars
  BY <1>9 DEF vars
<1> QED
  BY <1>1, <1>2, <1>3, <1>4, <1>5, <1>6, <1>7, <1>8, <1>9 DEF Next, Handle, Read

\* A thread that wants a connection holds none, so at most Threads - 1 are out.
LEMMA PoolBound == Typed /\ LeasedWhileQuerying => PoolSuffices
<1> SUFFICES ASSUME TypeOK, LeasedWhileQuerying, NEW th \in Threads, pc[th] = "connect"
             PROVE  Cardinality(leased) < PoolSize
  BY DEF Typed, PoolSuffices
<1>1. leased \subseteq Threads \ {th}
  BY DEF LeasedWhileQuerying
<1>2. /\ IsFiniteSet(Threads \ {th})
      /\ Cardinality(Threads \ {th}) = Cardinality(Threads) - 1
      /\ Cardinality(Threads) \in Nat
  BY PoolAssumption, FS_RemoveElement, FS_CardinalityType
<1>3. IsFiniteSet(leased) /\ Cardinality(leased) <= Cardinality(Threads) - 1
  BY <1>1, <1>2, FS_Subset
<1>4. Cardinality(leased) \in Nat
  BY <1>3, FS_CardinalityType
<1> QED
  BY <1>2, <1>3, <1>4, PoolAssumption, SizesAssumption

\* No handler ever waits for a connection: 32 threads share a pool of 32.
THEOREM PoolNeverExhausted == Spec => []PoolSuffices
<1>1. Init => LeasedWhileQuerying
  BY DEF Init, LeasedWhileQuerying
<1> QED
  BY <1>1, TypedAlways, LeasedStep, PoolBound, PTL DEF Spec

\* While a thread is busy its request, and so its key, stays the same.
LEMMA WorkKept ==
  ASSUME TypeOK, JobsTaken, [Next]_vars, NEW w \in Threads, pc[w] # "idle", pc'[w] # "idle"
  PROVE  job'[w] = job[w] /\ Request(w)' = Request(w)
<1>1. ASSUME NEW k \in Conns, Ask(k) PROVE job'[w] = job[w] /\ Request(w)' = Request(w)
  <2>1. PICK r \in Requests : asked' = [asked EXCEPT ![k] = Append(@, r)]
    BY <1>1 DEF Ask
  <2>2. job' = job
    BY <1>1 DEF Ask, threadVars
  <2> QED
    BY <2>1, <2>2, RequestKept
<1>2. ASSUME asked' = asked, job'[w] = job[w] PROVE Request(w)' = Request(w)
  BY <1>2 DEF Request, Conn, No
<1>3. ASSUME NEW th \in Threads, Handle(th) PROVE asked' = asked /\ job'[w] = job[w]
  <2>1. CASE Busy(th)
    BY <2>1, BusyType DEF connVars
  <2>2. CASE Respond(th)
    BY <2>2 DEF Respond, Finished, TypeOK
  <2>3. ASSUME NEW k \in Conns, ReadMalformed(th, k) \/ ReadOther(th, k)
        PROVE  asked' = asked /\ job'[w] = job[w]
    BY <2>3 DEF ReadMalformed, ReadOther, threadVars
  <2>4. ASSUME NEW k \in Conns, ReadTile(th, k) PROVE asked' = asked /\ job'[w] = job[w]
    BY <2>4 DEF ReadTile, Takes, TypeOK
  <2> QED
    BY <1>3, <2>1, <2>2, <2>3, <2>4 DEF Handle, Read, Busy
<1>4. ASSUME NEW k \in Conns, Leave(k) PROVE asked' = asked /\ job'[w] = job[w]
  BY <1>4 DEF Leave, threadVars
<1>5. ASSUME NEW t \in Tiles, WriteTile(t) PROVE asked' = asked /\ job'[w] = job[w]
  BY <1>5 DEF WriteTile, connVars, threadVars
<1>6. CASE UNCHANGED vars
  BY <1>2, <1>6 DEF vars
<1> QED
  BY <1>1, <1>2, <1>3, <1>4, <1>5, <1>6 DEF Next

LEMMA KeyKept ==
  ASSUME TypeOK, JobsTaken, [Next]_vars, NEW w \in Threads, pc[w] # "idle", pc'[w] # "idle"
  PROVE  KeyOf(w)' = KeyOf(w)
BY WorkKept DEF KeyOf

\* A load begins only with a miss.
LEMMA LoadsBegin ==
  ASSUME TypeOK, [Next]_vars, NEW w \in Threads, pc'[w] \in LoadingPc, pc[w] \notin LoadingPc
  PROVE  Miss(w) /\ \A v \in Threads \ {w} : pc'[v] = pc[v]
<1> USE DEF LoadingPc
<1>1. ASSUME NEW k \in Conns, Ask(k) \/ Leave(k) PROVE FALSE
  BY <1>1 DEF Ask, Leave, threadVars
<1>2. ASSUME NEW t \in Tiles, WriteTile(t) PROVE FALSE
  BY <1>2 DEF WriteTile, threadVars
<1>3. ASSUME NEW th \in Threads, Read(th) \/ Respond(th) PROVE FALSE
  BY <1>3 DEF Read, ReadMalformed, ReadOther, ReadTile, Respond, Finished, threadVars, TypeOK
<1>4. ASSUME NEW th \in Threads, Load(th) \/ Store(th) PROVE FALSE
  BY <1>4 DEF Load, Connect, ConnectFails, Query, QueryFails, Store, TypeOK
<1>5. ASSUME NEW th \in Threads, Complete(th) PROVE FALSE
  BY <1>5 DEF Complete, TypeOK
<1>6. ASSUME NEW th \in Threads, Hit(th) \/ Join(th) PROVE FALSE
  <2>1. pc' = [pc EXCEPT ![th] = "respond"] \/ pc' = [pc EXCEPT ![th] = "wait"]
    BY <1>6 DEF Hit, Join
  <2> QED
    BY <2>1 DEF TypeOK
<1>7. ASSUME NEW th \in Threads, Miss(th)
      PROVE  Miss(w) /\ \A v \in Threads \ {w} : pc'[v] = pc[v]
  <2>1. w = th
    BY <1>7 DEF Miss, TypeOK
  <2>2. \A v \in Threads \ {th} : pc'[v] = pc[v]
    BY <1>7 DEF Miss, TypeOK
  <2> QED
    BY <1>7, <2>1, <2>2
<1>8. CASE UNCHANGED vars
  BY <1>8 DEF vars
<1> QED
  BY <1>1, <1>2, <1>3, <1>4, <1>5, <1>6, <1>7, <1>8 DEF Next, Handle, Get

\* Two loads never work on one key: a miss needs that nobody loads it.
LEMMA SingleStep == Typed /\ SingleFlight /\ [Next]_vars => SingleFlight'
<1> SUFFICES ASSUME TypeOK, JobsTaken, SingleFlight, [Next]_vars,
                    NEW a \in Threads, NEW b \in Threads,
                    pc'[a] \in LoadingPc, pc'[b] \in LoadingPc, KeyOf(a)' = KeyOf(b)'
             PROVE  a = b
  BY DEF Typed, SingleFlight
<1>1. CASE pc[a] \in LoadingPc /\ pc[b] \in LoadingPc
  <2>1. KeyOf(a) = KeyOf(b)
    BY <1>1, KeyKept DEF LoadingPc
  <2> QED
    BY <1>1, <2>1 DEF SingleFlight
<1>2. ASSUME NEW x \in Threads, NEW y \in Threads, KeyOf(x)' = KeyOf(y)', x # y,
             pc'[x] \in LoadingPc, pc'[y] \in LoadingPc, pc[x] \notin LoadingPc
      PROVE  FALSE
  <2>1. Miss(x) /\ pc'[y] = pc[y]
    BY <1>2, LoadsBegin
  <2>2. KeyOf(x)' = KeyOf(x) /\ KeyOf(y)' = KeyOf(y)
    BY <1>2, <2>1, KeyKept DEF Miss, LoadingPc
  <2>3. y \in Loading(KeyOf(x))
    BY <1>2, <2>1, <2>2 DEF Loading
  <2> QED
    BY <2>1, <2>3 DEF Miss
<1> QED
  BY <1>1, <1>2

\* However requests interleave, one load of a key at a time.
THEOREM LoadsAreSingleFlight == Spec => []SingleFlight
<1>1. Init => SingleFlight
  BY DEF Init, SingleFlight, LoadingPc
<1> QED
  BY <1>1, TypedAlways, SingleStep, PTL DEF Spec

-----------------------------------------------------------------------------
(* The order of the answers.                                               *)

\* A busy thread works on the last request taken from a connection that is its
\* own, and the request asks for a tile.
AtWork ==
  \A th \in Threads : pc[th] # "idle" =>
    /\ executor[Conn(th)] = th /\ No(th) = taken[Conn(th)]
    /\ Request(th).form \in {"path", "query"}

\* Of the requests of k up to number d, those that can be are answered, each
\* once and in order, as long as k is open; and nothing else is.
Answered(k, d) ==
  LET r == replied[k]
  IN  /\ \A i, j \in DOMAIN r : i < j => r[i] < r[j]
      /\ \A n \in Range(r) : n \in 1..d /\ asked[k][n].form # "malformed"
      /\ \A last \in Range(r) : \A n \in 1..last :
            asked[k][n].form # "malformed" => n \in Range(r)
      /\ k \in open => \A n \in 1..d : asked[k][n].form # "malformed" => n \in Range(r)

BusyWith(k) == \E th \in Threads : pc[th] # "idle" /\ Conn(th) = k

\* The request in hand is the last one taken, and not yet answered.
Done(k) == IF BusyWith(k) THEN taken[k] - 1 ELSE taken[k]

AllAnswered == \A k \in Conns : Answered(k, Done(k))

\* A request that cannot be answered is passed over.
LEMMA PassOver ==
  ASSUME NEW k \in Conns, NEW d \in Nat, Answered(k, d), asked[k][d + 1].form = "malformed"
  PROVE  Answered(k, d + 1)
<1>1. \A n \in 1..(d + 1) : n \in 1..d \/ n = d + 1
  OBVIOUS
<1>2. \A n \in 1..d : n \in 1..(d + 1)
  OBVIOUS
<1> QED
  BY <1>1, <1>2 DEF Answered

\* The next request is answered, if its client is still there.
LEMMA AnswerNext ==
  ASSUME NEW k \in Conns, NEW d \in Nat, Answered(k, d), asked[k][d + 1].form # "malformed",
         replied[k] \in Seq(Nat), asked'[k] = asked[k], k \in open' => k \in open,
         replied'[k] = IF k \in open THEN Append(replied[k], d + 1) ELSE replied[k]
  PROVE  Answered(k, d + 1)'
<1> DEFINE r == replied[k]
           s == replied'[k]
<1>1. CASE k \notin open
  <2>1. s = r /\ k \notin open'
    BY <1>1
  <2>2. \A n \in 1..d : n \in 1..(d + 1)
    OBVIOUS
  <2> QED
    BY <2>1, <2>2 DEF Answered
<1>2. CASE k \in open
  <2>1. s = Append(r, d + 1) /\ r \in Seq(Nat) /\ Len(r) \in Nat
    BY <1>2
  <2>2. DOMAIN r = 1..Len(r) /\ DOMAIN s = 1..(Len(r) + 1)
    BY <2>1
  <2>3. s[Len(r) + 1] = d + 1 /\ \A i \in 1..Len(r) : s[i] = r[i]
    BY <2>1
  <2>4. Range(s) = Range(r) \cup {d + 1}
    BY <2>2, <2>3, <2>1 DEF Range
  <2>5. \A i \in 1..Len(r) : r[i] \in 1..d
    BY <2>2 DEF Answered, Range
  <2>6. \A i, j \in DOMAIN s : i < j => s[i] < s[j]
    <3> SUFFICES ASSUME NEW i \in 1..(Len(r) + 1), NEW j \in 1..(Len(r) + 1), i < j
                 PROVE  s[i] < s[j]
      BY <2>2
    <3>1. i \in 1..Len(r)
      BY <2>1
    <3>2. CASE j \in 1..Len(r)
      BY <2>2, <2>3, <3>1, <3>2 DEF Answered
    <3>3. CASE j = Len(r) + 1
      BY <2>3, <2>5, <3>1, <3>3
    <3> QED
      BY <2>1, <3>2, <3>3
  <2>7. \A n \in 1..(d + 1) : n \in 1..d \/ n = d + 1
    OBVIOUS
  <2>8. \A n \in 1..d : asked[k][n].form # "malformed" => n \in Range(r)
    BY <1>2 DEF Answered
  <2>9. \A n \in Range(r) : n \in 1..d /\ asked[k][n].form # "malformed"
    BY DEF Answered
  <2>10. \A n \in Range(s) : n \in 1..(d + 1) /\ asked[k][n].form # "malformed"
    BY <2>4, <2>9
  <2>11. \A n \in 1..(d + 1) : asked[k][n].form # "malformed" => n \in Range(s)
    BY <2>4, <2>7, <2>8
  <2>12. \A last \in Range(s) : \A n \in 1..last : n \in 1..(d + 1)
    BY <2>10
  <2> QED
    BY <2>6, <2>10, <2>11, <2>12 DEF Answered
<1> QED
  BY <1>1, <1>2

\* Nothing that is asked later, and no closing, disturbs the answers.
LEMMA AnswersKept ==
  ASSUME NEW k \in Conns, NEW d \in Nat, Answered(k, d), replied'[k] = replied[k],
         k \in open' => k \in open,
         \A n \in 1..d : asked'[k][n] = asked[k][n]
  PROVE  Answered(k, d)'
<1>1. \A n \in Range(replied[k]) : n \in 1..d
  BY DEF Answered
<1>2. \A last \in Range(replied[k]) : \A n \in 1..last : n \in 1..d
  BY <1>1
<1> QED
  BY <1>1, <1>2 DEF Answered


\* A thread begins to work by taking a request for a tile.
LEMMA WorkBegins ==
  ASSUME TypeOK, JobsTaken, [Next]_vars, NEW w \in Threads, pc[w] = "idle", pc'[w] # "idle"
  PROVE  \E k \in Conns : ReadTile(w, k)
<1>1. ASSUME NEW k \in Conns, Ask(k) \/ Leave(k) PROVE FALSE
  BY <1>1 DEF Ask, Leave, threadVars
<1>2. ASSUME NEW t \in Tiles, WriteTile(t) PROVE FALSE
  BY <1>2 DEF WriteTile, threadVars
<1>3. ASSUME NEW th \in Threads, Busy(th) PROVE FALSE
  BY <1>3, BusyType
<1>4. ASSUME NEW th \in Threads, Respond(th) PROVE FALSE
  BY <1>4 DEF Respond, Finished, TypeOK
<1>5. ASSUME NEW th \in Threads, NEW k \in Conns, ReadMalformed(th, k) \/ ReadOther(th, k) PROVE FALSE
  BY <1>5 DEF ReadMalformed, ReadOther, threadVars
<1>6. ASSUME NEW th \in Threads, NEW k \in Conns, ReadTile(th, k) PROVE w = th
  BY <1>6 DEF ReadTile, TypeOK
<1>7. ~UNCHANGED vars
  BY DEF vars
<1> QED
  BY <1>1, <1>2, <1>3, <1>4, <1>5, <1>6, <1>7 DEF Next, Handle, Read, Busy

\* While a thread works for a connection, nothing more is taken from it.
LEMMA TakenWhileBusy ==
  ASSUME TypeOK, JobsTaken, AtWork, [Next]_vars, NEW w \in Threads, pc[w] # "idle"
  PROVE  taken'[Conn(w)] = taken[Conn(w)] /\ executor' = executor
<1>1. Conn(w) \in Conns /\ executor[Conn(w)] = w
  BY RequestType DEF AtWork
<1>2. ASSUME NEW k \in Conns, Ask(k) \/ Leave(k) PROVE taken' = taken /\ executor' = executor
  BY <1>2 DEF Ask, Leave
<1>3. ASSUME NEW t \in Tiles, WriteTile(t) PROVE taken' = taken /\ executor' = executor
  BY <1>3 DEF WriteTile, connVars
<1>4. ASSUME NEW th \in Threads, Busy(th) PROVE taken' = taken /\ executor' = executor
  BY <1>4, BusyType DEF connVars
<1>5. ASSUME NEW th \in Threads, Respond(th) PROVE taken' = taken /\ executor' = executor
  BY <1>5 DEF Respond
<1>6. ASSUME NEW th \in Threads, NEW k \in Conns, ReadMalformed(th, k) \/ ReadOther(th, k) \/ ReadTile(th, k)
      PROVE  taken'[Conn(w)] = taken[Conn(w)] /\ executor' = executor
  <2>1. Takes(th, k) /\ executor' = executor
    BY <1>6 DEF ReadMalformed, ReadOther, ReadTile
  <2>2. k # Conn(w)
    BY <1>1, <2>1 DEF Takes, Serves
  <2> QED
    BY <1>1, <2>1, <2>2 DEF Takes, TypeOK
<1>7. CASE UNCHANGED vars
  BY <1>7 DEF vars
<1> QED
  BY <1>2, <1>3, <1>4, <1>5, <1>6, <1>7 DEF Next, Handle, Read, Busy

\* What a thread takes from its connection is its next job.
LEMMA ReadTileWork ==
  ASSUME TypeOK, NEW w \in Threads, NEW k \in Conns, ReadTile(w, k)
  PROVE  /\ Conn(w)' = k /\ No(w)' = taken[k] + 1 /\ Request(w)' = Next1(k)
         /\ Takes(w, k) /\ Next1(k).form \in {"path", "query"}
         /\ UNCHANGED <<asked, executor, rows, view, tile, loader, cache, replied, open>>
         /\ taken'[k] = taken[k] + 1 /\ pc'[w] = "get"
         /\ \A v \in Threads : v # w => pc'[v] = pc[v] /\ job'[v] = job[v]
<1>1. job' = [job EXCEPT ![w] = <<k, taken[k] + 1>>] /\ pc' = [pc EXCEPT ![w] = "get"]
  BY DEF ReadTile
<1>2. job'[w] = <<k, taken[k] + 1>> /\ pc'[w] = "get"
  BY <1>1 DEF TypeOK
<1>3. \A v \in Threads : v # w => pc'[v] = pc[v] /\ job'[v] = job[v]
  BY <1>1 DEF TypeOK
<1> QED
  BY <1>2, <1>3, TakesType DEF ReadTile, Takes, Conn, No, Request, Next1, TypeOK

LEMMA AtWorkStep ==
  ASSUME TypeOK, JobsTaken, AtWork, [Next]_vars
  PROVE  AtWork'
<1> SUFFICES ASSUME NEW w \in Threads, pc'[w] # "idle"
             PROVE  /\ executor'[Conn(w)'] = w /\ No(w)' = taken'[Conn(w)']
                    /\ Request(w)'.form \in {"path", "query"}
  BY DEF AtWork
<1>1. CASE pc[w] # "idle"
  <2>1. Conn(w)' = Conn(w) /\ No(w)' = No(w) /\ Request(w)' = Request(w)
    BY <1>1, WorkKept DEF Conn, No
  <2>2. taken'[Conn(w)] = taken[Conn(w)] /\ executor' = executor
    BY <1>1, TakenWhileBusy
  <2> QED
    BY <1>1, <2>1, <2>2 DEF AtWork
<1>2. CASE pc[w] = "idle"
  <2>1. PICK k \in Conns : ReadTile(w, k)
    BY <1>2, WorkBegins
  <2> QED
    BY <2>1, ReadTileWork DEF Takes, Serves
<1> QED
  BY <1>1, <1>2

\* Only the thread of a connection works for it.
LEMMA BusyIsExecutor ==
  ASSUME AtWork, NEW k \in Conns
  PROVE  BusyWith(k) => pc[executor[k]] # "idle" /\ Conn(executor[k]) = k
BY DEF AtWork, BusyWith

\* A step that begins and ends no request leaves everyone's work alone.
LEMMA BusyWithKept ==
  ASSUME TypeOK, JobsTaken, [Next]_vars, NEW k \in Conns, taken'[k] = taken[k],
         \A w \in Threads : Conn(w) = k /\ pc[w] # "idle" => pc'[w] # "idle",
         \A w \in Threads : Conn(w)' = k /\ pc'[w] # "idle" => pc[w] # "idle"
  PROVE  Done(k)' = Done(k)
<1>1. BusyWith(k) => BusyWith(k)'
  <2> SUFFICES ASSUME NEW w \in Threads, pc[w] # "idle", Conn(w) = k PROVE BusyWith(k)'
    BY DEF BusyWith
  <2>1. pc'[w] # "idle" /\ Conn(w)' = k
    BY WorkKept DEF Conn
  <2> QED
    BY <2>1 DEF BusyWith
<1>2. BusyWith(k)' => BusyWith(k)
  <2> SUFFICES ASSUME NEW w \in Threads, pc'[w] # "idle", Conn(w)' = k PROVE BusyWith(k)
    BY DEF BusyWith
  <2>1. pc[w] # "idle"
    OBVIOUS
  <2>2. Conn(w) = k
    BY <2>1, WorkKept DEF Conn
  <2> QED
    BY <2>1, <2>2 DEF BusyWith
<1> QED
  BY <1>1, <1>2 DEF Done


\* Within a request nobody becomes idle.
LEMMA BusyStays ==
  ASSUME TypeOK, NEW th \in Threads, Busy(th), NEW w \in Threads
  PROVE  pc[w] # "idle" => pc'[w] # "idle"
<1> USE DEF TypeOK
<1>1. CASE Get(th)
  BY <1>1 DEF Get, Hit, Join, Miss
<1>2. CASE Load(th)
  BY <1>2 DEF Load, Connect, ConnectFails, Query, QueryFails
<1>3. CASE Complete(th)
  BY <1>3 DEF Complete
<1>4. CASE Store(th)
  BY <1>4 DEF Store
<1> QED
  BY <1>1, <1>2, <1>3, <1>4 DEF Busy

\* The requests done are the first so many of those asked.
LEMMA DoneType ==
  ASSUME TypeOK, JobsTaken, AtWork, NEW k \in Conns
  PROVE  /\ Done(k) \in Nat /\ Done(k) <= taken[k] /\ Done(k) <= Len(asked[k])
         /\ taken[k] \in Nat /\ taken[k] <= Len(asked[k]) /\ Len(asked[k]) \in Nat
         /\ replied[k] \in Seq(Nat)
<1>1. taken[k] \in Nat /\ taken[k] <= Len(asked[k]) /\ Len(asked[k]) \in Nat
  BY SizesAssumption DEF TypeOK
<1>2. BusyWith(k) => taken[k] >= 1
  <2> SUFFICES ASSUME NEW w \in Threads, pc[w] # "idle", Conn(w) = k PROVE taken[k] >= 1
    BY DEF BusyWith
  <2>1. No(w) = taken[k] /\ No(w) \in 1..MaxRequests
    BY RequestType DEF AtWork
  <2> QED
    BY <2>1
<1>3. replied[k] \in Seq(1..MaxRequests)
  BY DEF TypeOK
<1>4. replied[k] \in Seq(Nat)
  BY <1>3, SizesAssumption
<1> QED
  BY <1>1, <1>2, <1>4 DEF Done

\* What a step of the environment, or within a request, leaves alone.
LEMMA QuietStep ==
  ASSUME TypeOK, JobsTaken, AtWork, AllAnswered, [Next]_vars, NEW k \in Conns,
         taken'[k] = taken[k], replied'[k] = replied[k], k \in open' => k \in open,
         \A n \in 1..Len(asked[k]) : asked'[k][n] = asked[k][n],
         \A w \in Threads : Conn(w) = k /\ pc[w] # "idle" => pc'[w] # "idle",
         \A w \in Threads : Conn(w)' = k /\ pc'[w] # "idle" => pc[w] # "idle"
  PROVE  Answered(k, Done(k))'
<1>1. Done(k)' = Done(k)
  BY BusyWithKept
<1>2. Answered(k, Done(k)) /\ Done(k) \in Nat /\ Done(k) <= Len(asked[k]) /\ Len(asked[k]) \in Nat
  BY DoneType DEF AllAnswered
<1>3. \A n \in 1..Done(k) : n \in 1..Len(asked[k])
  BY <1>2
<1> DEFINE d == Done(k)
<1>4. ASSUME NEW e \in Nat, Answered(k, e), \A n \in 1..e : asked'[k][n] = asked[k][n]
      PROVE  Answered(k, e)'
  BY <1>4, AnswersKept
<1>5. Answered(k, d) /\ d \in Nat /\ \A n \in 1..d : asked'[k][n] = asked[k][n]
  BY <1>2, <1>3
<1> QED
  BY <1>1, <1>4, <1>5 DEF Answered


\* A thread that takes a request is idle, and nobody else works for its connection.
LEMMA TakerAlone ==
  ASSUME TypeOK, JobsTaken, AtWork, NEW th \in Threads, NEW k \in Conns, Takes(th, k)
  PROVE  /\ ~BusyWith(k) /\ Done(k) = taken[k]
         /\ taken'[k] = taken[k] + 1 /\ \A j \in Conns : j # k => taken'[j] = taken[j]
BY BusyIsExecutor DEF Takes, Serves, Done, TypeOK

\* A request of another connection is read.
LEMMA ReadElsewhere ==
  ASSUME TypeOK, JobsTaken, AtWork, AllAnswered, [Next]_vars, NEW th \in Threads, NEW k \in Conns,
         ReadMalformed(th, k) \/ ReadOther(th, k) \/ ReadTile(th, k),
         NEW j \in Conns, j # k
  PROVE  Answered(j, Done(j))'
<1>1. Takes(th, k) /\ asked' = asked
  BY DEF ReadMalformed, ReadOther, ReadTile
<1>2. taken'[j] = taken[j]
  BY <1>1, TakerAlone
<1>3. replied'[j] = replied[j] /\ (j \in open' => j \in open)
  BY DEF ReadMalformed, ReadOther, ReadTile, Reply, TypeOK
<1>4. CASE ReadMalformed(th, k) \/ ReadOther(th, k)
  BY <1>1, <1>2, <1>3, <1>4, QuietStep DEF ReadMalformed, ReadOther, threadVars
<1>5. CASE ReadTile(th, k)
  <2>1. Conn(th)' = k /\ pc[th] = "idle"
    BY <1>5, ReadTileWork DEF Takes
  <2>2. \A w \in Threads : w # th => pc'[w] = pc[w]
    BY <1>5, ReadTileWork
  <2> QED
    BY <1>1, <1>2, <1>3, <2>1, <2>2, QuietStep
<1> QED
  BY <1>4, <1>5

\* The request that is read is passed over, answered, or begun.
LEMMA ReadHere ==
  ASSUME TypeOK, JobsTaken, AtWork, AllAnswered, [Next]_vars, NEW th \in Threads, NEW k \in Conns,
         ReadMalformed(th, k) \/ ReadOther(th, k) \/ ReadTile(th, k)
  PROVE  Answered(k, Done(k))'
<1>1. Takes(th, k) /\ asked' = asked
  BY DEF ReadMalformed, ReadOther, ReadTile
<1>2. ~BusyWith(k) /\ Done(k) = taken[k] /\ taken'[k] = taken[k] + 1 /\ taken[k] \in Nat
  BY <1>1, TakerAlone, DoneType
<1>3. Answered(k, taken[k]) /\ replied[k] \in Seq(Nat)
  BY <1>2, DoneType DEF AllAnswered
<1> DEFINE d == taken[k]
<1>4. CASE ReadMalformed(th, k)
  <2>1. Answered(k, d + 1)
    BY <1>2, <1>3, <1>4, PassOver DEF ReadMalformed, Next1
  <2>2. Done(k)' = d + 1
    BY <1>2, <1>4 DEF Done, BusyWith, ReadMalformed, threadVars, Conn
  <2> QED
    BY <1>4, <2>1, <2>2 DEF Answered, ReadMalformed
<1>5. CASE ReadOther(th, k)
  <2>1. Done(k)' = d + 1
    BY <1>2, <1>5 DEF Done, BusyWith, ReadOther, threadVars, Conn
  <2>2. /\ replied'[k] = IF k \in open THEN Append(replied[k], d + 1) ELSE replied[k]
        /\ k \in open' => k \in open
    BY <1>5 DEF ReadOther, Reply, TypeOK
  <2>3. asked[k][d + 1].form # "malformed"
    BY <1>5 DEF ReadOther, Next1
  <2>4. ASSUME NEW e \in Nat, e = d PROVE Answered(k, e + 1)'
    BY <1>1, <1>3, <2>2, <2>3, <2>4, AnswerNext
  <2> QED
    BY <1>2, <2>1, <2>4 DEF Answered
<1>6. CASE ReadTile(th, k)
  <2>1. BusyWith(k)'
    BY <1>6, ReadTileWork DEF BusyWith
  <2>2. Done(k)' = d
    BY <1>2, <2>1 DEF Done
  <2> QED
    BY <1>3, <1>6, <2>2, ReadTileWork DEF Answered
<1> QED
  BY <1>4, <1>5, <1>6

\* The request in hand is answered.
LEMMA RespondWork ==
  ASSUME TypeOK, JobsTaken, AtWork, AllAnswered, NEW th \in Threads, Respond(th), NEW k \in Conns,
         k = Conn(th)
  PROVE  Answered(k, Done(k))'
<1>1. /\ pc[th] # "idle" /\ executor[k] = th /\ No(th) = taken[k]
      /\ asked[k][taken[k]].form # "malformed" /\ taken[k] \in Nat
  BY DoneType DEF Respond, AtWork, Request
<1>2. BusyWith(k) /\ Done(k) = taken[k] - 1 /\ Done(k) \in Nat
  BY <1>1, DoneType DEF BusyWith, Done
<1>3. UNCHANGED <<asked, taken, executor>> /\ pc'[th] = "idle" /\ \A w \in Threads : w # th => pc'[w] = pc[w] /\ job'[w] = job[w]
  BY DEF Respond, Finished, TypeOK
<1>4. ~BusyWith(k)'
  <2> SUFFICES ASSUME NEW w \in Threads, pc'[w] # "idle", Conn(w)' = k PROVE FALSE
    BY DEF BusyWith
  <2>1. w # th /\ pc[w] # "idle" /\ Conn(w) = k
    BY <1>3 DEF Conn
  <2> QED
    BY <1>1, <2>1 DEF AtWork
<1>5. Done(k)' = taken[k]
  BY <1>3, <1>4 DEF Done
<1>6. /\ replied'[k] = IF k \in open THEN Append(replied[k], taken[k]) ELSE replied[k]
      /\ k \in open' => k \in open
  BY <1>1 DEF Respond, Reply, TypeOK
<1>7. Answered(k, Done(k)) /\ replied[k] \in Seq(Nat)
  BY DoneType DEF AllAnswered
<1>8. ASSUME NEW e \in Nat, e = Done(k) PROVE Answered(k, e + 1)'
  <2>1. taken[k] = e + 1
    BY <1>1, <1>2, <1>8
  <2> QED
    BY <1>1, <1>3, <1>6, <1>7, <1>8, <2>1, AnswerNext
<1>9. taken[k] = Done(k) + 1
  BY <1>1, <1>2
<1> QED
  BY <1>2, <1>5, <1>8, <1>9 DEF Answered

LEMMA RespondElsewhere ==
  ASSUME TypeOK, JobsTaken, AtWork, AllAnswered, [Next]_vars, NEW th \in Threads, Respond(th),
         NEW k \in Conns, k # Conn(th)
  PROVE  Answered(k, Done(k))'
<1>1. UNCHANGED <<asked, taken, executor>> /\ pc'[th] = "idle" /\ \A w \in Threads : w # th => pc'[w] = pc[w] /\ job'[w] = job[w]
  BY DEF Respond, Finished, TypeOK
<1>2. replied'[k] = replied[k] /\ (k \in open' => k \in open)
  BY DEF Respond, Reply, TypeOK
<1> QED
  BY <1>1, <1>2, QuietStep

LEMMA AnsweredStep ==
  ASSUME TypeOK, JobsTaken, AtWork, AllAnswered, [Next]_vars
  PROVE  AllAnswered'
<1> SUFFICES ASSUME NEW k \in Conns PROVE Answered(k, Done(k))'
  BY DEF AllAnswered
<1>1. ASSUME NEW c \in Conns, Ask(c) PROVE Answered(k, Done(k))'
  <2>1. PICK r \in Requests : asked' = [asked EXCEPT ![c] = Append(@, r)]
    BY <1>1 DEF Ask
  <2>2. UNCHANGED <<taken, replied, open, pc>>
    BY <1>1 DEF Ask, threadVars
  <2>3. asked[c] \in Seq(Requests) /\ asked[k] \in Seq(Requests)
    BY DEF TypeOK
  <2>4. \A n \in 1..Len(asked[k]) : asked'[k][n] = asked[k][n]
    BY <2>1, <2>3 DEF TypeOK
  <2> QED
    BY <2>2, <2>4, QuietStep
<1>2. ASSUME NEW c \in Conns, Leave(c) PROVE Answered(k, Done(k))'
  BY <1>2, QuietStep DEF Leave, threadVars
<1>3. ASSUME NEW t \in Tiles, WriteTile(t) PROVE Answered(k, Done(k))'
  BY <1>3, QuietStep DEF WriteTile, connVars, threadVars
<1>4. ASSUME NEW th \in Threads, Busy(th) PROVE Answered(k, Done(k))'
  BY <1>4, BusyType, BusyStays, QuietStep DEF connVars
<1>5. ASSUME NEW th \in Threads, Read(th) PROVE Answered(k, Done(k))'
  BY <1>5, ReadHere, ReadElsewhere DEF Read
<1>6. ASSUME NEW th \in Threads, Respond(th) PROVE Answered(k, Done(k))'
  BY <1>6, RespondWork, RespondElsewhere
<1>7. CASE UNCHANGED vars
  BY <1>7, QuietStep DEF vars
<1> QED
  BY <1>1, <1>2, <1>3, <1>4, <1>5, <1>6, <1>7 DEF Next, Handle, Busy

\* The work and the answers, of every reachable state.
LEMMA ServedAlways == Spec => [](Typed /\ AtWork /\ AllAnswered)
<1>1. Init => AtWork /\ AllAnswered
  BY DEF Init, AtWork, AllAnswered, Answered, Done, BusyWith, Range
<1>2. Typed /\ AtWork /\ AllAnswered /\ [Next]_vars => AtWork' /\ AllAnswered'
  BY AtWorkStep, AnsweredStep DEF Typed
<1> QED
  BY <1>1, <1>2, TypedAlways, PTL DEF Spec

\* However the handler threads interleave, a client that pipelines requests
\* gets the answers in their order, with no gap but for the malformed ones.
THEOREM AnswersInOrder == Spec => []RepliesInOrder
<1>1. AllAnswered => RepliesInOrder
  BY DEF AllAnswered, Answered, RepliesInOrder
<1> QED
  BY <1>1, ServedAlways, PTL

-----------------------------------------------------------------------------
(* The service implements TileReads. What a client is given never goes back *)
(* because each of the places a version passes through - the database, the  *)
(* cache, the load under way, the answers in hand, the readers' views - is  *)
(* at least as new as those it passes on to.                                *)

HasTile == {"loaded", "store", "respond"}

\* Nothing is newer than the database.
FromRows ==
  /\ \A r \in Readers, t \in Tiles : view[r][t] <= rows[t]
  /\ \A e \in cache : e.version <= rows[e.key.tile]
  /\ \A th \in Threads : pc[th] # "idle" => tile[th] <= rows[Request(th).tile]

NoTileYet == \A th \in Threads : pc[th] \notin HasTile => tile[th] = 0

\* A key has one entry; it is not loaded while it has one; and the key of a
\* request in the path form has none before the request is loaded.
OneEntry == \A e, f \in cache : e.key = f.key => e = f

LoadsUncached == \A e \in cache : \A th \in Threads : pc[th] \in LoadingPc => e.key # KeyOf(th)

PathsUncached ==
  /\ \A e \in cache : \A th \in Threads : pc[th] = "get" /\ Request(th).form = "path" => e.key # KeyOf(th)
  /\ \A e \in cache : e.key.dbType # <<>> => e.key.dbType[2] <= taken[e.key.dbType[1]]

\* Whoever waits does so for a load of its key that is not complete.
Waiting ==
  \A w \in Threads : pc[w] = "wait" =>
    pc[loader[w]] \in {"connect", "query", "loaded"} /\ KeyOf(loader[w]) = KeyOf(w)

\* The key all requests for t in the query form share.
Shared(t) == [dbType |-> <<>>, tile |-> t]

\* Nobody who asks for t in the query form has, or is about to be given, a
\* version later than v.
Newest(t, v) ==
  /\ \A k \in Conns : view[<<k, "query">>][t] <= v
  /\ \A w \in Threads : pc[w] # "idle" /\ KeyOf(w) = Shared(t) => tile[w] <= v

CachedNewest == \A e \in cache : \A t \in Tiles : e.key = Shared(t) => Newest(t, e.version)

LoadedNewest ==
  \A th \in Threads, t \in Tiles :
    pc[th] \in {"loaded", "store"} /\ KeyOf(th) = Shared(t) /\ tile[th] # 0 => Newest(t, tile[th])

\* The version in hand is not older than what its client has seen.
AnswerNewest ==
  \A th \in Threads : pc[th] \in HasTile /\ tile[th] # 0 =>
    view[<<Conn(th), Request(th).form>>][Request(th).tile] <= tile[th]

LEMMA JobNotEmpty == \A j \in Job : j # <<>>
<1> SUFFICES ASSUME NEW j \in Job, j = <<>> PROVE FALSE
  OBVIOUS
<1>1. PICK k \in Conns, n \in 1..MaxRequests : j = <<k, n>>
  BY DEF Job
<1>2. Len(<<k, n>>) = 2
  OBVIOUS
<1>3. Len(<<>>) = 0
  OBVIOUS
<1> QED
  BY <1>1, <1>2, <1>3

\* Two threads with a key of the path form are one.
LEMMA PathKeysDiffer ==
  ASSUME TypeOK, JobsTaken, AtWork, NEW a \in Threads, NEW b \in Threads,
         pc[a] # "idle", pc[b] # "idle", KeyOf(a) = KeyOf(b), Request(a).form # "query"
  PROVE  a = b
<1>1. job[a] \in Job /\ job[b] \in Job
  BY DEF JobsTaken
<1>2. job[a] # <<>>
  BY <1>1, JobNotEmpty
<1>3. KeyOf(a).dbType = job[a] /\ KeyOf(b).dbType = IF Request(b).form = "query" THEN <<>> ELSE job[b]
  BY DEF KeyOf
<1>4. job[a] = job[b]
  BY <1>2, <1>3
<1> QED
  BY <1>4 DEF AtWork, Conn

\* In the query form the key is the tile's.
LEMMA QueryKey ==
  ASSUME TypeOK, JobsTaken, AtWork, NEW th \in Threads, pc[th] # "idle"
  PROVE  /\ Request(th).tile \in Tiles /\ KeyOf(th).tile = Request(th).tile
         /\ Request(th).form = "query" => KeyOf(th) = Shared(Request(th).tile)
         /\ \A t \in Tiles : KeyOf(th) = Shared(t) => Request(th).form = "query" /\ Request(th).tile = t
<1>1. job[th] \in Job
  BY DEF JobsTaken
<1>2. job[th] # <<>>
  BY <1>1, JobNotEmpty
<1> QED
  BY <1>2, RequestType DEF KeyOf, Shared

\* The versions in the state are numbers.
LEMMA VersionsType ==
  ASSUME TypeOK
  PROVE  /\ \A r \in Readers, t \in Tiles : view[r][t] \in Nat /\ view[r][t] \in Versions
         /\ \A t \in Tiles : rows[t] \in Nat
         /\ \A th \in Threads : tile[th] \in Nat
         /\ \A e \in cache : e.version \in Nat /\ e.version # 0 /\ e.key \in Key /\ e.key.tile \in Tiles
         /\ \A k \in Conns : <<k, "query">> \in Readers
<1>1. \A v \in Versions : v \in Nat
  BY SizesAssumption DEF Versions
<1>2. \A e \in cache : e \in [key : Key, version : 1..MaxVersion]
  BY DEF TypeOK
<1>3. \A e \in cache : e.version \in Nat /\ e.version # 0 /\ e.key \in Key
  BY <1>2, SizesAssumption
<1>4. \A e \in cache : e.key.tile \in Tiles
  BY <1>3 DEF Key
<1>5. \A k \in Conns : <<k, "query">> \in Readers
  BY DEF Readers, Forms
<1> QED
  BY <1>1, <1>3, <1>4, <1>5 DEF TypeOK

\* Where the version a busy thread has comes from.
FromHit(w) == Hit(w) /\ \E e \in cache : e.key = KeyOf(w) /\ tile'[w] = e.version

FromLoad(w) ==
  /\ pc[w] \in {"get", "wait"}
  /\ \E l \in Threads : pc[l] \in {"loaded", "store"} /\ KeyOf(l) = KeyOf(w) /\ tile'[w] = tile[l]

FromQuery(w) == Query(w) /\ tile'[w] = rows[Request(w).tile]

KeepsTile(w) ==
  tile'[w] = tile[w] /\ pc[w] # "idle" /\ (pc'[w] \in HasTile => pc[w] \in HasTile)

LEMMA TileSource ==
  ASSUME TypeOK, JobsTaken, AtWork, NoTileYet, Waiting, [Next]_vars, NEW w \in Threads, pc'[w] # "idle"
  PROVE  KeepsTile(w) \/ tile'[w] = 0 \/ FromHit(w) \/ FromLoad(w) \/ FromQuery(w)
<1> DEFINE Goal == KeepsTile(w) \/ tile'[w] = 0 \/ FromHit(w) \/ FromLoad(w) \/ FromQuery(w)
<1>1. ASSUME pc'[w] = pc[w], tile'[w] = tile[w] PROVE Goal
  BY <1>1 DEF KeepsTile
<1>2. ASSUME NEW k \in Conns, Ask(k) \/ Leave(k) PROVE Goal
  BY <1>1, <1>2 DEF Ask, Leave, threadVars
<1>3. ASSUME NEW t \in Tiles, WriteTile(t) PROVE Goal
  BY <1>1, <1>3 DEF WriteTile, threadVars
<1>4. ASSUME NEW th \in Threads, NEW k \in Conns, ReadMalformed(th, k) \/ ReadOther(th, k) PROVE Goal
  BY <1>1, <1>4 DEF ReadMalformed, ReadOther, threadVars
<1>5. ASSUME NEW th \in Threads, NEW k \in Conns, ReadTile(th, k) PROVE Goal
  <2>1. CASE w = th
    BY <1>5, <2>1 DEF ReadTile, Takes, NoTileYet, HasTile
  <2>2. CASE w # th
    BY <1>1, <1>5, <2>2, ReadTileWork
  <2> QED
    BY <2>1, <2>2
<1>6. ASSUME NEW th \in Threads, Hit(th) PROVE Goal
  <2>1. CASE w = th
    BY <1>6, <2>1 DEF Hit, FromHit, TypeOK
  <2>2. CASE w # th
    BY <1>1, <1>6, <2>2 DEF Hit, TypeOK
  <2> QED
    BY <2>1, <2>2
<1>7. ASSUME NEW th \in Threads, Join(th) PROVE Goal
  <2>1. PICK other \in Loading(KeyOf(th)) :
          \/ pc[other] = "store" /\ tile' = [tile EXCEPT ![th] = tile[other]] /\ pc' = [pc EXCEPT ![th] = "respond"]
          \/ pc' = [pc EXCEPT ![th] = "wait"] /\ tile' = tile
    BY <1>7 DEF Join
  <2>2. CASE w = th /\ pc[other] = "store" /\ tile' = [tile EXCEPT ![th] = tile[other]]
    BY <1>7, <2>1, <2>2 DEF Join, FromLoad, Loading, TypeOK
  <2>3. CASE w = th /\ tile' = tile
    BY <1>7, <2>3 DEF Join, NoTileYet, HasTile
  <2>4. CASE w # th
    BY <1>1, <2>1, <2>4 DEF TypeOK
  <2> QED
    BY <2>1, <2>2, <2>3, <2>4
<1>8. ASSUME NEW th \in Threads, Miss(th) \/ Connect(th) PROVE Goal
  BY <1>8 DEF Miss, Connect, NoTileYet, HasTile, TypeOK, KeepsTile
<1>9. ASSUME NEW th \in Threads, ConnectFails(th) \/ QueryFails(th) PROVE Goal
  <2>1. tile' = [tile EXCEPT ![th] = 0] /\ pc' = [pc EXCEPT ![th] = "loaded"]
    BY <1>9 DEF ConnectFails, QueryFails
  <2>2. CASE w = th
    BY <2>1, <2>2 DEF TypeOK
  <2>3. CASE w # th
    BY <1>1, <2>1, <2>3 DEF TypeOK
  <2> QED
    BY <2>2, <2>3
<1>10. ASSUME NEW th \in Threads, Query(th) PROVE Goal
  <2>1. CASE w = th
    BY <1>10, <2>1 DEF Query, FromQuery, TypeOK
  <2>2. CASE w # th
    BY <1>1, <1>10, <2>2 DEF Query, TypeOK
  <2> QED
    BY <2>1, <2>2
<1>11. ASSUME NEW th \in Threads, Complete(th) PROVE Goal
  <2>1. pc[th] = "loaded" /\ th \in Threads
    BY <1>11 DEF Complete
  <2>2. CASE pc[w] = "wait" /\ loader[w] = th
    <3>1. tile'[w] = tile[th] /\ KeyOf(th) = KeyOf(w)
      BY <1>11, <2>2 DEF Complete, Waiting
    <3> QED
      BY <2>1, <2>2, <3>1 DEF FromLoad
  <2>3. CASE ~(pc[w] = "wait" /\ loader[w] = th)
    <3>1. tile'[w] = tile[w] /\ (pc'[w] = pc[w] \/ (w = th /\ pc'[w] = "store"))
      BY <1>11, <2>3 DEF Complete
    <3> QED
      BY <2>1, <3>1, <1>1 DEF KeepsTile, HasTile
  <2> QED
    BY <2>2, <2>3
<1>12. ASSUME NEW th \in Threads, Store(th) PROVE Goal
  BY <1>12 DEF Store, TypeOK, KeepsTile, HasTile
<1>13. ASSUME NEW th \in Threads, Respond(th) PROVE Goal
  BY <1>1, <1>13 DEF Respond, Finished, TypeOK
<1>14. CASE UNCHANGED vars
  BY <1>1, <1>14 DEF vars
<1> QED
  BY <1>2, <1>3, <1>4, <1>5, <1>6, <1>7, <1>8, <1>9, <1>10, <1>11, <1>12, <1>13, <1>14
  DEF Next, Handle, Read, Get, Load

\* A view changes only by an answer.
Shows(th) ==
  /\ Respond(th) /\ tile[th] # 0
  /\ view' = [view EXCEPT ![<<Conn(th), Request(th).form>>][Request(th).tile] = tile[th]]

LEMMA ViewSource ==
  ASSUME [Next]_vars
  PROVE  view' = view \/ \E th \in Threads : Shows(th)
<1>1. ASSUME NEW th \in Threads, Respond(th) PROVE view' = view \/ Shows(th)
  BY <1>1 DEF Respond, Shows
<1>2. ASSUME NEW th \in Threads, Get(th) \/ Load(th) \/ Complete(th) \/ Store(th) PROVE view' = view
  BY <1>2 DEF Get, Hit, Join, Miss, Load, Connect, ConnectFails, Query, QueryFails, Complete, Store, connVars
<1>3. ASSUME NEW th \in Threads, Read(th) PROVE view' = view
  BY <1>3 DEF Read, ReadMalformed, ReadOther, ReadTile
<1>4. ASSUME NEW k \in Conns, Ask(k) \/ Leave(k) PROVE view' = view
  BY <1>4 DEF Ask, Leave
<1>5. ASSUME NEW t \in Tiles, WriteTile(t) PROVE view' = view
  BY <1>5 DEF WriteTile, connVars
<1>6. CASE UNCHANGED vars
  BY <1>6 DEF vars
<1> QED
  BY <1>1, <1>2, <1>3, <1>4, <1>5, <1>6 DEF Next, Handle

\* What an answer shows, and to whom.
LEMMA ShownView ==
  ASSUME TypeOK, JobsTaken, NEW th \in Threads, Shows(th), NEW r \in Readers, NEW t \in Tiles
  PROVE  view'[r][t] = IF r = <<Conn(th), Request(th).form>> /\ t = Request(th).tile
                       THEN tile[th] ELSE view[r][t]
<1>1. view \in [Readers -> [Tiles -> Versions]]
  BY DEF TypeOK
<1>2. pc[th] # "idle"
  BY DEF Shows, Respond
<1>3. <<Conn(th), Request(th).form>> \in Readers /\ Request(th).tile \in Tiles
  BY <1>2, RequestType DEF Readers
<1> QED
  BY <1>1, <1>3 DEF Shows

\* An entry comes into the cache when the load that made it is stored.
LEMMA CacheSource ==
  ASSUME TypeOK, [Next]_vars
  PROVE  \/ cache' = cache
         \/ \E th \in Threads :
              /\ Store(th) /\ tile' = tile /\ view' = view /\ rows' = rows /\ taken' = taken
              /\ \A e \in cache' : \/ e \in cache /\ (tile[th] # 0 => e.key # KeyOf(th))
                                   \/ tile[th] # 0 /\ e = [key |-> KeyOf(th), version |-> tile[th]]
<1>1. ASSUME NEW th \in Threads, Store(th)
      PROVE  /\ tile' = tile /\ view' = view /\ rows' = rows /\ taken' = taken
             /\ \A e \in cache' : \/ e \in cache /\ (tile[th] # 0 => e.key # KeyOf(th))
                                  \/ tile[th] # 0 /\ e = [key |-> KeyOf(th), version |-> tile[th]]
  <2>1. tile' = tile /\ view' = view /\ rows' = rows /\ taken' = taken
    BY <1>1 DEF Store, connVars
  <2> DEFINE old == {e \in cache : e.key = KeyOf(th)}
             new == IF tile[th] = 0 THEN {} ELSE {[key |-> KeyOf(th), version |-> tile[th]]}
  <2>2. PICK evicted : cache' = (cache \ (evicted \cup old)) \cup new
    BY <1>1 DEF Store
  <2> QED
    BY <2>1, <2>2
<1>2. ASSUME NEW th \in Threads, Get(th) \/ Load(th) \/ Complete(th) \/ Read(th) \/ Respond(th) PROVE cache' = cache
  BY <1>2 DEF Get, Hit, Join, Miss, Load, Connect, ConnectFails, Query, QueryFails, Complete, Read,
              ReadMalformed, ReadOther, ReadTile, Respond
<1>3. ASSUME NEW k \in Conns, Ask(k) \/ Leave(k) PROVE cache' = cache
  BY <1>3 DEF Ask, Leave
<1>4. ASSUME NEW t \in Tiles, WriteTile(t) PROVE cache' = cache
  BY <1>4 DEF WriteTile
<1>5. CASE UNCHANGED vars
  BY <1>5 DEF vars
<1> QED
  BY <1>1, <1>2, <1>3, <1>4, <1>5 DEF Next, Handle

\* The database only gains.
LEMMA RowsGrow ==
  ASSUME TypeOK, [Next]_vars, NEW t \in Tiles
  PROVE  rows[t] <= rows'[t] /\ rows[t] \in Nat /\ rows'[t] \in Nat
<1>1. rows \in [Tiles -> Versions] /\ \A x \in Tiles : rows[x] \in Nat
  BY VersionsType DEF TypeOK
<1>2. ASSUME NEW x \in Tiles, WriteTile(x) PROVE rows[t] <= rows'[t] /\ rows'[t] \in Nat
  <2>1. rows' = [rows EXCEPT ![x] = rows[x] + 1]
    BY <1>2 DEF WriteTile
  <2> QED
    BY <1>1, <2>1
<1>3. ASSUME NEW th \in Threads, Handle(th) PROVE rows' = rows
  BY <1>3 DEF Handle, Get, Hit, Join, Miss, Load, Connect, ConnectFails, Query, QueryFails, Complete, Read,
              ReadMalformed, ReadOther, ReadTile, Respond, Store
<1>4. ASSUME NEW k \in Conns, Ask(k) \/ Leave(k) PROVE rows' = rows
  BY <1>4 DEF Ask, Leave
<1>5. CASE UNCHANGED vars
  BY <1>1, <1>5 DEF vars
<1> QED
  BY <1>1, <1>2, <1>3, <1>4, <1>5 DEF Next

-----------------------------------------------------------------------------
(* Each part of the invariant, step by step.                               *)

LEMMA NoTileYetStep ==
  ASSUME TypeOK, JobsTaken, NoTileYet, [Next]_vars
  PROVE  NoTileYet'
<1> USE DEF NoTileYet, HasTile, TypeOK
<1>1. ASSUME NEW k \in Conns, Ask(k) \/ Leave(k) PROVE NoTileYet'
  BY <1>1 DEF Ask, Leave, threadVars
<1>2. ASSUME NEW t \in Tiles, WriteTile(t) PROVE NoTileYet'
  BY <1>2 DEF WriteTile, threadVars
<1>3. ASSUME NEW th \in Threads, Read(th) PROVE NoTileYet'
  BY <1>3 DEF Read, ReadMalformed, ReadOther, ReadTile, Takes, threadVars
<1>4. ASSUME NEW th \in Threads, Hit(th) \/ Miss(th) PROVE NoTileYet'
  BY <1>4 DEF Hit, Miss
<1>5. ASSUME NEW th \in Threads, Join(th) PROVE NoTileYet'
  <2>1. PICK other \in Loading(KeyOf(th)) :
          \/ tile' = [tile EXCEPT ![th] = tile[other]] /\ pc' = [pc EXCEPT ![th] = "respond"]
          \/ pc' = [pc EXCEPT ![th] = "wait"] /\ tile' = tile
    BY <1>5 DEF Join
  <2> QED
    BY <1>5, <2>1 DEF Join
<1>6. ASSUME NEW th \in Threads, Load(th) PROVE NoTileYet'
  BY <1>6 DEF Load, Connect, ConnectFails, Query, QueryFails
<1>7. ASSUME NEW th \in Threads, Complete(th) PROVE NoTileYet'
  BY <1>7 DEF Complete
<1>8. ASSUME NEW th \in Threads, Store(th) PROVE NoTileYet'
  BY <1>8 DEF Store
<1>9. ASSUME NEW th \in Threads, Respond(th) PROVE NoTileYet'
  BY <1>9 DEF Respond, Finished
<1>10. CASE UNCHANGED vars
  BY <1>10 DEF vars
<1> QED
  BY <1>1, <1>2, <1>3, <1>4, <1>5, <1>6, <1>7, <1>8, <1>9, <1>10 DEF Next, Handle, Get

LEMMA OneEntryStep ==
  ASSUME TypeOK, OneEntry, [Next]_vars
  PROVE  OneEntry'
<1>1. CASE cache' = cache
  BY <1>1 DEF OneEntry
<1>2. CASE cache' # cache
  <2>1. PICK th \in Threads : \A e \in cache' : \/ e \in cache /\ (tile[th] # 0 => e.key # KeyOf(th))
                                                \/ tile[th] # 0 /\ e = [key |-> KeyOf(th), version |-> tile[th]]
    BY <1>2, CacheSource
  <2> SUFFICES ASSUME NEW e \in cache', NEW f \in cache', e.key = f.key PROVE e = f
    BY DEF OneEntry
  <2> QED
    BY <2>1 DEF OneEntry
<1> QED
  BY <1>1, <1>2

\* A load begins where there is no entry, and its key is stored only by itself.
LEMMA LoadsUncachedStep ==
  ASSUME TypeOK, JobsTaken, SingleFlight, LoadsUncached, [Next]_vars
  PROVE  LoadsUncached'
<1> SUFFICES ASSUME NEW e \in cache', NEW th \in Threads, pc'[th] \in LoadingPc PROVE e.key # KeyOf(th)'
  BY DEF LoadsUncached
<1>1. pc[th] # "idle" /\ KeyOf(th)' = KeyOf(th)
  <2>1. pc[th] # "idle"
    BY LoadsBegin DEF Miss, LoadingPc
  <2> QED
    BY <2>1, KeyKept DEF LoadingPc
<1>2. CASE cache' = cache
  <2>1. CASE pc[th] \in LoadingPc
    BY <1>1, <1>2, <2>1 DEF LoadsUncached
  <2>2. CASE pc[th] \notin LoadingPc
    BY <1>1, <1>2, <2>2, LoadsBegin DEF Miss
  <2> QED
    BY <2>1, <2>2
<1>3. CASE cache' # cache
  <2>1. PICK s \in Threads : Store(s) /\ \A f \in cache' : f \in cache \/ f = [key |-> KeyOf(s), version |-> tile[s]]
    BY <1>3, CacheSource
  <2>2. pc[s] = "store" /\ pc' = [pc EXCEPT ![s] = "respond"]
    BY <2>1 DEF Store
  <2>3. th # s /\ pc[th] \in LoadingPc
    BY <2>2 DEF LoadingPc, TypeOK
  <2>4. KeyOf(th) # KeyOf(s)
    BY <2>2, <2>3 DEF SingleFlight, LoadingPc
  <2> QED
    BY <1>1, <2>1, <2>3, <2>4 DEF LoadsUncached
<1> QED
  BY <1>2, <1>3


\* A new request in the path form has a number no entry has, and only the load
\* of a request stores an entry for it.
LEMMA PathsUncachedStep ==
  ASSUME TypeOK, JobsTaken, AtWork, PathsUncached, [Next]_vars
  PROVE  PathsUncached'
<1>1. \A k \in Conns : taken[k] \in Nat /\ taken'[k] \in Nat /\ taken[k] <= taken'[k]
  <2>1. taken \in [Conns -> 0..MaxRequests] /\ \A n \in 0..MaxRequests : n \in Nat
    BY SizesAssumption DEF TypeOK
  <2>2. ASSUME NEW th \in Threads, NEW k \in Conns, Takes(th, k)
        PROVE  \A c \in Conns : taken'[c] \in Nat /\ taken[c] <= taken'[c]
    BY <2>1, <2>2 DEF Takes
  <2>3. taken' = taken \/ \E th \in Threads, k \in Conns : Takes(th, k)
    <3>1. ASSUME NEW th \in Threads, Handle(th) PROVE taken' = taken \/ \E k \in Conns : Takes(th, k)
      BY <3>1 DEF Handle, Get, Hit, Join, Miss, Load, Connect, ConnectFails, Query, QueryFails, Complete, Store,
                  Read, ReadMalformed, ReadOther, ReadTile, Respond, connVars
    <3>2. ASSUME NEW k \in Conns, Ask(k) \/ Leave(k) PROVE taken' = taken
      BY <3>2 DEF Ask, Leave
    <3>3. ASSUME NEW t \in Tiles, WriteTile(t) PROVE taken' = taken
      BY <3>3 DEF WriteTile, connVars
    <3>4. CASE UNCHANGED vars
      BY <3>4 DEF vars
    <3> QED
      BY <3>1, <3>2, <3>3, <3>4 DEF Next
  <2> QED
    BY <2>1, <2>2, <2>3
<1>2. ASSUME NEW e \in cache', e.key.dbType # <<>>
      PROVE  e.key.dbType \in Job /\ e.key.dbType[2] <= taken'[e.key.dbType[1]]
  <2>1. CASE e \in cache
    <3>1. e.key \in Key /\ e.key.dbType \in Job
      BY <1>2, <2>1, VersionsType DEF Key
    <3>2. e.key.dbType[1] \in Conns /\ e.key.dbType[2] \in Nat
      BY <3>1 DEF Job
    <3>3. e.key.dbType[2] <= taken[e.key.dbType[1]]
      BY <1>2, <2>1 DEF PathsUncached
    <3> QED
      BY <1>1, <3>1, <3>2, <3>3
  <2>2. CASE e \notin cache
    <3>1. PICK th \in Threads : Store(th) /\ taken' = taken /\ e = [key |-> KeyOf(th), version |-> tile[th]]
      BY <2>2, CacheSource
    <3>2. e.key.dbType = job[th]
      BY <1>2, <3>1 DEF KeyOf
    <3>3. pc[th] # "idle"
      BY <3>1 DEF Store
    <3>4. job[th] \in Job /\ job[th][2] <= taken[job[th][1]]
      BY <3>3 DEF JobsTaken, No, Conn
    <3> QED
      BY <3>1, <3>2, <3>4
  <2> QED
    BY <2>1, <2>2
<1>3. ASSUME NEW e \in cache', NEW th \in Threads, pc'[th] = "get", Request(th)'.form = "path",
             e.key = KeyOf(th)'
      PROVE  FALSE
  <2>1. CASE pc[th] = "idle"
    <3>1. PICK k \in Conns : ReadTile(th, k)
      BY <1>3, <2>1, WorkBegins
    <3>2. e \in cache /\ job'[th] = <<k, taken[k] + 1>>
      BY <3>1 DEF ReadTile, TypeOK
    <3>3. e.key.dbType = <<k, taken[k] + 1>>
      BY <1>3, <3>2 DEF KeyOf
    <3>4. <<k, taken[k] + 1>> # <<>> /\ <<k, taken[k] + 1>>[2] = taken[k] + 1 /\ <<k, taken[k] + 1>>[1] = k
      <4>1. Len(<<k, taken[k] + 1>>) = 2 /\ Len(<<>>) = 0
        OBVIOUS
      <4> QED
        BY <4>1
    <3>5. taken[k] + 1 <= taken[k]
      BY <3>2, <3>3, <3>4 DEF PathsUncached
    <3> QED
      BY <1>1, <3>5
  <2>2. CASE pc[th] # "idle"
    <3>1. Request(th)' = Request(th) /\ KeyOf(th)' = KeyOf(th)
      BY <1>3, <2>2, WorkKept, KeyKept
    <3>2. pc[th] = "get"
      <4>1. ASSUME NEW s \in Threads, Handle(s) PROVE pc[th] \in {"get", "idle"}
        BY <1>3, <4>1 DEF Handle, Get, Hit, Join, Miss, Load, Connect, ConnectFails, Query, QueryFails, Complete, Store,
                  Read, ReadMalformed, ReadOther, ReadTile, Takes, Respond, Finished, threadVars, TypeOK
      <4>2. ASSUME NEW k \in Conns, Ask(k) \/ Leave(k) PROVE pc' = pc
        BY <4>2 DEF Ask, Leave, threadVars
      <4>3. ASSUME NEW t \in Tiles, WriteTile(t) PROVE pc' = pc
        BY <4>3 DEF WriteTile, threadVars
      <4> QED
        BY <1>3, <2>2, <4>1, <4>2, <4>3 DEF Next, vars
    <3>3. CASE e \in cache
      BY <1>3, <3>1, <3>2, <3>3 DEF PathsUncached
    <3>4. CASE e \notin cache
      <4>1. PICK s \in Threads : Store(s) /\ e = [key |-> KeyOf(s), version |-> tile[s]]
        BY <3>4, CacheSource
      <4>2. pc[s] = "store" /\ KeyOf(s) = KeyOf(th)
        BY <1>3, <3>1, <4>1 DEF Store
      <4>3. s = th
        BY <1>3, <3>1, <3>2, <4>2, PathKeysDiffer
      <4> QED
        BY <3>2, <4>2, <4>3
    <3> QED
      BY <3>3, <3>4
  <2> QED
    BY <2>1, <2>2
<1> QED
  BY <1>2, <1>3 DEF PathsUncached

LEMMA WaitBegins ==
  ASSUME TypeOK, [Next]_vars, NEW w \in Threads, pc[w] # "wait", pc'[w] = "wait"
  PROVE  Join(w)
<1> USE DEF TypeOK
<1>1. ASSUME NEW th \in Threads, Join(th) PROVE Join(w)
  <2>1. pc' = [pc EXCEPT ![th] = "respond"] \/ pc' = [pc EXCEPT ![th] = "wait"]
    BY <1>1 DEF Join
  <2> QED
    BY <1>1, <2>1
<1>2. ASSUME NEW th \in Threads, Hit(th) \/ Miss(th) \/ Load(th) PROVE FALSE
  BY <1>2 DEF Hit, Miss, Load, Connect, ConnectFails, Query, QueryFails
<1>3. ASSUME NEW th \in Threads, Complete(th) PROVE FALSE
  BY <1>3 DEF Complete
<1>4. ASSUME NEW th \in Threads, Store(th) \/ Respond(th) PROVE FALSE
  BY <1>4 DEF Store, Respond, Finished
<1>5. ASSUME NEW th \in Threads, Read(th) PROVE FALSE
  BY <1>5 DEF Read, ReadMalformed, ReadOther, ReadTile, threadVars
<1>6. ASSUME NEW k \in Conns, Ask(k) \/ Leave(k) PROVE FALSE
  BY <1>6 DEF Ask, Leave, threadVars
<1>7. ASSUME NEW t \in Tiles, WriteTile(t) PROVE FALSE
  BY <1>7 DEF WriteTile, threadVars
<1>8. ~UNCHANGED vars
  BY DEF vars
<1> QED
  BY <1>1, <1>2, <1>3, <1>4, <1>5, <1>6, <1>7, <1>8 DEF Next, Handle, Get

\* A load that is waited for stays under way until its value is handed over.
LEMMA WaitingStep ==
  ASSUME TypeOK, JobsTaken, Waiting, [Next]_vars
  PROVE  Waiting'
<1>1. \A w \in Threads : loader[w] \in Threads /\ loader'[w] \in Threads
  BY TypedStep DEF TypeOK, Typed
<1> SUFFICES ASSUME NEW w \in Threads, pc'[w] = "wait", NEW m \in Threads, m = loader'[w]
             PROVE  pc'[m] \in {"connect", "query", "loaded"} /\ KeyOf(m)' = KeyOf(w)'
  BY <1>1 DEF Waiting, KeyOf, Request, Conn, No
<1> DEFINE l == loader[w]
<1>2. l \in Threads
  BY <1>1
<1>3. CASE pc[w] = "wait"
  <2>1. pc[l] \in {"connect", "query", "loaded"} /\ KeyOf(l) = KeyOf(w)
    BY <1>3 DEF Waiting
  <2>2. loader'[w] = l /\ pc'[l] \in {"connect", "query", "loaded"}
    <3>1. ASSUME NEW s \in Threads, Get(s) PROVE loader'[w] = l /\ pc'[l] = pc[l]
      BY <1>3, <2>1, <3>1 DEF Get, Hit, Join, Miss, TypeOK
    <3>2. ASSUME NEW s \in Threads, Load(s) PROVE loader'[w] = l /\ pc'[l] \in {"connect", "query", "loaded"}
      BY <1>2, <2>1, <3>2 DEF Load, Connect, ConnectFails, Query, QueryFails, TypeOK
    <3>3. ASSUME NEW s \in Threads, Complete(s) PROVE loader'[w] = l /\ pc'[l] = pc[l]
      <4>1. s # l
        BY <1>3, <3>3 DEF Complete
      <4> QED
        BY <1>2, <2>1, <3>3, <4>1 DEF Complete
    <3>4. ASSUME NEW s \in Threads, Store(s) \/ Respond(s) \/ Read(s) PROVE loader'[w] = l /\ pc'[l] = pc[l]
      BY <1>2, <1>3, <2>1, <3>4 DEF Store, Respond, Finished, Read, ReadMalformed, ReadOther, ReadTile, Takes,
                                   threadVars, TypeOK
    <3>5. ASSUME NEW k \in Conns, Ask(k) \/ Leave(k) PROVE loader'[w] = l /\ pc'[l] = pc[l]
      BY <3>5 DEF Ask, Leave, threadVars
    <3>6. ASSUME NEW t \in Tiles, WriteTile(t) PROVE loader'[w] = l /\ pc'[l] = pc[l]
      BY <3>6 DEF WriteTile, threadVars
    <3>7. CASE UNCHANGED vars
      BY <2>1, <3>7 DEF vars
    <3> QED
      BY <2>1, <3>1, <3>2, <3>3, <3>4, <3>5, <3>6, <3>7 DEF Next, Handle
  <2>3. KeyOf(l)' = KeyOf(l) /\ KeyOf(w)' = KeyOf(w)
    BY <1>2, <1>3, <2>1, <2>2, KeyKept
  <2> QED
    BY <2>1, <2>2, <2>3
<1>4. CASE pc[w] # "wait"
  <2>1. Join(w)
    BY <1>4, WaitBegins
  <2>2. PICK other \in Loading(KeyOf(w)) :
          /\ pc[other] # "store" /\ loader' = [loader EXCEPT ![w] = other] /\ pc' = [pc EXCEPT ![w] = "wait"]
    BY <2>1 DEF Join, TypeOK
  <2>3. other \in Threads /\ pc[other] \in {"connect", "query", "loaded"} /\ KeyOf(other) = KeyOf(w) /\ pc[w] = "get"
    BY <2>1, <2>2 DEF Loading, LoadingPc, Join
  <2>4. loader'[w] = other /\ pc'[other] = pc[other]
    BY <2>2, <2>3 DEF TypeOK
  <2>5. KeyOf(other)' = KeyOf(other) /\ KeyOf(w)' = KeyOf(w)
    BY <2>3, <2>4, KeyKept
  <2> QED
    BY <2>3, <2>4, <2>5
<1> QED
  BY <1>3, <1>4


\* After a step a busy thread's request is one for a tile, too.
LEMMA RequestTypeNext ==
  ASSUME TypeOK', JobsTaken', NEW th \in Threads, pc'[th] # "idle"
  PROVE  Request(th)'.tile \in Tiles
<1>1. /\ job'[th] \in Job /\ job'[th][1] \in Conns
      /\ job'[th][2] \in 1..Len(asked'[job'[th][1]])
  BY DEF JobsTaken, TypeOK, Job, No, Conn
<1>2. asked'[job'[th][1]][job'[th][2]] \in Requests
  BY <1>1 DEF TypeOK
<1> QED
  BY <1>2, RequestsAssumption DEF Request, Conn, No

\* Types and keys, together.
Placed == OneEntry /\ LoadsUncached /\ PathsUncached /\ Waiting /\ NoTileYet

Founded == Typed /\ AtWork /\ SingleFlight /\ Placed

\* Whatever is passed on is not newer than the database was.
LEMMA FromRowsStep ==
  ASSUME Founded, FromRows, [Next]_vars
  PROVE  FromRows'
<1> USE DEF Founded, Typed, Placed
<1> USE VersionsType
<1>1. \A r \in Readers, t \in Tiles : view'[r][t] <= rows'[t]
  <2> SUFFICES ASSUME NEW r \in Readers, NEW t \in Tiles PROVE view'[r][t] <= rows'[t]
    OBVIOUS
  <2>1. view[r][t] <= rows[t] /\ rows[t] <= rows'[t] /\ rows'[t] \in Nat
    BY RowsGrow DEF FromRows
  <2>2. CASE view' = view
    BY <2>1, <2>2
  <2>3. ASSUME NEW th \in Threads, Shows(th) PROVE view'[r][t] <= rows'[t]
    <3>1. t = Request(th).tile => tile[th] <= rows[t]
      BY <2>3 DEF FromRows, Shows, Respond
    <3> QED
      BY <2>1, <2>3, <3>1, ShownView
  <2> QED
    BY <2>2, <2>3, ViewSource
<1>2. \A e \in cache' : e.version <= rows'[e.key.tile]
  <2> SUFFICES ASSUME NEW e \in cache' PROVE e.version <= rows'[e.key.tile]
    OBVIOUS
  <2>1. CASE e \in cache
    BY <2>1, RowsGrow DEF FromRows
  <2>2. CASE e \notin cache
    <3>1. PICK th \in Threads : Store(th) /\ rows' = rows /\ e = [key |-> KeyOf(th), version |-> tile[th]]
      BY <2>2, CacheSource
    <3>2. pc[th] # "idle"
      BY <3>1 DEF Store
    <3> QED
      BY <3>1, <3>2, QueryKey DEF FromRows
  <2> QED
    BY <2>1, <2>2
<1>3. \A th \in Threads : pc'[th] # "idle" => tile'[th] <= rows'[Request(th)'.tile]
  <2> SUFFICES ASSUME NEW w \in Threads, pc'[w] # "idle" PROVE tile'[w] <= rows'[Request(w)'.tile]
    OBVIOUS
  <2>1. Request(w)'.tile \in Tiles
    BY TypedStep, RequestTypeNext
  <2>2. rows'[Request(w)'.tile] \in Nat /\ rows[Request(w)'.tile] <= rows'[Request(w)'.tile]
        /\ rows[Request(w)'.tile] \in Nat
    BY <2>1, RowsGrow
  <2>3. CASE tile'[w] = 0
    BY <2>2, <2>3
  <2>4. CASE pc[w] # "idle"
    <3>1. Request(w)' = Request(w)
      BY <2>4, WorkKept
    <3>2. CASE KeepsTile(w)
      BY <2>2, <2>4, <3>1, <3>2 DEF KeepsTile, FromRows
    <3>3. CASE FromHit(w)
      <4>1. PICK e \in cache : e.key = KeyOf(w) /\ tile'[w] = e.version
        BY <3>3 DEF FromHit
      <4>2. e.version <= rows[Request(w).tile]
        BY <2>4, <4>1, QueryKey DEF FromRows
      <4> QED
        BY <2>2, <3>1, <4>1, <4>2
    <3>4. CASE FromLoad(w)
      <4>1. PICK l \in Threads : pc[l] \in {"loaded", "store"} /\ KeyOf(l) = KeyOf(w) /\ tile'[w] = tile[l]
        BY <3>4 DEF FromLoad
      <4>2. Request(l).tile = Request(w).tile /\ tile[l] <= rows[Request(l).tile]
        BY <2>4, <4>1, QueryKey DEF FromRows
      <4> QED
        BY <2>2, <3>1, <4>1, <4>2
    <3>5. CASE FromQuery(w)
      BY <2>2, <3>1, <3>5 DEF FromQuery
    <3> QED
      BY <2>3, <3>2, <3>3, <3>4, <3>5, TileSource
  <2>5. CASE pc[w] = "idle"
    <3>1. tile'[w] = tile[w] /\ tile[w] = 0
      BY <2>5, WorkBegins, ReadTileWork DEF NoTileYet, HasTile
    <3> QED
      BY <2>3, <3>1
  <2> QED
    BY <2>4, <2>5
<1> QED
  BY <1>1, <1>2, <1>3 DEF FromRows


\* A version stays the newest of those given out as long as only versions that
\* are not later are handed on.
LEMMA NewestKept ==
  ASSUME Founded, [Next]_vars, NEW t \in Tiles, NEW v \in Nat, Newest(t, v),
         \A w \in Threads : pc'[w] # "idle" /\ KeyOf(w)' = Shared(t) => tile'[w] <= v
  PROVE  Newest(t, v)'
<1> USE DEF Founded, Typed
<1>1. \A k \in Conns : view'[<<k, "query">>][t] <= v
  <2> SUFFICES ASSUME NEW k \in Conns PROVE view'[<<k, "query">>][t] <= v
    OBVIOUS
  <2>1. view[<<k, "query">>][t] <= v /\ <<k, "query">> \in Readers
    BY VersionsType DEF Newest
  <2>2. ASSUME NEW th \in Threads, Shows(th) PROVE view'[<<k, "query">>][t] <= v
    <3>1. pc[th] # "idle"
      BY <2>2 DEF Shows, Respond
    <3>2. Request(th).form = "query" /\ Request(th).tile = t => tile[th] <= v
      BY <3>1, QueryKey DEF Newest
    <3>3. view'[<<k, "query">>][t] = IF <<k, "query">> = <<Conn(th), Request(th).form>> /\ t = Request(th).tile
                                      THEN tile[th] ELSE view[<<k, "query">>][t]
      BY <2>1, <2>2, ShownView
    <3> QED
      BY <2>1, <3>2, <3>3
  <2> QED
    BY <2>1, <2>2, ViewSource
<1> QED
  BY <1>1 DEF Newest, Shared

\* A thread that is busy after the step either begins, with nothing, or has the
\* key it had.
LEMMA BusyBefore ==
  ASSUME Founded, [Next]_vars, NEW w \in Threads, pc'[w] # "idle"
  PROVE  tile'[w] = 0 \/ (pc[w] # "idle" /\ KeyOf(w)' = KeyOf(w) /\ Request(w)' = Request(w) /\ Conn(w)' = Conn(w))
<1> USE DEF Founded, Typed, Placed
<1>1. CASE pc[w] # "idle"
  BY <1>1, KeyKept, WorkKept DEF Conn
<1>2. CASE pc[w] = "idle"
  BY <1>2, WorkBegins, ReadTileWork DEF NoTileYet, HasTile
<1> QED
  BY <1>1, <1>2

\* An entry that stays: whoever is given a version now is given its version.
LEMMA EntryStaysNewest ==
  ASSUME Founded, CachedNewest, [Next]_vars, NEW e \in cache, NEW t \in Tiles, e.key = Shared(t)
  PROVE  Newest(t, e.version)'
<1> USE DEF Founded, Typed, Placed
<1>1. Newest(t, e.version) /\ e.version \in Nat
  BY VersionsType DEF CachedNewest
<1>2. ASSUME NEW w \in Threads, pc'[w] # "idle", KeyOf(w)' = Shared(t) PROVE tile'[w] <= e.version
  <2>1. CASE tile'[w] = 0
    BY <1>1, <2>1
  <2>2. CASE tile'[w] # 0
    <3>1. pc[w] # "idle" /\ KeyOf(w) = e.key
      BY <1>2, <2>2, BusyBefore
    <3>2. CASE KeepsTile(w)
      BY <1>1, <3>1, <3>2 DEF KeepsTile, Newest
    <3>3. CASE FromHit(w)
      <4>1. PICK f \in cache : f.key = KeyOf(w) /\ tile'[w] = f.version
        BY <3>3 DEF FromHit
      <4>2. f = e
        BY <3>1, <4>1 DEF OneEntry
      <4> QED
        BY <1>1, <4>1, <4>2
    <3>4. ~FromLoad(w)
      BY <3>1 DEF FromLoad, LoadsUncached, LoadingPc
    <3>5. ~FromQuery(w)
      BY <3>1 DEF FromQuery, Query, LoadsUncached, LoadingPc
    <3> QED
      BY <1>2, <2>2, <3>2, <3>3, <3>4, <3>5, TileSource
  <2> QED
    BY <2>1, <2>2
<1> QED
  BY <1>1, <1>2, NewestKept

LEMMA CachedNewestStep ==
  ASSUME Founded, CachedNewest, LoadedNewest, [Next]_vars
  PROVE  CachedNewest'
<1> USE DEF Founded, Typed, Placed
<1> SUFFICES ASSUME NEW e \in cache', NEW t \in Tiles, e.key = Shared(t) PROVE Newest(t, e.version)'
  BY DEF CachedNewest, Shared
<1>1. CASE e \in cache
  BY <1>1, EntryStaysNewest
<1>2. CASE e \notin cache
  <2>1. PICK th \in Threads : /\ Store(th) /\ tile' = tile /\ view' = view
                              /\ tile[th] # 0 /\ e = [key |-> KeyOf(th), version |-> tile[th]]
    BY <1>2, CacheSource
  <2>2. pc[th] = "store" /\ KeyOf(th) = Shared(t) /\ e.version = tile[th]
    BY <2>1 DEF Store
  <2>3. Newest(t, e.version) /\ e.version \in Nat
    BY <2>1, <2>2, VersionsType DEF LoadedNewest
  <2>4. ASSUME NEW w \in Threads, pc'[w] # "idle", KeyOf(w)' = Shared(t) PROVE tile'[w] <= e.version
    BY <2>1, <2>3, <2>4, BusyBefore DEF Newest
  <2> QED
    BY <2>3, <2>4, NewestKept
<1> QED
  BY <1>1, <1>2

\* The version a load has stays the newest.
LEMMA LoadStaysNewest ==
  ASSUME Founded, LoadedNewest, [Next]_vars, NEW th \in Threads, NEW t \in Tiles,
         pc[th] \in {"loaded", "store"}, KeyOf(th) = Shared(t), tile[th] # 0,
         NEW v \in Nat, v = tile[th]
  PROVE  Newest(t, v)'
<1> USE DEF Founded, Typed, Placed
<1>1. Newest(t, v)
  BY DEF LoadedNewest
<1>2. ASSUME NEW w \in Threads, pc'[w] # "idle", KeyOf(w)' = Shared(t), tile'[w] # 0 PROVE tile'[w] <= v
  <2>1. pc[w] # "idle" /\ KeyOf(w) = KeyOf(th)
    BY <1>2, BusyBefore
  <2>2. CASE KeepsTile(w)
    BY <1>1, <2>1, <2>2 DEF KeepsTile, Newest
  <2>3. ~FromHit(w)
    BY <2>1 DEF FromHit, LoadsUncached, LoadingPc
  <2>4. CASE FromLoad(w)
    <3>1. PICK l \in Threads : pc[l] \in {"loaded", "store"} /\ KeyOf(l) = KeyOf(w) /\ tile'[w] = tile[l]
      BY <2>4 DEF FromLoad
    <3>2. l = th
      BY <2>1, <3>1 DEF SingleFlight, LoadingPc
    <3> QED
      BY <1>1, <3>1, <3>2
  <2>5. ~FromQuery(w)
    <3>1. pc[w] = "query" => w = th
      BY <2>1 DEF SingleFlight, LoadingPc
    <3> QED
      BY <3>1 DEF FromQuery, Query
  <2> QED
    BY <1>2, <2>2, <2>3, <2>4, <2>5, TileSource
<1>3. ASSUME NEW w \in Threads, pc'[w] # "idle", KeyOf(w)' = Shared(t) PROVE tile'[w] <= v
  BY <1>2, <1>3
<1> QED
  BY <1>1, <1>3, NewestKept


\* A load gets its version from the database, which has the newest there is.
LEMMA QueriedNewest ==
  ASSUME Founded, FromRows, [Next]_vars, NEW th \in Threads, NEW t \in Tiles, FromQuery(th),
         KeyOf(th) = Shared(t), NEW v \in Nat, v = rows[t]
  PROVE  Newest(t, v)'
<1> USE DEF Founded, Typed, Placed
<1>1. pc[th] = "query" /\ Request(th).tile = t
  BY QueryKey DEF FromQuery, Query
<1>2. Newest(t, v)
  <2>1. ASSUME NEW w \in Threads, pc[w] # "idle", KeyOf(w) = Shared(t) PROVE tile[w] <= v
    BY <2>1, QueryKey DEF FromRows
  <2>2. ASSUME NEW k \in Conns PROVE view[<<k, "query">>][t] <= v
    BY VersionsType DEF FromRows
  <2> QED
    BY <2>1, <2>2 DEF Newest
<1>3. ASSUME NEW w \in Threads, pc'[w] # "idle", KeyOf(w)' = Shared(t) PROVE tile'[w] <= v
  <2>1. tile' = [tile EXCEPT ![th] = rows[Request(th).tile]]
    BY DEF FromQuery, Query
  <2>2. CASE w = th
    BY <1>1, <2>1, <2>2 DEF TypeOK
  <2>3. CASE w # th
    <3>1. tile'[w] = tile[w]
      BY <2>1, <2>3 DEF TypeOK
    <3>2. CASE tile'[w] = 0
      BY <3>2
    <3>3. CASE tile'[w] # 0
      BY <1>2, <1>3, <3>1, <3>3, BusyBefore DEF Newest
    <3> QED
      BY <3>2, <3>3
  <2> QED
    BY <2>2, <2>3
<1> QED
  BY <1>2, <1>3, NewestKept

LEMMA LoadedNewestStep ==
  ASSUME Founded, FromRows, LoadedNewest, [Next]_vars
  PROVE  LoadedNewest'
<1> USE DEF Founded, Typed, Placed
<1> SUFFICES ASSUME NEW th \in Threads, NEW t \in Tiles, pc'[th] \in {"loaded", "store"},
                    KeyOf(th)' = Shared(t), tile'[th] # 0, NEW v, v = tile'[th]
             PROVE  Newest(t, v)'
  BY DEF LoadedNewest, Shared, Newest, KeyOf, Request, Conn, No
<1>1. pc[th] # "idle" /\ KeyOf(th) = Shared(t)
  BY BusyBefore
<1>2. pc[th] \in LoadingPc
  BY LoadsBegin DEF Miss, TypeOK, LoadingPc
<1>3. ~FromHit(th) /\ ~FromLoad(th)
  BY <1>2 DEF FromHit, Hit, FromLoad, LoadingPc
<1>4. CASE KeepsTile(th)
  <2>1. pc[th] \in {"loaded", "store"} /\ tile[th] = v
    BY <1>2, <1>4 DEF KeepsTile, HasTile, LoadingPc
  <2>2. v \in Nat /\ tile[th] # 0
    BY <2>1, VersionsType
  <2> QED
    BY <1>1, <2>1, <2>2, LoadStaysNewest
<1>5. CASE FromQuery(th)
  <2>1. v = rows[t] /\ v \in Nat
    BY <1>1, <1>5, QueryKey, VersionsType DEF FromQuery
  <2> QED
    BY <1>1, <1>5, <2>1, QueriedNewest
<1> QED
  BY <1>3, <1>4, <1>5, TileSource

\* While a thread works for a reader, nobody else shows that reader anything.
LEMMA ReaderKept ==
  ASSUME Founded, [Next]_vars, NEW w \in Threads, pc[w] # "idle", pc'[w] # "idle", NEW t \in Tiles
  PROVE  view'[<<Conn(w), Request(w).form>>][t] = view[<<Conn(w), Request(w).form>>][t]
<1> USE DEF Founded, Typed
<1>1. <<Conn(w), Request(w).form>> \in Readers /\ executor[Conn(w)] = w
  BY RequestType DEF Readers, AtWork
<1>2. ASSUME NEW th \in Threads, Shows(th)
      PROVE  view'[<<Conn(w), Request(w).form>>][t] = view[<<Conn(w), Request(w).form>>][t]
  <2>1. pc[th] # "idle" /\ pc'[th] = "idle"
    BY <1>2 DEF Shows, Respond, Finished, TypeOK
  <2>2. Conn(th) # Conn(w)
    BY <1>1, <2>1 DEF AtWork
  <2>3. <<Conn(w), Request(w).form>> # <<Conn(th), Request(th).form>>
    BY <2>2
  <2> QED
    BY <1>1, <1>2, <2>3, ShownView
<1> QED
  BY <1>2, ViewSource

LEMMA AnswerNewestStep ==
  ASSUME Founded, FromRows, CachedNewest, LoadedNewest, AnswerNewest, [Next]_vars
  PROVE  AnswerNewest'
<1> USE DEF Founded, Typed, Placed
<1> SUFFICES ASSUME NEW w \in Threads, pc'[w] \in HasTile, tile'[w] # 0
             PROVE  view'[<<Conn(w)', Request(w)'.form>>][Request(w)'.tile] <= tile'[w]
  BY DEF AnswerNewest, HasTile
<1> DEFINE r == <<Conn(w), Request(w).form>>
           t == Request(w).tile
<1>1. pc'[w] # "idle"
  BY DEF HasTile
<1>2. pc[w] # "idle" /\ Request(w)' = Request(w) /\ Conn(w)' = Conn(w)
  BY <1>1, BusyBefore
<1>3. t \in Tiles /\ r \in Readers /\ Request(w).form \in {"path", "query"}
  BY <1>2, RequestType DEF AtWork, Readers
<1>4. view'[r][t] = view[r][t]
  BY <1>1, <1>2, <1>3, ReaderKept
<1>5. view[r][t] <= tile'[w]
  <2>1. CASE KeepsTile(w)
    BY <2>1 DEF KeepsTile, AnswerNewest
  <2>2. CASE FromHit(w)
    <3>1. PICK e \in cache : e.key = KeyOf(w) /\ tile'[w] = e.version
      BY <2>2 DEF FromHit
    <3>2. pc[w] = "get"
      BY <2>2 DEF FromHit, Hit
    <3>3. Request(w).form = "query"
      BY <1>3, <3>1, <3>2 DEF PathsUncached
    <3>4. e.key = Shared(t)
      BY <1>2, <3>1, <3>3, QueryKey
    <3>5. Newest(t, e.version)
      BY <1>3, <3>4 DEF CachedNewest
    <3> QED
      BY <1>2, <3>1, <3>3, <3>5, RequestType DEF Newest
  <2>3. CASE FromLoad(w)
    <3>1. PICK l \in Threads : pc[l] \in {"loaded", "store"} /\ KeyOf(l) = KeyOf(w) /\ tile'[w] = tile[l]
      BY <2>3 DEF FromLoad
    <3>2. Request(w).form = "query"
      <4>1. w # l
        BY <2>3, <3>1 DEF FromLoad
      <4> QED
        BY <1>2, <1>3, <3>1, <4>1, PathKeysDiffer
    <3>3. KeyOf(l) = Shared(t)
      BY <1>2, <3>1, <3>2, QueryKey
    <3>4. Newest(t, tile[l])
      BY <1>3, <3>1, <3>3 DEF LoadedNewest
    <3> QED
      BY <1>2, <3>1, <3>2, <3>4, RequestType DEF Newest
  <2>4. CASE FromQuery(w)
    BY <1>3, <2>4 DEF FromQuery, FromRows
  <2> QED
    BY <1>1, <2>1, <2>2, <2>3, <2>4, TileSource
<1> QED
  BY <1>2, <1>4, <1>5

Fresh == FromRows /\ CachedNewest /\ LoadedNewest /\ AnswerNewest

LEMMA FreshInit == Init => AtWork /\ SingleFlight /\ Placed /\ Fresh
BY SizesAssumption DEF Init, AtWork, SingleFlight, LoadingPc, Placed, OneEntry, LoadsUncached, PathsUncached, Waiting,
   NoTileYet, Fresh, FromRows, CachedNewest, LoadedNewest, AnswerNewest, HasTile

LEMMA PlacedStep == Founded /\ [Next]_vars => Placed'
BY OneEntryStep, LoadsUncachedStep, PathsUncachedStep, WaitingStep, NoTileYetStep DEF Founded, Placed, Typed

LEMMA FreshStep == Founded /\ Fresh /\ [Next]_vars => Fresh'
BY FromRowsStep, CachedNewestStep, LoadedNewestStep, AnswerNewestStep DEF Fresh

\* The invariant under which every answer is a read of TileReads.
LEMMA FreshAlways == Spec => [](Founded /\ Fresh)
<1>1. Init => Founded /\ Fresh
  BY TypedInit, FreshInit DEF Founded
<1>2. Founded /\ Fresh /\ [Next]_vars => (Founded /\ Fresh)'
  BY TypedStep, AtWorkStep, SingleStep, PlacedStep, FreshStep DEF Founded, Typed
<1> QED
  BY <1>1, <1>2, PTL DEF Spec

\* An answer is a read of a version between the reader's and the database's.
LEMMA ShowsIsRead ==
  ASSUME Founded, Fresh, NEW th \in Threads, Shows(th)
  PROVE  Reads!RNext
<1> USE DEF Founded, Typed
<1> DEFINE r == <<Conn(th), Request(th).form>>
           t == Request(th).tile
<1>1. pc[th] = "respond" /\ tile[th] # 0 /\ rows' = rows
  BY DEF Shows, Respond
<1>2. r \in Readers /\ t \in Tiles
  BY <1>1, RequestType DEF Readers
<1>3. view[r][t] <= tile[th] /\ tile[th] <= rows[t]
  BY <1>1 DEF Fresh, AnswerNewest, FromRows, HasTile
<1>4. tile[th] \in view[r][t] .. rows[t]
  BY <1>2, <1>3, VersionsType
<1>5. Reads!Read(r, t)
  BY <1>1, <1>4 DEF Reads!Read, Shows
<1> QED
  BY <1>2, <1>5 DEF Reads!RNext

LEMMA StepIsRead == Founded /\ Fresh /\ [Next]_vars => [Reads!RNext]_(Reads!rvars)
<1> SUFFICES ASSUME Founded, Fresh, [Next]_vars, ~UNCHANGED <<rows, view>> PROVE Reads!RNext
  BY DEF Reads!rvars
<1>1. ASSUME NEW t \in Tiles, WriteTile(t) PROVE Reads!RNext
  BY <1>1 DEF WriteTile, connVars, Reads!RNext, Reads!Write
<1>2. CASE view' # view
  BY <1>2, ViewSource, ShowsIsRead
<1>3. CASE rows' # rows
  <2>1. \E t \in Tiles : WriteTile(t)
    BY <1>3 DEF Next, vars, Handle, Get, Hit, Join, Miss, Load, Connect, ConnectFails, Query, QueryFails, Complete,
                Read, ReadMalformed, ReadOther, ReadTile, Respond, Store, Ask, Leave
  <2> QED
    BY <1>1, <2>1
<1> QED
  BY <1>2, <1>3

\* Whatever loads, joins, evictions, failures and replaced tiles come between,
\* the cache and its loads implement monotone reads of the database.
THEOREM ReadsImplemented == Spec => ImplementsReads
<1>1. Init => Reads!RInit
  BY DEF Init, Reads!RInit
<1>2. Founded /\ Fresh /\ [Next]_vars => [Reads!RNext]_(Reads!rvars)
  BY StepIsRead
<1> QED
  BY <1>1, <1>2, FreshAlways, PTL DEF Spec, ImplementsReads, Reads!RSpec
=============================================================================
