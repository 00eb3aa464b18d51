---------------------------- MODULE LogIndexer ----------------------------
(***************************************************************************)
(* LogCollector: the worker thread of LogIndexExecutor copies a Kafka      *)
(* partition into Elasticsearch, in every collector process of the         *)
(* consumer group "log-collector", from boot to shutdown or crash.         *)
(*                                                                         *)
(* log        the records of the partition, by kind; offset o is log[o]    *)
(* committed  the group's committed position: records 1..committed         *)
(* owner      the member the coordinator has given the partition to        *)
(* commitReq  the asynchronous auto-commit a member has in flight          *)
(* position   the consumer's position; NoOffset while nothing is assigned  *)
(* process, pc, isRunning, client, logList    the JVM, its worker thread,  *)
(*            the volatile flag, the REST client and the batch being built *)
(* docs       how many documents Elasticsearch stores for each record      *)
(* processed  records dropped by the transform or sent by an open client   *)
(* skipped    records passed over by auto.offset.reset = latest            *)
(* epoch, boots, rebalances   counters: assignments, boots, rebalances     *)
(***************************************************************************)
EXTENDS Integers, Sequences, FiniteSets

CONSTANTS Collectors,     \* processes that may run the collector
          None,           \* no owner
          Kinds,          \* the kinds of record the producers send
          MaxLog,         \* bound: records appended
          MaxPoll,        \* max.poll.records
          MaxBoots,       \* bound: process starts
          MaxRebalances   \* bound: session timeouts of live members, revocations

\* What a Kafka record can hold, as isValidJson and the decoder tell it apart.
AllKinds == {"text",          \* not JSON (or blank, or null)
             "event",         \* a JSON object with a "message"
             "noMessage",     \* JSON without a "message", or an array
             "undecodable"}   \* Gson accepts it, Jackson does not

ASSUME CollectorsAssumption == None \notin Collectors
ASSUME KindsAssumption == Kinds \subseteq AllKinds
ASSUME BoundsAssumption ==
    MaxLog \in Nat /\ MaxPoll \in Nat \ {0} /\ MaxBoots \in Nat /\ MaxRebalances \in Nat

VARIABLES log, committed, owner, commitReq, position, process, pc, isRunning,
          client, logList, docs, processed, skipped, epoch, boots, rebalances

groupVars   == <<committed, owner, commitReq, epoch>>
processVars == <<process, isRunning, client>>
historyVars == <<docs, processed, skipped>>
vars == <<log, committed, owner, commitReq, position, process, pc, isRunning,
          client, logList, docs, processed, skipped, epoch, boots, rebalances>>

NoOffset == -1
Offsets  == 1..MaxLog
Position == 0..MaxLog \cup {NoOffset}

TypeOK ==
    /\ log \in Seq(Kinds) /\ Len(log) <= MaxLog
    /\ committed \in Position
    /\ owner \in Collectors \cup {None}
    /\ commitReq \in [Collectors -> Position]
    /\ position \in [Collectors -> Position]
    /\ process \in [Collectors -> {"down", "up"}]
    /\ pc \in [Collectors -> {"none", "new", "check", "poll", "index", "done"}]
    /\ isRunning \in [Collectors -> BOOLEAN]
    /\ client \in [Collectors -> {"open", "closed"}]
    /\ logList \in [Collectors -> SUBSET Offsets]
    /\ docs \in [Offsets -> Nat]
    /\ processed \subseteq Offsets /\ skipped \subseteq Offsets
    /\ epoch \in Nat /\ boots \in Nat /\ rebalances \in Nat

Init ==
    /\ log = <<>>
    /\ committed = NoOffset
    /\ owner = None
    /\ commitReq = [c \in Collectors |-> NoOffset]
    /\ position = [c \in Collectors |-> NoOffset]
    /\ process = [c \in Collectors |-> "down"]
    /\ pc = [c \in Collectors |-> "none"]
    /\ isRunning = [c \in Collectors |-> FALSE]
    /\ client = [c \in Collectors |-> "closed"]
    /\ logList = [c \in Collectors |-> {}]
    /\ docs = [o \in Offsets |-> 0]
    /\ processed = {} /\ skipped = {}
    /\ epoch = 0 /\ boots = 0 /\ rebalances = 0

-----------------------------------------------------------------------------
(* The broker and its group coordinator.                                   *)

\* A producer appends an audit record.
AppendRecord ==
    /\ Len(log) < MaxLog
    /\ \E k \in Kinds : log' = Append(log, k)
    /\ UNCHANGED <<groupVars, processVars, historyVars, position, pc, logList, boots, rebalances>>

\* The coordinator applies a commit, as long as its sender is still a member.
CommitLands(c) ==
    /\ owner = c /\ commitReq[c] # NoOffset
    /\ committed' = commitReq[c]
    /\ commitReq' = [commitReq EXCEPT ![c] = NoOffset]
    /\ UNCHANGED <<log, owner, epoch, position, processVars, pc, logList, historyVars, boots, rebalances>>

Dropped(c) ==
    /\ owner' = None
    /\ commitReq' = [commitReq EXCEPT ![c] = NoOffset]

\* The session of a member that died with its process times out.
ExpireSession(c) ==
    /\ owner = c /\ position[c] = NoOffset
    /\ Dropped(c)
    /\ UNCHANGED <<log, committed, epoch, position, processVars, pc, logList, historyVars, boots, rebalances>>

\* The session of a live member times out: it goes on as a zombie until it polls.
EvictMember(c) ==
    /\ owner = c /\ position[c] # NoOffset
    /\ rebalances < MaxRebalances
    /\ rebalances' = rebalances + 1
    /\ Dropped(c)
    /\ UNCHANGED <<log, committed, epoch, position, processVars, pc, logList, historyVars, boots>>

-----------------------------------------------------------------------------
(* The collector process: Spring builds the beans, starts the worker, and  *)
(* on SIGTERM destroys MainExecutor before the ElasticSearchClient it      *)
(* depends on; the JVM halts when its hooks return.                        *)

\* ElasticSearchClient.init and LogIndexExecutor.init.
Boot(c) ==
    /\ process[c] = "down" /\ boots < MaxBoots
    /\ boots' = boots + 1
    /\ process' = [process EXCEPT ![c] = "up"]
    /\ client' = [client EXCEPT ![c] = "open"]
    /\ isRunning' = [isRunning EXCEPT ![c] = TRUE]
    /\ pc' = [pc EXCEPT ![c] = "new"]
    /\ UNCHANGED <<log, groupVars, position, logList, historyVars, rebalances>>

\* MainExecutor.afterPropertiesSet.
Start(c) ==
    /\ pc[c] = "new"
    /\ pc' = [pc EXCEPT ![c] = "check"]
    /\ UNCHANGED <<log, groupVars, position, processVars, logList, historyVars, boots, rebalances>>

\* MainExecutor.destroy: the worker is only asked to stop, not waited for.
Stop(c) ==
    /\ process[c] = "up" /\ pc[c] # "new" /\ isRunning[c]
    /\ isRunning' = [isRunning EXCEPT ![c] = FALSE]
    /\ UNCHANGED <<log, groupVars, position, process, client, pc, logList, historyVars, boots, rebalances>>

\* Faulty variant: the client bean is destroyed while the worker may still run.
CloseBeforeStop(c) ==
    /\ process[c] = "up" /\ client[c] = "open" /\ pc[c] # "new"
    /\ client' = [client EXCEPT ![c] = "closed"]
    /\ UNCHANGED <<log, groupVars, position, process, isRunning, pc, logList, historyVars, boots, rebalances>>

\* ElasticSearchClient.close, after MainExecutor.destroy.
Close(c) ==
    /\ process[c] = "up" /\ client[c] = "open" /\ ~isRunning[c]
    /\ client' = [client EXCEPT ![c] = "closed"]
    /\ UNCHANGED <<log, groupVars, position, process, isRunning, pc, logList, historyVars, boots, rebalances>>

Ended(c) ==
    /\ process' = [process EXCEPT ![c] = "down"]
    /\ pc' = [pc EXCEPT ![c] = "none"]
    /\ isRunning' = [isRunning EXCEPT ![c] = FALSE]
    /\ client' = [client EXCEPT ![c] = "closed"]
    /\ position' = [position EXCEPT ![c] = NoOffset]
    /\ logList' = [logList EXCEPT ![c] = {}]
    /\ UNCHANGED <<log, groupVars, historyVars, boots, rebalances>>

\* The hooks have run: the JVM halts wherever the worker is, the consumer unclosed.
Halt(c)  == process[c] = "up" /\ ~isRunning[c] /\ client[c] = "closed" /\ Ended(c)

\* The process dies between any two steps.
Crash(c) == process[c] = "up" /\ Ended(c)

-----------------------------------------------------------------------------
(* The worker's loop: while (isRunning) { poll; transform; indexLog }.     *)

\* The loop tests the volatile flag.
CheckRunning(c) ==
    /\ pc[c] = "check"
    /\ pc' = [pc EXCEPT ![c] = IF isRunning[c] THEN "poll" ELSE "done"]
    /\ UNCHANGED <<log, groupVars, position, processVars, logList, historyVars, boots, rebalances>>

\* The records the transform loop adds to logList: a record that is not JSON
\* is wrapped, an object with a message is decoded; JSON without a message is
\* left out, and what Jackson cannot decode throws and is left out.
Indexable(k) == k \in {"text", "event"}

\* poll returned the records of `batch`: those to index go to logList, the
\* rest are done with.
Receive(c, batch) ==
    LET list == {o \in batch : Indexable(log[o])}
    IN  /\ logList' = [logList EXCEPT ![c] = list]
        /\ processed' = processed \cup (batch \ list)
        /\ pc' = [pc EXCEPT ![c] = "index"]

\* poll while c holds the partition: when its interval has passed, an
\* auto-commit sends the position as it is before the fetch; then up to
\* MaxPoll records are returned.
PollFetch(c, n) ==
    /\ pc[c] = "poll" /\ owner = c /\ position[c] # NoOffset
    /\ n <= Len(log) /\ n - position[c] \in 0..MaxPoll
    /\ \/ commitReq' = commitReq
       \/ commitReq' = [commitReq EXCEPT ![c] = position[c]]
    /\ position' = [position EXCEPT ![c] = n]
    /\ Receive(c, position[c] + 1 .. n)
    /\ UNCHANGED <<log, committed, owner, epoch, processVars, docs, skipped, boots, rebalances>>

\* Faulty variant: seekToBeginning on assignment.
FromBeginning == 0

\* Faulty variant: seekToEnd on assignment.
AlwaysLatest == Len(log)

\* Faulty variant: the end of the partition is one too far.
PastTheEnd == IF committed = NoOffset THEN Len(log) + 1 ELSE committed

\* Where a newly assigned consumer starts: at the committed position, else
\* at the end of the partition (auto.offset.reset is left at latest).
StartPosition == IF committed = NoOffset THEN Len(log) ELSE committed

\* poll joins the group and is assigned the partition.
PollJoin(c) ==
    /\ pc[c] = "poll" /\ owner = None
    /\ owner' = c
    /\ epoch' = epoch + 1
    /\ position' = [position EXCEPT ![c] = StartPosition]
    /\ skipped' = IF committed = NoOffset THEN skipped \cup 1..Len(log) ELSE skipped
    /\ Receive(c, {})
    /\ UNCHANGED <<log, committed, commitReq, processVars, docs, boots, rebalances>>

\* poll without the partition: another member has it, or an old session of
\* this process, or the join has not completed.
PollIdle(c) ==
    /\ pc[c] = "poll" /\ ~(owner = c /\ position[c] # NoOffset)
    /\ position' = [position EXCEPT ![c] = NoOffset]
    /\ Receive(c, {})
    /\ UNCHANGED <<log, groupVars, processVars, docs, skipped, boots, rebalances>>

\* A rebalance for another member: poll commits synchronously (an error is
\* only logged) and gives the partition up.
PollRevoke(c) ==
    /\ pc[c] = "poll" /\ owner = c /\ position[c] # NoOffset
    /\ rebalances < MaxRebalances
    /\ \E d \in Collectors \ {c} : process[d] = "up"
    /\ rebalances' = rebalances + 1
    /\ committed' \in {committed, position[c]}
    /\ Dropped(c)
    /\ position' = [position EXCEPT ![c] = NoOffset]
    /\ Receive(c, {})
    /\ UNCHANGED <<log, epoch, processVars, docs, skipped, boots>>

\* Faulty variant: the exceptions are caught outside the loop.
PollThrowsOut(c) ==
    /\ pc[c] = "poll"
    /\ pc' = [pc EXCEPT ![c] = "done"]
    /\ UNCHANGED <<log, groupVars, position, processVars, logList, historyVars, boots, rebalances>>

\* poll throws: the exception is logged and the loop goes on.
PollThrows(c) ==
    /\ pc[c] = "poll"
    /\ pc' = [pc EXCEPT ![c] = "check"]
    /\ UNCHANGED <<log, groupVars, position, processVars, logList, historyVars, boots, rebalances>>

\* Faulty variant: the bulk request is retried after a timeout.
IndexTwice(c, stored) ==
    [o \in Offsets |-> IF o \in stored THEN docs[o] + 2 ELSE docs[o]]

\* The documents after one bulk request of which `stored` were accepted: the
\* requests carry no document id, so each adds a document.
BulkResult(c, stored) ==
    [o \in Offsets |-> IF o \in stored THEN docs[o] + 1 ELSE docs[o]]

\* indexLog on an open client: one synchronous bulk request. Items may be
\* rejected, and a request that ends in an exception may have stored some:
\* it is only logged, and the loop goes on.
IndexLog(c) ==
    /\ pc[c] = "index" /\ client[c] = "open"
    /\ \E stored \in SUBSET logList[c] : docs' = BulkResult(c, stored)
    /\ processed' = processed \cup logList[c]
    /\ logList' = [logList EXCEPT ![c] = {}]
    /\ pc' = [pc EXCEPT ![c] = "check"]
    /\ UNCHANGED <<log, groupVars, position, processVars, skipped, boots, rebalances>>

\* indexLog on a closed client: the client throws, the worker logs the
\* exception and drops the batch.
IndexLogClosed(c) ==
    /\ pc[c] = "index" /\ client[c] = "closed"
    /\ logList' = [logList EXCEPT ![c] = {}]
    /\ pc' = [pc EXCEPT ![c] = "check"]
    /\ UNCHANGED <<log, groupVars, position, processVars, historyVars, boots, rebalances>>

-----------------------------------------------------------------------------
Poll(c) ==
    \/ \E n \in 0..MaxLog : PollFetch(c, n)
    \/ PollJoin(c)
    \/ PollIdle(c)
    \/ PollRevoke(c)
    \/ PollThrows(c)

Worker(c)  == CheckRunning(c) \/ Poll(c) \/ IndexLog(c) \/ IndexLogClosed(c)
Process(c) == Boot(c) \/ Start(c) \/ Stop(c) \/ Close(c) \/ Halt(c) \/ Crash(c)
Broker(c)  == CommitLands(c) \/ ExpireSession(c) \/ EvictMember(c)

Next ==
    \/ AppendRecord
    \/ \E c \in Collectors : Worker(c) \/ Process(c) \/ Broker(c)

Spec == Init /\ [][Next]_vars

\* The worker thread keeps running, a fetch from the broker eventually returns
\* the records there are, a join eventually completes, and the coordinator
\* times out dead sessions. A shutdown that has begun goes on to its end (the
\* hooks return); nothing has to boot or stop a process.
FetchSome(c) == \E n \in 0..MaxLog : n > position[c] /\ PollFetch(c, n)

Fairness ==
    \A c \in Collectors :
        /\ WF_vars(Start(c)) /\ WF_vars(Worker(c)) /\ WF_vars(ExpireSession(c))
        /\ WF_vars(Close(c)) /\ WF_vars(Halt(c))
        /\ SF_vars(PollJoin(c)) /\ SF_vars(FetchSome(c))

FairSpec == Spec /\ Fairness

-----------------------------------------------------------------------------
(* Properties.                                                             *)

Through(n) == 1..n

Settled == processed \cup skipped

\* Auto-commit never acknowledges a record the worker has not dealt with:
\* every record below the group's position was sent to Elasticsearch by an
\* open client (failures reported), dropped by the transform, or passed over
\* by the reset to latest - across crashes, shutdowns and zombie members.
CommittedIsProcessed ==
    committed # NoOffset => Through(committed) \subseteq Settled

\* A record is stored at most once for each assignment of the partition:
\* duplicates come from a handover, never from one member's own loop.
DuplicatesNeedHandover == \A o \in Offsets : docs[o] <= epoch

\* The group's position never goes backwards, whichever member commits.
CommittedMonotone == [][committed' >= committed]_committed

\* While some collector keeps running, every record is eventually dealt with:
\* no exception, rebalance or dead member blocks the partition for good.
EventuallyProcessed ==
    (\E c \in Collectors : <>[](isRunning[c]))
        => \A o \in Offsets : (o <= Len(log)) ~> (o \in Settled)

\* Where each worker is relative to what is settled: everything a consumer has
\* consumed is settled, except its batch while it indexes and, once stopped,
\* the batch a closed client refused. This is what makes committing safe.
PositionSettled ==
    \A c \in Collectors :
        /\ isRunning[c] => client[c] = "open"
        /\ process[c] = "down" => pc[c] = "none"
        /\ pc[c] \in {"none", "new"} => position[c] = NoOffset
        /\ pc[c] = "index" => Through(position[c]) \subseteq Settled \cup logList[c]
        /\ pc[c] = "poll" \/ (pc[c] = "check" /\ isRunning[c])
               => Through(position[c]) \subseteq Settled

\* Only the owner has a commit in flight; it is settled, and neither it nor
\* the owner's position is behind the group's committed position.
CommitsSettled ==
    /\ Through(committed) \subseteq Settled
    /\ \A c \in Collectors :
          /\ Through(commitReq[c]) \subseteq Settled
          /\ commitReq[c] # NoOffset => owner = c /\ committed <= commitReq[c]
          /\ owner = c /\ position[c] # NoOffset
                => committed <= position[c] /\ commitReq[c] <= position[c]

\* Positions never point beyond the end of the partition.
WithinLog ==
    /\ committed <= Len(log) /\ Settled \subseteq 1..Len(log)
    /\ \A c \in Collectors :
          /\ position[c] <= Len(log) /\ commitReq[c] <= Len(log)
          /\ logList[c] \subseteq 1..Len(log)

\* The inductive invariant: the three facts above.
Accounted == PositionSettled /\ CommitsSettled /\ WithinLog

\* The collector implements at-least-once delivery.
Acked == IF committed = NoOffset THEN 0 ELSE committed

Delivery == INSTANCE LogDelivery WITH
    total <- Len(log), acked <- Acked, settled <- Settled

ImplementsDelivery == Delivery!DSpec
=============================================================================
