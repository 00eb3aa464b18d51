------------------------- MODULE LogIndexerProofs -------------------------
(***************************************************************************)
(* Proofs about LogIndexer, for every set of collectors and every bound:   *)
(* type correctness, the inductive invariant Accounted, and from it that   *)
(* auto-commit is safe, that the group's position never goes backwards,    *)
(* and that the collector implements at-least-once delivery; and, by a     *)
(* count of the members that may yet store a record, that a duplicate      *)
(* takes a handover of the partition.                                      *)
(***************************************************************************)
EXTENDS LogIndexer, FiniteSetTheorems, TLAPS

\* A poll that returns no record leaves an empty batch and settles nothing.
LEMMA ReceiveNothing ==
  ASSUME NEW c, Receive(c, {})
  PROVE  /\ logList' = [logList EXCEPT ![c] = {}]
         /\ processed' = processed
         /\ pc' = [pc EXCEPT ![c] = "index"]
<1> DEFINE list == {o \in {} : Indexable(log[o])}
<1>1. list = {}
  OBVIOUS
<1>2. processed \cup ({} \ list) = processed
  OBVIOUS
<1> QED
  BY <1>1, <1>2 DEF Receive

\* The state stays well typed under every operation of the collector.
THEOREM TypeCorrect == Spec => []TypeOK
<1>1. Init => TypeOK
  BY BoundsAssumption DEF Init, TypeOK, Offsets, Position, NoOffset
<1>2. TypeOK /\ [Next]_vars => TypeOK'
  <2> SUFFICES ASSUME TypeOK, [Next]_vars PROVE TypeOK'
    OBVIOUS
  <2> USE BoundsAssumption, CollectorsAssumption
  <2>1. CASE AppendRecord
    BY <2>1 DEF AppendRecord, TypeOK, groupVars, processVars, historyVars, Offsets, Position
  <2>2. ASSUME NEW c \in Collectors, CommitLands(c) PROVE TypeOK'
    BY <2>2 DEF CommitLands, TypeOK, processVars, historyVars, Offsets, Position, NoOffset
  <2>3. ASSUME NEW c \in Collectors, ExpireSession(c) PROVE TypeOK'
    BY <2>3 DEF ExpireSession, Dropped, TypeOK, processVars, historyVars, Offsets, Position, NoOffset
  <2>4. ASSUME NEW c \in Collectors, EvictMember(c) PROVE TypeOK'
    BY <2>4 DEF EvictMember, Dropped, TypeOK, processVars, historyVars, Offsets, Position, NoOffset
  <2>5. ASSUME NEW c \in Collectors, Boot(c) \/ Start(c) \/ Stop(c) \/ Close(c) PROVE TypeOK'
    <3>1. CASE Boot(c)
      BY <3>1 DEF Boot, TypeOK, groupVars, historyVars
    <3>2. CASE Start(c)
      BY <3>2 DEF Start, TypeOK, groupVars, processVars, historyVars
    <3>3. CASE Stop(c)
      BY <3>3 DEF Stop, TypeOK, groupVars, historyVars
    <3>4. CASE Close(c)
      BY <3>4 DEF Close, TypeOK, groupVars, historyVars
    <3> QED
      BY <2>5, <3>1, <3>2, <3>3, <3>4
  <2>6. ASSUME NEW c \in Collectors, Halt(c) \/ Crash(c) PROVE TypeOK'
    BY <2>6 DEF Halt, Crash, Ended, TypeOK, groupVars, historyVars, Offsets, Position, NoOffset
  <2>7. ASSUME NEW c \in Collectors, CheckRunning(c) PROVE TypeOK'
    BY <2>7 DEF CheckRunning, TypeOK, groupVars, processVars, historyVars, Offsets, Position
  <2>8. ASSUME NEW c \in Collectors, NEW n \in 0..MaxLog, PollFetch(c, n) PROVE TypeOK'
    <3>1. position[c] + 1 .. n \subseteq Offsets
      BY <2>8 DEF PollFetch, TypeOK, Offsets, Position, NoOffset
    <3>2. logList' \in [Collectors -> SUBSET Offsets] /\ processed' \subseteq Offsets /\ pc' \in [Collectors -> {"none", "new", "check", "poll", "index", "done"}]
      BY <2>8, <3>1 DEF PollFetch, Receive, TypeOK
    <3> QED
      BY <2>8, <3>2 DEF PollFetch, TypeOK, processVars, Offsets, Position, NoOffset
  <2>9. ASSUME NEW c \in Collectors, PollJoin(c) PROVE TypeOK'
    <3>1. StartPosition \in Position /\ 1..Len(log) \subseteq Offsets
      BY DEF StartPosition, TypeOK, Offsets, Position, NoOffset
    <3>2. skipped' \subseteq Offsets /\ epoch' \in Nat
      BY <2>9, <3>1 DEF PollJoin, TypeOK
    <3>3. Receive(c, {})
      BY <2>9 DEF PollJoin
    <3> QED
      BY <2>9, <3>1, <3>2, <3>3, ReceiveNothing DEF PollJoin, TypeOK, processVars
  <2>10. ASSUME NEW c \in Collectors, PollIdle(c) PROVE TypeOK'
    BY <2>10 DEF PollIdle, Receive, TypeOK, groupVars, processVars, Offsets, Position, NoOffset
  <2>11. ASSUME NEW c \in Collectors, PollRevoke(c) PROVE TypeOK'
    BY <2>11 DEF PollRevoke, Receive, Dropped, TypeOK, processVars, Offsets, Position, NoOffset
  <2>12. ASSUME NEW c \in Collectors, IndexLog(c) PROVE TypeOK'
    <3>1. PICK stored \in SUBSET logList[c] : docs' = BulkResult(c, stored)
      BY <2>12 DEF IndexLog
    <3>2. docs' \in [Offsets -> Nat]
      BY <3>1 DEF BulkResult, TypeOK
    <3>3. processed' \subseteq Offsets /\ logList' \in [Collectors -> SUBSET Offsets]
      BY <2>12 DEF IndexLog, TypeOK
    <3> QED
      BY <2>12, <3>2, <3>3 DEF IndexLog, TypeOK, groupVars, processVars
  <2>13. ASSUME NEW c \in Collectors, IndexLogClosed(c) PROVE TypeOK'
    BY <2>13 DEF IndexLogClosed, TypeOK, groupVars, processVars, historyVars, Offsets, Position
  <2>14. CASE UNCHANGED vars
    BY <2>14 DEF vars, TypeOK
  <2>15. ASSUME NEW c \in Collectors, PollThrows(c) PROVE TypeOK'
    BY <2>15 DEF PollThrows, TypeOK, groupVars, processVars, historyVars, Offsets, Position
  <2> QED
    BY <2>1, <2>2, <2>3, <2>4, <2>5, <2>6, <2>7, <2>8, <2>9, <2>10, <2>11, <2>12, <2>13, <2>14, <2>15
       DEF Next, Worker, Poll, Process, Broker
<1> QED
  BY <1>1, <1>2, PTL DEF Spec

-----------------------------------------------------------------------------
\* Initially nothing is consumed, committed or settled.
LEMMA AccountedInit == Init => Accounted
<1> SUFFICES ASSUME Init PROVE Accounted
  OBVIOUS
<1>1. Through(NoOffset) = {}
  BY DEF Through, NoOffset
<1> QED
  BY <1>1 DEF Init, Accounted, PositionSettled, CommitsSettled, WithinLog, Settled, NoOffset

\* The steps of the broker keep the accounts.
LEMMA BrokerKeeps ==
  ASSUME TypeOK, Accounted, NEW c \in Collectors, Broker(c)
  PROVE  Accounted'
<1> USE DEF Accounted
<1>1. CASE CommitLands(c)
  <2>1. Settled' = Settled /\ log' = log
    BY <1>1 DEF CommitLands, historyVars, Settled
  <2>2. PositionSettled'
    BY <1>1, <2>1 DEF CommitLands, PositionSettled, processVars
  <2>3. CommitsSettled'
    BY <1>1, <2>1 DEF CommitLands, CommitsSettled, TypeOK, Position, NoOffset, Through
  <2>4. WithinLog'
    BY <1>1, <2>1 DEF CommitLands, WithinLog, TypeOK, Position, NoOffset
  <2> QED
    BY <2>2, <2>3, <2>4
<1>2. CASE ExpireSession(c) \/ EvictMember(c)
  <2>1. /\ Settled' = Settled
        /\ UNCHANGED <<log, committed, position, process, isRunning, client, pc, logList>>
        /\ owner' = None /\ owner = c
        /\ commitReq' = [commitReq EXCEPT ![c] = NoOffset]
    BY <1>2 DEF ExpireSession, EvictMember, Dropped, historyVars, processVars, Settled
  <2>2. PositionSettled'
    BY <2>1 DEF PositionSettled
  <2>3. CommitsSettled'
    BY <2>1, CollectorsAssumption DEF CommitsSettled, TypeOK, Position, NoOffset, Through
  <2>4. WithinLog'
    BY <2>1 DEF WithinLog, TypeOK, Position, NoOffset
  <2> QED
    BY <2>2, <2>3, <2>4
<1> QED
  BY <1>1, <1>2 DEF Broker

\* The steps of a process - boot, start, shutdown, crash - keep the accounts.
LEMMA ProcessKeeps ==
  ASSUME TypeOK, Accounted, NEW c \in Collectors, Process(c)
  PROVE  Accounted'
<1> USE DEF Accounted
<1>1. Settled' = Settled /\ UNCHANGED <<log, committed, owner, commitReq>>
  BY DEF Process, Boot, Start, Stop, Close, Halt, Crash, Ended, groupVars, historyVars, Settled
<1>2. CASE Boot(c) \/ Start(c) \/ Stop(c) \/ Close(c)
  <2>1. UNCHANGED <<position, logList>>
    BY <1>2 DEF Boot, Start, Stop, Close
  <2>2. PositionSettled'
    <3>1. CASE Boot(c)
      BY <3>1, <1>1, <2>1 DEF Boot, PositionSettled, TypeOK
    <3>2. CASE Start(c)
      BY <3>2, <1>1, <2>1 DEF Start, PositionSettled, TypeOK, processVars, Through, NoOffset
    <3>3. CASE Stop(c)
      BY <3>3, <1>1, <2>1 DEF Stop, PositionSettled, TypeOK
    <3>4. CASE Close(c)
      BY <3>4, <1>1, <2>1 DEF Close, PositionSettled, TypeOK
    <3> QED
      BY <1>2, <3>1, <3>2, <3>3, <3>4
  <2>3. CommitsSettled' /\ WithinLog'
    BY <1>1, <2>1 DEF CommitsSettled, WithinLog
  <2> QED
    BY <2>2, <2>3
<1>3. CASE Halt(c) \/ Crash(c)
  <2>1. /\ position' = [position EXCEPT ![c] = NoOffset]
        /\ logList' = [logList EXCEPT ![c] = {}]
        /\ pc' = [pc EXCEPT ![c] = "none"]
        /\ isRunning' = [isRunning EXCEPT ![c] = FALSE]
        /\ process' = [process EXCEPT ![c] = "down"]
        /\ client' = [client EXCEPT ![c] = "closed"]
    BY <1>3 DEF Halt, Crash, Ended
  <2>2. PositionSettled'
    BY <1>1, <2>1 DEF PositionSettled, TypeOK
  <2>3. CommitsSettled'
    BY <1>1, <2>1 DEF CommitsSettled, TypeOK
  <2>4. WithinLog'
    BY <1>1, <2>1 DEF WithinLog, TypeOK, NoOffset
  <2> QED
    BY <2>2, <2>3, <2>4
<1> QED
  BY <1>2, <1>3 DEF Process

\* The steps of the worker thread keep the accounts: a batch is settled by the
\* bulk request, or refused by a client that is closed only once isRunning is
\* false, and then the loop ends before another commit.
LEMMA WorkerKeeps ==
  ASSUME TypeOK, Accounted, NEW c \in Collectors, Worker(c)
  PROVE  Accounted'
<1> USE DEF Accounted
<1>1. CASE CheckRunning(c)
  <2>1. /\ Settled' = Settled
        /\ UNCHANGED <<log, groupVars, position, processVars, logList>>
        /\ pc' = [pc EXCEPT ![c] = IF isRunning[c] THEN "poll" ELSE "done"]
    BY <1>1 DEF CheckRunning, historyVars, Settled
  <2>2. PositionSettled'
    BY <1>1, <2>1 DEF CheckRunning, PositionSettled, processVars, TypeOK
  <2>3. CommitsSettled' /\ WithinLog'
    BY <2>1 DEF CommitsSettled, WithinLog, groupVars
  <2> QED
    BY <2>2, <2>3
<1>2. ASSUME NEW n \in 0..MaxLog, PollFetch(c, n) PROVE Accounted'
  <2> DEFINE batch == position[c] + 1 .. n
             list  == {o \in batch : Indexable(log[o])}
  <2>1. /\ logList' = [logList EXCEPT ![c] = list]
        /\ Settled' = Settled \cup (batch \ list)
        /\ pc' = [pc EXCEPT ![c] = "index"]
        /\ position' = [position EXCEPT ![c] = n]
        /\ UNCHANGED <<log, committed, owner, process, isRunning, client>>
    BY <1>2 DEF PollFetch, Receive, Settled, processVars
  <2>2. /\ pc[c] = "poll" /\ owner = c /\ position[c] # NoOffset
        /\ n <= Len(log) /\ position[c] <= n
        /\ position[c] \in 0..MaxLog /\ n \in Nat /\ Len(log) \in Nat
    BY <1>2, BoundsAssumption DEF PollFetch, TypeOK, Position, NoOffset
  <2>3. Through(position[c]) \subseteq Settled
    BY <2>2 DEF PositionSettled
  <2>4. Through(n) = Through(position[c]) \cup batch /\ list \subseteq batch
    BY <2>2 DEF Through
  <2>5. PositionSettled'
    <3>1. Through(n) \subseteq Settled' \cup list
      BY <2>1, <2>3, <2>4
    <3>2. Settled \subseteq Settled'
      BY <2>1
    <3> QED
      BY <2>1, <2>2, <3>1, <3>2 DEF PositionSettled, TypeOK
  <2>6. CommitsSettled'
    <3>1. Settled \subseteq Settled'
      BY <2>1
    <3>2. CASE commitReq' = commitReq
      BY <2>1, <2>2, <3>1, <3>2 DEF CommitsSettled, TypeOK, Position, NoOffset
    <3>3. CASE commitReq' = [commitReq EXCEPT ![c] = position[c]]
      BY <2>1, <2>2, <2>3, <3>1, <3>3 DEF CommitsSettled, TypeOK, Position, NoOffset
    <3> QED
      BY <1>2, <3>2, <3>3 DEF PollFetch
  <2>7. WithinLog'
    <3>1. batch \subseteq 1..Len(log)
      BY <2>2
    <3>2. Settled' \subseteq 1..Len(log) /\ list \subseteq 1..Len(log)
      BY <2>1, <2>4, <3>1 DEF WithinLog
    <3>3. commitReq' \in {commitReq, [commitReq EXCEPT ![c] = position[c]]}
      BY <1>2 DEF PollFetch
    <3> QED
      BY <2>1, <2>2, <3>2, <3>3 DEF WithinLog, TypeOK
  <2> QED
    BY <2>5, <2>6, <2>7
<1>3. ASSUME PollJoin(c) \/ PollIdle(c) \/ PollRevoke(c) PROVE Accounted'
  <2>1. /\ logList' = [logList EXCEPT ![c] = {}]
        /\ processed' = processed
        /\ pc' = [pc EXCEPT ![c] = "index"]
    BY <1>3, ReceiveNothing DEF PollJoin, PollIdle, PollRevoke
  <2>2. UNCHANGED <<log, process, isRunning, client>> /\ pc[c] = "poll"
    BY <1>3 DEF PollJoin, PollIdle, PollRevoke, processVars
  <2>3. Settled \subseteq Settled' /\ Settled' \subseteq Settled \cup 1..Len(log)
    BY <1>3, <2>1 DEF PollJoin, PollIdle, PollRevoke, Settled
  <2>4. Settled' \subseteq 1..Len(log) /\ Len(log) \in Nat
    BY <2>3 DEF WithinLog, TypeOK
  <2>5. CASE PollJoin(c)
    <3>1. /\ owner = None /\ owner' = c /\ UNCHANGED <<committed, commitReq>>
          /\ position' = [position EXCEPT ![c] = StartPosition]
      BY <2>5 DEF PollJoin
    <3>2. /\ Through(StartPosition) \subseteq Settled'
          /\ StartPosition \in Nat /\ StartPosition <= Len(log) /\ committed <= StartPosition
      <4>1. CASE committed = NoOffset
        BY <2>4, <2>5, <4>1 DEF PollJoin, StartPosition, Settled, Through, NoOffset
      <4>2. CASE committed # NoOffset
        <5>1. StartPosition = committed /\ committed \in Nat
          BY <4>2, BoundsAssumption DEF StartPosition, TypeOK, Position
        <5>2. Through(committed) \subseteq Settled /\ committed <= Len(log)
          BY DEF CommitsSettled, WithinLog
        <5> QED
          BY <2>3, <5>1, <5>2
      <4> QED
        BY <4>1, <4>2
    <3>3. PositionSettled'
      BY <2>1, <2>2, <2>3, <3>1, <3>2 DEF PositionSettled, TypeOK
    <3>4. \A d \in Collectors : commitReq[d] = NoOffset
      BY <3>1, CollectorsAssumption DEF CommitsSettled
    <3>5. CommitsSettled'
      BY <2>3, <3>1, <3>2, <3>4 DEF CommitsSettled, TypeOK, NoOffset
    <3>6. WithinLog'
      BY <2>1, <2>2, <2>4, <3>1, <3>2 DEF WithinLog, TypeOK
    <3> QED
      BY <3>3, <3>5, <3>6
  <2>6. CASE PollIdle(c)
    <3>1. position' = [position EXCEPT ![c] = NoOffset] /\ UNCHANGED groupVars
      BY <2>6 DEF PollIdle
    <3>2. Through(NoOffset) = {}
      BY DEF Through, NoOffset
    <3>3. PositionSettled'
      BY <2>1, <2>2, <2>3, <3>1, <3>2 DEF PositionSettled, TypeOK
    <3>4. CommitsSettled'
      BY <2>3, <3>1 DEF CommitsSettled, groupVars, TypeOK
    <3>5. WithinLog'
      BY <2>1, <2>2, <2>4, <3>1 DEF WithinLog, groupVars, TypeOK, NoOffset
    <3> QED
      BY <3>3, <3>4, <3>5
  <2>7. CASE PollRevoke(c)
    <3>1. /\ position' = [position EXCEPT ![c] = NoOffset]
          /\ commitReq' = [commitReq EXCEPT ![c] = NoOffset]
          /\ owner = c /\ owner' = None /\ position[c] # NoOffset
          /\ committed' \in {committed, position[c]}
      BY <2>7 DEF PollRevoke, Dropped
    <3>2. Through(NoOffset) = {}
      BY DEF Through, NoOffset
    <3>3. Through(position[c]) \subseteq Settled /\ position[c] <= Len(log)
      BY <2>2 DEF PositionSettled, WithinLog
    <3>4. PositionSettled'
      BY <2>1, <2>2, <2>3, <3>1, <3>2 DEF PositionSettled, TypeOK
    <3>5. CommitsSettled'
      BY <2>3, <3>1, <3>2, <3>3, CollectorsAssumption DEF CommitsSettled, TypeOK
    <3>6. WithinLog'
      BY <2>1, <2>2, <2>4, <3>1, <3>3 DEF WithinLog, TypeOK, NoOffset
    <3> QED
      BY <3>4, <3>5, <3>6
  <2> QED
    BY <1>3, <2>5, <2>6, <2>7
<1>4. CASE IndexLog(c)
  <2>1. /\ logList' = [logList EXCEPT ![c] = {}]
        /\ Settled' = Settled \cup logList[c]
        /\ pc[c] = "index" /\ pc' = [pc EXCEPT ![c] = "check"]
        /\ UNCHANGED <<log, groupVars, position, processVars>>
    BY <1>4 DEF IndexLog, Settled
  <2>2. PositionSettled'
    BY <2>1 DEF PositionSettled, processVars, TypeOK
  <2>3. CommitsSettled'
    BY <2>1 DEF CommitsSettled, groupVars, TypeOK
  <2>4. WithinLog'
    BY <2>1 DEF WithinLog, groupVars, TypeOK
  <2> QED
    BY <2>2, <2>3, <2>4
<1>5. CASE IndexLogClosed(c)
  <2>1. /\ logList' = [logList EXCEPT ![c] = {}]
        /\ Settled' = Settled
        /\ ~isRunning[c]
        /\ pc[c] = "index" /\ pc' = [pc EXCEPT ![c] = "check"]
        /\ UNCHANGED <<log, groupVars, position, processVars>>
    BY <1>5 DEF IndexLogClosed, Settled, historyVars, PositionSettled
  <2>2. PositionSettled'
    BY <2>1 DEF PositionSettled, processVars, TypeOK
  <2>3. CommitsSettled'
    BY <2>1 DEF CommitsSettled, groupVars, TypeOK
  <2>4. WithinLog'
    BY <2>1 DEF WithinLog, groupVars, TypeOK
  <2> QED
    BY <2>2, <2>3, <2>4
<1>6. CASE PollThrows(c)
  <2>1. /\ Settled' = Settled
        /\ pc[c] = "poll" /\ pc' = [pc EXCEPT ![c] = "check"]
        /\ UNCHANGED <<log, groupVars, position, processVars, logList>>
    BY <1>6 DEF PollThrows, Settled, historyVars
  <2>2. PositionSettled'
    BY <2>1 DEF PositionSettled, processVars, TypeOK
  <2>3. CommitsSettled' /\ WithinLog'
    BY <2>1 DEF CommitsSettled, WithinLog, groupVars
  <2> QED
    BY <2>2, <2>3
<1> QED
  BY <1>1, <1>2, <1>3, <1>4, <1>5, <1>6 DEF Worker, Poll

\* Accounted is inductive: appending a record keeps it, as every step does.
LEMMA AccountedStep == TypeOK /\ Accounted /\ [Next]_vars => Accounted'
<1> SUFFICES ASSUME TypeOK, Accounted, [Next]_vars PROVE Accounted'
  OBVIOUS
<1>1. CASE AppendRecord
  <2>1. Len(log') = Len(log) + 1 /\ Len(log) \in Nat
    BY <1>1 DEF AppendRecord, TypeOK
  <2>2. Settled' = Settled
    BY <1>1 DEF AppendRecord, historyVars, Settled
  <2>3. UNCHANGED <<groupVars, processVars, position, pc, logList>>
    BY <1>1 DEF AppendRecord
  <2>4. (PositionSettled /\ CommitsSettled)'
    BY <2>2, <2>3 DEF Accounted, PositionSettled, CommitsSettled, groupVars, processVars
  <2>5. WithinLog'
    <3>1. WithinLog /\ UNCHANGED <<committed, position, commitReq, logList>>
      BY <2>3 DEF Accounted, groupVars
    <3>2. committed' <= Len(log')
      BY <2>1, <3>1, BoundsAssumption DEF WithinLog, TypeOK, Position, NoOffset
    <3>3. 1..Len(log) \subseteq 1..Len(log')
      BY <2>1
    <3>4. ASSUME NEW c \in Collectors
          PROVE  position'[c] <= Len(log') /\ commitReq'[c] <= Len(log')
      BY <2>1, <3>1, BoundsAssumption DEF WithinLog, TypeOK, Position, NoOffset
    <3> QED
      BY <2>2, <3>1, <3>2, <3>3, <3>4 DEF WithinLog
  <2> QED
    BY <2>4, <2>5 DEF Accounted
<1>2. CASE UNCHANGED vars
  BY <1>2 DEF vars, Accounted, PositionSettled, CommitsSettled, WithinLog, Settled
<1> QED
  BY <1>1, <1>2, BrokerKeeps, ProcessKeeps, WorkerKeeps DEF Next

\* Everything consumed is accounted for: the inductive invariant.
THEOREM AccountedInvariant == Spec => []Accounted
<1> QED
  BY TypeCorrect, AccountedInit, AccountedStep, PTL DEF Spec

\* Auto-commit is safe: what is committed is settled, in every run.
THEOREM CommitIsSafe == Spec => []CommittedIsProcessed
<1>1. Accounted => CommittedIsProcessed
  BY DEF Accounted, CommitsSettled, CommittedIsProcessed
<1> QED
  BY <1>1, AccountedInvariant, PTL

\* No step moves the group's position backwards.
LEMMA CommitStep ==
  ASSUME TypeOK, Accounted, [Next]_vars
  PROVE  committed' >= committed
<1>1. ASSUME NEW c \in Collectors, CommitLands(c) PROVE committed' >= committed
  BY <1>1, BoundsAssumption DEF CommitLands, Accounted, CommitsSettled, TypeOK, Position, NoOffset
<1>2. ASSUME NEW c \in Collectors, PollRevoke(c) PROVE committed' >= committed
  BY <1>2, BoundsAssumption DEF PollRevoke, Accounted, CommitsSettled, TypeOK, Position, NoOffset
<1>3. committed \in Int
  BY BoundsAssumption DEF TypeOK, Position, NoOffset
<1>4. CASE AppendRecord
  BY <1>3, <1>4 DEF AppendRecord, groupVars
<1>5. ASSUME NEW c \in Collectors, Process(c) PROVE committed' >= committed
  BY <1>3, <1>5 DEF Process, Boot, Start, Stop, Close, Halt, Crash, Ended, groupVars
<1>6. ASSUME NEW c \in Collectors, ExpireSession(c) \/ EvictMember(c) PROVE committed' >= committed
  BY <1>3, <1>6 DEF ExpireSession, EvictMember
<1>7. ASSUME NEW c \in Collectors, CheckRunning(c) \/ PollThrows(c) \/ IndexLog(c) \/ IndexLogClosed(c)
      PROVE  committed' >= committed
  BY <1>3, <1>7 DEF CheckRunning, PollThrows, IndexLog, IndexLogClosed, groupVars
<1>8. ASSUME NEW c \in Collectors, PollJoin(c) \/ PollIdle(c) PROVE committed' >= committed
  BY <1>3, <1>8 DEF PollJoin, PollIdle, groupVars
<1>9. ASSUME NEW c \in Collectors, NEW n \in 0..MaxLog, PollFetch(c, n) PROVE committed' >= committed
  BY <1>3, <1>9 DEF PollFetch
<1>10. CASE UNCHANGED vars
  BY <1>3, <1>10 DEF vars
<1> QED
  BY <1>1, <1>2, <1>4, <1>5, <1>6, <1>7, <1>8, <1>9, <1>10 DEF Next, Worker, Poll, Process, Broker

\* The group's position never goes backwards, whoever commits and whatever
\* sessions expire.
THEOREM CommitIsMonotone == Spec => CommittedMonotone
<1>1. TypeOK /\ Accounted /\ [Next]_vars => [committed' >= committed]_committed
  BY CommitStep
<1> QED
  BY <1>1, TypeCorrect, AccountedInvariant, PTL DEF Spec, CommittedMonotone

-----------------------------------------------------------------------------
\* Records only join the settled ones, and a step that leaves the group's
\* position alone and the log alone is a Settle of the abstract specification.
LEMMA SettledGrows ==
  ASSUME TypeOK, [Next]_vars
  PROVE  Settled \subseteq Settled'
<1>1. CASE AppendRecord
  BY <1>1 DEF AppendRecord, historyVars, Settled
<1>2. ASSUME NEW c \in Collectors, Process(c) PROVE Settled \subseteq Settled'
  BY <1>2 DEF Process, Boot, Start, Stop, Close, Halt, Crash, Ended, historyVars, Settled
<1>3. ASSUME NEW c \in Collectors, Broker(c) PROVE Settled \subseteq Settled'
  BY <1>3 DEF Broker, CommitLands, ExpireSession, EvictMember, historyVars, Settled
<1>4. ASSUME NEW c \in Collectors, CheckRunning(c) \/ PollThrows(c) \/ IndexLog(c) \/ IndexLogClosed(c)
      PROVE  Settled \subseteq Settled'
  BY <1>4 DEF CheckRunning, PollThrows, IndexLog, IndexLogClosed, historyVars, Settled
<1>5. ASSUME NEW c \in Collectors, PollJoin(c) \/ PollIdle(c) \/ PollRevoke(c)
      PROVE  Settled \subseteq Settled'
  BY <1>5, ReceiveNothing DEF PollJoin, PollIdle, PollRevoke, Settled
<1>6. ASSUME NEW c \in Collectors, NEW n \in 0..MaxLog, PollFetch(c, n)
      PROVE  Settled \subseteq Settled'
  BY <1>6 DEF PollFetch, Receive, Settled
<1>7. CASE UNCHANGED vars
  BY <1>7 DEF vars, Settled
<1> QED
  BY <1>1, <1>2, <1>3, <1>4, <1>5, <1>6, <1>7 DEF Next, Worker, Poll

\* A step that moves the group's position settles nothing and appends nothing.
LEMMA CommitsAlone ==
  ASSUME TypeOK, [Next]_vars, committed' # committed
  PROVE  Settled' = Settled /\ log' = log
<1>1. ASSUME NEW c \in Collectors, CommitLands(c) PROVE Settled' = Settled /\ log' = log
  BY <1>1 DEF CommitLands, historyVars, Settled
<1>2. ASSUME NEW c \in Collectors, PollRevoke(c) PROVE Settled' = Settled /\ log' = log
  BY <1>2, ReceiveNothing DEF PollRevoke, Settled
<1>3. CASE AppendRecord
  BY <1>3 DEF AppendRecord, groupVars
<1>4. ASSUME NEW c \in Collectors, Process(c) PROVE FALSE
  BY <1>4 DEF Process, Boot, Start, Stop, Close, Halt, Crash, Ended, groupVars
<1>5. ASSUME NEW c \in Collectors, ExpireSession(c) \/ EvictMember(c) PROVE FALSE
  BY <1>5 DEF ExpireSession, EvictMember
<1>6. ASSUME NEW c \in Collectors, CheckRunning(c) \/ PollThrows(c) \/ IndexLog(c) \/ IndexLogClosed(c) PROVE FALSE
  BY <1>6 DEF CheckRunning, PollThrows, IndexLog, IndexLogClosed, groupVars
<1>7. ASSUME NEW c \in Collectors, PollJoin(c) \/ PollIdle(c) PROVE FALSE
  BY <1>7 DEF PollJoin, PollIdle, groupVars
<1>8. ASSUME NEW c \in Collectors, NEW n \in 0..MaxLog, PollFetch(c, n) PROVE FALSE
  BY <1>8 DEF PollFetch
<1>9. CASE UNCHANGED vars
  BY <1>9 DEF vars
<1> QED
  BY <1>1, <1>2, <1>3, <1>4, <1>5, <1>6, <1>7, <1>8, <1>9 DEF Next, Worker, Poll, Process, Broker

\* A step that appends to the log settles nothing.
LEMMA AppendsAlone ==
  ASSUME TypeOK, [Next]_vars, log' # log
  PROVE  Settled' = Settled /\ Len(log') = Len(log) + 1
<1>1. AppendRecord
  BY DEF Next, Worker, Poll, Process, Broker, vars, CommitLands, ExpireSession, EvictMember,
         Boot, Start, Stop, Close, Halt, Crash, Ended, CheckRunning, PollFetch, PollJoin,
         PollIdle, PollRevoke, PollThrows, IndexLog, IndexLogClosed
<1> QED
  BY <1>1 DEF AppendRecord, historyVars, Settled, TypeOK

\* The collector implements at-least-once delivery: each of its steps is a
\* step of LogDelivery, or changes nothing that a producer can tell.
THEOREM DeliveryImplemented == Spec => ImplementsDelivery
<1>1. Init => Delivery!DInit
  BY DEF Init, Delivery!DInit, Acked, Settled, NoOffset
<1>2. TypeOK /\ Accounted /\ Accounted' /\ TypeOK' /\ [Next]_vars => [Delivery!DNext]_(Delivery!dvars)
  <2> SUFFICES ASSUME TypeOK, Accounted, Accounted', TypeOK', [Next]_vars
               PROVE  [Delivery!DNext]_(Delivery!dvars)
    OBVIOUS
  <2>1. Settled \subseteq Settled'
    BY SettledGrows
  <2>2. CASE committed' # committed
    <3>1. Settled' = Settled /\ log' = log
      BY <2>2, CommitsAlone
    <3>2. Acked' \in Acked..Len(log)
      BY <3>1, CommitStep, BoundsAssumption
         DEF Acked, Accounted, WithinLog, TypeOK, Position, NoOffset
    <3>3. 1..Acked' \subseteq Settled
      BY <3>1 DEF Acked, Accounted, CommitsSettled, Through, NoOffset
    <3> QED
      BY <3>1, <3>2, <3>3 DEF Delivery!DNext, Delivery!Acknowledge
  <2>3. CASE committed' = committed /\ log' = log
    <3>1. Acked' = Acked /\ Settled' \subseteq 1..Len(log)
      BY <2>3 DEF Acked, Accounted, WithinLog
    <3>2. Delivery!Settle
      BY <2>1, <2>3, <3>1 DEF Delivery!Settle
    <3> QED
      BY <3>2 DEF Delivery!DNext
  <2>4. CASE committed' = committed /\ log' # log
    BY <2>4, AppendsAlone DEF Delivery!DNext, Delivery!Produce, Acked
  <2> QED
    BY <2>2, <2>3, <2>4
<1> QED
  BY <1>1, <1>2, TypeCorrect, AccountedInvariant, PTL DEF Spec, ImplementsDelivery, Delivery!DSpec
-----------------------------------------------------------------------------
(* Duplicates.  docs[o] and epoch are related only through the members that *)
(* hold o in a batch, zombies included, or that own the partition and have  *)
(* yet to consume o: each stands for an assignment that no document of o    *)
(* accounts for.                                                            *)

\* The owner of the partition, whose next fetches reach record o.
Reaches(c, o) == owner = c /\ position[c] # NoOffset /\ position[c] < o

\* The members that can store o without another assignment of the partition.
Able(o) == {c \in Collectors : o \in logList[c] \/ Reaches(c, o)}

\* Every document of o, and every member able to add one, has an assignment.
Counted(o) == IsFiniteSet(Able(o)) /\ docs[o] + Cardinality(Able(o)) <= epoch

\* A batch was consumed: none of it lies ahead of its consumer's position.
BatchConsumed == \A c \in Collectors : \A o \in logList[c] : o <= position[c]

\* The inductive invariant behind DuplicatesNeedHandover.
Attributed == BatchConsumed /\ \A o \in Offsets : Counted(o)

\* A step that makes no more members able to store o, and stores none, keeps
\* the count.
LEMMA CountShrinks ==
  ASSUME NEW o \in Offsets, TypeOK, Counted(o), Able(o)' \subseteq Able(o),
         docs'[o] = docs[o], epoch' = epoch
  PROVE  Counted(o)'
<1>1. docs[o] \in Nat /\ epoch \in Nat
  BY DEF TypeOK
<1>2. IsFiniteSet(Able(o)')
      /\ Cardinality(Able(o)') <= Cardinality(Able(o))
  BY FS_Subset DEF Counted
<1>3. Cardinality(Able(o)) \in Nat /\ Cardinality(Able(o)') \in Nat
  BY <1>2, FS_CardinalityType DEF Counted
<1>4. docs'[o] + Cardinality(Able(o)') <= epoch'
  BY <1>1, <1>2, <1>3 DEF Counted
<1> QED
  BY <1>2, <1>4 DEF Counted

\* An assignment makes one member able to store o, and counts as one.
LEMMA CountJoins ==
  ASSUME NEW o \in Offsets, NEW c \in Collectors, TypeOK, Counted(o),
         Able(o)' \subseteq Able(o) \cup {c}, docs'[o] = docs[o], epoch' = epoch + 1
  PROVE  Counted(o)'
<1> DEFINE after == Able(o)'
<1>1. docs[o] \in Nat /\ epoch \in Nat
  BY DEF TypeOK
<1>2. IsFiniteSet(Able(o) \cup {c})
      /\ Cardinality(Able(o) \cup {c}) <= Cardinality(Able(o)) + 1
  <2>1. IsFiniteSet(Able(o)) /\ Cardinality(Able(o)) \in Nat
    BY FS_CardinalityType DEF Counted
  <2>2. /\ IsFiniteSet(Able(o) \cup {c})
        /\ \/ Cardinality(Able(o) \cup {c}) = Cardinality(Able(o))
           \/ Cardinality(Able(o) \cup {c}) = Cardinality(Able(o)) + 1
    BY <2>1, FS_AddElement
  <2> QED
    BY <2>1, <2>2
<1>3. IsFiniteSet(after) /\ Cardinality(after) <= Cardinality(Able(o) \cup {c})
  BY <1>2, FS_Subset
<1>4. /\ Cardinality(Able(o)) \in Nat /\ Cardinality(after) \in Nat
      /\ Cardinality(Able(o) \cup {c}) \in Nat
  BY <1>2, <1>3, FS_CardinalityType DEF Counted
<1>5. docs'[o] + Cardinality(after) <= epoch'
  BY <1>1, <1>2, <1>3, <1>4 DEF Counted
<1> QED
  BY <1>3, <1>5 DEF Counted

\* A member that stores o is no longer able to.
LEMMA CountStores ==
  ASSUME NEW o \in Offsets, NEW c \in Able(o), TypeOK, Counted(o),
         Able(o)' \subseteq Able(o) \ {c}, docs'[o] = docs[o] + 1, epoch' = epoch
  PROVE  Counted(o)'
<1> DEFINE after == Able(o)'
           rest  == Able(o) \ {c}
<1>1. docs[o] \in Nat /\ epoch \in Nat
  BY DEF TypeOK
<1>2. IsFiniteSet(rest) /\ Cardinality(rest) = Cardinality(Able(o)) - 1
  BY FS_RemoveElement DEF Counted
<1>3. IsFiniteSet(after) /\ Cardinality(after) <= Cardinality(rest)
  BY <1>2, FS_Subset
<1>4. Cardinality(Able(o)) \in Nat /\ Cardinality(rest) \in Nat /\ Cardinality(after) \in Nat
  BY <1>2, <1>3, FS_CardinalityType DEF Counted
<1>5. docs'[o] + Cardinality(after) <= epoch'
  BY <1>1, <1>2, <1>3, <1>4 DEF Counted
<1> QED
  BY <1>3, <1>5 DEF Counted

\* Steps of the broker and of a process make no member able to store a record.
LEMMA AttributedOutside ==
  ASSUME TypeOK, Attributed, NEW c \in Collectors, Broker(c) \/ Process(c)
  PROVE  Attributed'
<1>1. docs' = docs /\ epoch' = epoch
  BY DEF Broker, CommitLands, ExpireSession, EvictMember, Process, Boot, Start, Stop, Close,
         Halt, Crash, Ended, historyVars, groupVars
<1>2. \/ UNCHANGED <<logList, position>> /\ owner' \in {owner, None}
      \/ /\ logList' = [logList EXCEPT ![c] = {}]
         /\ position' = [position EXCEPT ![c] = NoOffset]
         /\ owner' = owner
  BY DEF Broker, CommitLands, ExpireSession, EvictMember, Dropped, Process, Boot, Start, Stop,
         Close, Halt, Crash, Ended, groupVars
<1>3. BatchConsumed'
  BY <1>2 DEF Attributed, BatchConsumed, TypeOK
<1>4. ASSUME NEW o \in Offsets PROVE Able(o)' \subseteq Able(o)
  BY <1>2, CollectorsAssumption DEF Able, Reaches, TypeOK
<1> QED
  BY <1>1, <1>3, <1>4, CountShrinks DEF Attributed

\* A fetch puts in the batch only records ahead of the position it moves past.
LEMMA AttributedFetch ==
  ASSUME TypeOK, Attributed, NEW c \in Collectors, NEW n \in 0..MaxLog, PollFetch(c, n)
  PROVE  Attributed'
<1> DEFINE list == {o \in position[c] + 1 .. n : Indexable(log[o])}
<1>1. /\ logList' = [logList EXCEPT ![c] = list]
      /\ position' = [position EXCEPT ![c] = n]
      /\ UNCHANGED <<owner, docs, epoch>>
  BY DEF PollFetch, Receive
<1>2. /\ owner = c /\ position[c] # NoOffset /\ position[c] \in Nat
      /\ n \in Nat /\ position[c] <= n
  BY BoundsAssumption DEF PollFetch, TypeOK, Position, NoOffset
<1>3. \A o \in list : position[c] < o /\ o <= n
  BY <1>2
<1> HIDE DEF list
<1>4. BatchConsumed'
  BY <1>1, <1>3 DEF Attributed, BatchConsumed, TypeOK
<1>5. ASSUME NEW o \in Offsets PROVE Able(o)' \subseteq Able(o)
  <2>1. ASSUME NEW d \in Able(o)' PROVE d \in Able(o)
    <3>1. d \in Collectors /\ (o \in logList'[d] \/ Reaches(d, o)')
      BY DEF Able
    <3>2. CASE d = c
      <4>1. o \in list \/ n < o
        BY <1>1, <3>1, <3>2 DEF Reaches, TypeOK
      <4>2. position[c] < o
        BY <1>2, <1>3, <4>1, BoundsAssumption DEF Offsets
      <4> QED
        BY <1>2, <3>2, <4>2 DEF Able, Reaches
    <3>3. CASE d # c
      BY <1>1, <3>1, <3>3 DEF Able, Reaches, TypeOK
    <3> QED
      BY <3>2, <3>3
  <2> QED
    BY <2>1
<1> QED
  BY <1>1, <1>4, <1>5, CountShrinks DEF Attributed

\* A poll that returns nothing: only a join makes a member able to store
\* records, and it is an assignment.
LEMMA AttributedPoll ==
  ASSUME TypeOK, Attributed, NEW c \in Collectors, PollJoin(c) \/ PollIdle(c) \/ PollRevoke(c)
  PROVE  Attributed'
<1>1. logList' = [logList EXCEPT ![c] = {}] /\ docs' = docs
  BY ReceiveNothing DEF PollJoin, PollIdle, PollRevoke
<1>2. \A d \in Collectors \ {c} : position'[d] = position[d]
  BY DEF PollJoin, PollIdle, PollRevoke, TypeOK
<1>3. BatchConsumed'
  BY <1>1, <1>2 DEF Attributed, BatchConsumed, TypeOK
<1>4. CASE PollJoin(c)
  <2>1. owner = None /\ owner' = c /\ epoch' = epoch + 1
    BY <1>4 DEF PollJoin
  <2>2. ASSUME NEW o \in Offsets PROVE Able(o)' \subseteq Able(o) \cup {c}
    BY <1>1, <1>2, <2>1 DEF Able, Reaches, TypeOK
  <2> QED
    BY <1>1, <1>3, <2>1, <2>2, CountJoins DEF Attributed
<1>5. CASE PollIdle(c) \/ PollRevoke(c)
  <2>1. /\ position' = [position EXCEPT ![c] = NoOffset]
        /\ owner' \in {owner, None} /\ epoch' = epoch
    BY <1>5 DEF PollIdle, PollRevoke, Dropped, groupVars
  <2>2. ASSUME NEW o \in Offsets PROVE Able(o)' \subseteq Able(o)
    BY <1>1, <2>1, CollectorsAssumption DEF Able, Reaches, TypeOK
  <2> QED
    BY <1>1, <1>3, <2>1, <2>2, CountShrinks DEF Attributed
<1> QED
  BY <1>4, <1>5

\* A bulk request stores a record of the batch once, and the batch is gone:
\* its consumer is past it.
LEMMA AttributedIndex ==
  ASSUME TypeOK, Attributed, NEW c \in Collectors, IndexLog(c)
  PROVE  Attributed'
<1>1. PICK stored \in SUBSET logList[c] : docs' = BulkResult(c, stored)
  BY DEF IndexLog
<1>2. /\ logList' = [logList EXCEPT ![c] = {}]
      /\ UNCHANGED <<owner, position, epoch>>
  BY DEF IndexLog, groupVars
<1>3. BatchConsumed'
  BY <1>2 DEF Attributed, BatchConsumed, TypeOK
<1>4. ASSUME NEW o \in Offsets PROVE Counted(o)'
  <2>1. Able(o)' \subseteq Able(o) /\ Counted(o)
    BY <1>2 DEF Able, Reaches, TypeOK, Attributed
  <2>2. CASE o \in stored
    <3>1. o \in logList[c] /\ docs'[o] = docs[o] + 1
      BY <1>1, <2>2 DEF BulkResult
    <3>2. c \in Able(o)
      BY <3>1 DEF Able
    <3>3. c \notin Able(o)'
      <4>1. o <= position[c] /\ o \in Int /\ position[c] \in Int
        BY <3>1, BoundsAssumption
           DEF Attributed, BatchConsumed, TypeOK, Position, Offsets, NoOffset
      <4>2. ~(position[c] < o)
        BY <4>1
      <4> QED
        BY <1>2, <4>2 DEF Able, Reaches, TypeOK
    <3> QED
      BY <1>2, <2>1, <3>1, <3>2, <3>3, CountStores
  <2>3. CASE o \notin stored
    <3>1. docs'[o] = docs[o]
      BY <1>1, <2>3 DEF BulkResult
    <3> QED
      BY <1>2, <2>1, <3>1, CountShrinks
  <2> QED
    BY <2>2, <2>3
<1> QED
  BY <1>3, <1>4 DEF Attributed

\* Attributed is inductive.
LEMMA AttributedStep == TypeOK /\ Attributed /\ [Next]_vars => Attributed'
<1> SUFFICES ASSUME TypeOK, Attributed, [Next]_vars PROVE Attributed'
  OBVIOUS
<1>1. CASE AppendRecord \/ UNCHANGED vars
  <2>1. UNCHANGED <<logList, position, owner, docs, epoch>>
    BY <1>1 DEF AppendRecord, groupVars, historyVars, vars
  <2> QED
    BY <2>1 DEF Attributed, BatchConsumed, Counted, Able, Reaches
<1>2. ASSUME NEW c \in Collectors,
             CheckRunning(c) \/ PollThrows(c) \/ IndexLogClosed(c)
      PROVE  Attributed'
  <2>1. /\ logList' \in {logList, [logList EXCEPT ![c] = {}]}
        /\ UNCHANGED <<position, owner, docs, epoch>>
    BY <1>2 DEF CheckRunning, PollThrows, IndexLogClosed, groupVars, historyVars
  <2>2. BatchConsumed'
    BY <2>1 DEF Attributed, BatchConsumed, TypeOK
  <2>3. ASSUME NEW o \in Offsets PROVE Able(o)' \subseteq Able(o)
    BY <2>1 DEF Able, Reaches, TypeOK
  <2> QED
    BY <2>1, <2>2, <2>3, CountShrinks DEF Attributed
<1> QED
  BY <1>1, <1>2, AttributedOutside, AttributedFetch, AttributedPoll, AttributedIndex
     DEF Next, Worker, Poll

\* A record is stored at most once for each assignment of the partition,
\* whatever members hold it, as owners or as zombies.
THEOREM DuplicatesTakeHandovers == Spec => []DuplicatesNeedHandover
<1>1. Init => Attributed
  <2> SUFFICES ASSUME Init PROVE Attributed
    OBVIOUS
  <2>1. BatchConsumed /\ \A o \in Offsets : Able(o) = {}
    BY CollectorsAssumption DEF Init, BatchConsumed, Able, Reaches
  <2>2. \A o \in Offsets : docs[o] = 0 /\ epoch = 0
    BY DEF Init
  <2> QED
    BY <2>1, <2>2, FS_EmptySet DEF Attributed, Counted
<1>2. TypeOK /\ Attributed => DuplicatesNeedHandover
  <2> SUFFICES ASSUME TypeOK, Attributed, NEW o \in Offsets PROVE docs[o] <= epoch
    BY DEF DuplicatesNeedHandover
  <2>1. /\ docs[o] \in Nat /\ epoch \in Nat /\ Cardinality(Able(o)) \in Nat
        /\ docs[o] + Cardinality(Able(o)) <= epoch
    BY FS_CardinalityType DEF TypeOK, Attributed, Counted
  <2> QED
    BY <2>1
<1> QED
  BY <1>1, <1>2, TypeCorrect, AttributedStep, PTL DEF Spec
=============================================================================
