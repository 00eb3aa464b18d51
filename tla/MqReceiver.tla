---------------------------- MODULE MqReceiver ----------------------------
(***************************************************************************)
(* NettyMqService, broker to clients: MqReceiver consumes MqListenerQueue  *)
(* one message at a time, writes it to every channel of the ChannelGroup   *)
(* EchoServerHandler keeps, and acknowledges it when the group's write     *)
(* future completes.                                                       *)
(*                                                                         *)
(* published   messages 1..published have entered the queue, in that order *)
(* acked, unacked   messages the broker forgot; messages it handed out     *)
(* listener    idle, up, lost (recovering) or failed: the AMQP connection  *)
(* epoch       connections made so far; a delivery tag belongs to one      *)
(* inbox       deliveries waiting for the consumer threads                 *)
(* rounds      the broadcasts begun: message, epoch, the channels in the   *)
(*             group when it began, those still to be visited, its stage   *)
(* channel     each client channel: new, open or closed; the open ones are *)
(*             the ChannelGroup, which drops a channel when it closes      *)
(* outbox, received   rounds written to a channel and not yet flushed to   *)
(*             its socket; rounds flushed                                  *)
(* overlapped  history: some connection came back while the handler of the *)
(*             lost one still had a delivery or was in its loop            *)
(***************************************************************************)
EXTENDS Integers, Sequences, FiniteSets, Functions

CONSTANTS Clients,          \* client channels
          MaxMessages,      \* bound: messages published
          MaxEpochs         \* bound: connections to the broker

ASSUME ReceiverAssumption ==
    MaxMessages \in Nat /\ MaxEpochs \in Nat

VARIABLES published, acked, unacked, listener, epoch, inbox, rounds, channel,
          outbox, received, overlapped

brokerVars == <<published, acked, unacked>>
clientVars == <<channel, outbox, received>>
vars == <<published, acked, unacked, listener, epoch, inbox, rounds, channel,
          outbox, received, overlapped>>

Messages == 1..MaxMessages
Epochs   == 1..MaxEpochs
Delivery == [msg : Messages, epoch : Epochs]
Round    == [msg : Messages, epoch : Epochs, present : SUBSET Clients,
             unvisited : SUBSET Clients, stage : {"loop", "flush", "done"}]
RoundIds == DOMAIN rounds

TypeOK ==
    /\ published \in 0..MaxMessages
    /\ acked \subseteq 1..published /\ unacked \subseteq 1..published
    /\ listener \in {"idle", "up", "lost", "failed"}
    /\ epoch \in 0..MaxEpochs
    /\ inbox \in Seq(Delivery)
    /\ rounds \in Seq(Round)
    /\ channel \in [Clients -> {"new", "open", "closed"}]
    /\ outbox \in [Clients -> Seq(Nat)]
    /\ received \in [Clients -> Seq(Nat)]
    /\ overlapped \in BOOLEAN
    /\ acked \cap unacked = {}
    /\ \A k \in Clients : channel[k] # "open" => outbox[k] = <<>>

Init ==
    /\ published = 0 /\ acked = {} /\ unacked = {}
    /\ listener = "idle" /\ epoch = 0
    /\ inbox = <<>> /\ rounds = <<>>
    /\ channel = [k \in Clients |-> "new"]
    /\ outbox = [k \in Clients |-> <<>>]
    /\ received = [k \in Clients |-> <<>>]
    /\ overlapped = FALSE

Open == {k \in Clients : channel[k] = "open"}

-----------------------------------------------------------------------------
(* The broker: a durable queue; unacknowledged messages go back to their   *)
(* place in it when the connection that received them ends.                *)

Publish ==
    /\ published < MaxMessages
    /\ published' = published + 1
    /\ UNCHANGED <<acked, unacked, listener, epoch, inbox, rounds, clientVars, overlapped>>

Ready == 1..published \ (acked \cup unacked)

\* Faulty variant: a larger prefetch window.
PrefetchTwo == 2

\* basicQos(1): "process the message one by one".
Prefetch == 1

Deliver ==
    /\ listener = "up" /\ Cardinality(unacked) < Prefetch
    /\ \E m \in Ready :
          /\ \A other \in Ready : m <= other
          /\ unacked' = unacked \cup {m}
          /\ inbox' = Append(inbox, [msg |-> m, epoch |-> epoch])
    /\ UNCHANGED <<published, acked, listener, epoch, rounds, clientVars, overlapped>>

-----------------------------------------------------------------------------
(* The listener thread and the client library's connection recovery.       *)

\* start: connect, declare, bind and consume; any exception ends the thread
\* and nobody starts it again.
StartListener ==
    /\ listener = "idle" /\ epoch < MaxEpochs
    /\ \/ listener' = "up" /\ epoch' = epoch + 1
       \/ listener' = "failed" /\ epoch' = epoch
    /\ UNCHANGED <<brokerVars, inbox, rounds, clientVars, overlapped>>

\* The connection breaks; handlers that have a delivery carry on.
LoseConnection ==
    /\ listener = "up" /\ epoch < MaxEpochs
    /\ listener' = "lost"
    /\ unacked' = {}
    /\ UNCHANGED <<published, acked, epoch, inbox, rounds, clientVars, overlapped>>

Busy == inbox # <<>> \/ \E r \in RoundIds : rounds[r].stage = "loop"

\* Automatic recovery connects again and resumes the consumer.
Recover ==
    /\ listener = "lost"
    /\ overlapped' = (overlapped \/ Busy)
    /\ listener' = "up" /\ epoch' = epoch + 1
    /\ UNCHANGED <<brokerVars, inbox, rounds, clientVars>>

\* The server dies: its channels close, the broker takes its deliveries back.
Crash ==
    /\ listener # "idle" /\ epoch < MaxEpochs
    /\ listener' = "idle"
    /\ unacked' = {} /\ inbox' = <<>>
    /\ rounds' = [r \in RoundIds |-> [rounds[r] EXCEPT !.unvisited = {}, !.stage = "done"]]
    /\ channel' = [k \in Clients |-> IF channel[k] = "open" THEN "closed" ELSE channel[k]]
    /\ outbox' = [k \in Clients |-> <<>>]
    /\ UNCHANGED <<published, acked, epoch, received, overlapped>>

-----------------------------------------------------------------------------
(* handleDelivery and broadcastMsgAndAck.                                  *)

\* handleDelivery takes the first delivery of its connection, unless that
\* connection's consumer thread is still in an earlier one, and starts to
\* iterate over the group.
Begin ==
    \E i \in DOMAIN inbox :
        LET d == inbox[i]
        IN  /\ \A j \in 1..(i - 1) : inbox[j].epoch # d.epoch
            /\ \A r \in RoundIds : rounds[r].stage = "loop" => rounds[r].epoch # d.epoch
            /\ inbox' = [j \in 1..(Len(inbox) - 1) |-> IF j < i THEN inbox[j] ELSE inbox[j + 1]]
            /\ rounds' = Append(rounds,
                            [msg |-> d.msg, epoch |-> d.epoch, present |-> Open,
                             unvisited |-> Open, stage |-> "loop"])
            /\ UNCHANGED <<brokerVars, listener, epoch, clientVars, overlapped>>

\* One turn of the loop: a write to an open channel is queued in its outbox,
\* one to a closed channel fails at once.
Visit(r, k) ==
    /\ rounds[r].stage = "loop" /\ k \in rounds[r].unvisited
    /\ rounds' = [rounds EXCEPT ![r].unvisited = @ \ {k}]
    /\ outbox' = IF channel[k] = "open"
                   THEN [outbox EXCEPT ![k] = Append(@, r)] ELSE outbox
    /\ UNCHANGED <<brokerVars, listener, epoch, inbox, channel, received, overlapped>>

\* writeAndFlush has returned: the group future has all its channel futures.
EndLoop(r) ==
    /\ rounds[r].stage = "loop" /\ rounds[r].unvisited = {}
    /\ rounds' = [rounds EXCEPT ![r].stage = "flush"]
    /\ UNCHANGED <<brokerVars, listener, epoch, inbox, clientVars, overlapped>>

\* Faulty variant: acknowledge as soon as writeAndFlush returns.
AckAtOnce(r) == TRUE

\* Faulty variant: acknowledge when some client has the message.
AnyWriteCompletes(r) ==
    rounds[r].present = {} \/ \E k \in rounds[r].present : r \notin Range(outbox[k])

\* Faulty variant: acknowledge only when every write succeeded.
AllWritesSucceed(r) == \A k \in rounds[r].present : r \in Range(received[k])

\* The group future is done when every channel future is, by success or by
\* failure; without channels it is done from the start.
AllWritesComplete(r) == \A k \in Clients : r \notin Range(outbox[k])

\* The listener acknowledges. On a lost connection the call throws (netty logs
\* it), and recovery makes it ignore the tags of an earlier connection.
AckRound(r) ==
    /\ rounds[r].stage = "flush" /\ AllWritesComplete(r)
    /\ rounds' = [rounds EXCEPT ![r].stage = "done"]
    /\ IF listener = "up" /\ rounds[r].epoch = epoch
         THEN /\ acked' = acked \cup {rounds[r].msg}
              /\ unacked' = unacked \ {rounds[r].msg}
         ELSE UNCHANGED <<acked, unacked>>
    /\ UNCHANGED <<published, listener, epoch, inbox, clientVars, overlapped>>

-----------------------------------------------------------------------------
(* The clients' channels, each on its event loop.                          *)

\* channelActive adds the channel to the group; an iteration already under
\* way may or may not come to it.
ChannelActive(k) ==
    /\ channel[k] = "new"
    /\ channel' = [channel EXCEPT ![k] = "open"]
    /\ \E seen \in SUBSET {r \in RoundIds : rounds[r].stage = "loop"} :
          rounds' = [r \in RoundIds |-> IF r \in seen
                       THEN [rounds[r] EXCEPT !.unvisited = @ \cup {k}] ELSE rounds[r]]
    /\ UNCHANGED <<brokerVars, listener, epoch, inbox, outbox, received, overlapped>>

\* The socket takes the oldest write of the channel.
Flush(k) ==
    /\ channel[k] = "open" /\ outbox[k] # <<>>
    /\ received' = [received EXCEPT ![k] = Append(@, Head(outbox[k]))]
    /\ outbox' = [outbox EXCEPT ![k] = Tail(@)]
    /\ UNCHANGED <<brokerVars, listener, epoch, inbox, rounds, channel, overlapped>>

\* Faulty variant: the writes of a closed channel stay pending.
CloseKeepingOutbox(k) ==
    /\ channel[k] = "open"
    /\ channel' = [channel EXCEPT ![k] = "closed"]
    /\ UNCHANGED <<brokerVars, listener, epoch, inbox, rounds, outbox, received, overlapped>>

\* The channel closes: its pending writes fail, the group drops it. Nothing
\* closes a channel for being idle: HeartBeatHandler only logs.
Close(k) ==
    /\ channel[k] = "open"
    /\ channel' = [channel EXCEPT ![k] = "closed"]
    /\ outbox' = [outbox EXCEPT ![k] = <<>>]
    /\ UNCHANGED <<brokerVars, listener, epoch, inbox, rounds, received, overlapped>>

-----------------------------------------------------------------------------
Consumer == Begin \/ \E r \in RoundIds : EndLoop(r) \/ AckRound(r) \/ \E k \in Clients : Visit(r, k)

Next ==
    \/ Publish \/ Deliver
    \/ StartListener \/ LoseConnection \/ Recover \/ Crash
    \/ Consumer
    \/ \E k \in Clients : ChannelActive(k) \/ Flush(k) \/ Close(k)

Spec == Init /\ [][Next]_vars

\* The broker delivers, recovery retries until it succeeds, the consumer
\* threads and the event executor run, and every client reads from its socket.
\* Nothing has to publish, connect, join or leave.
Fairness ==
    /\ WF_vars(Deliver) /\ WF_vars(Recover) /\ WF_vars(Consumer)
    /\ \A k \in Clients : WF_vars(Flush(k))

FairSpec == Spec /\ Fairness

-----------------------------------------------------------------------------
(* Properties.                                                             *)

MessagesOf(s) == [i \in DOMAIN s |-> rounds[s[i]].msg]
Stream(k)     == MessagesOf(received[k] \o outbox[k])

\* A message the broker has forgotten was flushed to every client that was
\* connected when its broadcast began and still is.
AckedReached ==
    \A m \in acked : \E r \in RoundIds :
        /\ rounds[r].msg = m /\ rounds[r].stage = "done"
        /\ \A k \in rounds[r].present : channel[k] = "open" => r \in Range(received[k])

\* Each client is sent the messages in queue order: a redelivery after a lost
\* connection repeats the last message and never goes back before it - as long
\* as no handler outlives its connection until the next one is there.
InQueueOrder ==
    ~overlapped => \A k \in Clients : \A i, j \in DOMAIN Stream(k) : i <= j => Stream(k)[i] <= Stream(k)[j]

\* However slow a client is, the channels together never buffer more than one
\* message: the next is delivered only when everybody has taken this one. The
\* same proviso holds.
OneMessageBuffered ==
    ~overlapped => \A k, l \in Clients : \A r \in Range(outbox[k]), s \in Range(outbox[l]) :
        rounds[r].msg = rounds[s].msg

\* A channel buffers at most one copy of a message for each connection.
OutboxBounded == \A k \in Clients : Len(outbox[k]) <= epoch

\* "manually ack to MQ server when message is consumed": somebody received it.
AckedWhenConsumed ==
    \A m \in acked : \E k \in Clients : \E r \in Range(received[k]) : rounds[r].msg = m

\* While the listener is connected or recovering, every published message is
\* eventually acknowledged, provided that the clients read or leave.
EventuallyAcked ==
    <>[](listener \in {"up", "lost"}) => \A m \in Messages : (m <= published) ~> (m \in acked)
=============================================================================
