---------------------------- MODULE EchoServer ----------------------------
(***************************************************************************)
(* NettyMqService, clients to broker: each channel's event loop decodes    *)
(* the frames of its client (MessageDecoder), publishes each through the   *)
(* one MqSender all channels share, and echoes it (EchoServerHandler).     *)
(*                                                                         *)
(* A message of client k is its number i; lengths[k][i] is the length in   *)
(* its header, which counts the header. The decoder's buffer holds the     *)
(* frames decoded[k]+1 .. arrived[k], readable[k] bytes in all.            *)
(*                                                                         *)
(* channel, pc, lengths, arrived, decoded, readable   per client           *)
(* sender      MqSender.channel: none (the constructor failed), open, or   *)
(*             lost (the connection is recovering)                         *)
(* published   the messages written to the broker, as <<client, number>>,  *)
(*             without those that never got there                          *)
(* taken       how many of them the broker has: the rest is on the way     *)
(* unsent      messages whose basicPublish ended in an IOException         *)
(* lost        messages on the way when their connection was lost; MqSender*)
(*             asks for no confirms, so nobody learns of it                *)
(* echoed      the echoes written to each client                           *)
(* losses      counter: connection losses                                  *)
(* heap        the allocator's preference on this platform: ByteBuf.       *)
(*             readBytes gives a heap buffer (or a direct one)             *)
(***************************************************************************)
EXTENDS Integers, Sequences, FiniteSetsExt

CONSTANTS Clients,
          Lengths,       \* message lengths clients use, header included
          MaxFrames,     \* bound: messages sent, by all clients together
          MaxLosses      \* bound: connection losses

HeaderLength == 5

ASSUME EchoAssumption ==
    /\ Lengths \subseteq {n \in Nat : n >= HeaderLength}
    /\ MaxFrames \in Nat /\ MaxLosses \in Nat

VARIABLES channel, pc, lengths, arrived, decoded, readable, sender, published, taken, unsent,
          lost, echoed, losses, heap

clientVars == <<lengths, arrived>>
bufferVars == <<decoded, readable>>
brokerVars == <<published, taken, unsent, lost, echoed>>
vars == <<channel, pc, lengths, arrived, decoded, readable, sender, published, taken,
          unsent, lost, echoed, losses, heap>>

Frames == 1..MaxFrames

TypeOK ==
    /\ channel \in [Clients -> {"new", "open", "closed"}]
    /\ pc \in [Clients -> {"idle", "decode", "send", "echo", "fault"}]
    /\ lengths \in [Clients -> Seq(Lengths)]
    /\ arrived \in [Clients -> Nat] /\ decoded \in [Clients -> Nat] /\ readable \in [Clients -> Nat]
    /\ \A k \in Clients : decoded[k] <= arrived[k] /\ arrived[k] <= Len(lengths[k])
    /\ sender \in {"none", "open", "lost"}
    /\ published \in Seq(Clients \X Frames) /\ taken \in 0..Len(published)
    /\ unsent \subseteq Clients \X Frames /\ lost \subseteq Clients \X Frames
    /\ echoed \in [Clients -> Seq(Frames)]
    /\ losses \in 0..MaxLosses
    /\ heap \in BOOLEAN

\* The MqSender constructor connects once; a failure is only logged.
Init ==
    /\ channel = [k \in Clients |-> "new"]
    /\ pc = [k \in Clients |-> "idle"]
    /\ lengths = [k \in Clients |-> <<>>]
    /\ arrived = [k \in Clients |-> 0] /\ decoded = [k \in Clients |-> 0]
    /\ readable = [k \in Clients |-> 0]
    /\ sender \in {"none", "open"}
    /\ published = <<>> /\ taken = 0 /\ unsent = {} /\ lost = {}
    /\ echoed = [k \in Clients |-> <<>>]
    /\ losses = 0
    /\ heap \in BOOLEAN

-----------------------------------------------------------------------------
(* The clients and the network.                                            *)

Connect(k) ==
    /\ channel[k] = "new"
    /\ channel' = [channel EXCEPT ![k] = "open"]
    /\ UNCHANGED <<pc, clientVars, bufferVars, sender, brokerVars, losses, heap>>

TotalSent == MapThenSumSet(LAMBDA k : Len(lengths[k]), Clients)

ClientSend(k) ==
    /\ channel[k] = "open" /\ Len(lengths[k]) < MaxFrames
    /\ TotalSent < MaxFrames
    /\ \E n \in Lengths : lengths' = [lengths EXCEPT ![k] = Append(@, n)]
    /\ UNCHANGED <<channel, pc, arrived, bufferVars, sender, brokerVars, losses, heap>>

\* LengthFieldBasedFrameDecoder hands MessageDecoder the next whole message.
FrameArrives(k) ==
    /\ channel[k] = "open" /\ pc[k] = "idle" /\ arrived[k] < Len(lengths[k])
    /\ arrived' = [arrived EXCEPT ![k] = @ + 1]
    /\ readable' = [readable EXCEPT ![k] = @ + lengths[k][arrived[k] + 1]]
    /\ pc' = [pc EXCEPT ![k] = "decode"]
    /\ UNCHANGED <<channel, lengths, decoded, sender, brokerVars, losses, heap>>

\* The client disconnects; what is left in the buffer is given one last decode,
\* which finds no more than the loop did.
ClientCloses(k) ==
    /\ channel[k] = "open" /\ pc[k] = "idle"
    /\ channel' = [channel EXCEPT ![k] = "closed"]
    /\ UNCHANGED <<pc, clientVars, bufferVars, sender, brokerVars, losses, heap>>

\* The broker reads the next message off the connection.
BrokerTakes ==
    /\ sender = "open" /\ taken < Len(published)
    /\ taken' = taken + 1
    /\ UNCHANGED <<channel, pc, clientVars, bufferVars, sender, published, unsent, lost,
                   echoed, losses, heap>>

OnTheWay == {published[i] : i \in (taken + 1)..Len(published)}

\* What was written and not yet read is gone with the connection.
LoseBroker ==
    /\ sender = "open" /\ losses < MaxLosses
    /\ sender' = "lost" /\ losses' = losses + 1
    /\ published' = SubSeq(published, 1, taken) /\ lost' = lost \cup OnTheWay
    /\ UNCHANGED <<channel, pc, clientVars, bufferVars, taken, unsent, echoed, heap>>

RecoverBroker ==
    /\ sender = "lost"
    /\ sender' = "open"
    /\ UNCHANGED <<channel, pc, clientVars, bufferVars, brokerVars, losses, heap>>

-----------------------------------------------------------------------------
(* MessageDecoder.decode, called until it makes no progress.               *)

\* Faulty variant: a header is enough to start decoding.
DecodableAnyLength(k) == readable[k] >= HeaderLength

\* Faulty variant: the length is compared after the whole header is read.
DecodableAfterHeader(k) ==
    readable[k] >= HeaderLength /\ readable[k] - HeaderLength > lengths[k][decoded[k] + 1]

\* A frame is decoded when the bytes that follow its 4-byte length field are
\* at least as many as the length it announces, header and all.
Decodable(k) ==
    readable[k] >= HeaderLength /\ readable[k] - 4 >= lengths[k][decoded[k] + 1]

\* readBytes(msgLength - 5).array() throws on a direct buffer, unless empty.
HasArray(k) == heap \/ lengths[k][decoded[k] + 1] = HeaderLength

\* The bytes of the message are read, whether it has an array or not.
ReadMessage(k) == readable' = [readable EXCEPT ![k] = @ - lengths[k][decoded[k] + 1]]

Decode(k) ==
    /\ pc[k] = "decode"
    /\ \/ /\ ~Decodable(k)
          /\ pc' = [pc EXCEPT ![k] = "idle"]
          /\ UNCHANGED bufferVars
       \/ /\ Decodable(k) /\ HasArray(k) /\ ReadMessage(k)
          /\ decoded' = [decoded EXCEPT ![k] = @ + 1]
          /\ pc' = [pc EXCEPT ![k] = "send"]
       \/ /\ Decodable(k) /\ ~HasArray(k) /\ ReadMessage(k)
          /\ pc' = [pc EXCEPT ![k] = "fault"]
          /\ UNCHANGED decoded
    /\ UNCHANGED <<channel, clientVars, sender, brokerVars, losses, heap>>

-----------------------------------------------------------------------------
(* EchoServerHandler.channelRead and exceptionCaught.                      *)

\* Faulty variant: messages are numbered from zero.
CurrentFromZero(k) == <<k, decoded[k] - 1>>

Current(k) == <<k, decoded[k]>>

\* Faulty variant: a failed publication is repeated.
SendUntilSure(k) ==
    /\ pc[k] = "send" /\ sender = "open"
    /\ published' = Append(published, Current(k))
    /\ pc' \in {[pc EXCEPT ![k] = "echo"], pc}
    /\ UNCHANGED <<channel, clientVars, bufferVars, sender, taken, unsent, lost, echoed, losses,
                   heap>>

\* Faulty variant: every exception is caught and only logged.
SendCatchingAll(k) ==
    /\ pc[k] = "send"
    /\ pc' = [pc EXCEPT ![k] = "echo"]
    /\ published' = IF sender = "open" THEN Append(published, Current(k)) ELSE published
    /\ UNCHANGED <<channel, clientVars, bufferVars, sender, taken, unsent, lost, echoed, losses,
                   heap>>

\* mqSender.send: basicPublish returns once the message is written, or ends in
\* an IOException that is only logged; with no channel, or a closed one, an
\* unchecked exception leaves channelRead.
Send(k) ==
    /\ pc[k] = "send"
    /\ \/ /\ sender = "open"
          /\ published' = Append(published, Current(k))
          /\ pc' = [pc EXCEPT ![k] = "echo"]
          /\ UNCHANGED unsent
       \/ /\ sender = "open"
          /\ unsent' = unsent \cup {Current(k)}
          /\ pc' = [pc EXCEPT ![k] = "echo"]
          /\ UNCHANGED published
       \/ /\ sender # "open"
          /\ pc' = [pc EXCEPT ![k] = "fault"]
          /\ UNCHANGED <<published, unsent>>
    /\ UNCHANGED <<channel, clientVars, bufferVars, sender, taken, lost, echoed, losses, heap>>

Echo(k) ==
    /\ pc[k] = "echo"
    /\ echoed' = [echoed EXCEPT ![k] = Append(@, decoded[k])]
    /\ pc' = [pc EXCEPT ![k] = "decode"]
    /\ UNCHANGED <<channel, clientVars, bufferVars, sender, published, taken, unsent,
                   lost, losses, heap>>

\* exceptionCaught closes the client's channel.
ExceptionCaught(k) ==
    /\ pc[k] = "fault"
    /\ channel' = [channel EXCEPT ![k] = "closed"]
    /\ pc' = [pc EXCEPT ![k] = "idle"]
    /\ UNCHANGED <<clientVars, bufferVars, sender, brokerVars, losses, heap>>

-----------------------------------------------------------------------------
EventLoop(k) == FrameArrives(k) \/ Decode(k) \/ Send(k) \/ Echo(k) \/ ExceptionCaught(k)

Next ==
    \/ BrokerTakes \/ LoseBroker \/ RecoverBroker
    \/ \E k \in Clients : Connect(k) \/ ClientSend(k) \/ ClientCloses(k) \/ EventLoop(k)

Spec == Init /\ [][Next]_vars

\* The network delivers what was sent and every event loop keeps running.
FairSpec == Spec /\ \A k \in Clients : WF_vars(EventLoop(k))

-----------------------------------------------------------------------------
(* Properties.                                                             *)

\* Whatever the channels interleave and the connection loses, each client's
\* messages are written to the broker in the order sent and at most once.
PublishedInOrder ==
    \A i, j \in DOMAIN published :
        i < j /\ published[i][1] = published[j][1] => published[i][2] < published[j][2]

InPublished(m) == \E j \in DOMAIN published : published[j] = m

\* Every message decoded from a connected client is accounted for once its
\* handler has moved on, in one way only: it is with the broker or on the way,
\* its publication failed with a logged IOException, or the connection was lost
\* while it was on the way. That last case is the only silent loss; anything
\* else that goes wrong disconnects the client.
OneFatePerMessage ==
    /\ \A k \in Clients : channel[k] = "open" /\ pc[k] \in {"idle", "decode"} =>
           \A i \in 1..decoded[k] :
               <<k, i>> \in unsent \/ <<k, i>> \in lost \/ InPublished(<<k, i>>)
    /\ unsent \cap lost = {}
    /\ \A m \in unsent \cup lost : ~InPublished(m)

\* A resting decoder is behind its client by the last message and no more,
\* whatever the lengths of the messages around it.
LagsByOne ==
    \A k \in Clients : channel[k] = "open" /\ pc[k] = "idle" /\ arrived[k] > 0
        => decoded[k] = arrived[k] - 1

\* "Receive TCP packets from different clients and decode the message": a
\* resting decoder has decoded every message that arrived whole.
DecodedWhenWhole ==
    \A k \in Clients : channel[k] = "open" /\ pc[k] = "idle" => decoded[k] = arrived[k]

\* A message followed by another one is eventually decoded, unless its channel
\* is closed.
EventuallyDecoded ==
    \A k \in Clients : \A i \in Frames :
        (channel[k] = "open" /\ i < Len(lengths[k])) ~> (channel[k] = "closed" \/ decoded[k] >= i)
=============================================================================
