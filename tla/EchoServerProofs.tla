------------------------- MODULE EchoServerProofs -------------------------
(***************************************************************************)
(* Proofs about EchoServer, for any clients, message lengths and bounds:   *)
(* type correctness, the order in which each client's messages are         *)
(* published, that each has one fate that is known or was lost on the way, *)
(* and how far a resting decoder is behind its client.                     *)
(***************************************************************************)
EXTENDS EchoServer, SequenceTheorems, TLAPS

\* What the decoder's buffer holds between two calls of decode: nothing, the
\* last message that arrived, or that and the one before it.
Empty(k) == arrived[k] = 0 /\ decoded[k] = 0 /\ readable[k] = 0

HoldsLast(k) ==
  /\ arrived[k] > 0 /\ decoded[k] = arrived[k] - 1
  /\ readable[k] = lengths[k][arrived[k]]

HoldsTwo(k) ==
  /\ arrived[k] > 1 /\ decoded[k] = arrived[k] - 2
  /\ readable[k] = lengths[k][arrived[k] - 1] + lengths[k][arrived[k]]

\* Where the event loop is tells what the buffer holds.
LoopAt(k) ==
  /\ channel[k] = "new" => pc[k] = "idle" /\ Empty(k)
  /\ pc[k] # "idle" => channel[k] = "open"
  /\ channel[k] = "open" /\ pc[k] = "idle" => Empty(k) \/ HoldsLast(k)
  /\ pc[k] = "decode" => HoldsLast(k) \/ HoldsTwo(k)
  /\ pc[k] \in {"send", "echo"} => HoldsLast(k) /\ decoded[k] > 0

Looping == \A k \in Clients : LoopAt(k)

WithinBound == \A k \in Clients : Len(lengths[k]) <= MaxFrames

Typed == TypeOK /\ WithinBound /\ Looping

\* A message that was decoded and is not the one being sent.
Behind(m) ==
  \A k \in Clients : m[1] = k => /\ m[2] <= decoded[k]
                                 /\ pc[k] = "send" => m[2] < decoded[k]

\* What was published, failed or lost is behind what is in hand.
PublishedBehind == \A j \in DOMAIN published : Behind(published[j])
GoneBehind == \A m \in unsent \cup lost : Behind(m)

\* No message has two fates.
OneFate ==
  /\ unsent \cap lost = {}
  /\ \A m \in unsent \cup lost : ~InPublished(m)

\* A message that has a fate.
Settled(k, i) == <<k, i>> \in unsent \/ <<k, i>> \in lost \/ InPublished(<<k, i>>)

\* The one message that may be unsettled on an open channel is in hand.
InHand(k, i) == pc[k] \in {"send", "fault"} /\ i = decoded[k]

AllSettled ==
  \A k \in Clients : channel[k] = "open" =>
    \A i \in 1..decoded[k] : InHand(k, i) \/ Settled(k, i)

-----------------------------------------------------------------------------
(* The decoder.                                                            *)

\* Lengths and positions are numbers.
LEMMA Numbers ==
  ASSUME TypeOK, NEW k \in Clients
  PROVE  /\ arrived[k] \in Nat /\ decoded[k] \in Nat /\ readable[k] \in Nat
         /\ Len(lengths[k]) \in Nat /\ decoded[k] <= arrived[k]
         /\ arrived[k] <= Len(lengths[k])
         /\ \A i \in 1..Len(lengths[k]) : lengths[k][i] \in Nat /\ lengths[k][i] >= HeaderLength
<1>1. lengths[k] \in Seq(Lengths)
  BY DEF TypeOK
<1>2. \A i \in 1..Len(lengths[k]) : lengths[k][i] \in Lengths
  BY <1>1
<1>3. \A n \in Lengths : n \in Nat /\ n >= HeaderLength
  BY EchoAssumption
<1>4. Len(lengths[k]) \in Nat
  BY <1>1
<1>5. arrived[k] \in Nat /\ decoded[k] \in Nat /\ readable[k] \in Nat
  BY DEF TypeOK
<1>6. decoded[k] <= arrived[k] /\ arrived[k] <= Len(lengths[k])
  BY DEF TypeOK
<1> QED
  BY <1>2, <1>3, <1>4, <1>5, <1>6

\* A message behind another leaves room for the first and its length field.
LEMMA RoomForBoth ==
  ASSUME NEW first \in Nat, NEW second \in Nat, second >= 5
  PROVE  first + second >= 5 /\ (first + second) - 4 >= first
OBVIOUS

\* With one message in the buffer the decoder waits, with two it decodes.
LEMMA DecodesTheFirstOfTwo ==
  ASSUME TypeOK, NEW k \in Clients, LoopAt(k), pc[k] = "decode"
  PROVE  Decodable(k) <=> HoldsTwo(k)
<1> USE Numbers DEF HeaderLength
<1>1. CASE HoldsLast(k)
  <2>1. arrived[k] \in 1..Len(lengths[k]) /\ decoded[k] + 1 = arrived[k]
    BY <1>1 DEF HoldsLast
  <2>2. readable[k] = lengths[k][decoded[k] + 1] /\ readable[k] \in Nat
    BY <1>1, <2>1 DEF HoldsLast
  <2>3. ~Decodable(k)
    BY <2>2 DEF Decodable
  <2>4. ~HoldsTwo(k)
    BY <2>1 DEF HoldsTwo
  <2> QED
    BY <2>3, <2>4
<1>2. CASE HoldsTwo(k)
  <2>1. /\ arrived[k] \in 1..Len(lengths[k]) /\ arrived[k] - 1 \in 1..Len(lengths[k])
        /\ decoded[k] + 1 = arrived[k] - 1
    BY <1>2 DEF HoldsTwo
  <2>2. /\ readable[k] = lengths[k][decoded[k] + 1] + lengths[k][arrived[k]]
        /\ lengths[k][decoded[k] + 1] \in Nat /\ lengths[k][arrived[k]] \in Nat
        /\ lengths[k][arrived[k]] >= 5
    BY <1>2, <2>1 DEF HoldsTwo
  <2>3. readable[k] >= 5 /\ readable[k] - 4 >= lengths[k][decoded[k] + 1]
    <3> DEFINE first == lengths[k][decoded[k] + 1]
               second == lengths[k][arrived[k]]
    <3>1. first \in Nat /\ second \in Nat /\ second >= 5 /\ readable[k] = first + second
      BY <2>2
    <3> HIDE DEF first, second
    <3>2. first + second >= 5 /\ (first + second) - 4 >= first
      BY <3>1, RoomForBoth
    <3> QED
      BY <3>1, <3>2 DEF first
  <2>4. Decodable(k)
    BY <2>3 DEF Decodable
  <2> QED
    BY <1>2, <2>4
<1> QED
  BY <1>1, <1>2 DEF LoopAt

-----------------------------------------------------------------------------
(* What each action leaves alone: the other clients.                       *)

\* Nothing about the decoding of k changes.
Untouched(k) ==
  /\ channel'[k] = channel[k] /\ pc'[k] = pc[k] /\ lengths'[k] = lengths[k]
  /\ arrived'[k] = arrived[k] /\ decoded'[k] = decoded[k] /\ readable'[k] = readable[k]

LEMMA UntouchedLoop ==
  ASSUME NEW k \in Clients, Untouched(k), LoopAt(k)
  PROVE  LoopAt(k)'
BY DEF Untouched, LoopAt, Empty, HoldsLast, HoldsTwo

Step(k) == Connect(k) \/ ClientSend(k) \/ ClientCloses(k) \/ EventLoop(k)

LEMMA OthersUntouched ==
  ASSUME TypeOK, NEW k \in Clients, Step(k), NEW j \in Clients, j # k
  PROVE  Untouched(j)
<1> USE DEF TypeOK, Untouched, clientVars, bufferVars
<1>1. CASE Connect(k)
  BY <1>1 DEF Connect
<1>2. CASE ClientSend(k)
  BY <1>2 DEF ClientSend
<1>3. CASE ClientCloses(k)
  BY <1>3 DEF ClientCloses
<1>4. CASE FrameArrives(k)
  BY <1>4 DEF FrameArrives
<1>5. CASE Decode(k)
  BY <1>5 DEF Decode, ReadMessage
<1>6. CASE Send(k)
  BY <1>6 DEF Send
<1>7. CASE Echo(k)
  BY <1>7 DEF Echo
<1>8. CASE ExceptionCaught(k)
  BY <1>8 DEF ExceptionCaught
<1> QED
  BY <1>1, <1>2, <1>3, <1>4, <1>5, <1>6, <1>7, <1>8 DEF Step, EventLoop

BrokerStep == BrokerTakes \/ LoseBroker \/ RecoverBroker

LEMMA BrokerUntouched ==
  ASSUME BrokerStep
  PROVE  UNCHANGED <<channel, pc, lengths, arrived, decoded, readable, unsent, echoed, heap>>
BY DEF BrokerStep, BrokerTakes, LoseBroker, RecoverBroker, clientVars, bufferVars, brokerVars

LEMMA StepOfSomeone ==
  ASSUME Next
  PROVE  BrokerStep \/ \E k \in Clients : Step(k)
BY DEF Next, BrokerStep, Step

-----------------------------------------------------------------------------
(* Where the event loop is.                                                *)

LEMMA LoopInit == Init => Looping
BY DEF Init, Looping, LoopAt, Empty

\* A message the client sends is at the end, behind those that arrived.
LEMMA SendLoop ==
  ASSUME TypeOK, NEW k \in Clients, LoopAt(k), ClientSend(k)
  PROVE  LoopAt(k)'
<1>1. PICK n \in Lengths : lengths' = [lengths EXCEPT ![k] = Append(@, n)]
  BY DEF ClientSend
<1>2. lengths[k] \in Seq(Lengths) /\ lengths'[k] = Append(lengths[k], n)
  BY <1>1 DEF TypeOK
<1>3. \A i \in 1..Len(lengths[k]) : lengths'[k][i] = lengths[k][i]
  BY <1>2
<1>4. UNCHANGED <<channel, pc, arrived, decoded, readable>>
  BY DEF ClientSend, bufferVars
<1>5. HoldsLast(k) => HoldsLast(k)'
  BY <1>3, <1>4, Numbers DEF HoldsLast
<1>6. HoldsTwo(k) => HoldsTwo(k)'
  <2>1. HoldsTwo(k) => arrived[k] \in 1..Len(lengths[k]) /\ arrived[k] - 1 \in 1..Len(lengths[k])
    BY Numbers DEF HoldsTwo
  <2> QED
    BY <1>3, <1>4, <2>1 DEF HoldsTwo
<1> QED
  BY <1>4, <1>5, <1>6 DEF LoopAt, Empty

\* The next frame joins what the buffer holds.
LEMMA ArrivalLoop ==
  ASSUME TypeOK, NEW k \in Clients, LoopAt(k), FrameArrives(k)
  PROVE  LoopAt(k)'
<1>1. /\ arrived'[k] = arrived[k] + 1 /\ pc'[k] = "decode"
      /\ readable'[k] = readable[k] + lengths[k][arrived[k] + 1]
  BY DEF FrameArrives, TypeOK
<1>2. channel[k] = "open" /\ pc[k] = "idle" /\ UNCHANGED <<channel, lengths, decoded>>
  BY DEF FrameArrives
<1>3. arrived[k] + 1 \in 1..Len(lengths[k])
  BY Numbers DEF FrameArrives
<1>4. CASE Empty(k)
  <2>1. HoldsLast(k)'
    BY <1>1, <1>2, <1>3, <1>4, Numbers DEF Empty, HoldsLast
  <2> QED
    BY <1>1, <1>2, <2>1 DEF LoopAt
<1>5. CASE HoldsLast(k)
  <2>1. HoldsTwo(k)'
    BY <1>1, <1>2, <1>3, <1>5, Numbers DEF HoldsLast, HoldsTwo
  <2> QED
    BY <1>1, <1>2, <2>1 DEF LoopAt
<1> QED
  BY <1>2, <1>4, <1>5 DEF LoopAt

\* Decoding the first of two messages leaves the last.
LEMMA DecodeLoop ==
  ASSUME TypeOK, NEW k \in Clients, LoopAt(k), Decode(k)
  PROVE  LoopAt(k)'
<1>1. pc[k] = "decode" /\ channel[k] = "open" /\ UNCHANGED <<channel, lengths, arrived>>
  BY DEF Decode, LoopAt, clientVars
<1>2. Decodable(k) <=> HoldsTwo(k)
  BY <1>1, DecodesTheFirstOfTwo
<1>3. CASE ~Decodable(k)
  <2>1. pc'[k] = "idle" /\ UNCHANGED <<decoded, readable>>
    BY <1>3 DEF Decode, TypeOK, bufferVars
  <2>2. HoldsLast(k)
    BY <1>1, <1>2, <1>3 DEF LoopAt
  <2>3. HoldsLast(k)'
    BY <1>1, <2>1, <2>2 DEF HoldsLast
  <2> QED
    BY <1>1, <2>1, <2>3 DEF LoopAt
<1>4. CASE Decodable(k) /\ HasArray(k)
  <2>1. /\ pc'[k] = "send" /\ decoded'[k] = decoded[k] + 1
        /\ readable'[k] = readable[k] - lengths[k][decoded[k] + 1]
    BY <1>4 DEF Decode, TypeOK, ReadMessage
  <2>2. arrived[k] \in 1..Len(lengths[k]) /\ decoded[k] + 1 = arrived[k] - 1
    BY <1>2, <1>4, Numbers DEF HoldsTwo
  <2>3. arrived[k] - 1 \in 1..Len(lengths[k])
    BY <1>2, <1>4, Numbers DEF HoldsTwo
  <2>4. readable'[k] = lengths[k][arrived[k]]
    <3> DEFINE first == lengths[k][decoded[k] + 1]
               second == lengths[k][arrived[k]]
    <3>1. first \in Nat /\ second \in Nat
      BY <2>2, <2>3, Numbers
    <3>2. readable[k] = first + second /\ readable'[k] = readable[k] - first
      BY <1>2, <1>4, <2>1, <2>2 DEF HoldsTwo
    <3> HIDE DEF first, second
    <3>3. readable'[k] = second
      BY <3>1, <3>2
    <3> QED
      BY <3>3 DEF second
  <2>5. HoldsLast(k)' /\ decoded'[k] > 0
    BY <1>1, <2>1, <2>2, <2>4, Numbers DEF HoldsLast
  <2> QED
    BY <1>1, <2>1, <2>5 DEF LoopAt
<1>5. CASE Decodable(k) /\ ~HasArray(k)
  <2>1. pc'[k] = "fault"
    BY <1>5 DEF Decode, TypeOK
  <2> QED
    BY <1>1, <2>1 DEF LoopAt
<1> QED
  BY <1>3, <1>4, <1>5

LEMMA LoopStep ==
  ASSUME TypeOK, NEW k \in Clients, LoopAt(k), Step(k)
  PROVE  LoopAt(k)'
<1>1. CASE Connect(k)
  BY <1>1 DEF Connect, TypeOK, LoopAt, Empty, clientVars, bufferVars
<1>2. CASE ClientSend(k)
  BY <1>2, SendLoop
<1>3. CASE ClientCloses(k)
  BY <1>3 DEF ClientCloses, TypeOK, LoopAt, clientVars, bufferVars
<1>4. CASE FrameArrives(k)
  BY <1>4, ArrivalLoop
<1>5. CASE Decode(k)
  BY <1>5, DecodeLoop
<1>6. CASE Send(k)
  <2>1. UNCHANGED <<channel, lengths, arrived, decoded, readable>> /\ pc[k] = "send"
    BY <1>6 DEF Send, clientVars, bufferVars
  <2>2. pc'[k] \in {"echo", "fault"}
    BY <1>6 DEF Send, TypeOK
  <2> QED
    BY <2>1, <2>2 DEF LoopAt, HoldsLast
<1>7. CASE Echo(k)
  BY <1>7 DEF Echo, TypeOK, LoopAt, HoldsLast, clientVars, bufferVars
<1>8. CASE ExceptionCaught(k)
  BY <1>8 DEF ExceptionCaught, TypeOK, LoopAt, clientVars, bufferVars
<1> QED
  BY <1>1, <1>2, <1>3, <1>4, <1>5, <1>6, <1>7, <1>8 DEF Step, EventLoop

\* Every step of the server keeps every event loop in its place.
LEMMA LoopingNext ==
  ASSUME TypeOK, Looping, [Next]_vars
  PROVE  Looping'
<1> SUFFICES ASSUME NEW j \in Clients PROVE LoopAt(j)'
  BY DEF Looping
<1>1. LoopAt(j)
  BY DEF Looping
<1>2. CASE UNCHANGED vars
  BY <1>1, <1>2, UntouchedLoop DEF vars, Untouched
<1>3. CASE BrokerStep
  BY <1>1, <1>3, UntouchedLoop, BrokerUntouched DEF Untouched
<1>4. CASE \E k \in Clients : Step(k)
  <2>1. PICK k \in Clients : Step(k)
    BY <1>4
  <2>2. CASE j = k
    BY <1>1, <2>1, <2>2, LoopStep
  <2>3. CASE j # k
    BY <1>1, <2>1, <2>3, OthersUntouched, UntouchedLoop
  <2> QED
    BY <2>2, <2>3
<1> QED
  BY <1>2, <1>3, <1>4, StepOfSomeone

-----------------------------------------------------------------------------
(* Types.                                                                  *)

\* The message in hand has a number the bound allows.
LEMMA CurrentType ==
  ASSUME Typed, NEW k \in Clients, pc[k] \in {"send", "echo"}
  PROVE  decoded[k] \in Frames /\ Current(k) \in Clients \X Frames
<1>1. decoded[k] \in Nat /\ decoded[k] > 0
  BY Numbers DEF Typed, Looping, LoopAt
<1>2. decoded[k] <= MaxFrames
  BY Numbers, EchoAssumption DEF Typed, WithinBound
<1> QED
  BY <1>1, <1>2, EchoAssumption DEF Frames, Current

LEMMA TypedInit == Init => TypeOK /\ WithinBound
<1> SUFFICES ASSUME Init PROVE TypeOK /\ WithinBound
  OBVIOUS
<1>1. \A k \in Clients : lengths[k] = <<>> /\ arrived[k] = 0 /\ decoded[k] = 0
  BY DEF Init
<1>2. lengths \in [Clients -> Seq(Lengths)] /\ echoed \in [Clients -> Seq(Frames)]
  BY DEF Init
<1>3. /\ published \in Seq(Clients \X Frames) /\ unsent \subseteq Clients \X Frames
      /\ lost \subseteq Clients \X Frames /\ taken \in 0..Len(published)
  BY DEF Init
<1>4. losses \in 0..MaxLosses
  BY EchoAssumption DEF Init
<1> QED
  BY <1>1, <1>2, <1>3, <1>4, EchoAssumption DEF Init, TypeOK, WithinBound

\* What a decoding step leaves in the buffer is a number of bytes, and the
\* frame it decoded had arrived.
LEMMA DecodeType ==
  ASSUME Typed, NEW k \in Clients, Decode(k)
  PROVE  /\ decoded' \in [Clients -> Nat] /\ readable' \in [Clients -> Nat]
         /\ decoded'[k] <= arrived[k]
<1> USE DEF Typed
<1>1. pc[k] = "decode" /\ LoopAt(k)
  BY DEF Decode, Looping
<1>2. CASE ~Decodable(k)
  BY <1>2, Numbers DEF Decode, bufferVars, TypeOK
<1>3. CASE Decodable(k)
  <2>1. HoldsTwo(k)
    BY <1>1, <1>3, DecodesTheFirstOfTwo
  <2>2. decoded[k] + 1 \in 1..Len(lengths[k]) /\ decoded[k] + 1 <= arrived[k]
    BY <2>1, Numbers DEF HoldsTwo
  <2>3. readable[k] - lengths[k][decoded[k] + 1] \in Nat
    BY <1>3, <2>2, Numbers DEF Decodable
  <2>4. readable' = [readable EXCEPT ![k] = readable[k] - lengths[k][decoded[k] + 1]]
    BY <1>3 DEF Decode, ReadMessage
  <2>5. readable' \in [Clients -> Nat]
    BY <2>3, <2>4 DEF TypeOK
  <2>6. decoded' = [decoded EXCEPT ![k] = decoded[k] + 1] \/ decoded' = decoded
    BY <1>3 DEF Decode
  <2>7. decoded \in [Clients -> Nat] /\ decoded[k] <= arrived[k]
    BY DEF TypeOK
  <2> QED
    BY <2>2, <2>5, <2>6, <2>7
<1> QED
  BY <1>2, <1>3

\* The part of the type about the decoders.
DecoderTyped ==
  /\ channel \in [Clients -> {"new", "open", "closed"}]
  /\ pc \in [Clients -> {"idle", "decode", "send", "echo", "fault"}]
  /\ lengths \in [Clients -> Seq(Lengths)]
  /\ arrived \in [Clients -> Nat] /\ decoded \in [Clients -> Nat] /\ readable \in [Clients -> Nat]
  /\ \A k \in Clients : decoded[k] <= arrived[k] /\ arrived[k] <= Len(lengths[k])

\* The part about the broker and the answers.
BrokerTyped ==
  /\ sender \in {"none", "open", "lost"}
  /\ published \in Seq(Clients \X Frames) /\ taken \in 0..Len(published)
  /\ unsent \subseteq Clients \X Frames /\ lost \subseteq Clients \X Frames
  /\ echoed \in [Clients -> Seq(Frames)]
  /\ losses \in 0..MaxLosses
  /\ heap \in BOOLEAN

LEMMA TypeParts == TypeOK <=> DecoderTyped /\ BrokerTyped
BY DEF TypeOK, DecoderTyped, BrokerTyped

LEMMA SendType ==
  ASSUME Typed, NEW k \in Clients, ClientSend(k)
  PROVE  DecoderTyped' /\ WithinBound'
<1>1. PICK n \in Lengths : lengths' = [lengths EXCEPT ![k] = Append(@, n)]
  BY DEF ClientSend
<1>2. lengths[k] \in Seq(Lengths) /\ Len(lengths[k]) \in Nat /\ Len(lengths[k]) < MaxFrames
  BY DEF ClientSend, Typed, TypeOK
<1>3. Append(lengths[k], n) \in Seq(Lengths) /\ Len(Append(lengths[k], n)) = Len(lengths[k]) + 1
  BY <1>2
<1>4. lengths' \in [Clients -> Seq(Lengths)]
  BY <1>1, <1>3 DEF Typed, TypeOK
<1>5. \A j \in Clients : Len(lengths'[j]) = Len(lengths[j]) \/ j = k
  BY <1>1 DEF Typed, TypeOK
<1>6. Len(lengths'[k]) = Len(lengths[k]) + 1
  BY <1>1, <1>3 DEF Typed, TypeOK
<1>7. UNCHANGED <<channel, pc, arrived, decoded, readable>>
  BY DEF ClientSend, bufferVars
<1>8. WithinBound'
  BY <1>2, <1>5, <1>6, EchoAssumption DEF Typed, WithinBound
<1>9. \A j \in Clients : decoded[j] <= arrived[j] /\ arrived[j] <= Len(lengths'[j])
  <2> SUFFICES ASSUME NEW j \in Clients PROVE decoded[j] <= arrived[j] /\ arrived[j] <= Len(lengths'[j])
    OBVIOUS
  <2> QED
    BY <1>5, <1>6, Numbers DEF Typed
<1> QED
  BY <1>4, <1>7, <1>8, <1>9 DEF Typed, TypeOK, DecoderTyped

\* The frame that arrives was sent, and its bytes are added.
LEMMA NextFrame ==
  ASSUME TypeOK, NEW k \in Clients, FrameArrives(k)
  PROVE  /\ arrived[k] + 1 \in 1..Len(lengths[k])
         /\ readable[k] + lengths[k][arrived[k] + 1] \in Nat
<1>1. arrived[k] + 1 \in 1..Len(lengths[k])
  BY Numbers DEF FrameArrives
<1> QED
  BY <1>1, Numbers

LEMMA DecoderTypeStep ==
  ASSUME Typed, NEW k \in Clients, Step(k)
  PROVE  DecoderTyped' /\ WithinBound'
<1> USE DEF Typed, TypeOK, DecoderTyped, WithinBound, clientVars, bufferVars
<1>1. CASE Connect(k)
  BY <1>1 DEF Connect
<1>2. CASE ClientSend(k)
  BY <1>2, SendType
<1>3. CASE ClientCloses(k)
  BY <1>3 DEF ClientCloses
<1>4. CASE FrameArrives(k)
  <2>1. /\ arrived[k] + 1 \in 1..Len(lengths[k])
        /\ readable[k] + lengths[k][arrived[k] + 1] \in Nat
    BY <1>4, NextFrame
  <2>2. readable' \in [Clients -> Nat] /\ arrived' \in [Clients -> Nat]
    BY <1>4, <2>1 DEF FrameArrives
  <2>3. \A j \in Clients : decoded[j] <= arrived'[j] /\ arrived'[j] <= Len(lengths[j])
    BY <1>4, <2>1 DEF FrameArrives
  <2> QED
    BY <1>4, <2>2, <2>3 DEF FrameArrives
<1>5. CASE Decode(k)
  <2>1. /\ decoded' \in [Clients -> Nat] /\ readable' \in [Clients -> Nat]
        /\ decoded'[k] <= arrived[k]
    BY <1>5, DecodeType
  <2>2. UNCHANGED <<channel, lengths, arrived>>
    BY <1>5 DEF Decode
  <2>3. pc' \in [Clients -> {"idle", "decode", "send", "echo", "fault"}]
    BY <1>5 DEF Decode
  <2>4. \A j \in Clients : j # k => decoded'[j] = decoded[j]
    BY <1>5 DEF Decode
  <2> QED
    BY <2>1, <2>2, <2>3, <2>4
<1>6. CASE Send(k)
  BY <1>6 DEF Send
<1>7. CASE Echo(k)
  BY <1>7 DEF Echo
<1>8. CASE ExceptionCaught(k)
  BY <1>8 DEF ExceptionCaught
<1> QED
  BY <1>1, <1>2, <1>3, <1>4, <1>5, <1>6, <1>7, <1>8 DEF Step, EventLoop

LEMMA BrokerTypeStep ==
  ASSUME Typed, NEW k \in Clients, Step(k)
  PROVE  BrokerTyped'
<1> USE DEF Typed, TypeOK, BrokerTyped, brokerVars
<1>1. CASE Send(k)
  <2>1. Current(k) \in Clients \X Frames
    BY <1>1, CurrentType DEF Send
  <2>2. /\ Append(published, Current(k)) \in Seq(Clients \X Frames)
        /\ taken \in 0..Len(Append(published, Current(k)))
    BY <2>1
  <2>3. published' \in Seq(Clients \X Frames) /\ taken' \in 0..Len(published')
    BY <1>1, <2>2 DEF Send
  <2>4. unsent' \subseteq Clients \X Frames /\ lost' \subseteq Clients \X Frames
    BY <1>1, <2>1 DEF Send
  <2> QED
    BY <1>1, <2>3, <2>4 DEF Send
<1>2. CASE Echo(k)
  <2>1. decoded[k] \in Frames
    BY <1>2, CurrentType DEF Echo
  <2>2. Append(echoed[k], decoded[k]) \in Seq(Frames)
    BY <2>1
  <2> QED
    BY <1>2, <2>2 DEF Echo
<1>3. CASE ~Send(k) /\ ~Echo(k)
  BY <1>3 DEF Step, EventLoop, Connect, ClientSend, ClientCloses, FrameArrives, Decode, ExceptionCaught
<1> QED
  BY <1>1, <1>2, <1>3

\* What the broker has is the beginning of what was published.
LEMMA LossKeepsTaken ==
  ASSUME Typed, LoseBroker
  PROVE  /\ taken \in Nat /\ Len(published) \in Nat /\ taken <= Len(published)
         /\ DOMAIN published = 1..Len(published)
         /\ published' \in Seq(Clients \X Frames) /\ Len(published') = taken
         /\ DOMAIN published' = 1..taken
         /\ \A j \in 1..taken : published'[j] = published[j]
<1>1. published \in Seq(Clients \X Frames) /\ taken \in 0..Len(published)
  BY DEF Typed, TypeOK
<1>2. taken \in Nat /\ Len(published) \in Nat /\ taken <= Len(published) /\ DOMAIN published = 1..Len(published)
  BY <1>1
<1>3. published' = SubSeq(published, 1, taken)
  BY DEF LoseBroker
<1>4. \A j \in 1..taken : published[j] \in Clients \X Frames
  BY <1>1, <1>2, ElementOfSeq
<1>5. SubSeq(published, 1, taken) = [j \in 1..taken |-> published[j]]
  BY <1>2
<1>6. [j \in 1..taken |-> published[j]] \in Seq(Clients \X Frames)
  BY <1>2, <1>4
<1> QED
  BY <1>2, <1>3, <1>5, <1>6

LEMMA OnTheWayType ==
  ASSUME Typed
  PROVE  OnTheWay \subseteq Clients \X Frames
<1>1. published \in Seq(Clients \X Frames) /\ taken \in 0..Len(published)
  BY DEF Typed, TypeOK
<1>2. \A j \in (taken + 1)..Len(published) : j \in 1..Len(published)
  BY <1>1
<1>3. \A j \in (taken + 1)..Len(published) : published[j] \in Clients \X Frames
  BY <1>1, <1>2, ElementOfSeq
<1> QED
  BY <1>3 DEF OnTheWay

LEMMA BrokerStepType ==
  ASSUME Typed, BrokerStep
  PROVE  BrokerTyped'
<1> USE DEF Typed, TypeOK, BrokerTyped
<1>1. CASE BrokerTakes
  <2>1. taken' \in 0..Len(published)
    BY <1>1 DEF BrokerTakes
  <2> QED
    BY <1>1, <2>1 DEF BrokerTakes
<1>2. CASE LoseBroker
  <2>1. published' \in Seq(Clients \X Frames) /\ taken' \in 0..Len(published')
    <3>1. taken \in Nat /\ published' \in Seq(Clients \X Frames) /\ Len(published') = taken
      BY <1>2, LossKeepsTaken
    <3>2. taken' = taken
      BY <1>2 DEF LoseBroker
    <3> QED
      BY <3>1, <3>2
  <2>2. lost' \subseteq Clients \X Frames
    BY <1>2, OnTheWayType DEF LoseBroker
  <2>3. losses' \in 0..MaxLosses
    BY <1>2, EchoAssumption DEF LoseBroker
  <2> QED
    BY <1>2, <2>1, <2>2, <2>3 DEF LoseBroker
<1>3. CASE RecoverBroker
  BY <1>3 DEF RecoverBroker, brokerVars
<1> QED
  BY <1>1, <1>2, <1>3 DEF BrokerStep

\* The type is inductive once it is known that sends are bounded and where
\* every event loop is.
LEMMA TypedNext ==
  ASSUME Typed, [Next]_vars
  PROVE  Typed'
<1>1. Looping'
  BY LoopingNext DEF Typed
<1>2. CASE UNCHANGED vars
  BY <1>1, <1>2 DEF vars, Typed, TypeOK, WithinBound
<1>3. CASE BrokerStep
  <2>1. DecoderTyped' /\ WithinBound'
    BY <1>3, BrokerUntouched DEF Typed, TypeOK, DecoderTyped, WithinBound
  <2>2. BrokerTyped'
    BY <1>3, BrokerStepType
  <2> QED
    BY <1>1, <2>1, <2>2 DEF Typed, TypeOK, DecoderTyped, BrokerTyped
<1>4. CASE \E k \in Clients : Step(k)
  BY <1>1, <1>4, DecoderTypeStep, BrokerTypeStep DEF Typed, TypeOK, DecoderTyped, BrokerTyped
<1> QED
  BY <1>2, <1>3, <1>4, StepOfSomeone

LEMMA AlwaysTyped == Spec => []Typed
<1>1. Init => Typed
  BY TypedInit, LoopInit DEF Typed
<1>2. Typed /\ [Next]_vars => Typed'
  BY TypedNext
<1> QED
  BY <1>1, <1>2, PTL DEF Spec

\* The server's state is well typed: the decoder never counts below zero and
\* decodes no frame that has not arrived.
THEOREM TypeCorrect == Spec => []TypeOK
<1>1. Typed => TypeOK
  BY DEF Typed
<1> QED
  BY <1>1, AlwaysTyped, PTL

\* A resting decoder has everything but the last message that arrived.
THEOREM AlwaysOneBehind == Spec => []LagsByOne
<1>1. Typed => LagsByOne
  BY Numbers DEF Typed, Looping, LoopAt, LagsByOne, Empty, HoldsLast
<1> QED
  BY <1>1, AlwaysTyped, PTL

-----------------------------------------------------------------------------
(* The order of publication.                                               *)

Published == PublishedInOrder /\ PublishedBehind /\ GoneBehind /\ OneFate

LEMMA PublishedInit == Init => Published
BY DEF Init, Published, PublishedInOrder, PublishedBehind, GoneBehind, OneFate

Numbered(m) == m \in Clients \X Frames

\* What was published, failed or lost is a client and a number.
LEMMA Exchanged ==
  ASSUME Typed
  PROVE  /\ \A j \in DOMAIN published : Numbered(published[j])
         /\ \A m \in unsent \cup lost : Numbered(m)
<1>1. published \in Seq(Clients \X Frames)
  BY DEF Typed, TypeOK
<1>2. \A j \in DOMAIN published : published[j] \in Clients \X Frames
  BY <1>1
<1> QED
  BY <1>2 DEF Typed, TypeOK, Numbered

\* How the numbers decoded may move: they only grow, and a message comes in
\* hand only with a new number.
Grows(c) ==
  /\ decoded'[c] \in Nat /\ decoded[c] <= decoded'[c]
  /\ pc'[c] = "send" => pc[c] = "send" \/ decoded[c] < decoded'[c]

\* What is behind stays so.
LEMMA BehindKept ==
  ASSUME Typed, NEW m, Numbered(m), Behind(m), \A c \in Clients : Grows(c)
  PROVE  Behind(m)'
<1> SUFFICES ASSUME NEW c \in Clients, m[1] = c
             PROVE  m[2] <= decoded'[c] /\ (pc'[c] = "send" => m[2] < decoded'[c])
  BY DEF Behind
<1>1. m[2] \in Nat /\ decoded[c] \in Nat
  BY Numbers, EchoAssumption DEF Typed, Numbered, Frames
<1>2. m[2] <= decoded[c] /\ (pc[c] = "send" => m[2] < decoded[c])
  BY DEF Behind
<1> QED
  BY <1>1, <1>2 DEF Grows

\* The message in hand is none of those behind it, and is behind once sent.
LEMMA CurrentIsNew ==
  ASSUME Typed, NEW k \in Clients, pc[k] = "send", NEW m, Behind(m)
  PROVE  m # Current(k)
<1>1. decoded[k] \in Nat
  BY Numbers DEF Typed
<1> QED
  BY <1>1 DEF Behind, Current

LEMMA SentIsBehind ==
  ASSUME Typed, NEW k \in Clients, pc' = [pc EXCEPT ![k] = "echo"], decoded' = decoded
  PROVE  Behind(Current(k))' /\ Current(k)' = Current(k) /\ \A c \in Clients : Grows(c)
<1>1. \A c \in Clients : decoded[c] \in Nat
  BY Numbers DEF Typed
<1>2. pc'[k] = "echo" /\ \A c \in Clients : c # k => pc'[c] = pc[c]
  BY DEF Typed, TypeOK
<1> QED
  BY <1>1, <1>2 DEF Behind, Current, Grows

\* Publishing the message in hand keeps the order: everything of this client
\* that was published before has a smaller number.
LEMMA PublishStep ==
  ASSUME Typed, Published, NEW k \in Clients, pc[k] = "send",
         published' = Append(published, Current(k)), UNCHANGED <<unsent, lost>>,
         pc' = [pc EXCEPT ![k] = "echo"], decoded' = decoded
  PROVE  Published'
<1>1. published \in Seq(Clients \X Frames) /\ Current(k) \in Clients \X Frames
  BY CurrentType DEF Typed, TypeOK
<1>2. /\ Len(published) \in Nat /\ DOMAIN published = 1..Len(published)
      /\ DOMAIN published' = 1..(Len(published) + 1)
  BY <1>1
<1>3. /\ \A i \in 1..Len(published) : published'[i] = published[i]
      /\ published'[Len(published) + 1] = Current(k)
  BY <1>1
<1>4. \A i \in 1..Len(published) : published[i][1] = k => published[i][2] < decoded[k]
  BY <1>2 DEF Published, PublishedBehind, Behind
<1>5. Current(k)[1] = k /\ Current(k)[2] = decoded[k] /\ decoded[k] \in Nat
  BY Numbers DEF Current, Typed
<1>6. PublishedInOrder'
  <2> SUFFICES ASSUME NEW i \in 1..(Len(published) + 1), NEW j \in 1..(Len(published) + 1), i < j,
                      published'[i][1] = published'[j][1]
               PROVE  published'[i][2] < published'[j][2]
    BY <1>2 DEF PublishedInOrder
  <2>1. i \in 1..Len(published)
    BY <1>2
  <2>2. CASE j \in 1..Len(published)
    BY <1>2, <1>3, <2>1, <2>2 DEF Published, PublishedInOrder
  <2>3. CASE j = Len(published) + 1
    BY <1>3, <1>4, <1>5, <2>1, <2>3
  <2> QED
    BY <1>2, <2>2, <2>3
<1>7. /\ Behind(Current(k))' /\ Current(k)' = Current(k)
      /\ \A c \in Clients : Grows(c)
  BY SentIsBehind
<1>8. PublishedBehind'
  <2> SUFFICES ASSUME NEW j \in 1..(Len(published) + 1) PROVE Behind(published[j])'
    BY <1>2 DEF PublishedBehind
  <2>1. CASE j \in 1..Len(published)
    <3>1. Behind(published[j])
      BY <1>2, <2>1 DEF Published, PublishedBehind
    <3>2. Numbered(published[j])
      BY <1>2, <2>1, Exchanged
    <3> DEFINE m == published[j]
    <3>3. m' = m
      BY <1>3, <2>1
    <3>4. \A x : Numbered(x) /\ Behind(x) => Behind(x)'
      BY <1>7, BehindKept
    <3> QED
      BY <1>3, <2>1, <3>1, <3>2, <3>4 DEF Behind
  <2>2. CASE j = Len(published) + 1
    BY <1>3, <1>7, <2>2 DEF Behind
  <2> QED
    BY <1>2, <2>1, <2>2
<1>9. GoneBehind'
  <2> SUFFICES ASSUME NEW m \in unsent \cup lost PROVE Behind(m)'
    BY DEF GoneBehind
  <2> QED
    BY <1>7, Exchanged, BehindKept DEF Published, GoneBehind
<1>10. OneFate'
  <2> SUFFICES ASSUME NEW m \in unsent \cup lost, NEW j \in 1..(Len(published) + 1), published'[j] = m
               PROVE  FALSE
    BY <1>2 DEF Published, OneFate, InPublished
  <2>1. m # Current(k)
    BY CurrentIsNew DEF Published, GoneBehind
  <2>2. j \in 1..Len(published)
    BY <1>2, <1>3, <2>1
  <2> QED
    BY <1>2, <1>3, <2>2 DEF Published, OneFate, InPublished
<1> QED
  BY <1>6, <1>8, <1>9, <1>10 DEF Published

\* A failed publication puts the message in hand among those unsent.
LEMMA FailStep ==
  ASSUME Typed, Published, NEW k \in Clients, pc[k] = "send",
         unsent' = unsent \cup {Current(k)}, UNCHANGED <<published, lost>>,
         pc' = [pc EXCEPT ![k] = "echo"], decoded' = decoded
  PROVE  Published'
<1>1. /\ Behind(Current(k))' /\ Current(k)' = Current(k)
      /\ \A c \in Clients : Grows(c)
  BY SentIsBehind
<1>2. \A m : Numbered(m) /\ Behind(m) => Behind(m)'
  BY <1>1, BehindKept
<1>3. PublishedInOrder' /\ PublishedBehind'
  BY <1>2, Exchanged DEF Published, PublishedInOrder, PublishedBehind, Behind
<1>4. \A m : Behind(m) => m # Current(k)
  BY CurrentIsNew
<1>5. GoneBehind'
  <2> SUFFICES ASSUME NEW m \in unsent \cup lost \cup {Current(k)} PROVE Behind(m)'
    BY DEF GoneBehind
  <2>1. CASE m = Current(k)
    BY <1>1, <2>1 DEF Behind
  <2>2. CASE m \in unsent \cup lost
    BY <1>2, <2>2, Exchanged DEF Published, GoneBehind
  <2> QED
    BY <2>1, <2>2
<1>6. OneFate'
  <2>1. Current(k) \notin lost
    BY <1>4 DEF Published, GoneBehind
  <2>2. ~InPublished(Current(k))
    BY <1>4 DEF Published, PublishedBehind, InPublished
  <2>3. \A m : InPublished(m)' <=> InPublished(m)
    BY DEF InPublished
  <2> QED
    BY <2>1, <2>2, <2>3 DEF Published, OneFate
<1> QED
  BY <1>3, <1>5, <1>6 DEF Published

\* While nothing is published, failed or lost, the decoders only go on.
LEMMA UnpublishedStep ==
  ASSUME Typed, Published, UNCHANGED <<published, unsent, lost>>, \A c \in Clients : Grows(c)
  PROVE  Published'
<1>1. PublishedInOrder' /\ OneFate'
  BY DEF Published, PublishedInOrder, OneFate, InPublished
<1>2. \A m : Numbered(m) /\ Behind(m) => Behind(m)'
  BY BehindKept
<1>3. PublishedBehind'
  BY <1>2, Exchanged DEF Published, PublishedBehind, Behind
<1>4. GoneBehind'
  BY <1>2, Exchanged DEF Published, GoneBehind
<1> QED
  BY <1>1, <1>3, <1>4 DEF Published

\* What was on the way goes from the published messages to the lost ones; by
\* their order none of it is among those the broker has.
LEMMA LossStep ==
  ASSUME Typed, Published, LoseBroker
  PROVE  Published'
<1>1. /\ taken \in Nat /\ Len(published) \in Nat /\ taken <= Len(published)
      /\ DOMAIN published = 1..Len(published)
      /\ DOMAIN published' = 1..taken
      /\ \A j \in 1..taken : published'[j] = published[j]
  BY LossKeepsTaken
<1>2. lost' = lost \cup OnTheWay /\ UNCHANGED <<decoded, pc, unsent>>
  BY DEF LoseBroker, bufferVars
<1>3. \A j \in 1..taken : j \in DOMAIN published
  BY <1>1
<1>4. PublishedInOrder'
  BY <1>1, <1>3 DEF Published, PublishedInOrder
<1>5. \A m : Behind(m)' <=> Behind(m)
  BY <1>2 DEF Behind
<1>6. PublishedBehind'
  BY <1>1, <1>2, <1>3 DEF Published, PublishedBehind, Behind
<1>7. \A m \in OnTheWay : \E i \in DOMAIN published : i > taken /\ m = published[i]
  <2>1. \A i \in (taken + 1)..Len(published) : i \in 1..Len(published) /\ i > taken
    BY <1>1
  <2> QED
    BY <1>1, <2>1 DEF OnTheWay
<1>8. GoneBehind'
  <2>1. \A m \in OnTheWay : Behind(m)
    BY <1>7 DEF Published, PublishedBehind
  <2> QED
    BY <1>2, <1>5, <2>1 DEF Published, GoneBehind
<1>9. \A m : InPublished(m)' => \E j \in 1..taken : published[j] = m
  BY <1>1 DEF InPublished
<1>10. \A m \in OnTheWay : ~InPublished(m)'
  <2> SUFFICES ASSUME NEW m \in OnTheWay, InPublished(m)' PROVE FALSE
    OBVIOUS
  <2>1. PICK i \in DOMAIN published : i > taken /\ m = published[i]
    BY <1>7
  <2>2. PICK j \in 1..taken : published[j] = m
    BY <1>9
  <2>3. j \in DOMAIN published /\ j < i
    BY <1>1, <2>1, <1>3
  <2>4. published[j][2] < published[i][2]
    BY <2>1, <2>2, <2>3 DEF Published, PublishedInOrder
  <2>5. m \in Clients \X Frames
    BY <2>1, Exchanged DEF Numbered
  <2>6. m[2] \in Nat
    BY <2>5, EchoAssumption DEF Frames
  <2> QED
    BY <2>1, <2>2, <2>4, <2>6
<1>11. \A m : InPublished(m)' => InPublished(m)
  BY <1>3, <1>9 DEF InPublished
<1>12. \A m \in OnTheWay : InPublished(m)
  BY <1>7 DEF InPublished
<1>13. OneFate'
  BY <1>2, <1>10, <1>11, <1>12 DEF Published, OneFate
<1> QED
  BY <1>4, <1>6, <1>8, <1>13 DEF Published

\* How the number decoded moves in a step of a client.
LEMMA DecodedGrows ==
  ASSUME Typed, NEW k \in Clients, Step(k), NEW c \in Clients
  PROVE  Grows(c)
<1> USE DEF Grows
<1>1. decoded[c] \in Nat /\ decoded \in [Clients -> Nat] /\ pc \in [Clients -> {"idle", "decode", "send", "echo", "fault"}]
  BY DEF Typed, TypeOK
<1>2. CASE Decode(k)
  BY <1>1, <1>2 DEF Decode, bufferVars
<1>3. CASE ~Decode(k)
  <2>1. decoded' = decoded
    BY <1>3 DEF Step, EventLoop, Connect, ClientSend, ClientCloses, FrameArrives, Send, Echo, ExceptionCaught, bufferVars
  <2>2. pc'[c] = "send" => pc[c] = "send"
    BY <1>1, <1>3 DEF Step, EventLoop, Connect, ClientSend, ClientCloses, FrameArrives, Send, Echo, ExceptionCaught
  <2> QED
    BY <1>1, <2>1, <2>2
<1> QED
  BY <1>2, <1>3

\* A step of a client publishes the message in hand, or it fails, or nothing
\* is published.
LEMMA OnlySendPublishes ==
  ASSUME NEW k \in Clients, Step(k)
  PROVE  /\ UNCHANGED lost
         /\ \/ UNCHANGED <<published, unsent>>
            \/ /\ pc[k] = "send" /\ published' = Append(published, Current(k)) /\ UNCHANGED unsent
               /\ pc' = [pc EXCEPT ![k] = "echo"] /\ decoded' = decoded
            \/ /\ pc[k] = "send" /\ unsent' = unsent \cup {Current(k)} /\ UNCHANGED published
               /\ pc' = [pc EXCEPT ![k] = "echo"] /\ decoded' = decoded
<1>1. CASE Send(k)
  BY <1>1 DEF Send, bufferVars
<1>2. CASE ~Send(k)
  BY <1>2 DEF Step, EventLoop, Connect, ClientSend, ClientCloses, FrameArrives, Decode, Echo, ExceptionCaught, brokerVars
<1> QED
  BY <1>1, <1>2

LEMMA PublishedNext ==
  ASSUME Typed, Published, [Next]_vars
  PROVE  Published'
<1>1. ASSUME UNCHANGED <<decoded, pc>> PROVE \A c \in Clients : Grows(c)
  BY <1>1, Numbers DEF Typed, Grows
<1>2. CASE UNCHANGED vars
  BY <1>1, <1>2, UnpublishedStep DEF vars
<1>3. CASE BrokerStep
  <2>1. CASE LoseBroker
    BY <2>1, LossStep
  <2>2. CASE ~LoseBroker
    <3>1. UNCHANGED <<published, unsent, lost, decoded, pc>>
      BY <1>3, <2>2 DEF BrokerStep, BrokerTakes, RecoverBroker, brokerVars, bufferVars
    <3> QED
      BY <1>1, <3>1, UnpublishedStep
  <2> QED
    BY <2>1, <2>2
<1>4. CASE \E k \in Clients : Step(k)
  <2>1. PICK k \in Clients : Step(k)
    BY <1>4
  <2>2. CASE UNCHANGED <<published, unsent>>
    BY <2>1, <2>2, DecodedGrows, UnpublishedStep, OnlySendPublishes
  <2>3. CASE ~UNCHANGED <<published, unsent>>
    BY <2>1, <2>3, OnlySendPublishes, PublishStep, FailStep
  <2> QED
    BY <2>2, <2>3
<1> QED
  BY <1>2, <1>3, <1>4, StepOfSomeone

LEMMA AlwaysPublished == Spec => []Published
<1>1. Init => Published
  BY PublishedInit
<1>2. Typed /\ Published /\ [Next]_vars => Published'
  BY PublishedNext
<1> QED
  BY <1>1, <1>2, AlwaysTyped, PTL DEF Spec

\* Whatever the event loops of the clients interleave on the one sender, and
\* whatever a lost connection takes with it, each client's messages are
\* published in the order sent and at most once.
THEOREM PublicationKeepsOrder == Spec => []PublishedInOrder
<1>1. Published => PublishedInOrder
  BY DEF Published
<1> QED
  BY <1>1, AlwaysPublished, PTL

-----------------------------------------------------------------------------
(* Every message has a fate.                                               *)

LEMMA SettledInit == Init => AllSettled
BY DEF Init, AllSettled

\* What is settled stays so.
LEMMA SettledKept ==
  ASSUME Typed, NEW k \in Clients, Step(k), NEW c, NEW i, Settled(c, i)
  PROVE  Settled(c, i)'
<1>1. published \in Seq(Clients \X Frames)
  BY DEF Typed, TypeOK
<1>2. unsent \subseteq unsent' /\ lost \subseteq lost'
  BY OnlySendPublishes
<1>3. \A j \in DOMAIN published : j \in DOMAIN published' /\ published'[j] = published[j]
  <2>1. CASE UNCHANGED published
    BY <2>1
  <2>2. CASE published' = Append(published, Current(k)) /\ pc[k] = "send"
    <3>1. Current(k) \in Clients \X Frames
      BY <2>2, CurrentType
    <3> QED
      BY <1>1, <2>2, <3>1
  <2> QED
    BY <2>1, <2>2, OnlySendPublishes
<1> QED
  BY <1>2, <1>3 DEF Settled, InPublished

\* Losing the connection too.
LEMMA SettledAcrossLoss ==
  ASSUME Typed, BrokerStep, NEW c, NEW i, Settled(c, i)
  PROVE  Settled(c, i)'
<1>1. CASE ~LoseBroker
  BY <1>1 DEF BrokerStep, BrokerTakes, RecoverBroker, brokerVars, Settled, InPublished
<1>2. CASE LoseBroker
  <2>1. lost' = lost \cup OnTheWay /\ unsent' = unsent
    BY <1>2 DEF LoseBroker
  <2>2. CASE InPublished(<<c, i>>)
    <3>1. PICK j \in DOMAIN published : published[j] = <<c, i>>
      BY <2>2 DEF InPublished
    <3>2. CASE j <= taken
      <4>1. j \in DOMAIN published' /\ published'[j] = <<c, i>>
        BY <1>2, <3>1, <3>2, LossKeepsTaken
      <4> QED
        BY <4>1 DEF Settled, InPublished
    <3>3. CASE ~(j <= taken)
      <4>1. j \in (taken + 1)..Len(published)
        BY <1>2, <3>1, <3>3, LossKeepsTaken
      <4> QED
        BY <2>1, <3>1, <4>1 DEF Settled, OnTheWay
    <3> QED
      BY <3>2, <3>3
  <2>3. CASE <<c, i>> \in unsent \cup lost
    BY <2>1, <2>3 DEF Settled
  <2> QED
    BY <2>2, <2>3 DEF Settled
<1> QED
  BY <1>1, <1>2

\* Sending leaves the message published, or its failure logged, or the
\* exception in hand.
LEMMA SendSettles ==
  ASSUME Typed, NEW k \in Clients, Send(k)
  PROVE  Settled(k, decoded[k])' \/ pc'[k] = "fault"
<1>1. CASE published' = Append(published, Current(k))
  <2>1. published \in Seq(Clients \X Frames) /\ Current(k) \in Clients \X Frames
    BY CurrentType DEF Typed, TypeOK, Send
  <2>2. Len(published) + 1 \in DOMAIN published' /\ published'[Len(published) + 1] = Current(k)
    BY <1>1, <2>1
  <2>3. decoded' = decoded
    BY DEF Send, bufferVars
  <2> QED
    BY <2>2, <2>3 DEF Settled, InPublished, Current
<1>2. CASE unsent' = unsent \cup {Current(k)}
  BY <1>2 DEF Settled, Current, Send, bufferVars
<1>3. CASE sender # "open"
  BY <1>3 DEF Send, Typed, TypeOK
<1> QED
  BY <1>1, <1>2, <1>3 DEF Send

\* The client that takes the step: only decoding brings a message in hand, and
\* only sending or closing puts it away.
LEMMA SettledByStep ==
  ASSUME Typed, AllSettled, NEW k \in Clients, Step(k), channel'[k] = "open",
         NEW i \in 1..decoded'[k]
  PROVE  InHand(k, i)' \/ Settled(k, i)'
<1> USE DEF Typed
<1>1. decoded[k] \in Nat /\ decoded'[k] \in Nat
  BY DecodedGrows DEF TypeOK, Grows
<1>2. channel[k] = "open" /\ i \in 1..decoded[k] => InHand(k, i) \/ Settled(k, i)
  BY DEF AllSettled
<1>3. Settled(k, i) => Settled(k, i)'
  BY SettledKept
<1>4. CASE Connect(k)
  BY <1>4 DEF Connect, bufferVars, Looping, LoopAt, Empty
<1>5. CASE Decode(k)
  <2>1. channel[k] = "open" /\ pc[k] = "decode"
    BY <1>5 DEF Decode, Looping, LoopAt
  <2>2. i \in 1..decoded[k] => Settled(k, i)
    BY <1>2, <2>1 DEF InHand
  <2>3. \/ decoded'[k] = decoded[k]
        \/ decoded'[k] = decoded[k] + 1 /\ pc'[k] = "send"
    BY <1>5 DEF Decode, TypeOK, bufferVars
  <2> QED
    BY <1>1, <1>3, <2>2, <2>3 DEF InHand
<1>6. CASE Send(k)
  <2>1. channel[k] = "open" /\ decoded' = decoded
    BY <1>6 DEF Send, bufferVars, Looping, LoopAt
  <2>2. CASE i = decoded[k]
    BY <1>6, <2>1, <2>2, SendSettles DEF InHand
  <2>3. CASE i # decoded[k]
    BY <1>2, <1>3, <2>1, <2>3 DEF InHand
  <2> QED
    BY <2>2, <2>3
<1>7. CASE ExceptionCaught(k)
  BY <1>7 DEF ExceptionCaught, TypeOK
<1>8. CASE ClientCloses(k)
  BY <1>8 DEF ClientCloses, TypeOK
<1>9. CASE ClientSend(k) \/ FrameArrives(k) \/ Echo(k)
  <2>1. channel[k] = "open" /\ decoded' = decoded
    BY <1>9 DEF ClientSend, FrameArrives, Echo, bufferVars, Looping, LoopAt
  <2>2. InHand(k, i) => pc'[k] = pc[k]
    BY <1>9 DEF ClientSend, FrameArrives, Echo, InHand
  <2> QED
    BY <1>2, <1>3, <2>1, <2>2 DEF InHand
<1> QED
  BY <1>4, <1>5, <1>6, <1>7, <1>8, <1>9 DEF Step, EventLoop

LEMMA SettledNext ==
  ASSUME Typed, AllSettled, [Next]_vars
  PROVE  AllSettled'
<1>1. CASE UNCHANGED vars
  BY <1>1 DEF vars, AllSettled, InHand, Settled, InPublished
<1>2. CASE BrokerStep
  BY <1>2, BrokerUntouched, SettledAcrossLoss DEF AllSettled, InHand
<1>3. CASE \E k \in Clients : Step(k)
  <2>1. PICK k \in Clients : Step(k)
    BY <1>3
  <2> SUFFICES ASSUME NEW c \in Clients, channel'[c] = "open", NEW i \in 1..decoded'[c]
               PROVE  InHand(c, i)' \/ Settled(c, i)'
    BY DEF AllSettled
  <2>2. CASE c = k
    BY <2>1, <2>2, SettledByStep
  <2>3. CASE c # k
    <3>1. Untouched(c)
      BY <2>1, <2>3, OthersUntouched DEF Typed
    <3>2. InHand(c, i) \/ Settled(c, i)
      BY <3>1 DEF AllSettled, Untouched
    <3>3. InHand(c, i) => InHand(c, i)'
      BY <3>1 DEF InHand, Untouched
    <3> QED
      BY <2>1, <3>2, <3>3, SettledKept
  <2> QED
    BY <2>2, <2>3
<1> QED
  BY <1>1, <1>2, <1>3, StepOfSomeone

LEMMA AlwaysSettled == Spec => []AllSettled
<1>1. Init => AllSettled
  BY SettledInit
<1>2. Typed /\ AllSettled /\ [Next]_vars => AllSettled'
  BY SettledNext
<1> QED
  BY <1>1, <1>2, AlwaysTyped, PTL DEF Spec

\* While a client stays connected, every message decoded before the one in
\* hand has one fate: published and with the broker or on the way, failed with
\* a logged exception, or lost on the way with its connection.
THEOREM EveryMessageHasOneFate == Spec => []OneFatePerMessage
<1>1. AllSettled /\ Published => OneFatePerMessage
  BY DEF AllSettled, Published, OneFate, OneFatePerMessage, InHand, Settled
<1> QED
  BY <1>1, AlwaysSettled, AlwaysPublished, PTL

=============================================================================
