-------------------------- MODULE MqReceiverProofs --------------------------
(***************************************************************************)
(* Proofs about MqReceiver, for every set of clients and every bound: type *)
(* correctness, that an acknowledged message reached the clients of its    *)
(* broadcast, that a channel buffers one copy per connection, and that the *)
(* clients get the messages in queue order, one message buffered at a time.*)
(***************************************************************************)
EXTENDS MqReceiver, FiniteSetTheorems, SequenceTheorems, TLAPS

-----------------------------------------------------------------------------
(* Sequences.                                                              *)

LEMMA AppendRange ==
  ASSUME NEW S, NEW s \in Seq(S), NEW e \in S
  PROVE  Range(Append(s, e)) = Range(s) \cup {e}
<1>1. Len(Append(s, e)) = Len(s) + 1 /\ Append(s, e) \in Seq(S)
  OBVIOUS
<1>2. DOMAIN Append(s, e) = 1..(Len(s) + 1) /\ DOMAIN s = 1..Len(s) /\ Len(s) \in Nat
  BY <1>1
<1>3. \A i \in 1..Len(s) : Append(s, e)[i] = s[i]
  OBVIOUS
<1>4. Append(s, e)[Len(s) + 1] = e
  OBVIOUS
<1>5. DOMAIN Append(s, e) = DOMAIN s \cup {Len(s) + 1}
  BY <1>2
<1> QED
  BY <1>2, <1>3, <1>4, <1>5 DEF Range

LEMMA TailRange ==
  ASSUME NEW S, NEW s \in Seq(S), s # <<>>
  PROVE  Range(s) = {Head(s)} \cup Range(Tail(s))
<1>1. /\ Tail(s) \in Seq(S) /\ Len(Tail(s)) = Len(s) - 1
      /\ \A i \in 1..Len(Tail(s)) : Tail(s)[i] = s[i + 1]
  BY HeadTailProperties
<1>2. Len(s) \in Nat \ {0} /\ Head(s) = s[1]
  BY EmptySeq
<1>3. DOMAIN s = 1..Len(s) /\ DOMAIN Tail(s) = 1..(Len(s) - 1)
  BY <1>1
<1>4. \A i \in DOMAIN s : i = 1 \/ (i - 1 \in DOMAIN Tail(s) /\ s[i] = Tail(s)[i - 1])
  BY <1>1, <1>2, <1>3
<1>5. \A i \in DOMAIN Tail(s) : i + 1 \in DOMAIN s /\ Tail(s)[i] = s[i + 1]
  BY <1>1, <1>2, <1>3
<1>6. 1 \in DOMAIN s
  BY <1>2, <1>3
<1>7. ASSUME NEW x \in Range(s) PROVE x \in {Head(s)} \cup Range(Tail(s))
  <2>1. PICK i \in DOMAIN s : x = s[i]
    BY <1>7 DEF Range
  <2> QED
    BY <1>2, <1>4, <2>1 DEF Range
<1>8. ASSUME NEW x \in Range(Tail(s)) PROVE x \in Range(s)
  BY <1>5, <1>8 DEF Range
<1>9. Head(s) \in Range(s)
  BY <1>2, <1>6 DEF Range
<1> QED
  BY <1>7, <1>8, <1>9

LEMMA EmptyRange == Range(<<>>) = {}
BY DEF Range

\* Taking the i-th element out of a sequence keeps the others in their order.
Without(s, i) == [j \in 1..(Len(s) - 1) |-> IF j < i THEN s[j] ELSE s[j + 1]]

LEMMA RemoveOne ==
  ASSUME NEW S, NEW s \in Seq(S), NEW i \in DOMAIN s
  PROVE  /\ Without(s, i) \in Seq(S)
         /\ \A j \in DOMAIN Without(s, i) : \E o \in DOMAIN s \ {i} :
               Without(s, i)[j] = s[o] /\ o = (IF j < i THEN j ELSE j + 1)
<1>1. Len(s) \in Nat \ {0} /\ DOMAIN s = 1..Len(s) /\ i \in 1..Len(s)
  OBVIOUS
<1>2. \A j \in 1..(Len(s) - 1) : /\ j \in DOMAIN s /\ j + 1 \in DOMAIN s
                                 /\ (IF j < i THEN j ELSE j + 1) # i
  BY <1>1
<1>3. \A j \in 1..(Len(s) - 1) : s[j] \in S /\ s[j + 1] \in S
  BY <1>1
<1>4. Without(s, i) \in [1..(Len(s) - 1) -> S]
  BY <1>3 DEF Without
<1>5. Without(s, i) \in Seq(S)
  BY <1>1, <1>4
<1> QED
  BY <1>1, <1>2, <1>5 DEF Without

-----------------------------------------------------------------------------
(* What the actions do to the rounds.                                      *)

\* A round with other clients to visit and another stage.
Changed(x, U, St) ==
    [msg |-> x.msg, epoch |-> x.epoch, present |-> x.present, unvisited |-> U, stage |-> St]

LEMMA ChangedFields ==
  ASSUME NEW x \in Round, NEW U \in SUBSET Clients, NEW St \in {"loop", "flush", "done"}
  PROVE  /\ Changed(x, U, St) \in Round
         /\ Changed(x, U, St).msg = x.msg /\ Changed(x, U, St).epoch = x.epoch
         /\ Changed(x, U, St).present = x.present
         /\ Changed(x, U, St).unvisited = U /\ Changed(x, U, St).stage = St
BY DEF Changed, Round

LEMMA ChangedExcept ==
  ASSUME NEW x \in Round, NEW U, NEW St, NEW y
  PROVE  /\ y = [x EXCEPT !.unvisited = U] => y = Changed(x, U, x.stage)
         /\ y = [x EXCEPT !.stage = St] => y = Changed(x, x.unvisited, St)
<1>1. x = [msg |-> x.msg, epoch |-> x.epoch, present |-> x.present, unvisited |-> x.unvisited, stage |-> x.stage]
  BY DEF Round
<1>2. ASSUME y = [x EXCEPT !.unvisited = U] PROVE y = Changed(x, U, x.stage)
  BY <1>1, <1>2 DEF Changed
<1>3. ASSUME y = [x EXCEPT !.stage = St] PROVE y = Changed(x, x.unvisited, St)
  BY <1>1, <1>3 DEF Changed
<1> QED
  BY <1>2, <1>3

LEMMA EndedFields ==
  ASSUME NEW x \in Round, NEW y, y = [x EXCEPT !.unvisited = {}, !.stage = "done"]
  PROVE  /\ y \in Round /\ y.msg = x.msg /\ y.epoch = x.epoch /\ y.present = x.present
         /\ y.unvisited = {} /\ y.stage = "done"
BY DEF Round

\* One round is replaced.
Replaced(q, x) == rounds' = [rounds EXCEPT ![q] = x]

LEMMA OneReplaced ==
  ASSUME NEW q \in RoundIds, NEW x \in Round, rounds \in Seq(Round), Replaced(q, x)
  PROVE  /\ rounds' \in Seq(Round) /\ RoundIds' = RoundIds /\ Len(rounds') = Len(rounds)
         /\ \A r \in RoundIds : rounds'[r] = IF r = q THEN x ELSE rounds[r]
BY DEF RoundIds, Replaced

\* A turn of the loop changes whom its round has still to visit.
LEMMA VisitRounds ==
  ASSUME TypeOK, NEW r \in RoundIds, NEW k \in Clients, Visit(r, k)
  PROVE  /\ rounds' \in Seq(Round) /\ RoundIds' = RoundIds /\ Len(rounds') = Len(rounds)
         /\ \A q \in RoundIds :
              /\ rounds'[q].msg = rounds[q].msg /\ rounds'[q].epoch = rounds[q].epoch
              /\ rounds'[q].present = rounds[q].present /\ rounds'[q].stage = rounds[q].stage
              /\ rounds'[q].unvisited = IF q = r THEN rounds[r].unvisited \ {k} ELSE rounds[q].unvisited
<1> DEFINE U == rounds[r].unvisited \ {k}
           x == rounds'[r]
<1>1. rounds \in Seq(Round) /\ rounds[r] \in Round
  BY DEF TypeOK, RoundIds
<1>2. U \in SUBSET Clients /\ rounds[r].stage \in {"loop", "flush", "done"}
  BY <1>1 DEF Round
<1>3. rounds' = [rounds EXCEPT ![r] = x] /\ x = [rounds[r] EXCEPT !.unvisited = U]
  BY <1>1 DEF Visit, RoundIds
<1>4. Replaced(r, x)
  BY <1>3 DEF Replaced
<1> HIDE DEF U, x
<1>5. x = Changed(rounds[r], U, rounds[r].stage)
  BY <1>1, <1>3, ChangedExcept
<1>6. /\ x \in Round
      /\ x.msg = rounds[r].msg /\ x.epoch = rounds[r].epoch /\ x.present = rounds[r].present
      /\ x.unvisited = U /\ x.stage = rounds[r].stage
  BY <1>1, <1>2, <1>5, ChangedFields
<1>7. /\ rounds' \in Seq(Round) /\ RoundIds' = RoundIds /\ Len(rounds') = Len(rounds)
      /\ \A q \in RoundIds : rounds'[q] = IF q = r THEN x ELSE rounds[q]
  BY <1>1, <1>4, <1>6, OneReplaced
<1> QED
  BY <1>6, <1>7 DEF U

SetStage(r, St) == rounds' = [rounds EXCEPT ![r].stage = St]

\* A round goes to another stage.
LEMMA StageRounds ==
  ASSUME TypeOK, NEW r \in RoundIds, NEW St \in {"loop", "flush", "done"}, SetStage(r, St)
  PROVE  /\ rounds' \in Seq(Round) /\ RoundIds' = RoundIds /\ Len(rounds') = Len(rounds)
         /\ \A q \in RoundIds :
              /\ rounds'[q].msg = rounds[q].msg /\ rounds'[q].epoch = rounds[q].epoch
              /\ rounds'[q].present = rounds[q].present /\ rounds'[q].unvisited = rounds[q].unvisited
              /\ rounds'[q].stage = IF q = r THEN St ELSE rounds[q].stage
<1> DEFINE x == rounds'[r]
<1>1. rounds \in Seq(Round) /\ rounds[r] \in Round
  BY DEF TypeOK, RoundIds
<1>2. rounds[r].unvisited \in SUBSET Clients
  BY <1>1 DEF Round
<1>3. rounds' = [rounds EXCEPT ![r] = x] /\ x = [rounds[r] EXCEPT !.stage = St]
  BY <1>1 DEF RoundIds, SetStage
<1>4. Replaced(r, x)
  BY <1>3 DEF Replaced
<1> HIDE DEF x
<1>5. x = Changed(rounds[r], rounds[r].unvisited, St)
  BY <1>1, <1>3, ChangedExcept
<1>6. /\ x \in Round
      /\ x.msg = rounds[r].msg /\ x.epoch = rounds[r].epoch /\ x.present = rounds[r].present
      /\ x.unvisited = rounds[r].unvisited /\ x.stage = St
  BY <1>1, <1>2, <1>5, ChangedFields
<1>7. /\ rounds' \in Seq(Round) /\ RoundIds' = RoundIds /\ Len(rounds') = Len(rounds)
      /\ \A q \in RoundIds : rounds'[q] = IF q = r THEN x ELSE rounds[q]
  BY <1>1, <1>4, <1>6, OneReplaced
<1> QED
  BY <1>6, <1>7

\* A channel joins: some loops visit it too.
LEMMA JoinRounds ==
  ASSUME TypeOK, NEW k \in Clients, ChannelActive(k)
  PROVE  /\ rounds' \in Seq(Round) /\ RoundIds' = RoundIds /\ Len(rounds') = Len(rounds)
         /\ \A q \in RoundIds :
              /\ rounds'[q].msg = rounds[q].msg /\ rounds'[q].epoch = rounds[q].epoch
              /\ rounds'[q].present = rounds[q].present /\ rounds'[q].stage = rounds[q].stage
              /\ \/ rounds'[q].unvisited = rounds[q].unvisited
                 \/ rounds[q].stage = "loop" /\ rounds'[q].unvisited = rounds[q].unvisited \cup {k}
<1>1. rounds \in Seq(Round)
  BY DEF TypeOK
<1>2. PICK seen \in SUBSET {r \in RoundIds : rounds[r].stage = "loop"} :
        rounds' = [r \in RoundIds |-> IF r \in seen
                     THEN [rounds[r] EXCEPT !.unvisited = @ \cup {k}] ELSE rounds[r]]
  BY DEF ChannelActive
<1>3. ASSUME NEW q \in RoundIds
      PROVE  /\ rounds'[q] \in Round
             /\ rounds'[q].msg = rounds[q].msg /\ rounds'[q].epoch = rounds[q].epoch
             /\ rounds'[q].present = rounds[q].present /\ rounds'[q].stage = rounds[q].stage
             /\ \/ rounds'[q].unvisited = rounds[q].unvisited
                \/ rounds[q].stage = "loop" /\ rounds'[q].unvisited = rounds[q].unvisited \cup {k}
  <2> DEFINE U == rounds[q].unvisited \cup {k}
  <2>1. rounds[q] \in Round
    BY <1>1 DEF RoundIds
  <2>2. U \in SUBSET Clients /\ rounds[q].stage \in {"loop", "flush", "done"}
    BY <2>1 DEF Round
  <2>3. CASE q \in seen
    <3>1. rounds'[q] = [rounds[q] EXCEPT !.unvisited = U] /\ rounds[q].stage = "loop"
      BY <1>2, <2>3
    <3> HIDE DEF U
    <3>2. rounds'[q] = Changed(rounds[q], U, rounds[q].stage)
      BY <2>1, <3>1, ChangedExcept
    <3> QED
      BY <2>1, <2>2, <3>1, <3>2, ChangedFields DEF U
  <2>4. CASE q \notin seen
    BY <1>2, <2>1, <2>4
  <2> QED
    BY <2>3, <2>4
<1>4. RoundIds = 1..Len(rounds) /\ Len(rounds) \in Nat
  BY <1>1 DEF RoundIds
<1>5. rounds' \in [1..Len(rounds) -> Round]
  BY <1>2, <1>3, <1>4
<1>6. rounds' \in Seq(Round) /\ Len(rounds') = Len(rounds) /\ DOMAIN rounds' = 1..Len(rounds)
  BY <1>4, <1>5
<1> QED
  BY <1>3, <1>4, <1>6 DEF RoundIds

\* The server dies: its rounds are over.
LEMMA CrashRounds ==
  ASSUME TypeOK, Crash
  PROVE  /\ rounds' \in Seq(Round) /\ RoundIds' = RoundIds /\ Len(rounds') = Len(rounds)
         /\ \A q \in RoundIds :
              /\ rounds'[q].msg = rounds[q].msg /\ rounds'[q].epoch = rounds[q].epoch
              /\ rounds'[q].present = rounds[q].present
              /\ rounds'[q].unvisited = {} /\ rounds'[q].stage = "done"
<1>1. rounds \in Seq(Round)
  BY DEF TypeOK
<1>2. rounds' = [r \in RoundIds |-> [rounds[r] EXCEPT !.unvisited = {}, !.stage = "done"]]
  BY DEF Crash
<1>3. ASSUME NEW q \in RoundIds
      PROVE  /\ rounds'[q] \in Round
             /\ rounds'[q].msg = rounds[q].msg /\ rounds'[q].epoch = rounds[q].epoch
             /\ rounds'[q].present = rounds[q].present
             /\ rounds'[q].unvisited = {} /\ rounds'[q].stage = "done"
  <2>1. rounds[q] \in Round
    BY <1>1 DEF RoundIds
  <2>2. rounds'[q] = [rounds[q] EXCEPT !.unvisited = {}, !.stage = "done"]
    BY <1>2
  <2> QED
    BY <2>1, <2>2, EndedFields
<1>4. RoundIds = 1..Len(rounds) /\ Len(rounds) \in Nat
  BY <1>1 DEF RoundIds
<1>5. rounds' \in [1..Len(rounds) -> Round]
  BY <1>2, <1>3, <1>4
<1>6. rounds' \in Seq(Round) /\ Len(rounds') = Len(rounds) /\ DOMAIN rounds' = 1..Len(rounds)
  BY <1>4, <1>5
<1> QED
  BY <1>3, <1>4, <1>6 DEF RoundIds

\* A handler takes delivery i of the inbox and starts a round for it.
BeginTakes(i) ==
    /\ \A j \in 1..(i - 1) : inbox[j].epoch # inbox[i].epoch
    /\ \A r \in RoundIds : rounds[r].stage = "loop" => rounds[r].epoch # inbox[i].epoch
    /\ inbox' \in Seq(Delivery)
    /\ \A j \in DOMAIN inbox' : \E o \in DOMAIN inbox \ {i} :
          inbox'[j] = inbox[o] /\ o = (IF j < i THEN j ELSE j + 1)
    /\ rounds' \in Seq(Round) /\ Len(rounds') = Len(rounds) + 1
    /\ RoundIds' = RoundIds \cup {Len(rounds')} /\ Len(rounds') \notin RoundIds
    /\ \A r \in RoundIds : rounds'[r] = rounds[r]
    /\ rounds'[Len(rounds')] = [msg |-> inbox[i].msg, epoch |-> inbox[i].epoch, present |-> Open,
                               unvisited |-> Open, stage |-> "loop"]

LEMMA BeginRounds ==
  ASSUME TypeOK, Begin
  PROVE  \E i \in DOMAIN inbox : BeginTakes(i)
<1>1. PICK i \in DOMAIN inbox :
        LET d == inbox[i]
        IN  /\ \A j \in 1..(i - 1) : inbox[j].epoch # d.epoch
            /\ \A r \in RoundIds : rounds[r].stage = "loop" => rounds[r].epoch # d.epoch
            /\ inbox' = [j \in 1..(Len(inbox) - 1) |-> IF j < i THEN inbox[j] ELSE inbox[j + 1]]
            /\ rounds' = Append(rounds,
                            [msg |-> d.msg, epoch |-> d.epoch, present |-> Open,
                             unvisited |-> Open, stage |-> "loop"])
  BY DEF Begin
<1> DEFINE x == [msg |-> inbox[i].msg, epoch |-> inbox[i].epoch, present |-> Open,
                 unvisited |-> Open, stage |-> "loop"]
<1>2. inbox \in Seq(Delivery) /\ rounds \in Seq(Round) /\ inbox[i] \in Delivery
  BY DEF TypeOK
<1>3. inbox' = Without(inbox, i)
  BY <1>1 DEF Without
<1>4. inbox' \in Seq(Delivery) /\ \A j \in DOMAIN inbox' : \E o \in DOMAIN inbox \ {i} :
          inbox'[j] = inbox[o] /\ o = (IF j < i THEN j ELSE j + 1)
  BY <1>2, <1>3, RemoveOne
<1>5. x \in Round
  BY <1>2 DEF Delivery, Round, Open
<1>6. rounds' = Append(rounds, x)
  BY <1>1
<1> HIDE DEF x
<1>7. /\ rounds' \in Seq(Round) /\ Len(rounds') = Len(rounds) + 1 /\ Len(rounds) \in Nat
      /\ \A r \in 1..Len(rounds) : rounds'[r] = rounds[r]
      /\ rounds'[Len(rounds')] = x
  BY <1>2, <1>5, <1>6
<1>8. RoundIds = 1..Len(rounds) /\ RoundIds' = 1..Len(rounds')
  BY <1>2, <1>7 DEF RoundIds
<1>9. RoundIds' = RoundIds \cup {Len(rounds')} /\ Len(rounds') \notin RoundIds
  BY <1>7, <1>8
<1> QED
  BY <1>1, <1>4, <1>7, <1>8, <1>9 DEF BeginTakes, x

-----------------------------------------------------------------------------
(* Type correctness.                                                       *)

\* What is being broadcast was published; a connection has its number.
WithinQueue ==
    /\ \A i \in DOMAIN inbox : inbox[i].msg <= published
    /\ \A r \in RoundIds : rounds[r].msg <= published
    /\ listener \in {"up", "lost"} => 1 <= epoch
    /\ listener = "lost" => epoch < MaxEpochs

Typed == TypeOK /\ WithinQueue

LEMMA TypedInit == Init => Typed
<1> SUFFICES ASSUME Init PROVE Typed
  OBVIOUS
<1>1. inbox \in Seq(Delivery) /\ rounds \in Seq(Round) /\ DOMAIN inbox = {} /\ RoundIds = {}
  BY DEF Init, RoundIds
<1>2. outbox \in [Clients -> Seq(Nat)] /\ received \in [Clients -> Seq(Nat)]
  BY DEF Init
<1>3. channel \in [Clients -> {"new", "open", "closed"}] /\ \A k \in Clients : outbox[k] = <<>>
  BY DEF Init
<1>4. published \in 0..MaxMessages /\ epoch \in 0..MaxEpochs /\ listener = "idle"
  BY ReceiverAssumption DEF Init
<1>5. acked = {} /\ unacked = {} /\ overlapped = FALSE
  BY DEF Init
<1>6. TypeOK
  BY <1>1, <1>2, <1>3, <1>4, <1>5 DEF TypeOK
<1>7. WithinQueue
  BY <1>1, <1>4 DEF WithinQueue
<1> QED
  BY <1>6, <1>7 DEF Typed

\* The fields of what TypeOK says of the inbox and the rounds.
LEMMA Fields ==
  ASSUME TypeOK
  PROVE  /\ \A i \in DOMAIN inbox : inbox[i] \in Delivery /\ inbox[i].msg \in Messages /\ inbox[i].epoch \in Epochs
         /\ \A r \in RoundIds : /\ rounds[r] \in Round /\ rounds[r].msg \in Messages
                                /\ rounds[r].epoch \in Epochs /\ rounds[r].present \subseteq Clients
                                /\ rounds[r].unvisited \subseteq Clients
                                /\ rounds[r].stage \in {"loop", "flush", "done"}
         /\ RoundIds = 1..Len(rounds) /\ Len(rounds) \in Nat
<1>1. \A i \in DOMAIN inbox : inbox[i] \in Delivery
  BY DEF TypeOK
<1>2. \A r \in RoundIds : rounds[r] \in Round
  BY DEF TypeOK, RoundIds
<1>3. RoundIds = 1..Len(rounds) /\ Len(rounds) \in Nat
  BY DEF TypeOK, RoundIds
<1> QED
  BY <1>1, <1>2, <1>3 DEF Delivery, Round

\* The broker and the connection: the rounds and the channels stay as they are.
LEMMA TypedBroker ==
  ASSUME Typed, Publish \/ Deliver \/ StartListener \/ LoseConnection \/ Recover
  PROVE  Typed'
<1> USE DEF Typed, clientVars, brokerVars
<1>1. /\ rounds' = rounds /\ RoundIds' = RoundIds /\ channel' = channel /\ outbox' = outbox
      /\ received' = received /\ acked' = acked
  BY DEF Publish, Deliver, StartListener, LoseConnection, Recover, RoundIds
<1>2. /\ rounds' \in Seq(Round)
      /\ channel' \in [Clients -> {"new", "open", "closed"}]
      /\ outbox' \in [Clients -> Seq(Nat)] /\ received' \in [Clients -> Seq(Nat)]
      /\ \A k \in Clients : channel'[k] # "open" => outbox'[k] = <<>>
  BY <1>1 DEF TypeOK
<1>3. published \in 0..MaxMessages /\ MaxMessages \in Nat /\ epoch \in 0..MaxEpochs /\ MaxEpochs \in Nat
  BY ReceiverAssumption DEF TypeOK
<1>4. \A r \in RoundIds : rounds[r].msg \in Messages /\ rounds[r].msg <= published
  BY Fields DEF WithinQueue
<1>5. \A i \in DOMAIN inbox : inbox[i].msg \in Messages /\ inbox[i].msg <= published
  BY Fields DEF WithinQueue
<1>6. CASE Publish
  <2>1. published' = published + 1 /\ published' \in 0..MaxMessages
    BY <1>3, <1>6 DEF Publish
  <2>2. acked' \subseteq 1..published' /\ unacked' \subseteq 1..published'
    BY <1>1, <1>3, <1>6, <2>1 DEF Publish, TypeOK
  <2>3. TypeOK'
    BY <1>1, <1>2, <1>6, <2>1, <2>2 DEF Publish, TypeOK
  <2>4. \A r \in RoundIds : rounds[r].msg <= published'
    BY <1>3, <1>4, <2>1 DEF Messages
  <2>5. \A i \in DOMAIN inbox : inbox[i].msg <= published'
    BY <1>3, <1>5, <2>1 DEF Messages
  <2>6. WithinQueue'
    BY <1>1, <1>6, <2>4, <2>5 DEF Publish, WithinQueue
  <2> QED
    BY <2>3, <2>6
<1>7. CASE Deliver
  <2>1. PICK m \in Ready : /\ unacked' = unacked \cup {m}
                           /\ inbox' = Append(inbox, [msg |-> m, epoch |-> epoch])
    BY <1>7 DEF Deliver
  <2>2. m \in Messages /\ m <= published /\ m \in 1..published /\ m \notin acked
    BY <1>3 DEF Ready, Messages
  <2>3. epoch \in Epochs
    BY <1>3, <1>7 DEF Deliver, Epochs, WithinQueue
  <2> DEFINE d == [msg |-> m, epoch |-> epoch]
  <2>4. d \in Delivery /\ d.msg = m
    BY <2>2, <2>3 DEF Delivery
  <2>5. inbox' = Append(inbox, d) /\ inbox \in Seq(Delivery)
    BY <2>1 DEF TypeOK
  <2> HIDE DEF d
  <2>6. inbox' \in Seq(Delivery)
    BY <2>4, <2>5
  <2>7. \A i \in DOMAIN inbox' : inbox'[i].msg <= published
    <3>1. \A i \in DOMAIN inbox' : (i \in DOMAIN inbox /\ inbox'[i] = inbox[i]) \/ inbox'[i] = d
      BY <2>4, <2>5
    <3> QED
      BY <1>5, <2>2, <2>4, <3>1
  <2>8. unacked' \subseteq 1..published /\ acked \cap unacked' = {}
    BY <2>1, <2>2 DEF TypeOK
  <2>9. TypeOK'
    BY <1>1, <1>2, <1>7, <2>6, <2>8 DEF Deliver, TypeOK
  <2>10. WithinQueue'
    BY <1>1, <1>4, <1>7, <2>7 DEF Deliver, WithinQueue
  <2> QED
    BY <2>9, <2>10
<1>8. CASE StartListener \/ LoseConnection \/ Recover
  <2>1. /\ published' = published /\ inbox' = inbox
        /\ unacked' \in {unacked, {}}
    BY <1>8 DEF StartListener, LoseConnection, Recover
  <2>2. overlapped' \in BOOLEAN
    BY <1>8 DEF StartListener, LoseConnection, Recover, TypeOK
  <2>3. epoch' \in 0..MaxEpochs /\ listener' \in {"idle", "up", "lost", "failed"}
        /\ (listener' \in {"up", "lost"} => 1 <= epoch') /\ (listener' = "lost" => epoch' < MaxEpochs)
    <3>1. CASE StartListener
      BY <1>3, <3>1 DEF StartListener
    <3>2. CASE LoseConnection
      BY <1>3, <3>2 DEF LoseConnection, WithinQueue
    <3>3. CASE Recover
      BY <1>3, <3>3 DEF Recover, WithinQueue
    <3> QED
      BY <1>8, <3>1, <3>2, <3>3
  <2>4. acked' \subseteq 1..published' /\ unacked' \subseteq 1..published' /\ acked' \cap unacked' = {}
    BY <1>1, <2>1 DEF TypeOK
  <2>5. TypeOK'
    BY <1>2, <2>1, <2>2, <2>3, <2>4 DEF TypeOK
  <2>6. WithinQueue'
    BY <1>1, <2>1, <2>3 DEF WithinQueue
  <2> QED
    BY <2>5, <2>6
<1> QED
  BY <1>6, <1>7, <1>8

\* The handlers: the queue, the connection and the channels stay as they are.
LEMMA TypedConsumer ==
  ASSUME Typed, Consumer
  PROVE  Typed'
<1> USE DEF Typed, clientVars, brokerVars
<1>1. /\ published' = published /\ listener' = listener /\ epoch' = epoch /\ channel' = channel
      /\ received' = received /\ overlapped' = overlapped
  BY DEF Consumer, Begin, Visit, EndLoop, AckRound
<1>2. CASE Begin
  <2>1. PICK i \in DOMAIN inbox : BeginTakes(i)
    BY <1>2, BeginRounds
  <2>2. rounds' \in Seq(Round) /\ inbox' \in Seq(Delivery)
    BY <2>1 DEF BeginTakes
  <2>3. UNCHANGED <<acked, unacked, outbox>>
    BY <1>2 DEF Begin
  <2>4. TypeOK'
    BY <1>1, <2>2, <2>3 DEF TypeOK
  <2>5. \A j \in DOMAIN inbox' : inbox'[j].msg <= published
    BY <2>1 DEF BeginTakes, WithinQueue
  <2>6. \A r \in RoundIds' : rounds'[r].msg <= published
    BY <2>1 DEF BeginTakes, WithinQueue
  <2> QED
    BY <1>1, <2>4, <2>5, <2>6 DEF WithinQueue
<1>3. ASSUME NEW r \in RoundIds, NEW k \in Clients, Visit(r, k) PROVE Typed'
  <2>1. rounds' \in Seq(Round) /\ \A q \in RoundIds' : rounds'[q].msg <= published
    BY <1>3, VisitRounds DEF WithinQueue
  <2>2. UNCHANGED <<acked, unacked, inbox>>
    BY <1>3 DEF Visit
  <2>3. r \in Nat /\ outbox[k] \in Seq(Nat)
    BY Fields DEF TypeOK
  <2>4. outbox' \in [Clients -> Seq(Nat)] /\ \A c \in Clients : channel[c] # "open" => outbox'[c] = <<>>
    <3>1. CASE channel[k] = "open"
      <4>1. outbox' = [outbox EXCEPT ![k] = Append(outbox[k], r)] /\ Append(outbox[k], r) \in Seq(Nat)
        BY <1>3, <2>3, <3>1 DEF Visit
      <4> QED
        BY <3>1, <4>1 DEF TypeOK
    <3>2. CASE channel[k] # "open"
      BY <1>3, <3>2 DEF Visit, TypeOK
    <3> QED
      BY <3>1, <3>2
  <2> QED
    BY <1>1, <2>1, <2>2, <2>4 DEF TypeOK, WithinQueue
<1>4. ASSUME NEW r \in RoundIds, EndLoop(r) \/ AckRound(r) PROVE Typed'
  <2>1. PICK St \in {"loop", "flush", "done"} : SetStage(r, St)
    BY <1>4 DEF EndLoop, AckRound, SetStage
  <2>2. rounds' \in Seq(Round) /\ \A q \in RoundIds' : rounds'[q].msg <= published
    BY <2>1, StageRounds DEF WithinQueue
  <2>3. UNCHANGED <<inbox, outbox>>
    BY <1>4 DEF EndLoop, AckRound
  <2>4. rounds[r].msg \in 1..published
    BY Fields, ReceiverAssumption DEF WithinQueue, Messages, TypeOK
  <2>5. \/ acked' = acked /\ unacked' = unacked
        \/ acked' = acked \cup {rounds[r].msg} /\ unacked' = unacked \ {rounds[r].msg}
    BY <1>4 DEF EndLoop, AckRound
  <2>6. acked' \subseteq 1..published /\ unacked' \subseteq 1..published /\ acked' \cap unacked' = {}
    BY <2>4, <2>5 DEF TypeOK
  <2> QED
    BY <1>1, <2>2, <2>3, <2>6 DEF TypeOK, WithinQueue
<1> QED
  BY <1>2, <1>3, <1>4 DEF Consumer

\* The channels and the death of the server: the queue stays as it is.
LEMMA TypedChannels ==
  ASSUME Typed, Crash \/ \E k \in Clients : ChannelActive(k) \/ Flush(k) \/ Close(k)
  PROVE  Typed'
<1> USE DEF Typed, clientVars, brokerVars
<1>1. CASE Crash
  <2>1. rounds' \in Seq(Round) /\ \A q \in RoundIds' : rounds'[q].msg <= published
    BY <1>1, CrashRounds DEF WithinQueue
  <2>2. /\ UNCHANGED <<published, acked, epoch, received, overlapped>>
        /\ listener' = "idle" /\ unacked' = {} /\ inbox' = <<>>
        /\ channel' = [k \in Clients |-> IF channel[k] = "open" THEN "closed" ELSE channel[k]]
        /\ outbox' = [k \in Clients |-> <<>>]
    BY <1>1 DEF Crash
  <2>3. inbox' \in Seq(Delivery) /\ DOMAIN inbox' = {}
    BY <2>2
  <2>4. channel' \in [Clients -> {"new", "open", "closed"}]
    BY <2>2 DEF TypeOK
  <2>5. outbox' \in [Clients -> Seq(Nat)] /\ \A k \in Clients : outbox'[k] = <<>>
    BY <2>2
  <2>6. TypeOK'
    BY <2>1, <2>2, <2>3, <2>4, <2>5 DEF TypeOK
  <2> QED
    BY <2>1, <2>2, <2>3, <2>6 DEF WithinQueue
<1>2. ASSUME NEW k \in Clients, ChannelActive(k) PROVE Typed'
  <2>1. rounds' \in Seq(Round) /\ \A q \in RoundIds' : rounds'[q].msg <= published
    BY <1>2, JoinRounds DEF WithinQueue
  <2>2. /\ UNCHANGED <<published, acked, unacked, listener, epoch, inbox, outbox, received, overlapped>>
        /\ channel' = [channel EXCEPT ![k] = "open"]
    BY <1>2 DEF ChannelActive
  <2> QED
    BY <2>1, <2>2 DEF TypeOK, WithinQueue
<1>3. ASSUME NEW k \in Clients, Flush(k) PROVE Typed'
  <2>1. /\ UNCHANGED <<published, acked, unacked, listener, epoch, inbox, rounds, channel, overlapped>>
        /\ RoundIds' = RoundIds /\ channel[k] = "open"
    BY <1>3 DEF Flush, RoundIds
  <2>2. outbox[k] \in Seq(Nat) /\ received[k] \in Seq(Nat) /\ outbox[k] # <<>>
    BY <1>3 DEF Flush, TypeOK
  <2>3. Tail(outbox[k]) \in Seq(Nat) /\ Append(received[k], Head(outbox[k])) \in Seq(Nat)
    BY <2>2, HeadTailProperties
  <2>4. outbox' \in [Clients -> Seq(Nat)] /\ \A c \in Clients \ {k} : outbox'[c] = outbox[c]
    BY <1>3, <2>3 DEF Flush, TypeOK
  <2>5. received' \in [Clients -> Seq(Nat)]
    BY <1>3, <2>3 DEF Flush, TypeOK
  <2> QED
    BY <2>1, <2>4, <2>5 DEF TypeOK, WithinQueue
<1>4. ASSUME NEW k \in Clients, Close(k) PROVE Typed'
  <2>1. /\ UNCHANGED <<published, acked, unacked, listener, epoch, inbox, rounds, received, overlapped>>
        /\ RoundIds' = RoundIds
        /\ channel' = [channel EXCEPT ![k] = "closed"] /\ outbox' = [outbox EXCEPT ![k] = <<>>]
    BY <1>4 DEF Close, RoundIds
  <2>2. outbox' \in [Clients -> Seq(Nat)] /\ \A c \in Clients : channel'[c] # "open" => outbox'[c] = <<>>
    BY <2>1 DEF TypeOK
  <2> QED
    BY <2>1, <2>2 DEF TypeOK, WithinQueue
<1> QED
  BY <1>1, <1>2, <1>3, <1>4

LEMMA TypedInvariant == Spec => []Typed
<1>1. Typed /\ [Next]_vars => Typed'
  <2>1. CASE UNCHANGED vars
    BY <2>1 DEF vars, Typed, TypeOK, WithinQueue, RoundIds
  <2> QED
    BY <2>1, TypedBroker, TypedConsumer, TypedChannels DEF Next
<1> QED
  BY <1>1, TypedInit, PTL DEF Spec

\* The queue, the handlers' rounds and the channels stay well typed, and a
\* channel that is not open has nothing to write.
THEOREM TypeCorrect == Spec => []TypeOK
BY TypedInvariant, PTL DEF Typed

-----------------------------------------------------------------------------
(* What the actions do to the channels.                                    *)

\* The rounds written to a channel, whether its socket has taken them or not.
Written(k) == Range(outbox[k]) \cup Range(received[k])

\* A turn of the loop writes its round to an open channel.
LEMMA VisitWrites ==
  ASSUME Typed, NEW r \in RoundIds, NEW k \in Clients, Visit(r, k)
  PROVE  /\ received' = received /\ channel' = channel
         /\ \A c \in Clients \ {k} : outbox'[c] = outbox[c]
         /\ channel[k] = "open" => outbox'[k] = Append(outbox[k], r) /\ Range(outbox'[k]) = Range(outbox[k]) \cup {r}
         /\ channel[k] # "open" => outbox'[k] = outbox[k]
<1>1. outbox \in [Clients -> Seq(Nat)] /\ r \in Nat /\ outbox[k] \in Seq(Nat)
  BY Fields DEF Typed, TypeOK
<1>2. Range(Append(outbox[k], r)) = Range(outbox[k]) \cup {r}
  BY <1>1, AppendRange
<1>3. received' = received /\ channel' = channel
  BY DEF Visit
<1>4. CASE channel[k] = "open"
  <2>1. outbox' = [outbox EXCEPT ![k] = Append(outbox[k], r)]
    BY <1>4 DEF Visit
  <2> QED
    BY <1>1, <1>2, <1>3, <1>4, <2>1
<1>5. CASE channel[k] # "open"
  BY <1>3, <1>5 DEF Visit
<1> QED
  BY <1>4, <1>5

\* The socket takes the oldest write: nothing new is written.
LEMMA FlushMoves ==
  ASSUME Typed, NEW k \in Clients, Flush(k)
  PROVE  /\ channel' = channel /\ rounds' = rounds /\ RoundIds' = RoundIds
         /\ outbox[k] # <<>> /\ outbox[k] \in Seq(Nat) /\ received[k] \in Seq(Nat)
         /\ outbox'[k] = Tail(outbox[k]) /\ received'[k] = Append(received[k], Head(outbox[k]))
         /\ Range(outbox[k]) = {Head(outbox[k])} \cup Range(outbox'[k])
         /\ Range(received'[k]) = Range(received[k]) \cup {Head(outbox[k])}
         /\ \A c \in Clients \ {k} : outbox'[c] = outbox[c] /\ received'[c] = received[c]
         /\ \A c \in Clients : Written(c)' = Written(c)
<1>1. /\ outbox \in [Clients -> Seq(Nat)] /\ received \in [Clients -> Seq(Nat)]
      /\ outbox[k] \in Seq(Nat) /\ received[k] \in Seq(Nat) /\ outbox[k] # <<>>
  BY DEF Typed, TypeOK, Flush
<1>2. /\ outbox' = [outbox EXCEPT ![k] = Tail(outbox[k])]
      /\ received' = [received EXCEPT ![k] = Append(received[k], Head(outbox[k]))]
      /\ channel' = channel /\ rounds' = rounds /\ RoundIds' = RoundIds
  BY DEF Flush, RoundIds
<1>3. outbox'[k] = Tail(outbox[k]) /\ received'[k] = Append(received[k], Head(outbox[k]))
  BY <1>1, <1>2
<1>4. \A c \in Clients \ {k} : outbox'[c] = outbox[c] /\ received'[c] = received[c]
  BY <1>1, <1>2
<1>5. Range(outbox[k]) = {Head(outbox[k])} \cup Range(Tail(outbox[k])) /\ Head(outbox[k]) \in Nat
  BY <1>1, TailRange, HeadTailProperties
<1>6. Range(Append(received[k], Head(outbox[k]))) = Range(received[k]) \cup {Head(outbox[k])}
  BY <1>1, <1>5, AppendRange
<1>7. Range(outbox[k]) = {Head(outbox[k])} \cup Range(outbox'[k])
      /\ Range(received'[k]) = Range(received[k]) \cup {Head(outbox[k])}
  BY <1>3, <1>5, <1>6
<1>8. \A c \in Clients : Written(c)' = Written(c)
  BY <1>4, <1>7 DEF Written
<1> QED
  BY <1>1, <1>2, <1>3, <1>4, <1>7, <1>8

-----------------------------------------------------------------------------
(* Acknowledged messages reached their clients.                            *)

\* A round is written to each of its clients that the loop has come to and
\* that stays; only a loop has clients to visit.
VisitedWritten ==
    /\ \A k \in Clients : Written(k) \subseteq RoundIds
    /\ \A r \in RoundIds : rounds[r].stage # "loop" => rounds[r].unvisited = {}
    /\ \A r \in RoundIds : \A k \in rounds[r].present :
          /\ channel[k] # "new"
          /\ k \notin rounds[r].unvisited /\ channel[k] = "open" => r \in Written(k)

\* The broker and the connection touch neither rounds nor channels.
LEMMA BrokerFrame ==
  ASSUME Publish \/ Deliver \/ StartListener \/ LoseConnection \/ Recover
  PROVE  /\ UNCHANGED <<acked, rounds, channel, outbox, received>> /\ RoundIds' = RoundIds
         /\ \A k \in Clients : Written(k)' = Written(k)
BY DEF Publish, Deliver, StartListener, LoseConnection, Recover, RoundIds, Written, clientVars, brokerVars

\* Writes are only appended or flushed, and a client that closes is out of it: every
\* step keeps what the loops have written.
LEMMA VisitedStep ==
  ASSUME Typed, VisitedWritten, [Next]_vars
  PROVE  VisitedWritten'
<1> USE DEF VisitedWritten
<1>1. CASE Publish \/ Deliver \/ StartListener \/ LoseConnection \/ Recover
  <2>1. rounds' = rounds /\ RoundIds' = RoundIds /\ channel' = channel /\ \A k \in Clients : Written(k)' = Written(k)
    BY <1>1, BrokerFrame
  <2> QED
    BY <2>1, Fields DEF Typed
<1>2. CASE UNCHANGED vars
  BY <1>2 DEF vars, RoundIds, Written
<1>3. CASE Begin
  <2>1. PICK i \in DOMAIN inbox : BeginTakes(i)
    BY <1>3, BeginRounds DEF Typed
  <2>2. channel' = channel /\ \A k \in Clients : Written(k)' = Written(k)
    BY <1>3 DEF Begin, clientVars, Written
  <2>3. /\ RoundIds' = RoundIds \cup {Len(rounds')}
        /\ \A r \in RoundIds : rounds'[r] = rounds[r]
        /\ rounds'[Len(rounds')].present = Open /\ rounds'[Len(rounds')].unvisited = Open
        /\ rounds'[Len(rounds')].stage = "loop" /\ Len(rounds') \notin RoundIds
    BY <2>1 DEF BeginTakes
  <2> QED
    BY <2>2, <2>3, Fields DEF Open, Typed
<1>4. ASSUME NEW r \in RoundIds, NEW k \in Clients, Visit(r, k) PROVE VisitedWritten'
  <2>1. \A c \in Clients : Written(c) \subseteq Written(c)' /\ Written(c)' \subseteq Written(c) \cup {r}
    <3>1. ASSUME NEW c \in Clients \ {k} PROVE Written(c)' = Written(c)
      BY <1>4, VisitWrites DEF Written
    <3>2. Written(k)' = Written(k) \/ Written(k)' = Written(k) \cup {r}
      BY <1>4, VisitWrites DEF Written
    <3> QED
      BY <3>1, <3>2
  <2>2. channel[k] = "open" => r \in Written(k)'
    BY <1>4, VisitWrites DEF Written
  <2>3. channel' = channel /\ rounds[r].stage = "loop"
    BY <1>4 DEF Visit
  <2>4. TypeOK
    BY DEF Typed
  <2>5. \A c \in Clients : Written(c)' \subseteq RoundIds'
    <3>1. RoundIds' = RoundIds
      BY <1>4, <2>4, VisitRounds
    <3> QED
      BY <2>1, <3>1
  <2>6. \A q \in RoundIds' : rounds'[q].stage # "loop" => rounds'[q].unvisited = {}
    BY <1>4, <2>3, <2>4, VisitRounds
  <2>7. \A q \in RoundIds' : \A c \in rounds'[q].present :
          /\ channel'[c] # "new"
          /\ c \notin rounds'[q].unvisited /\ channel'[c] = "open" => q \in Written(c)'
    <3> SUFFICES ASSUME NEW q \in RoundIds', NEW c \in rounds'[q].present
                 PROVE  /\ channel'[c] # "new"
                        /\ c \notin rounds'[q].unvisited /\ channel'[c] = "open" => q \in Written(c)'
      OBVIOUS
    <3>1. q \in RoundIds /\ c \in rounds[q].present /\ c \in Clients
      BY <1>4, <2>4, VisitRounds, Fields
    <3>2. rounds'[q].unvisited = IF q = r THEN rounds[r].unvisited \ {k} ELSE rounds[q].unvisited
      BY <1>4, <2>4, <3>1, VisitRounds
    <3> QED
      BY <2>1, <2>2, <2>3, <3>1, <3>2
  <2> QED
    BY <2>5, <2>6, <2>7
<1>5. ASSUME NEW r \in RoundIds, EndLoop(r) \/ AckRound(r) PROVE VisitedWritten'
  <2>1. PICK St \in {"flush", "done"} : SetStage(r, St)
    BY <1>5 DEF EndLoop, AckRound, SetStage
  <2>2. rounds[r].unvisited = {}
    BY <1>5 DEF EndLoop, AckRound
  <2>3. channel' = channel /\ \A k \in Clients : Written(k)' = Written(k)
    BY <1>5 DEF EndLoop, AckRound, clientVars, Written
  <2> QED
    BY <2>1, <2>2, <2>3, StageRounds, Fields DEF Typed
<1>6. CASE Crash
  <2>1. \A k \in Clients : channel'[k] # "open" /\ (channel[k] # "new" => channel'[k] # "new")
    BY <1>6 DEF Crash
  <2>2. \A k \in Clients : Written(k)' \subseteq Written(k)
    BY <1>6, EmptyRange DEF Crash, Written
  <2> QED
    BY <1>6, <2>1, <2>2, CrashRounds, Fields DEF Typed
<1>7. ASSUME NEW k \in Clients, ChannelActive(k) PROVE VisitedWritten'
  <2>1. \A c \in Clients : Written(c)' = Written(c)
    BY <1>7 DEF ChannelActive, Written
  <2>2. channel[k] = "new" /\ \A c \in Clients : channel'[c] = IF c = k THEN "open" ELSE channel[c]
    BY <1>7 DEF ChannelActive, Typed, TypeOK
  <2> QED
    BY <1>7, <2>1, <2>2, JoinRounds, Fields DEF Typed
<1>8. ASSUME NEW k \in Clients, Flush(k) PROVE VisitedWritten'
  <2>1. rounds' = rounds /\ RoundIds' = RoundIds /\ channel' = channel /\ \A c \in Clients : Written(c)' = Written(c)
    BY <1>8, FlushMoves
  <2> QED
    BY <2>1, Fields DEF Typed
<1>9. ASSUME NEW k \in Clients, Close(k) PROVE VisitedWritten'
  <2>1. rounds' = rounds /\ RoundIds' = RoundIds
    BY <1>9 DEF Close, RoundIds
  <2>2. \A c \in Clients : channel'[c] = IF c = k THEN "closed" ELSE channel[c]
    BY <1>9 DEF Close, Typed, TypeOK
  <2>3. \A c \in Clients : IF c = k THEN Written(c)' \subseteq Written(c) ELSE Written(c)' = Written(c)
    BY <1>9, EmptyRange DEF Close, Written, Typed, TypeOK
  <2> QED
    BY <2>1, <2>2, <2>3, Fields DEF Typed
<1> QED
  BY <1>1, <1>2, <1>3, <1>4, <1>5, <1>6, <1>7, <1>8, <1>9 DEF Next, Consumer

\* No step takes back what a round is, that it is done, what a client has
\* received, or that it left.
LEMMA NothingTakenBack ==
  ASSUME Typed, VisitedWritten, [Next]_vars
  PROVE  /\ \A r \in RoundIds : /\ r \in RoundIds' /\ rounds'[r].msg = rounds[r].msg
                                /\ rounds'[r].present = rounds[r].present
                                /\ rounds[r].stage = "done" => rounds'[r].stage = "done"
         /\ \A k \in Clients : Range(received[k]) \subseteq Range(received'[k])
         /\ \A k \in Clients : channel[k] # "new" /\ channel'[k] = "open" => channel[k] = "open"
<1> DEFINE Kept == \A r \in RoundIds : /\ r \in RoundIds' /\ rounds'[r].msg = rounds[r].msg
                                       /\ rounds'[r].present = rounds[r].present
                                       /\ rounds[r].stage = "done" => rounds'[r].stage = "done"
           Has  == \A k \in Clients : Range(received[k]) \subseteq Range(received'[k])
           Left == \A k \in Clients : channel[k] # "new" /\ channel'[k] = "open" => channel[k] = "open"
<1>1. TypeOK
  BY DEF Typed
<1>2. CASE Publish \/ Deliver \/ StartListener \/ LoseConnection \/ Recover
  BY <1>2, BrokerFrame
<1>3. CASE UNCHANGED vars
  BY <1>3 DEF vars, RoundIds
<1>4. CASE Begin
  <2>1. PICK i \in DOMAIN inbox : BeginTakes(i)
    BY <1>1, <1>4, BeginRounds
  <2> QED
    BY <1>4, <2>1 DEF Begin, clientVars, BeginTakes
<1>5. ASSUME NEW r \in RoundIds, NEW k \in Clients, Visit(r, k) PROVE Kept /\ Has /\ Left
  <2>1. Kept
    BY <1>1, <1>5, VisitRounds
  <2> QED
    BY <1>5, <2>1 DEF Visit
<1>6. ASSUME NEW r \in RoundIds, EndLoop(r) \/ AckRound(r) PROVE Kept /\ Has /\ Left
  <2>1. PICK St \in {"flush", "done"} : SetStage(r, St) /\ rounds[r].stage # "done"
    BY <1>6 DEF EndLoop, AckRound, SetStage
  <2>2. Kept
    BY <1>1, <2>1, StageRounds
  <2> QED
    BY <1>6, <2>2 DEF EndLoop, AckRound, clientVars
<1>7. CASE Crash
  <2>1. Kept
    BY <1>1, <1>7, CrashRounds
  <2> QED
    BY <1>7, <2>1 DEF Crash
<1>8. ASSUME NEW k \in Clients, ChannelActive(k) PROVE Kept /\ Has /\ Left
  <2>1. Kept
    BY <1>1, <1>8, JoinRounds
  <2>2. channel[k] = "new" /\ \A c \in Clients : channel'[c] = IF c = k THEN "open" ELSE channel[c]
    BY <1>1, <1>8 DEF ChannelActive, TypeOK
  <2> QED
    BY <1>8, <2>1, <2>2 DEF ChannelActive
<1>9. ASSUME NEW k \in Clients, Flush(k) PROVE Kept /\ Has /\ Left
  <2>1. /\ rounds' = rounds /\ RoundIds' = RoundIds /\ channel' = channel
        /\ Range(received'[k]) = Range(received[k]) \cup {Head(outbox[k])}
        /\ \A c \in Clients \ {k} : received'[c] = received[c]
    BY <1>9, FlushMoves
  <2> QED
    BY <2>1
<1>10. ASSUME NEW k \in Clients, Close(k) PROVE Kept /\ Has /\ Left
  BY <1>1, <1>10 DEF Close, RoundIds, TypeOK
<1> QED
  BY <1>2, <1>3, <1>4, <1>5, <1>6, <1>7, <1>8, <1>9, <1>10 DEF Next, Consumer

\* Every step keeps AckedReached: the acknowledgement is sent when no write of
\* its round is pending, and each of its clients that stays was written to.
LEMMA AckedReachedStep ==
  ASSUME Typed, VisitedWritten, AckedReached, [Next]_vars
  PROVE  AckedReached'
<1>1. \A r \in RoundIds : /\ r \in RoundIds' /\ rounds'[r].msg = rounds[r].msg
                          /\ rounds'[r].present = rounds[r].present
                          /\ rounds[r].stage = "done" => rounds'[r].stage = "done"
  BY NothingTakenBack
<1>2. ASSUME NEW m \in acked PROVE
        \E r \in RoundIds' :
            /\ rounds'[r].msg = m /\ rounds'[r].stage = "done"
            /\ \A k \in rounds'[r].present : channel'[k] = "open" => r \in Range(received'[k])
  <2>1. PICK r \in RoundIds :
          /\ rounds[r].msg = m /\ rounds[r].stage = "done"
          /\ \A k \in rounds[r].present : channel[k] = "open" => r \in Range(received[k])
    BY DEF AckedReached
  <2>2. rounds[r].present \subseteq Clients /\ \A k \in rounds[r].present : channel[k] # "new"
    BY Fields DEF Typed, VisitedWritten
  <2>3. /\ r \in RoundIds' /\ rounds'[r].msg = m /\ rounds'[r].stage = "done"
        /\ rounds'[r].present = rounds[r].present
    BY <1>1, <2>1
  <2>4. ASSUME NEW k \in rounds[r].present, channel'[k] = "open" PROVE r \in Range(received'[k])
    BY <2>1, <2>2, <2>4, NothingTakenBack
  <2> QED
    BY <2>3, <2>4
<1>3. ASSUME NEW r \in RoundIds, AckRound(r), acked' = acked \cup {rounds[r].msg} PROVE
        /\ r \in RoundIds' /\ rounds'[r].msg = rounds[r].msg /\ rounds'[r].stage = "done"
        /\ \A k \in rounds'[r].present : channel'[k] = "open" => r \in Range(received'[k])
  <2>1. SetStage(r, "done") /\ TypeOK
    BY <1>3 DEF AckRound, SetStage, Typed
  <2>2. /\ r \in RoundIds' /\ rounds'[r].msg = rounds[r].msg /\ rounds'[r].stage = "done"
        /\ rounds'[r].present = rounds[r].present
    BY <2>1, StageRounds
  <2>3. /\ channel' = channel /\ received' = received /\ rounds[r].stage = "flush"
        /\ \A k \in Clients : r \notin Range(outbox[k])
    BY <1>3 DEF AckRound, clientVars, AllWritesComplete
  <2>4. rounds[r].present \subseteq Clients /\ rounds[r].unvisited = {}
    BY <2>3, Fields DEF Typed, VisitedWritten
  <2>5. \A k \in rounds[r].present : channel[k] = "open" => r \in Written(k)
    BY <2>4 DEF VisitedWritten
  <2> QED
    BY <2>2, <2>3, <2>4, <2>5 DEF Written
<1>4. acked' = acked \/ \E r \in RoundIds : AckRound(r) /\ acked' = acked \cup {rounds[r].msg}
  BY DEF Next, vars, Publish, Deliver, StartListener, LoseConnection, Recover, Crash, Consumer, Begin, Visit,
         EndLoop, AckRound, ChannelActive, Flush, Close, brokerVars
<1> QED
  BY <1>2, <1>3, <1>4 DEF AckedReached

LEMMA VisitedInvariant == Spec => [](VisitedWritten /\ AckedReached)
<1>1. Init => VisitedWritten /\ AckedReached
  BY EmptyRange DEF Init, VisitedWritten, AckedReached, Written, RoundIds
<1>2. Typed /\ VisitedWritten /\ AckedReached /\ [Next]_vars => (VisitedWritten /\ AckedReached)'
  BY VisitedStep, AckedReachedStep
<1> QED
  BY <1>1, <1>2, TypedInvariant, PTL DEF Spec

\* A message the broker has forgotten was flushed to every client that was
\* connected when its broadcast began and still is.
THEOREM AckedMessagesReached == Spec => []AckedReached
BY VisitedInvariant, PTL

-----------------------------------------------------------------------------
(* A channel buffers at most one copy of a message for each connection.    *)

\* Nothing that connection e delivered is waiting or being broadcast.
Idle(e) ==
    /\ \A i \in DOMAIN inbox : inbox[i].epoch # e
    /\ \A r \in RoundIds : rounds[r].epoch = e => rounds[r].stage = "done"

\* At most one delivery of a connection is in work, and none when the broker
\* waits for no acknowledgement of that connection.
OneInWork ==
    /\ \A i \in DOMAIN inbox : inbox[i].epoch <= epoch
    /\ \A r \in RoundIds : rounds[r].epoch <= epoch
    /\ \A i, j \in DOMAIN inbox : inbox[i].epoch = inbox[j].epoch => i = j
    /\ \A i \in DOMAIN inbox, r \in RoundIds : inbox[i].epoch = rounds[r].epoch => rounds[r].stage = "done"
    /\ \A r, s \in RoundIds : r < s /\ rounds[r].epoch = rounds[s].epoch => rounds[r].stage = "done"
    /\ listener = "up" /\ unacked = {} => Idle(epoch)

\* The broker delivers when it waits for nothing.
LEMMA DeliverWhenSettled ==
  ASSUME Typed, Deliver
  PROVE  /\ unacked = {} /\ listener = "up"
         /\ \E m \in Ready : /\ \A other \in Ready : m <= other
                             /\ unacked' = {m} /\ inbox' = Append(inbox, [msg |-> m, epoch |-> epoch])
<1>1. unacked \in SUBSET (1..published) /\ published \in Nat
  BY ReceiverAssumption DEF Typed, TypeOK
<1>2. IsFiniteSet(1..published)
  BY <1>1, FS_Interval
<1>3. IsFiniteSet(unacked)
  BY <1>1, <1>2, FS_Subset
<1>4. Cardinality(unacked) \in Nat /\ Cardinality(unacked) < 1
  BY <1>3, FS_CardinalityType DEF Deliver, Prefetch
<1>5. unacked = {}
  BY <1>3, <1>4, FS_EmptySet
<1> QED
  BY <1>5 DEF Deliver

\* The delivery joins the end of the inbox.
LEMMA DeliverAppends ==
  ASSUME Typed, NEW m \in Ready, listener = "up", inbox' = Append(inbox, [msg |-> m, epoch |-> epoch])
  PROVE  \A i \in DOMAIN inbox' :
            \/ i \in DOMAIN inbox /\ inbox'[i] = inbox[i]
            \/ i = Len(inbox) + 1 /\ inbox'[i].msg = m /\ inbox'[i].epoch = epoch
<1> DEFINE d == [msg |-> m, epoch |-> epoch]
<1>1. epoch \in Epochs /\ m \in Messages
  BY ReceiverAssumption DEF Typed, TypeOK, WithinQueue, Epochs, Messages, Ready
<1>2. d \in Delivery /\ d.msg = m /\ d.epoch = epoch
  BY <1>1 DEF Delivery
<1>3. inbox' = Append(inbox, d) /\ inbox \in Seq(Delivery)
  BY DEF Typed, TypeOK
<1> HIDE DEF d
<1> QED
  BY <1>2, <1>3

\* What a step of the connection, of a handler that ends its loop or its
\* round, and the death of the server leave alone.
LEMMA ConnectFrame ==
  ASSUME StartListener \/ Recover
  PROVE  /\ UNCHANGED <<published, acked, unacked, inbox, rounds, channel, outbox, received>> /\ RoundIds' = RoundIds
         /\ \/ listener' = "up" /\ epoch' = epoch + 1
            \/ listener' = "failed" /\ epoch' = epoch
<1>1. CASE StartListener
  BY <1>1 DEF StartListener, brokerVars, clientVars, RoundIds
<1>2. CASE Recover
  BY <1>2 DEF Recover, brokerVars, clientVars, RoundIds
<1> QED
  BY <1>1, <1>2

LEMMA StageFrame ==
  ASSUME NEW r \in RoundIds, EndLoop(r) \/ AckRound(r)
  PROVE  /\ UNCHANGED <<published, listener, epoch, inbox, channel, outbox, received, overlapped>>
         /\ rounds[r].stage # "done"
         /\ \/ SetStage(r, "flush") /\ UNCHANGED <<acked, unacked>> /\ rounds[r].stage = "loop"
            \/ SetStage(r, "done") /\ UNCHANGED <<acked, unacked>> /\ rounds[r].stage = "flush"
            \/ /\ SetStage(r, "done") /\ listener = "up" /\ rounds[r].epoch = epoch
               /\ acked' = acked \cup {rounds[r].msg} /\ unacked' = unacked \ {rounds[r].msg}
               /\ rounds[r].stage = "flush"
<1>1. CASE EndLoop(r)
  BY <1>1 DEF EndLoop, brokerVars, clientVars, SetStage
<1>2. CASE AckRound(r)
  BY <1>2 DEF AckRound, clientVars, SetStage
<1> QED
  BY <1>1, <1>2

LEMMA CrashFrame ==
  ASSUME Crash
  PROVE  /\ UNCHANGED <<published, acked, epoch, received, overlapped>>
         /\ listener' = "idle" /\ unacked' = {} /\ inbox' = <<>> /\ DOMAIN inbox' = {}
         /\ \A k \in Clients : channel'[k] # "open" /\ outbox'[k] = <<>>
         /\ \A k \in Clients : channel[k] # "open" => channel'[k] = channel[k]
         /\ \A k \in Clients : channel'[k] = "new" => channel[k] = "new"
<1>1. /\ UNCHANGED <<published, acked, epoch, received, overlapped>>
      /\ listener' = "idle" /\ unacked' = {} /\ inbox' = <<>>
      /\ channel' = [k \in Clients |-> IF channel[k] = "open" THEN "closed" ELSE channel[k]]
      /\ outbox' = [k \in Clients |-> <<>>]
  BY DEF Crash
<1>2. \A k \in Clients : channel'[k] = IF channel[k] = "open" THEN "closed" ELSE channel[k]
  BY <1>1
<1>3. \A k \in Clients : outbox'[k] = <<>>
  BY <1>1
<1>4. DOMAIN inbox' = {}
  BY <1>1
<1> QED
  BY <1>1, <1>2, <1>3, <1>4

LEMMA OneInWorkStep ==
  ASSUME Typed, OneInWork, [Next]_vars
  PROVE  OneInWork'
<1> USE DEF OneInWork, Idle
<1>1. /\ TypeOK /\ epoch \in Nat /\ \A i \in DOMAIN inbox : inbox[i].epoch \in Nat
      /\ \A r \in RoundIds : rounds[r].epoch \in Nat /\ r \in Nat
  BY Fields, ReceiverAssumption DEF Typed, TypeOK, Epochs
<1>2. CASE Publish \/ LoseConnection \/ UNCHANGED vars \/ \E k \in Clients : Flush(k) \/ Close(k)
  <2>1. /\ UNCHANGED <<epoch, inbox, rounds>> /\ RoundIds' = RoundIds
        /\ listener' = "lost" \/ UNCHANGED <<listener, unacked>>
    BY <1>2 DEF Publish, LoseConnection, vars, Flush, Close, RoundIds, brokerVars, clientVars
  <2> QED
    BY <2>1
<1>3. CASE StartListener \/ Recover
  <2>1. /\ UNCHANGED <<inbox, rounds, unacked>> /\ RoundIds' = RoundIds
        /\ (listener' = "up" /\ epoch' = epoch + 1) \/ (listener' = "failed" /\ epoch' = epoch)
    BY <1>3, ConnectFrame
  <2>2. \A i \in DOMAIN inbox : inbox[i].epoch <= epoch' /\ inbox[i].epoch # epoch + 1
    BY <1>1, <2>1
  <2>3. \A r \in RoundIds : rounds[r].epoch <= epoch' /\ rounds[r].epoch # epoch + 1
    BY <1>1, <2>1
  <2> QED
    BY <2>1, <2>2, <2>3
<1>4. CASE Deliver
  <2>1. PICK m \in Ready : unacked' = {m} /\ inbox' = Append(inbox, [msg |-> m, epoch |-> epoch])
    BY <1>4, DeliverWhenSettled
  <2>2. Idle(epoch) /\ listener = "up"
    BY <1>4, DeliverWhenSettled
  <2>3. UNCHANGED <<listener, epoch, rounds>> /\ RoundIds' = RoundIds
    BY <1>4 DEF Deliver, RoundIds
  <2>4. \A i \in DOMAIN inbox' :
            \/ i \in DOMAIN inbox /\ inbox'[i] = inbox[i]
            \/ i = Len(inbox) + 1 /\ inbox'[i].epoch = epoch
    BY <2>1, <2>2, DeliverAppends
  <2> QED
    BY <1>1, <2>1, <2>2, <2>3, <2>4
<1>5. CASE Begin
  <2>1. PICK i \in DOMAIN inbox : BeginTakes(i)
    BY <1>1, <1>5, BeginRounds
  <2>2. UNCHANGED <<listener, epoch, unacked>>
    BY <1>5 DEF Begin, brokerVars
  <2>3. \A j \in DOMAIN inbox' : \E o \in DOMAIN inbox \ {i} :
          inbox'[j] = inbox[o] /\ o = (IF j < i THEN j ELSE j + 1)
    BY <2>1 DEF BeginTakes
  <2> DEFINE n == Len(rounds')
  <2>4. /\ RoundIds' = RoundIds \cup {n} /\ n \notin RoundIds /\ n \in Nat
        /\ \A r \in RoundIds : rounds'[r] = rounds[r] /\ r < n
        /\ rounds'[n].epoch = inbox[i].epoch /\ rounds'[n].stage = "loop"
    BY <2>1, Fields DEF BeginTakes, Typed
  <2> HIDE DEF n
  <2>5. \A j \in DOMAIN inbox' : j \in Nat
    BY <2>1 DEF BeginTakes
  <2>6. \A j \in DOMAIN inbox' : inbox'[j].epoch <= epoch /\ inbox'[j].epoch # inbox[i].epoch
    BY <2>3
  <2>7. \A r \in RoundIds' : rounds'[r].epoch <= epoch
    BY <2>4
  <2>8. \A j, l \in DOMAIN inbox' : inbox'[j].epoch = inbox'[l].epoch => j = l
    <3> SUFFICES ASSUME NEW j \in DOMAIN inbox', NEW l \in DOMAIN inbox', inbox'[j].epoch = inbox'[l].epoch
                 PROVE  j = l
      OBVIOUS
    <3>1. PICK o \in DOMAIN inbox, p \in DOMAIN inbox :
            /\ inbox'[j] = inbox[o] /\ o = (IF j < i THEN j ELSE j + 1)
            /\ inbox'[l] = inbox[p] /\ p = (IF l < i THEN l ELSE l + 1)
      BY <2>3
    <3>2. o = p
      BY <3>1
    <3>3. i \in Nat
      BY DEF TypeOK, Typed
    <3> QED
      BY <2>5, <3>1, <3>2, <3>3
  <2>9. \A j \in DOMAIN inbox', r \in RoundIds' : inbox'[j].epoch = rounds'[r].epoch => rounds'[r].stage = "done"
    BY <2>3, <2>4, <2>6
  <2>10. \A r, s \in RoundIds' : r < s /\ rounds'[r].epoch = rounds'[s].epoch => rounds'[r].stage = "done"
    BY <1>1, <2>4
  <2>11. listener' = "up" /\ unacked' = {} => Idle(epoch)'
    BY <2>2, <2>3, <2>4
  <2> QED
    BY <2>2, <2>6, <2>7, <2>8, <2>9, <2>10, <2>11
<1>6. ASSUME NEW r \in RoundIds, NEW k \in Clients, Visit(r, k) PROVE OneInWork'
  <2>1. RoundIds' = RoundIds /\ \A q \in RoundIds : rounds'[q].epoch = rounds[q].epoch /\ rounds'[q].stage = rounds[q].stage
    BY <1>1, <1>6, VisitRounds
  <2> QED
    BY <1>6, <2>1 DEF Visit, brokerVars
<1>7. ASSUME NEW k \in Clients, ChannelActive(k) PROVE OneInWork'
  <2>1. RoundIds' = RoundIds /\ \A q \in RoundIds : rounds'[q].epoch = rounds[q].epoch /\ rounds'[q].stage = rounds[q].stage
    BY <1>1, <1>7, JoinRounds
  <2> QED
    BY <1>7, <2>1 DEF ChannelActive, brokerVars
<1>8. ASSUME NEW r \in RoundIds, EndLoop(r) \/ AckRound(r) PROVE OneInWork'
  <2>1. PICK St \in {"flush", "done"} :
          /\ SetStage(r, St) /\ rounds[r].stage # "done"
          /\ unacked' = unacked \/ (St = "done" /\ rounds[r].epoch = epoch)
    BY <1>8, StageFrame
  <2>2. /\ RoundIds' = RoundIds
        /\ \A q \in RoundIds : /\ rounds'[q].epoch = rounds[q].epoch
                               /\ rounds'[q].stage = IF q = r THEN St ELSE rounds[q].stage
    BY <1>1, <2>1, StageRounds
  <2>3. UNCHANGED <<listener, epoch, inbox>>
    BY <1>8, StageFrame
  <2>4. \A q \in RoundIds : rounds[q].epoch = rounds[r].epoch => q = r \/ rounds[q].stage = "done"
    BY <1>1, <2>1
  <2>5. \A i \in DOMAIN inbox : inbox[i].epoch # rounds[r].epoch
    BY <2>1
  <2>6. listener' = "up" /\ unacked' = {} => Idle(epoch)'
    BY <2>1, <2>2, <2>3, <2>4, <2>5
  <2> QED
    BY <2>1, <2>2, <2>3, <2>6
<1>9. CASE Crash
  <2>1. RoundIds' = RoundIds /\ \A q \in RoundIds : rounds'[q].epoch = rounds[q].epoch /\ rounds'[q].stage = "done"
    BY <1>1, <1>9, CrashRounds
  <2>2. DOMAIN inbox' = {} /\ epoch' = epoch /\ listener' = "idle"
    BY <1>9, CrashFrame
  <2> QED
    BY <2>1, <2>2
<1> QED
  BY <1>2, <1>3, <1>4, <1>5, <1>6, <1>7, <1>8, <1>9 DEF Next, Consumer

\* A channel buffers rounds of different connections, none of them done, and
\* none that is still to come to it.
OnePerConnection ==
    /\ \A k \in Clients : channel[k] = "new" => received[k] = <<>>
    /\ \A r \in RoundIds : \A k \in rounds[r].unvisited : r \notin Written(k)
    /\ \A r \in RoundIds : rounds[r].stage = "done" => \A k \in Clients : r \notin Range(outbox[k])
    /\ \A k \in Clients : \A i, j \in DOMAIN outbox[k] :
          rounds[outbox[k][i]].epoch = rounds[outbox[k][j]].epoch => i = j

\* What is buffered is a round that began.
LEMMA BufferedRounds ==
  ASSUME Typed, VisitedWritten, NEW k \in Clients
  PROVE  /\ outbox[k] \in Seq(Nat) /\ DOMAIN outbox[k] = 1..Len(outbox[k]) /\ Len(outbox[k]) \in Nat
         /\ \A i \in DOMAIN outbox[k] : outbox[k][i] \in RoundIds /\ outbox[k][i] \in Range(outbox[k])
<1>1. outbox[k] \in Seq(Nat)
  BY DEF Typed, TypeOK
<1>2. Range(outbox[k]) \subseteq RoundIds
  BY DEF VisitedWritten, Written
<1> QED
  BY <1>1, <1>2 DEF Range

LEMMA OnePerConnectionStep ==
  ASSUME Typed, VisitedWritten, OneInWork, OnePerConnection, [Next]_vars
  PROVE  OnePerConnection'
<1>1. /\ TypeOK /\ \A r \in RoundIds : rounds[r].unvisited \subseteq Clients
      /\ \A k \in Clients : Written(k) \subseteq RoundIds
  BY Fields DEF Typed, VisitedWritten
<1>2. CASE Publish \/ Deliver \/ StartListener \/ LoseConnection \/ Recover
  <2>1. /\ rounds' = rounds /\ RoundIds' = RoundIds /\ channel' = channel /\ outbox' = outbox /\ received' = received
        /\ \A k \in Clients : Written(k)' = Written(k)
    BY <1>2, BrokerFrame
  <2> QED
    BY <1>1, <2>1 DEF OnePerConnection
<1>3. CASE UNCHANGED vars
  BY <1>3 DEF vars, RoundIds, Written, OnePerConnection
<1>4. CASE Begin
  <2>1. PICK i \in DOMAIN inbox : BeginTakes(i)
    BY <1>1, <1>4, BeginRounds
  <2>2. channel' = channel /\ outbox' = outbox /\ received' = received /\ \A k \in Clients : Written(k)' = Written(k)
    BY <1>4 DEF Begin, clientVars, Written
  <2>3. /\ RoundIds' = RoundIds \cup {Len(rounds')}
        /\ \A r \in RoundIds : rounds'[r] = rounds[r]
        /\ rounds'[Len(rounds')].unvisited = Open /\ Open \subseteq Clients
        /\ rounds'[Len(rounds')].stage = "loop" /\ Len(rounds') \notin RoundIds
    BY <2>1 DEF BeginTakes, Open
  <2>4. \A k \in Clients : \A i1, j \in DOMAIN outbox'[k] :
          rounds'[outbox'[k][i1]].epoch = rounds'[outbox'[k][j]].epoch => i1 = j
    <3>1. \A k \in Clients : \A i1 \in DOMAIN outbox[k] : rounds'[outbox[k][i1]] = rounds[outbox[k][i1]]
      BY <2>3, BufferedRounds
    <3> QED
      BY <2>2, <3>1 DEF OnePerConnection
  <2> QED
    BY <1>1, <2>2, <2>3, <2>4 DEF OnePerConnection
<1>5. ASSUME NEW r \in RoundIds, NEW k \in Clients, Visit(r, k) PROVE OnePerConnection'
  <2>1. /\ RoundIds' = RoundIds
        /\ \A q \in RoundIds : /\ rounds'[q].epoch = rounds[q].epoch /\ rounds'[q].stage = rounds[q].stage
                               /\ rounds'[q].unvisited = IF q = r THEN rounds[r].unvisited \ {k} ELSE rounds[q].unvisited
    BY <1>1, <1>5, VisitRounds
  <2>2. /\ received' = received /\ channel' = channel
        /\ \A c \in Clients \ {k} : outbox'[c] = outbox[c]
        /\ channel[k] = "open" => outbox'[k] = Append(outbox[k], r) /\ Range(outbox'[k]) = Range(outbox[k]) \cup {r}
        /\ channel[k] # "open" => outbox'[k] = outbox[k]
    BY <1>5, VisitWrites
  <2>3. rounds[r].stage = "loop" /\ k \in rounds[r].unvisited /\ r \notin Written(k)
    BY <1>5 DEF Visit, OnePerConnection
  <2>4. \A c \in Clients : Range(outbox'[c]) \subseteq Range(outbox[c]) \cup {r} /\ (c # k => outbox'[c] = outbox[c])
    BY <2>2
  <2>5. \A q \in RoundIds' : \A c \in rounds'[q].unvisited : q \notin Written(c)'
    <3> SUFFICES ASSUME NEW q \in RoundIds, NEW c \in rounds'[q].unvisited PROVE q \notin Written(c)'
      BY <2>1
    <3>1. c \in rounds[q].unvisited /\ c \in Clients /\ ~(q = r /\ c = k)
      BY <1>1, <2>1
    <3>2. q \notin Written(c)
      BY <3>1 DEF OnePerConnection
    <3> QED
      BY <2>2, <2>4, <3>1, <3>2 DEF Written
  <2>6. \A q \in RoundIds' : rounds'[q].stage = "done" => \A c \in Clients : q \notin Range(outbox'[c])
    BY <2>1, <2>3, <2>4 DEF OnePerConnection
  <2>7. \A i \in DOMAIN outbox[k] : rounds[outbox[k][i]].epoch # rounds[r].epoch
    <3> SUFFICES ASSUME NEW i \in DOMAIN outbox[k], rounds[outbox[k][i]].epoch = rounds[r].epoch PROVE FALSE
      OBVIOUS
    <3>1. outbox[k][i] \in RoundIds /\ outbox[k][i] \in Range(outbox[k])
      BY BufferedRounds
    <3>2. outbox[k][i] # r /\ outbox[k][i] \in Nat /\ r \in Nat
      BY <2>3, <3>1, Fields DEF Written, Typed
    <3>3. rounds[outbox[k][i]].stage # "done"
      BY <3>1 DEF OnePerConnection
    <3> QED
      BY <2>3, <3>1, <3>2, <3>3 DEF OneInWork
  <2>8. \A c \in Clients : \A i, j \in DOMAIN outbox'[c] :
          rounds'[outbox'[c][i]].epoch = rounds'[outbox'[c][j]].epoch => i = j
    <3> SUFFICES ASSUME NEW c \in Clients, NEW i \in DOMAIN outbox'[c], NEW j \in DOMAIN outbox'[c],
                        rounds'[outbox'[c][i]].epoch = rounds'[outbox'[c][j]].epoch
                 PROVE  i = j
      OBVIOUS
    <3>1. CASE outbox'[c] = outbox[c]
      <4>1. i \in DOMAIN outbox[c] /\ j \in DOMAIN outbox[c] /\ outbox[c][i] \in RoundIds /\ outbox[c][j] \in RoundIds
        BY <3>1, BufferedRounds
      <4> QED
        BY <2>1, <3>1, <4>1 DEF OnePerConnection
    <3>2. CASE c = k /\ outbox'[k] = Append(outbox[k], r)
      <4>1. /\ DOMAIN outbox[k] = 1..Len(outbox[k]) /\ Len(outbox[k]) \in Nat /\ outbox[k] \in Seq(Nat)
            /\ \A n \in DOMAIN outbox[k] : outbox[k][n] \in RoundIds
        BY BufferedRounds
      <4>2. \A n \in DOMAIN outbox'[k] : \/ n \in DOMAIN outbox[k] /\ outbox'[k][n] = outbox[k][n]
                                         \/ n = Len(outbox[k]) + 1 /\ outbox'[k][n] = r
        BY <3>2, <4>1
      <4>3. rounds[outbox'[k][i]].epoch = rounds[outbox'[k][j]].epoch
        BY <2>1, <3>2, <4>1, <4>2
      <4> QED
        BY <2>7, <3>2, <4>2, <4>3 DEF OnePerConnection
    <3> QED
      BY <2>2, <3>1, <3>2
  <2>9. \A c \in Clients : channel'[c] = "new" => received'[c] = <<>>
    BY <2>2 DEF OnePerConnection
  <2> QED
    BY <2>5, <2>6, <2>8, <2>9 DEF OnePerConnection
<1>6. ASSUME NEW r \in RoundIds, EndLoop(r) \/ AckRound(r) PROVE OnePerConnection'
  <2>1. PICK St \in {"flush", "done"} : SetStage(r, St)
    BY <1>6, StageFrame
  <2>2. /\ RoundIds' = RoundIds
        /\ \A q \in RoundIds : /\ rounds'[q].epoch = rounds[q].epoch /\ rounds'[q].unvisited = rounds[q].unvisited
                               /\ rounds'[q].stage = IF q = r THEN St ELSE rounds[q].stage
    BY <1>1, <2>1, StageRounds
  <2>3. /\ channel' = channel /\ outbox' = outbox /\ received' = received
        /\ \A k \in Clients : Written(k)' = Written(k)
    BY <1>6, StageFrame DEF Written
  <2>4. rounds'[r].stage = "done" => \A k \in Clients : r \notin Range(outbox[k])
    <3>1. CASE EndLoop(r)
      <4>1. SetStage(r, "flush")
        BY <3>1 DEF EndLoop, SetStage
      <4>2. rounds'[r].stage = "flush"
        BY <1>1, <4>1, StageRounds
      <4> QED
        BY <4>2
    <3>2. CASE AckRound(r)
      BY <3>2 DEF AckRound, AllWritesComplete
    <3> QED
      BY <1>6, <3>1, <3>2
  <2>5. \A k \in Clients : \A i, j \in DOMAIN outbox'[k] :
          rounds'[outbox'[k][i]].epoch = rounds'[outbox'[k][j]].epoch => i = j
    BY <2>2, <2>3, BufferedRounds DEF OnePerConnection
  <2>6. \A q \in RoundIds' : rounds'[q].stage = "done" => \A k \in Clients : q \notin Range(outbox'[k])
    BY <2>2, <2>3, <2>4 DEF OnePerConnection
  <2> QED
    BY <1>1, <2>2, <2>3, <2>5, <2>6 DEF OnePerConnection
<1>7. CASE Crash
  <2>1. RoundIds' = RoundIds /\ \A q \in RoundIds : rounds'[q].unvisited = {}
    BY <1>1, <1>7, CrashRounds
  <2>2. /\ received' = received
        /\ \A k \in Clients : outbox'[k] = <<>> /\ (channel'[k] = "new" => channel[k] = "new")
    BY <1>7, CrashFrame
  <2>3. \A k \in Clients : Range(outbox'[k]) = {} /\ DOMAIN outbox'[k] = {}
    BY <2>2, EmptyRange
  <2> QED
    BY <2>1, <2>2, <2>3 DEF OnePerConnection
<1>8. ASSUME NEW k \in Clients, ChannelActive(k) PROVE OnePerConnection'
  <2>1. /\ RoundIds' = RoundIds
        /\ \A q \in RoundIds : /\ rounds'[q].epoch = rounds[q].epoch /\ rounds'[q].stage = rounds[q].stage
                               /\ \/ rounds'[q].unvisited = rounds[q].unvisited
                                 \/ rounds'[q].unvisited = rounds[q].unvisited \cup {k}
    BY <1>1, <1>8, JoinRounds
  <2>2. /\ outbox' = outbox /\ received' = received /\ channel[k] = "new"
        /\ \A c \in Clients : Written(c)' = Written(c)
        /\ \A c \in Clients : channel'[c] = "new" => channel[c] = "new"
    BY <1>1, <1>8 DEF ChannelActive, Written, TypeOK
  <2>3. Written(k) = {}
    BY <1>1, <2>2, EmptyRange DEF OnePerConnection, TypeOK, Written
  <2>4. \A q \in RoundIds' : \A c \in rounds'[q].unvisited : q \notin Written(c)'
    <3> SUFFICES ASSUME NEW q \in RoundIds, NEW c \in rounds'[q].unvisited PROVE q \notin Written(c)'
      BY <2>1
    <3>1. c \in Clients /\ (c \in rounds[q].unvisited \/ c = k)
      BY <1>1, <2>1
    <3> QED
      BY <2>2, <2>3, <3>1 DEF OnePerConnection
  <2>5. \A c \in Clients : \A i, j \in DOMAIN outbox'[c] :
          rounds'[outbox'[c][i]].epoch = rounds'[outbox'[c][j]].epoch => i = j
    BY <2>1, <2>2, BufferedRounds DEF OnePerConnection
  <2> QED
    BY <2>1, <2>2, <2>4, <2>5 DEF OnePerConnection
<1>9. ASSUME NEW k \in Clients, Flush(k) PROVE OnePerConnection'
  <2>1. /\ channel' = channel /\ rounds' = rounds /\ RoundIds' = RoundIds /\ channel[k] = "open"
        /\ outbox'[k] = Tail(outbox[k]) /\ outbox[k] # <<>>
        /\ Range(outbox'[k]) \subseteq Range(outbox[k])
        /\ \A c \in Clients \ {k} : outbox'[c] = outbox[c] /\ received'[c] = received[c]
        /\ \A c \in Clients : Written(c)' = Written(c)
    BY <1>9, FlushMoves DEF Flush
  <2>2. \A q \in RoundIds' : rounds'[q].stage = "done" => \A c \in Clients : q \notin Range(outbox'[c])
    BY <2>1 DEF OnePerConnection
  <2>3. \A i, j \in DOMAIN outbox'[k] :
          rounds[outbox'[k][i]].epoch = rounds[outbox'[k][j]].epoch => i = j
    <3>1. /\ DOMAIN outbox[k] = 1..Len(outbox[k]) /\ Len(outbox[k]) \in Nat \ {0} /\ outbox[k] \in Seq(Nat)
      BY <2>1, BufferedRounds, EmptySeq
    <3>2. /\ DOMAIN outbox'[k] = 1..(Len(outbox[k]) - 1)
          /\ \A i \in DOMAIN outbox'[k] : outbox'[k][i] = outbox[k][i + 1]
      BY <2>1, <3>1, HeadTailProperties
    <3>3. \A i \in DOMAIN outbox'[k] : i + 1 \in DOMAIN outbox[k] /\ i \in Nat
      BY <3>1, <3>2
    <3>4. ASSUME NEW i \in DOMAIN outbox'[k], NEW j \in DOMAIN outbox'[k],
                 rounds[outbox'[k][i]].epoch = rounds[outbox'[k][j]].epoch
          PROVE  i = j
      <4>1. i + 1 = j + 1
        BY <3>2, <3>3, <3>4 DEF OnePerConnection
      <4> QED
        BY <3>3, <4>1
    <3> QED
      BY <3>4
  <2>4. \A c \in Clients : \A i, j \in DOMAIN outbox'[c] :
          rounds'[outbox'[c][i]].epoch = rounds'[outbox'[c][j]].epoch => i = j
    <3>1. ASSUME NEW c \in Clients \ {k} PROVE \A i, j \in DOMAIN outbox'[c] :
            rounds'[outbox'[c][i]].epoch = rounds'[outbox'[c][j]].epoch => i = j
      BY <2>1 DEF OnePerConnection
    <3> QED
      BY <2>1, <2>3, <3>1
  <2> QED
    BY <1>1, <2>1, <2>2, <2>4 DEF OnePerConnection
<1>10. ASSUME NEW k \in Clients, Close(k) PROVE OnePerConnection'
  <2>1. /\ rounds' = rounds /\ RoundIds' = RoundIds /\ received' = received
        /\ \A c \in Clients : outbox'[c] = outbox[c] \/ outbox'[c] = <<>>
        /\ \A c \in Clients : channel'[c] = "new" => channel[c] = "new"
    BY <1>1, <1>10 DEF Close, RoundIds, TypeOK
  <2>2. \A c \in Clients : outbox'[c] = outbox[c] \/ (Range(outbox'[c]) = {} /\ DOMAIN outbox'[c] = {})
    BY <2>1, EmptyRange
  <2> QED
    BY <1>1, <2>1, <2>2 DEF OnePerConnection, Written
<1> QED
  BY <1>2, <1>3, <1>4, <1>5, <1>6, <1>7, <1>8, <1>9, <1>10 DEF Next, Consumer

\* Rounds of different connections: there are no more than connections.
LEMMA BufferedBounded ==
  ASSUME Typed, VisitedWritten, OneInWork, OnePerConnection
  PROVE  OutboxBounded
<1> SUFFICES ASSUME NEW k \in Clients, ~(Len(outbox[k]) <= epoch) PROVE FALSE
  BY DEF OutboxBounded
<1> DEFINE n == Len(outbox[k])
           f == [i \in 1..n |-> rounds[outbox[k][i]].epoch]
<1>1. /\ n \in Nat /\ DOMAIN outbox[k] = 1..n /\ epoch \in Nat
      /\ \A i \in 1..n : outbox[k][i] \in RoundIds
  BY BufferedRounds, ReceiverAssumption DEF Typed, TypeOK
<1>2. \A i \in 1..n : rounds[outbox[k][i]].epoch \in Nat /\ rounds[outbox[k][i]].epoch >= 1
                     /\ rounds[outbox[k][i]].epoch <= epoch
  BY <1>1, Fields DEF Typed, Epochs, OneInWork
<1>3. f \in [1..n -> 1..epoch]
  BY <1>1, <1>2
<1>4. IsFiniteSet(1..n) /\ IsFiniteSet(1..epoch) /\ Cardinality(1..n) = n /\ Cardinality(1..epoch) = epoch
  BY <1>1, FS_Interval
<1>5. epoch < n
  BY <1>1
<1>6. \E x, y \in 1..n : x # y /\ f[x] = f[y]
  <2> HIDE DEF f, n
  <2> QED
    BY <1>3, <1>4, <1>5, FS_PigeonHole
<1> QED
  BY <1>1, <1>6 DEF OnePerConnection

LEMMA BufferInvariant == Spec => [](OneInWork /\ OnePerConnection)
<1>1. Init => OneInWork /\ OnePerConnection
  BY EmptyRange DEF Init, OneInWork, OnePerConnection, Written, RoundIds
<1>2. /\ Typed /\ VisitedWritten /\ OneInWork /\ OnePerConnection /\ [Next]_vars
      => (OneInWork /\ OnePerConnection)'
  BY OneInWorkStep, OnePerConnectionStep
<1> QED
  BY <1>1, <1>2, TypedInvariant, VisitedInvariant, PTL DEF Spec

\* A channel buffers at most one copy of a message for each connection to the
\* broker, however slow its client reads.
THEOREM BuffersBounded == Spec => []OutboxBounded
BY BufferedBounded, TypedInvariant, VisitedInvariant, BufferInvariant, PTL

-----------------------------------------------------------------------------
(* Queue order, and one message buffered at a time.                        *)

Increasing(s) == \A i, j \in DOMAIN s : i < j => s[i] < s[j]

LEMMA IncreasingAppend ==
  ASSUME NEW s \in Seq(Nat), NEW e \in Nat, Increasing(s), \A x \in Range(s) : x < e
  PROVE  Increasing(Append(s, e))
<1>1. DOMAIN s = 1..Len(s) /\ Len(s) \in Nat /\ \A i \in DOMAIN s : s[i] \in Range(s)
  BY DEF Range
<1>2. \A i \in DOMAIN Append(s, e) : \/ i \in DOMAIN s /\ Append(s, e)[i] = s[i]
                                     \/ i = Len(s) + 1 /\ Append(s, e)[i] = e
  BY <1>1
<1>3. ASSUME NEW i \in DOMAIN Append(s, e), NEW j \in DOMAIN Append(s, e), i < j
      PROVE  Append(s, e)[i] < Append(s, e)[j]
  <2>1. i \in DOMAIN s /\ Append(s, e)[i] = s[i]
    BY <1>1, <1>2, <1>3
  <2>2. CASE j \in DOMAIN s
    <3>1. Append(s, e)[j] = s[j]
      BY <2>2
    <3> QED
      BY <1>3, <2>1, <2>2, <3>1 DEF Increasing
  <2>3. CASE j = Len(s) + 1
    <3>1. Append(s, e)[j] = e
      BY <2>3
    <3> QED
      BY <1>1, <2>1, <3>1
  <2> QED
    BY <1>2, <2>2, <2>3
<1> QED
  BY <1>3 DEF Increasing

LEMMA IncreasingTail ==
  ASSUME NEW s \in Seq(Nat), s # <<>>, Increasing(s)
  PROVE  Increasing(Tail(s)) /\ \A x \in Range(Tail(s)) : Head(s) < x
<1>1. /\ DOMAIN s = 1..Len(s) /\ Len(s) \in Nat \ {0} /\ Head(s) = s[1]
      /\ DOMAIN Tail(s) = 1..(Len(s) - 1)
      /\ \A i \in 1..(Len(s) - 1) : Tail(s)[i] = s[i + 1]
  BY EmptySeq, HeadTailProperties
<1>2. \A i \in DOMAIN Tail(s) : i + 1 \in DOMAIN s /\ Tail(s)[i] = s[i + 1] /\ i \in Nat /\ i > 0
  BY <1>1
<1>3. 1 \in DOMAIN s
  BY <1>1
<1>4. \A i, j \in DOMAIN Tail(s) : i < j => i + 1 < j + 1
  BY <1>2
<1>5. \A i \in DOMAIN Tail(s) : 1 < i + 1
  BY <1>2
<1>6. Increasing(Tail(s))
  BY <1>2, <1>4 DEF Increasing
<1>7. ASSUME NEW x \in Range(Tail(s)) PROVE Head(s) < x
  <2>1. PICK i \in DOMAIN Tail(s) : x = Tail(s)[i]
    BY <1>7 DEF Range
  <2> QED
    BY <1>1, <1>2, <1>3, <1>5, <2>1 DEF Increasing
<1> QED
  BY <1>6, <1>7

\* Two increasing sequences, the second above the first, in a row.
LEMMA IncreasingConcat ==
  ASSUME NEW s \in Seq(Nat), NEW t \in Seq(Nat), Increasing(s), Increasing(t),
         \A x \in Range(s), y \in Range(t) : x < y
  PROVE  Increasing(s \o t)
<1>1. /\ DOMAIN s = 1..Len(s) /\ DOMAIN t = 1..Len(t) /\ Len(s) \in Nat /\ Len(t) \in Nat
      /\ DOMAIN (s \o t) = 1..(Len(s) + Len(t))
  BY ConcatProperties
<1>2. \A i \in 1..Len(s) : (s \o t)[i] = s[i] /\ s[i] \in Range(s)
  BY <1>1 DEF Range
<1>3. \A i \in 1..(Len(s) + Len(t)) : i > Len(s) =>
        i - Len(s) \in DOMAIN t /\ (s \o t)[i] = t[i - Len(s)] /\ t[i - Len(s)] \in Range(t)
  <2> SUFFICES ASSUME NEW i \in 1..(Len(s) + Len(t)), i > Len(s)
               PROVE  /\ i - Len(s) \in DOMAIN t /\ (s \o t)[i] = t[i - Len(s)]
                      /\ t[i - Len(s)] \in Range(t)
    OBVIOUS
  <2>1. i - Len(s) \in DOMAIN t
    BY <1>1
  <2>2. (s \o t)[i] = t[i - Len(s)]
    BY <1>1, ConcatProperties
  <2>3. t[i - Len(s)] \in Range(t)
    BY <2>1 DEF Range
  <2> QED
    BY <2>1, <2>2, <2>3
<1> SUFFICES ASSUME NEW i \in 1..(Len(s) + Len(t)), NEW j \in 1..(Len(s) + Len(t)), i < j
             PROVE  (s \o t)[i] < (s \o t)[j]
  BY <1>1 DEF Increasing
<1>4. CASE j <= Len(s)
  <2>1. i \in 1..Len(s) /\ j \in 1..Len(s)
    BY <1>1, <1>4
  <2> QED
    BY <1>1, <1>2, <2>1 DEF Increasing
<1>5. CASE i <= Len(s) /\ j > Len(s)
  <2>1. i \in 1..Len(s)
    BY <1>1, <1>5
  <2> QED
    BY <1>2, <1>3, <1>5, <2>1
<1>6. CASE i > Len(s)
  <2>1. j > Len(s) /\ i - Len(s) < j - Len(s)
    BY <1>1, <1>6
  <2>2. /\ i - Len(s) \in DOMAIN t /\ (s \o t)[i] = t[i - Len(s)]
        /\ j - Len(s) \in DOMAIN t /\ (s \o t)[j] = t[j - Len(s)]
    BY <1>3, <1>6, <2>1
  <2>3. t[i - Len(s)] < t[j - Len(s)]
    BY <2>1, <2>2 DEF Increasing
  <2> QED
    BY <2>2, <2>3
<1> QED
  BY <1>1, <1>4, <1>5, <1>6

\* A message is handed out when all before it are acknowledged.
HandedInOrder ==
    /\ \A i \in DOMAIN inbox : 1..(inbox[i].msg - 1) \subseteq acked
    /\ \A r \in RoundIds : 1..(rounds[r].msg - 1) \subseteq acked
    /\ listener = "idle" => ~Busy

LEMMA HandedStep ==
  ASSUME Typed, VisitedWritten, HandedInOrder, [Next]_vars
  PROVE  HandedInOrder'
<1>1. TypeOK /\ \A r \in RoundIds : rounds[r].stage \in {"loop", "flush", "done"}
  BY Fields DEF Typed
<1>2. CASE Publish \/ LoseConnection \/ UNCHANGED vars \/ \E k \in Clients : Flush(k) \/ Close(k)
  <2>1. /\ UNCHANGED <<acked, inbox, rounds>> /\ RoundIds' = RoundIds
        /\ listener' = "lost" \/ listener' = listener
    BY <1>2 DEF Publish, LoseConnection, vars, Flush, Close, RoundIds, brokerVars, clientVars
  <2> QED
    BY <2>1 DEF HandedInOrder, Busy
<1>3. CASE StartListener \/ Recover
  BY <1>3, ConnectFrame DEF HandedInOrder
<1>4. CASE Deliver
  <2>1. PICK m \in Ready : /\ \A other \in Ready : m <= other
                           /\ inbox' = Append(inbox, [msg |-> m, epoch |-> epoch])
    BY <1>4, DeliverWhenSettled
  <2>2. unacked = {} /\ listener = "up"
    BY <1>4, DeliverWhenSettled
  <2>3. /\ UNCHANGED <<acked, listener, rounds>> /\ RoundIds' = RoundIds
    BY <1>4 DEF Deliver, RoundIds
  <2>4. published \in Nat /\ m \in 1..published
    BY <1>1, ReceiverAssumption DEF TypeOK, Ready
  <2>5. 1..(m - 1) \subseteq acked
    <3> SUFFICES ASSUME NEW l \in 1..(m - 1), l \notin acked PROVE FALSE
      OBVIOUS
    <3>1. l \in 1..published /\ ~(m <= l)
      BY <2>4
    <3> QED
      BY <2>1, <2>2, <3>1 DEF Ready
  <2>6. \A i \in DOMAIN inbox' : \/ i \in DOMAIN inbox /\ inbox'[i] = inbox[i]
                                 \/ inbox'[i].msg = m
    BY <2>1, <2>2, DeliverAppends
  <2> QED
    BY <2>2, <2>3, <2>5, <2>6 DEF HandedInOrder
<1>5. CASE Begin
  <2>1. PICK i \in DOMAIN inbox : BeginTakes(i)
    BY <1>1, <1>5, BeginRounds
  <2>2. UNCHANGED <<listener, acked>>
    BY <1>5 DEF Begin, brokerVars
  <2>3. \A j \in DOMAIN inbox' : \E o \in DOMAIN inbox : inbox'[j] = inbox[o]
    BY <2>1 DEF BeginTakes
  <2>4. \A r \in RoundIds' : (r \in RoundIds /\ rounds'[r] = rounds[r]) \/ rounds'[r].msg = inbox[i].msg
    BY <2>1 DEF BeginTakes
  <2>5. Busy
    BY DEF Busy
  <2> QED
    BY <2>2, <2>3, <2>4, <2>5 DEF HandedInOrder
<1>6. ASSUME NEW r \in RoundIds, NEW k \in Clients, Visit(r, k) PROVE HandedInOrder'
  <2>1. RoundIds' = RoundIds /\ \A q \in RoundIds : rounds'[q].msg = rounds[q].msg /\ rounds'[q].stage = rounds[q].stage
    BY <1>1, <1>6, VisitRounds
  <2> QED
    BY <1>6, <2>1 DEF Visit, brokerVars, HandedInOrder, Busy
<1>7. ASSUME NEW k \in Clients, ChannelActive(k) PROVE HandedInOrder'
  <2>1. RoundIds' = RoundIds /\ \A q \in RoundIds : rounds'[q].msg = rounds[q].msg /\ rounds'[q].stage = rounds[q].stage
    BY <1>1, <1>7, JoinRounds
  <2> QED
    BY <1>7, <2>1 DEF ChannelActive, brokerVars, HandedInOrder, Busy
<1>8. ASSUME NEW r \in RoundIds, EndLoop(r) \/ AckRound(r) PROVE HandedInOrder'
  <2>1. PICK St \in {"flush", "done"} : SetStage(r, St)
    BY <1>8, StageFrame
  <2>2. /\ RoundIds' = RoundIds
        /\ \A q \in RoundIds : /\ rounds'[q].msg = rounds[q].msg
                               /\ rounds'[q].stage = IF q = r THEN St ELSE rounds[q].stage
    BY <1>1, <2>1, StageRounds
  <2>3. UNCHANGED <<inbox, listener>> /\ acked \subseteq acked'
    BY <1>8, StageFrame
  <2> QED
    BY <2>2, <2>3 DEF HandedInOrder, Busy
<1>9. CASE Crash
  <2>1. RoundIds' = RoundIds /\ \A q \in RoundIds : rounds'[q].msg = rounds[q].msg /\ rounds'[q].stage = "done"
    BY <1>1, <1>9, CrashRounds
  <2>2. inbox' = <<>> /\ DOMAIN inbox' = {} /\ acked' = acked
    BY <1>9, CrashFrame
  <2> QED
    BY <2>1, <2>2 DEF HandedInOrder, Busy
<1> QED
  BY <1>2, <1>3, <1>4, <1>5, <1>6, <1>7, <1>8, <1>9 DEF Next, Consumer

\* What holds until a handler outlives its connection. What is waiting or in
\* a loop is of the present connection and not acknowledged; only the last
\* round can be in its loop.
InWorkIsNew ==
    /\ \A i \in DOMAIN inbox : inbox[i].epoch = epoch /\ inbox[i].msg \notin acked
    /\ \A r \in RoundIds : rounds[r].stage = "loop" =>
          rounds[r].epoch = epoch /\ rounds[r].msg \notin acked /\ r = Len(rounds)

\* Rounds begin in the order of their connections and of their messages.
RoundsInOrder ==
    \A r, s \in RoundIds : r <= s => rounds[r].epoch <= rounds[s].epoch /\ rounds[r].msg <= rounds[s].msg

\* Each channel is written the rounds in order.
WritesInOrder ==
    \A k \in Clients :
        /\ Increasing(received[k]) /\ Increasing(outbox[k])
        /\ \A r \in Range(received[k]), s \in Range(outbox[k]) : r < s

\* A channel that has been written a round belongs to the later ones.
WritesContinue ==
    \A k \in Clients : \A r \in Written(k), s \in RoundIds :
        r < s /\ channel[k] = "open" => k \in rounds[s].present

\* No channel still buffers a message that is acknowledged.
BufferedIsNew == \A k \in Clients : \A r \in Range(outbox[k]) : rounds[r].msg \notin acked

Undisturbed ==
    ~overlapped => InWorkIsNew /\ RoundsInOrder /\ WritesInOrder /\ WritesContinue /\ BufferedIsNew

\* The parts of the invariant that the proof of this one needs.
Founded == Typed /\ VisitedWritten /\ OneInWork /\ OnePerConnection /\ HandedInOrder

\* Numbers.
LEMMA FoundedNumbers ==
  ASSUME Founded
  PROVE  /\ TypeOK /\ Typed /\ epoch \in Nat
         /\ \A i \in DOMAIN inbox : inbox[i].epoch \in Nat /\ inbox[i].msg \in Nat /\ inbox[i].msg >= 1
         /\ \A r \in RoundIds : /\ r \in Nat /\ r <= Len(rounds) /\ rounds[r].epoch \in Nat /\ rounds[r].msg \in Nat
                                /\ rounds[r].msg >= 1 /\ rounds[r].present \subseteq Clients
         /\ \A k \in Clients : /\ Range(outbox[k]) \subseteq RoundIds /\ Range(received[k]) \subseteq RoundIds
                               /\ outbox[k] \in Seq(Nat) /\ received[k] \in Seq(Nat)
<1>1. Typed /\ TypeOK
  BY DEF Founded, Typed
<1>2. epoch \in Nat
  BY <1>1, ReceiverAssumption DEF TypeOK
<1>3. \A i \in DOMAIN inbox : inbox[i].epoch \in Nat /\ inbox[i].msg \in Nat /\ inbox[i].msg >= 1
  BY <1>1, Fields, ReceiverAssumption DEF Messages, Epochs
<1>4. \A r \in RoundIds : /\ r \in Nat /\ r <= Len(rounds) /\ rounds[r].epoch \in Nat /\ rounds[r].msg \in Nat
                          /\ rounds[r].msg >= 1 /\ rounds[r].present \subseteq Clients
  BY <1>1, Fields, ReceiverAssumption DEF Messages, Epochs
<1>5. \A k \in Clients : outbox[k] \in Seq(Nat) /\ received[k] \in Seq(Nat)
  BY <1>1 DEF TypeOK
<1>6. \A k \in Clients : Range(outbox[k]) \subseteq RoundIds /\ Range(received[k]) \subseteq RoundIds
  BY DEF Founded, VisitedWritten, Written
<1> QED
  BY <1>1, <1>2, <1>3, <1>4, <1>5, <1>6

\* The broker and the connection: a new delivery is the next message, and a
\* connection that comes back finds nothing in work.
LEMMA UndisturbedBroker ==
  ASSUME Founded, Undisturbed,
         Publish \/ Deliver \/ StartListener \/ LoseConnection \/ Recover
  PROVE  Undisturbed'
<1> SUFFICES ASSUME ~overlapped'
             PROVE  (InWorkIsNew /\ RoundsInOrder /\ WritesInOrder /\ WritesContinue /\ BufferedIsNew)'
  BY DEF Undisturbed
<1>1. /\ UNCHANGED <<acked, rounds, channel, outbox, received>> /\ RoundIds' = RoundIds
      /\ \A k \in Clients : Written(k)' = Written(k)
  BY BrokerFrame
<1>2. ~overlapped
  <2>1. overlapped' = overlapped \/ overlapped' = (overlapped \/ Busy)
    BY DEF Publish, Deliver, StartListener, LoseConnection, Recover
  <2> QED
    BY <2>1
<1>3. InWorkIsNew /\ RoundsInOrder /\ WritesInOrder /\ WritesContinue /\ BufferedIsNew
  BY <1>2 DEF Undisturbed
<1>4. RoundsInOrder' /\ WritesInOrder' /\ BufferedIsNew'
  BY <1>1, <1>3 DEF RoundsInOrder, WritesInOrder, BufferedIsNew
<1>5. WritesContinue'
  BY <1>1, <1>3 DEF WritesContinue
<1>6. CASE Publish \/ LoseConnection
  BY <1>1, <1>3, <1>4, <1>5, <1>6 DEF Publish, LoseConnection, InWorkIsNew
<1>7. CASE StartListener \/ Recover
  <2>1. ~Busy
    <3>1. CASE StartListener
      BY <3>1 DEF StartListener, Founded, HandedInOrder
    <3>2. CASE Recover
      BY <3>2 DEF Recover
    <3> QED
      BY <1>7, <3>1, <3>2
  <2>2. inbox' = inbox /\ DOMAIN inbox = {}
    <3>1. inbox' = inbox
      BY <1>7, ConnectFrame
    <3>2. inbox = <<>>
      BY <2>1 DEF Busy
    <3> QED
      BY <3>1, <3>2
  <2>3. \A r \in RoundIds : rounds[r].stage # "loop"
    BY <2>1 DEF Busy
  <2> QED
    BY <1>1, <1>4, <1>5, <2>2, <2>3 DEF InWorkIsNew
<1>8. CASE Deliver
  <2>1. PICK m \in Ready : inbox' = Append(inbox, [msg |-> m, epoch |-> epoch])
    BY <1>8, DeliverWhenSettled, FoundedNumbers
  <2>2. listener = "up" /\ epoch' = epoch /\ m \notin acked
    BY <1>8 DEF Deliver, Ready
  <2>3. \A i \in DOMAIN inbox' : \/ i \in DOMAIN inbox /\ inbox'[i] = inbox[i]
                                 \/ inbox'[i].msg = m /\ inbox'[i].epoch = epoch
    BY <2>1, <2>2, DeliverAppends, FoundedNumbers
  <2> QED
    BY <1>1, <1>3, <1>4, <1>5, <2>2, <2>3 DEF InWorkIsNew
<1> QED
  BY <1>6, <1>7, <1>8

\* A handler begins the round of the only message in work.
LEMMA UndisturbedBegin ==
  ASSUME Founded, Undisturbed, Begin
  PROVE  Undisturbed'
<1> SUFFICES ASSUME ~overlapped'
             PROVE  (InWorkIsNew /\ RoundsInOrder /\ WritesInOrder /\ WritesContinue /\ BufferedIsNew)'
  BY DEF Undisturbed
<1>1. InWorkIsNew /\ RoundsInOrder /\ WritesInOrder /\ WritesContinue /\ BufferedIsNew
  BY DEF Undisturbed, Begin
<1>2. PICK i \in DOMAIN inbox : BeginTakes(i)
  BY BeginRounds, FoundedNumbers
<1>3. /\ UNCHANGED <<acked, epoch, channel, outbox, received>>
      /\ \A k \in Clients : Written(k)' = Written(k)
  BY DEF Begin, brokerVars, clientVars, Written
<1> DEFINE n == Len(rounds')
<1>4. /\ RoundIds' = RoundIds \cup {n} /\ n \notin RoundIds /\ n \in Nat
      /\ \A r \in RoundIds : rounds'[r] = rounds[r] /\ r < n
      /\ rounds'[n].epoch = inbox[i].epoch /\ rounds'[n].msg = inbox[i].msg
      /\ rounds'[n].present = Open
  BY <1>2, Fields, FoundedNumbers DEF BeginTakes
<1> HIDE DEF n
<1>5. inbox[i].epoch = epoch /\ inbox[i].msg \notin acked
  BY <1>1 DEF InWorkIsNew
<1>6. \A r \in RoundIds : rounds[r].stage # "loop"
  BY <1>1, <1>2, <1>5 DEF InWorkIsNew, BeginTakes
<1>7. \A j \in DOMAIN inbox' : \E o \in DOMAIN inbox : inbox'[j] = inbox[o]
  BY <1>2 DEF BeginTakes
<1>8. InWorkIsNew'
  BY <1>1, <1>3, <1>4, <1>5, <1>6, <1>7 DEF InWorkIsNew, n
<1>9. RoundsInOrder'
  <2>1. ASSUME NEW r \in RoundIds PROVE rounds[r].epoch <= inbox[i].epoch /\ rounds[r].msg <= inbox[i].msg
    <3>1. rounds[r].epoch <= epoch
      BY DEF Founded, OneInWork
    <3>2. 1..(rounds[r].msg - 1) \subseteq acked
      BY DEF Founded, HandedInOrder
    <3>3. rounds[r].msg \in Nat /\ inbox[i].msg \in Nat /\ inbox[i].msg >= 1
      BY FoundedNumbers
    <3>4. ~(inbox[i].msg \in 1..(rounds[r].msg - 1))
      BY <1>5, <3>2
    <3>5. rounds[r].msg <= inbox[i].msg
      BY <3>3, <3>4
    <3> QED
      BY <1>5, <3>1, <3>5
  <2>2. inbox[i].epoch <= inbox[i].epoch /\ inbox[i].msg <= inbox[i].msg
    BY FoundedNumbers
  <2>3. \A r \in RoundIds : r \in Nat
    BY FoundedNumbers
  <2>4. \A s \in RoundIds : ~(n <= s)
    BY <1>4, <2>3
  <2> QED
    BY <1>1, <1>4, <2>1, <2>2, <2>4 DEF RoundsInOrder
<1>10. WritesInOrder'
  BY <1>1, <1>3 DEF WritesInOrder
<1>11. WritesContinue'
  BY <1>1, <1>3, <1>4 DEF WritesContinue, Open
<1>12. BufferedIsNew'
  <2>1. \A k \in Clients : Range(outbox[k]) \subseteq RoundIds
    BY FoundedNumbers
  <2> QED
    BY <1>1, <1>3, <1>4, <2>1 DEF BufferedIsNew
<1> QED
  BY <1>8, <1>9, <1>10, <1>11, <1>12

\* A turn of the loop writes the last round.
LEMMA UndisturbedVisit ==
  ASSUME Founded, Undisturbed, NEW r \in RoundIds, NEW k \in Clients, Visit(r, k)
  PROVE  Undisturbed'
<1> SUFFICES ASSUME ~overlapped'
             PROVE  (InWorkIsNew /\ RoundsInOrder /\ WritesInOrder /\ WritesContinue /\ BufferedIsNew)'
  BY DEF Undisturbed
<1>1. InWorkIsNew /\ RoundsInOrder /\ WritesInOrder /\ WritesContinue /\ BufferedIsNew
  BY DEF Undisturbed, Visit
<1>2. /\ RoundIds' = RoundIds /\ Len(rounds') = Len(rounds)
      /\ \A q \in RoundIds : /\ rounds'[q].msg = rounds[q].msg /\ rounds'[q].epoch = rounds[q].epoch
                             /\ rounds'[q].present = rounds[q].present /\ rounds'[q].stage = rounds[q].stage
  BY VisitRounds, FoundedNumbers
<1>3. UNCHANGED <<acked, epoch, inbox>>
  BY DEF Visit, brokerVars
<1>4. /\ received' = received /\ channel' = channel
      /\ \A c \in Clients \ {k} : outbox'[c] = outbox[c]
      /\ channel[k] = "open" => outbox'[k] = Append(outbox[k], r) /\ Range(outbox'[k]) = Range(outbox[k]) \cup {r}
      /\ channel[k] # "open" => outbox'[k] = outbox[k]
  BY VisitWrites, FoundedNumbers
<1>5. rounds[r].msg \notin acked /\ r = Len(rounds) /\ rounds[r].stage = "loop"
  BY <1>1 DEF InWorkIsNew, Visit
<1>6. \A q \in Written(k) : q < r
  <2> SUFFICES ASSUME NEW q \in Written(k) PROVE q < r
    OBVIOUS
  <2>1. r \notin Written(k)
    BY DEF Visit, Founded, OnePerConnection
  <2>2. q \in RoundIds
    BY DEF Founded, VisitedWritten
  <2>3. q \in Nat /\ q <= Len(rounds) /\ r \in Nat
    BY <2>2, FoundedNumbers
  <2> QED
    BY <1>5, <2>1, <2>3
<1>7. InWorkIsNew'
  BY <1>1, <1>2, <1>3 DEF InWorkIsNew
<1>8. RoundsInOrder'
  BY <1>1, <1>2 DEF RoundsInOrder
<1>9. WritesInOrder'
  <2> SUFFICES ASSUME NEW c \in Clients
               PROVE  /\ Increasing(received[c]) /\ Increasing(outbox'[c])
                      /\ \A q \in Range(received[c]), s \in Range(outbox'[c]) : q < s
    BY <1>4 DEF WritesInOrder
  <2>1. CASE outbox'[c] = outbox[c]
    BY <1>1, <2>1 DEF WritesInOrder
  <2>2. CASE c = k /\ outbox'[k] = Append(outbox[k], r) /\ Range(outbox'[k]) = Range(outbox[k]) \cup {r}
    <3>1. Increasing(outbox'[k])
      BY <1>1, <1>6, <2>2, FoundedNumbers, IncreasingAppend DEF WritesInOrder, Written
    <3>2. \A q \in Range(received[k]), s \in Range(outbox'[k]) : q < s
      BY <1>1, <1>6, <2>2 DEF WritesInOrder, Written
    <3> QED
      BY <1>1, <2>2, <3>1, <3>2 DEF WritesInOrder
  <2> QED
    BY <1>4, <2>1, <2>2
<1>10. WritesContinue'
  <2> SUFFICES ASSUME NEW c \in Clients, NEW q \in Written(c)', NEW s \in RoundIds, q < s, channel[c] = "open"
               PROVE  c \in rounds[s].present
    BY <1>2, <1>4 DEF WritesContinue
  <2>1. q \in Written(c) \/ q = r
    BY <1>4 DEF Written
  <2>2. s <= Len(rounds) /\ s \in Nat /\ r \in Nat
    BY FoundedNumbers
  <2>3. q # r
    BY <1>5, <2>2
  <2> QED
    BY <1>1, <2>1, <2>3 DEF WritesContinue
<1>11. BufferedIsNew'
  <2> SUFFICES ASSUME NEW c \in Clients, NEW q \in Range(outbox'[c]) PROVE rounds'[q].msg \notin acked
    BY <1>3 DEF BufferedIsNew
  <2>1. q \in Range(outbox[c]) \/ q = r
    BY <1>4
  <2>2. q \in RoundIds /\ rounds[q].msg \notin acked
    BY <1>1, <1>5, <2>1, FoundedNumbers DEF BufferedIsNew
  <2> QED
    BY <1>2, <2>2
<1> QED
  BY <1>7, <1>8, <1>9, <1>10, <1>11

\* When a round is acknowledged, no other is in work, and no channel buffers
\* another round of its message: an earlier one would be before it in the
\* channel, whose socket has taken it; a later one has not begun.
LEMMA UndisturbedStage ==
  ASSUME Founded, Undisturbed, NEW r \in RoundIds, EndLoop(r) \/ AckRound(r)
  PROVE  Undisturbed'
<1> SUFFICES ASSUME ~overlapped'
             PROVE  (InWorkIsNew /\ RoundsInOrder /\ WritesInOrder /\ WritesContinue /\ BufferedIsNew)'
  BY DEF Undisturbed
<1>1. /\ UNCHANGED <<published, listener, epoch, inbox, channel, outbox, received, overlapped>>
      /\ \A c \in Clients : Written(c)' = Written(c)
  BY StageFrame DEF Written
<1>2. InWorkIsNew /\ RoundsInOrder /\ WritesInOrder /\ WritesContinue /\ BufferedIsNew
  BY <1>1 DEF Undisturbed
<1>3. PICK St \in {"flush", "done"} : SetStage(r, St) /\ rounds[r].stage # "done"
  BY StageFrame
<1>4. /\ RoundIds' = RoundIds /\ Len(rounds') = Len(rounds)
      /\ \A q \in RoundIds : /\ rounds'[q].msg = rounds[q].msg /\ rounds'[q].epoch = rounds[q].epoch
                             /\ rounds'[q].present = rounds[q].present
                             /\ rounds'[q].stage = IF q = r THEN St ELSE rounds[q].stage
  BY <1>3, StageRounds, FoundedNumbers
<1>5. RoundsInOrder' /\ WritesContinue'
  BY <1>1, <1>2, <1>4 DEF RoundsInOrder, WritesContinue
<1>6. WritesInOrder'
  BY <1>1, <1>2 DEF WritesInOrder
<1>7. \A c \in Clients : Range(outbox[c]) \subseteq RoundIds
  BY FoundedNumbers
<1>8. CASE acked' = acked
  <2>1. InWorkIsNew'
    BY <1>1, <1>2, <1>4, <1>8 DEF InWorkIsNew
  <2>2. BufferedIsNew'
    BY <1>1, <1>2, <1>4, <1>7, <1>8 DEF BufferedIsNew
  <2> QED
    BY <1>5, <1>6, <2>1, <2>2
<1>9. CASE acked' = acked \cup {rounds[r].msg} /\ rounds[r].epoch = epoch /\ rounds[r].stage = "flush" /\ AckRound(r)
  <2>1. \A i \in DOMAIN inbox : inbox[i].epoch # epoch
    BY <1>9 DEF Founded, OneInWork
  <2>2. \A q \in RoundIds : q # r /\ rounds[q].epoch = epoch => rounds[q].stage = "done" /\ q < r
    <3> SUFFICES ASSUME NEW q \in RoundIds, q # r, rounds[q].epoch = epoch PROVE rounds[q].stage = "done" /\ q < r
      OBVIOUS
    <3>1. q \in Nat /\ r \in Nat
      BY FoundedNumbers
    <3>2. ~(r < q)
      BY <1>9 DEF Founded, OneInWork
    <3>3. q < r
      BY <3>1, <3>2
    <3> QED
      BY <1>9, <3>3 DEF Founded, OneInWork
  <2>3. InWorkIsNew'
    <3>1. DOMAIN inbox' = {}
      BY <1>1, <1>2, <2>1 DEF InWorkIsNew
    <3>2. \A q \in RoundIds' : rounds'[q].stage # "loop"
      BY <1>2, <1>3, <1>4, <2>2 DEF InWorkIsNew
    <3> QED
      BY <3>1, <3>2 DEF InWorkIsNew
  <2>4. ASSUME NEW c \in Clients, NEW s \in Range(outbox[c]) PROVE rounds[s].msg # rounds[r].msg
    <3> SUFFICES ASSUME rounds[s].msg = rounds[r].msg PROVE FALSE
      OBVIOUS
    <3>1. s \in RoundIds /\ s # r
      BY <1>7, <1>9 DEF AckRound, AllWritesComplete
    <3>2. s \in Nat /\ r \in Nat /\ rounds[s].epoch \in Nat /\ epoch \in Nat
      BY <3>1, FoundedNumbers
    <3>3. s < r
      <4>1. CASE r < s
        <5>1. rounds[r].epoch <= rounds[s].epoch /\ rounds[s].epoch <= epoch
          BY <1>2, <3>1, <3>2, <4>1 DEF RoundsInOrder, Founded, OneInWork
        <5>2. rounds[s].epoch = epoch
          BY <1>9, <3>2, <5>1
        <5> QED
          BY <2>2, <3>1, <5>2
      <4> QED
        BY <3>1, <3>2, <4>1
    <3>4. channel[c] = "open"
      <4>1. outbox[c] # <<>>
        BY EmptyRange
      <4> QED
        BY <4>1, FoundedNumbers DEF TypeOK
    <3>5. c \in rounds[r].present
      BY <1>2, <3>3, <3>4 DEF WritesContinue, Written
    <3>6. r \in Written(c)
      BY <1>9, <3>4, <3>5 DEF Founded, VisitedWritten
    <3>7. r \in Range(received[c])
      BY <1>9, <3>6 DEF Written, AckRound, AllWritesComplete
    <3>8. r < s
      BY <1>2, <3>7 DEF WritesInOrder
    <3> QED
      BY <3>2, <3>3, <3>8
  <2>5. BufferedIsNew'
    BY <1>1, <1>2, <1>4, <1>7, <1>9, <2>4 DEF BufferedIsNew
  <2> QED
    BY <1>5, <1>6, <2>3, <2>5
<1> QED
  <2>1. acked' = acked \/ (acked' = acked \cup {rounds[r].msg} /\ rounds[r].epoch = epoch /\ rounds[r].stage = "flush" /\ AckRound(r))
    <3>1. CASE EndLoop(r)
      BY <3>1 DEF EndLoop, brokerVars
    <3>2. CASE AckRound(r)
      BY <3>2, StageFrame
    <3> QED
      BY <3>1, <3>2
  <2> QED
    BY <1>8, <1>9, <2>1

\* The channels and the death of the server: the queue stays as it is.
LEMMA UndisturbedChannels ==
  ASSUME Founded, Undisturbed,
         Crash \/ \E k \in Clients : ChannelActive(k) \/ Flush(k) \/ Close(k)
  PROVE  Undisturbed'
<1> SUFFICES ASSUME ~overlapped'
             PROVE  (InWorkIsNew /\ RoundsInOrder /\ WritesInOrder /\ WritesContinue /\ BufferedIsNew)'
  BY DEF Undisturbed
<1>1. overlapped' = overlapped /\ acked' = acked /\ epoch' = epoch
  BY CrashFrame DEF ChannelActive, Flush, Close, brokerVars
<1>2. InWorkIsNew /\ RoundsInOrder /\ WritesInOrder /\ WritesContinue /\ BufferedIsNew
  BY <1>1 DEF Undisturbed
<1>3. \A c \in Clients : Range(outbox[c]) \subseteq RoundIds
  BY FoundedNumbers
<1>4. CASE Crash
  <2>1. /\ RoundIds' = RoundIds
        /\ \A q \in RoundIds : /\ rounds'[q].msg = rounds[q].msg /\ rounds'[q].epoch = rounds[q].epoch
                               /\ rounds'[q].stage = "done"
    BY <1>4, CrashRounds, FoundedNumbers
  <2>2. /\ received' = received /\ DOMAIN inbox' = {}
        /\ \A c \in Clients : channel'[c] # "open" /\ outbox'[c] = <<>>
    BY <1>4, CrashFrame
  <2>3. \A c \in Clients : Range(outbox'[c]) = {} /\ Increasing(outbox'[c])
    BY <2>2, EmptyRange DEF Increasing
  <2>4. InWorkIsNew' /\ WritesContinue' /\ BufferedIsNew'
    BY <2>1, <2>2, <2>3 DEF InWorkIsNew, WritesContinue, BufferedIsNew
  <2>5. RoundsInOrder'
    BY <1>2, <2>1 DEF RoundsInOrder
  <2>6. WritesInOrder'
    BY <1>2, <2>2, <2>3 DEF WritesInOrder
  <2> QED
    BY <2>4, <2>5, <2>6
<1>5. ASSUME NEW k \in Clients, ChannelActive(k)
      PROVE  (InWorkIsNew /\ RoundsInOrder /\ WritesInOrder /\ WritesContinue /\ BufferedIsNew)'
  <2>1. /\ RoundIds' = RoundIds /\ Len(rounds') = Len(rounds)
        /\ \A q \in RoundIds : /\ rounds'[q].msg = rounds[q].msg /\ rounds'[q].epoch = rounds[q].epoch
                               /\ rounds'[q].present = rounds[q].present /\ rounds'[q].stage = rounds[q].stage
    BY <1>5, JoinRounds, FoundedNumbers
  <2>2. /\ UNCHANGED <<inbox, outbox, received>> /\ channel[k] = "new"
        /\ \A c \in Clients : Written(c)' = Written(c)
        /\ \A c \in Clients \ {k} : channel'[c] = channel[c]
    BY <1>5, FoundedNumbers DEF ChannelActive, Written, TypeOK
  <2>3. Written(k) = {}
    BY <2>2, EmptyRange, FoundedNumbers DEF Founded, OnePerConnection, TypeOK, Written
  <2>4. InWorkIsNew'
    BY <1>1, <1>2, <2>1, <2>2 DEF InWorkIsNew
  <2>5. RoundsInOrder'
    BY <1>2, <2>1 DEF RoundsInOrder
  <2>6. WritesInOrder'
    BY <1>2, <2>2 DEF WritesInOrder
  <2>7. WritesContinue'
    BY <1>2, <2>1, <2>2, <2>3 DEF WritesContinue
  <2>8. BufferedIsNew'
    BY <1>1, <1>2, <1>3, <2>1, <2>2 DEF BufferedIsNew
  <2> QED
    BY <2>4, <2>5, <2>6, <2>7, <2>8
<1>6. ASSUME NEW k \in Clients, Flush(k)
      PROVE  (InWorkIsNew /\ RoundsInOrder /\ WritesInOrder /\ WritesContinue /\ BufferedIsNew)'
  <2>1. /\ UNCHANGED <<inbox, rounds, channel>> /\ RoundIds' = RoundIds
        /\ outbox[k] # <<>> /\ outbox[k] \in Seq(Nat) /\ received[k] \in Seq(Nat)
        /\ outbox'[k] = Tail(outbox[k]) /\ received'[k] = Append(received[k], Head(outbox[k]))
        /\ Range(outbox[k]) = {Head(outbox[k])} \cup Range(outbox'[k])
        /\ Range(received'[k]) = Range(received[k]) \cup {Head(outbox[k])}
        /\ \A c \in Clients \ {k} : outbox'[c] = outbox[c] /\ received'[c] = received[c]
        /\ \A c \in Clients : Written(c)' = Written(c)
    BY <1>6, FlushMoves, FoundedNumbers DEF Flush
  <2>2. InWorkIsNew' /\ RoundsInOrder' /\ WritesContinue'
    BY <1>1, <1>2, <2>1 DEF InWorkIsNew, RoundsInOrder, WritesContinue
  <2>3. BufferedIsNew'
    BY <1>1, <1>2, <2>1 DEF BufferedIsNew
  <2>4. /\ Increasing(received[k]) /\ Increasing(outbox[k])
        /\ \A q \in Range(received[k]), s \in Range(outbox[k]) : q < s
    BY <1>2 DEF WritesInOrder
  <2>5. Increasing(outbox'[k]) /\ \A s \in Range(outbox'[k]) : Head(outbox[k]) < s
    BY <2>1, <2>4, IncreasingTail
  <2>6. Increasing(received'[k])
    <3>1. Head(outbox[k]) \in Nat /\ \A q \in Range(received[k]) : q < Head(outbox[k])
      BY <2>1, <2>4, HeadTailProperties
    <3> QED
      BY <2>1, <2>4, <3>1, IncreasingAppend
  <2>7. \A q \in Range(received'[k]), s \in Range(outbox'[k]) : q < s
    BY <2>1, <2>4, <2>5
  <2>8. WritesInOrder'
    BY <1>2, <2>1, <2>5, <2>6, <2>7 DEF WritesInOrder
  <2> QED
    BY <2>2, <2>3, <2>8
<1>7. ASSUME NEW k \in Clients, Close(k)
      PROVE  (InWorkIsNew /\ RoundsInOrder /\ WritesInOrder /\ WritesContinue /\ BufferedIsNew)'
  <2>1. /\ UNCHANGED <<inbox, rounds, received>> /\ RoundIds' = RoundIds
        /\ outbox'[k] = <<>> /\ channel'[k] = "closed"
        /\ \A c \in Clients \ {k} : outbox'[c] = outbox[c] /\ channel'[c] = channel[c]
    BY <1>7, FoundedNumbers DEF Close, RoundIds, TypeOK
  <2>2. Range(outbox'[k]) = {} /\ Increasing(outbox'[k])
    BY <2>1, EmptyRange DEF Increasing
  <2>3. InWorkIsNew' /\ RoundsInOrder'
    BY <1>1, <1>2, <2>1 DEF InWorkIsNew, RoundsInOrder
  <2>4. WritesInOrder'
    BY <1>2, <2>1, <2>2 DEF WritesInOrder
  <2>5. WritesContinue'
    BY <1>2, <2>1 DEF WritesContinue, Written
  <2>6. BufferedIsNew'
    BY <1>1, <1>2, <2>1, <2>2 DEF BufferedIsNew
  <2> QED
    BY <2>3, <2>4, <2>5, <2>6
<1> QED
  BY <1>4, <1>5, <1>6, <1>7

LEMMA UndisturbedInvariant == Spec => [](HandedInOrder /\ Undisturbed)
<1>1. Init => HandedInOrder /\ Undisturbed
  <2> SUFFICES ASSUME Init PROVE HandedInOrder /\ Undisturbed
    OBVIOUS
  <2>1. /\ DOMAIN inbox = {} /\ RoundIds = {} /\ inbox = <<>>
        /\ \A k \in Clients : outbox[k] = <<>> /\ received[k] = <<>>
    BY DEF Init, RoundIds
  <2>2. \A k \in Clients : /\ Range(outbox[k]) = {} /\ Range(received[k]) = {}
                           /\ Increasing(outbox[k]) /\ Increasing(received[k])
    BY <2>1, EmptyRange DEF Increasing
  <2> QED
    BY <2>1, <2>2 DEF HandedInOrder, Busy, Undisturbed, InWorkIsNew, RoundsInOrder, WritesInOrder,
       WritesContinue, BufferedIsNew, Written
<1>2. Founded /\ Undisturbed /\ [Next]_vars => Undisturbed'
  <2> SUFFICES ASSUME Founded, Undisturbed, [Next]_vars PROVE Undisturbed'
    OBVIOUS
  <2>1. CASE UNCHANGED vars
    BY <2>1 DEF vars, Undisturbed, InWorkIsNew, RoundsInOrder, WritesInOrder, WritesContinue, BufferedIsNew,
       Written, RoundIds
  <2> QED
    BY <2>1, UndisturbedBroker, UndisturbedBegin, UndisturbedVisit, UndisturbedStage, UndisturbedChannels
       DEF Next, Consumer
<1>3. Typed /\ VisitedWritten /\ HandedInOrder /\ [Next]_vars => HandedInOrder'
  BY HandedStep
<1> QED
  BY <1>1, <1>2, <1>3, TypedInvariant, VisitedInvariant, BufferInvariant, PTL DEF Spec, Founded

\* The messages of increasing rounds do not decrease.
LEMMA StreamsInOrder ==
  ASSUME Founded, Undisturbed
  PROVE  InQueueOrder
<1> SUFFICES ASSUME ~overlapped, NEW k \in Clients, NEW i \in DOMAIN Stream(k), NEW j \in DOMAIN Stream(k), i <= j
             PROVE  Stream(k)[i] <= Stream(k)[j]
  BY DEF InQueueOrder
<1> DEFINE s == received[k] \o outbox[k]
<1>1. /\ received[k] \in Seq(Nat) /\ outbox[k] \in Seq(Nat)
      /\ Range(outbox[k]) \subseteq RoundIds /\ Range(received[k]) \subseteq RoundIds
  BY FoundedNumbers
<1>2. RoundsInOrder /\ Increasing(s)
  BY <1>1, IncreasingConcat DEF Undisturbed, WritesInOrder
<1>3. s \in Seq(Nat) /\ Range(s) = Range(received[k]) \cup Range(outbox[k])
  BY <1>1, ConcatProperties, RangeConcatenation
<1>4. Stream(k) = [n \in DOMAIN s |-> rounds[s[n]].msg]
  BY DEF Stream, MessagesOf
<1> HIDE DEF s
<1>5. /\ i \in DOMAIN s /\ j \in DOMAIN s
      /\ Stream(k)[i] = rounds[s[i]].msg /\ Stream(k)[j] = rounds[s[j]].msg
  BY <1>4
<1>6. s[i] \in RoundIds /\ s[j] \in RoundIds
  BY <1>1, <1>3, <1>5 DEF Range
<1>7. i \in Nat /\ j \in Nat /\ s[i] \in Nat /\ s[j] \in Nat
  BY <1>3, <1>5
<1>8. s[i] <= s[j]
  <2>1. CASE i = j
    BY <1>7, <2>1
  <2>2. CASE i < j
    BY <1>2, <1>5, <1>7, <2>2 DEF Increasing
  <2> QED
    BY <1>7, <2>1, <2>2
<1> QED
  BY <1>2, <1>5, <1>6, <1>8 DEF RoundsInOrder

\* Two messages that are handed out and not acknowledged are the same.
LEMMA OneBuffered ==
  ASSUME Founded, Undisturbed
  PROVE  OneMessageBuffered
<1> SUFFICES ASSUME ~overlapped, NEW k \in Clients, NEW l \in Clients,
                    NEW r \in Range(outbox[k]), NEW s \in Range(outbox[l])
             PROVE  rounds[r].msg = rounds[s].msg
  BY DEF OneMessageBuffered
<1>1. r \in RoundIds /\ s \in RoundIds
  BY FoundedNumbers
<1>2. /\ rounds[r].msg \in Nat /\ rounds[r].msg >= 1
      /\ rounds[s].msg \in Nat /\ rounds[s].msg >= 1
  BY <1>1, FoundedNumbers
<1>3. rounds[r].msg \notin acked /\ rounds[s].msg \notin acked
  BY DEF Undisturbed, BufferedIsNew
<1>4. 1..(rounds[r].msg - 1) \subseteq acked /\ 1..(rounds[s].msg - 1) \subseteq acked
  BY <1>1 DEF Founded, HandedInOrder
<1>5. ~(rounds[r].msg < rounds[s].msg) /\ ~(rounds[s].msg < rounds[r].msg)
  BY <1>2, <1>3, <1>4
<1> QED
  BY <1>2, <1>5

\* Each client is sent the messages in queue order, redeliveries included, as
\* long as no handler outlives its connection until the next one is there.
THEOREM SentInQueueOrder == Spec => []InQueueOrder
BY StreamsInOrder, TypedInvariant, VisitedInvariant, BufferInvariant, UndisturbedInvariant, PTL DEF Founded

\* Under the same proviso the channels together buffer one message at a time.
THEOREM OneMessageAtATime == Spec => []OneMessageBuffered
BY OneBuffered, TypedInvariant, VisitedInvariant, BufferInvariant, UndisturbedInvariant, PTL DEF Founded
=============================================================================
