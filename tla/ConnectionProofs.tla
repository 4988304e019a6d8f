-------------------------- MODULE ConnectionProofs --------------------------
(***************************************************************************)
(* First, when packets are supplied on the producer's main thread, the     *)
(* push window is respected, for every window and any number of packets,   *)
(* flushes and reconnections.                                              *)
(*                                                                         *)
(* That a demand on record never asks for more than the window holds is    *)
(* not inductive: the demand a handler has computed but not signalled, and *)
(* the one SupplyPacket has not returned yet, must be sound as well, and a *)
(* demand recorded without a consumer must be gone when one is connected.  *)
(*                                                                         *)
(* Then, whichever thread supplies them, packets are delivered in order.   *)
(*                                                                         *)
(* Last, the WAV player: PlaysWhole for every file and every size of the   *)
(* buffer with room for a chunk above its high mark.  What makes it        *)
(* inductive: the player has taken from the body what it has put into the  *)
(* pipe, so the packet that empties the data chunk ends where the chunk    *)
(* does; and a pipe that signals is below its high mark.                   *)
(***************************************************************************)
EXTENDS Connection, WavPlayer, TLAPS

\* How long the solver may work on a leaf, in seconds.
USE SMTT(30)

\* A demand that may be recorded now: it asks for a packet only if the window
\* has room, and is neutral only without a consumer.
Sound(demand) ==
    /\ demand \in Demands
    /\ demand = "positive" => bound /\ current < max
    /\ demand = "neutral" => ~bound

\* Only one thread: a supply in progress and a handler that holds a demand
\* exclude each other.
Exclusive == supply # "idle" => main.at \in {"idle", "primeRest", "sentRest"}

\* A connection that is gone owes nothing.
Owed ==
    ~bound => toProducer = <<>> /\ toConsumer = <<>> /\ held = <<>>
              /\ releases = <<>> /\ ~flushOwed

Typed ==
    /\ max \in {0, Limit} /\ current \in Int
    /\ main = [at |-> main.at, demand |-> main.demand, ended |-> main.ended]
    /\ main.demand \in Demands
    /\ supply \in Demands \cup {"idle"}
    /\ sinkDemand \in Demands

Demanding ==
    /\ main.at \in {"prime", "sent"} => Sound(main.demand)
    /\ supply # "idle" => Sound(supply)
    /\ supply = "idle" => Sound(sinkDemand)
    /\ sinkDemand = "positive" => bound
    /\ sinkDemand = "neutral" => ~bound

Handling ==
    /\ main.at \in {"sent", "sentRest"} => bound
    /\ main.at \in {"prime", "primeRest"} => client = "priming"
    /\ main.at = "flush" => client = "flushing" /\ sinkDemand = "negative"
    /\ ~bound /\ client = "flushed" => supply = "idle" /\ sinkDemand = "negative"
    /\ endOfStream => upstreamEnded \/ main.at = "flush"

WInv == Typed /\ Exclusive /\ Owed /\ Demanding /\ Handling

\* Where the main thread supplies the packets, every step of the connection keeps the invariant.
LEMMA StepKeepsWInv ==
    ASSUME supplier = "main", WInv, [Next]_vars
    PROVE  WInv'
<1> USE ConnectionAssumption DEF WInv, Typed, Exclusive, Owed, Demanding, Handling,
        Sound, Demands, MainFree, Idle
<1>Connect. CASE Connect
  BY <1>Connect DEF Connect, producer, threads, upstream, consumer
<1>Disconnect. CASE Disconnect
  BY <1>Disconnect DEF Disconnect, producer, threads, upstream, consumer
<1>PrimeConnection. CASE PrimeConnection
  BY <1>PrimeConnection DEF PrimeConnection, producer, threads, upstream, consumer, WindowDemand
<1>PrimeSignals. CASE PrimeSignals
  BY <1>PrimeSignals DEF PrimeSignals, producer, threads, upstream, consumer
<1>PrimeContinues. CASE PrimeContinues
  BY <1>PrimeContinues DEF PrimeContinues, producer, threads, upstream, consumer, Returned
<1>FlushConnection. CASE FlushConnection
  BY <1>FlushConnection DEF FlushConnection, producer, threads, upstream, consumer
<1>FlushContinues. CASE FlushContinues
  BY <1>FlushContinues DEF FlushContinues, producer, threads, upstream, consumer
<1>SendPacket. CASE SendPacket
  BY <1>SendPacket DEF SendPacket, producer, threads, upstream, consumer
<1>SendPacketUnbound. CASE SendPacketUnbound
  BY Zenon, <1>SendPacketUnbound DEF SendPacketUnbound, producer, threads, upstream, consumer
<1>PacketSent. CASE PacketSent
  BY <1>PacketSent DEF PacketSent, producer, threads, upstream, consumer, WindowDemand
<1>SentSignals. CASE SentSignals
  BY <1>SentSignals DEF SentSignals, producer, threads, upstream, consumer
<1>SentContinues. CASE SentContinues
  BY <1>SentContinues DEF SentContinues, producer, threads, upstream, consumer, Returned
<1>Answered. CASE Answered
  BY <1>Answered DEF Answered, producer, threads, upstream, consumer
<1>SupplyReturns. CASE SupplyReturns
  BY <1>SupplyReturns DEF SupplyReturns, producer, threads, upstream, consumer
<1>ConsumerReceives. CASE ConsumerReceives
  BY <1>ConsumerReceives DEF ConsumerReceives, producer, threads, upstream, consumer
<1>Release. CASE Release
  BY <1>Release DEF Release, producer, threads, upstream, consumer
<1>RunCallback. CASE RunCallback
  BY <1>RunCallback DEF RunCallback, producer, threads, upstream, consumer
<1>FlushDone. CASE FlushDone
  BY <1>FlushDone DEF FlushDone, producer, threads, upstream, consumer
<1>SupplyPacket. ASSUME NEW eos \in BOOLEAN, SupplyPacket(eos)
  PROVE WInv'
  BY <1>SupplyPacket DEF SupplyPacket, MaySupply, WindowDemand, consumer
<1>Stutter. CASE UNCHANGED vars
  BY <1>Stutter DEF vars, producer, threads, upstream, consumer
<1> QED
  BY Zenon, <1>Connect, <1>Disconnect, <1>PrimeConnection, <1>PrimeSignals,
     <1>PrimeContinues, <1>FlushConnection, <1>FlushContinues, <1>SendPacket,
     <1>SendPacketUnbound, <1>PacketSent, <1>SentSignals, <1>SentContinues,
     <1>Answered, <1>SupplyReturns, <1>ConsumerReceives, <1>Release,
     <1>RunCallback, <1>FlushDone, <1>SupplyPacket, <1>Stutter
  DEF Next, ProducerSteps, ConsumerSteps

\* Which thread supplies the packets never changes.
LEMMA StepKeepsSupplier ==
    ASSUME [Next]_vars
    PROVE  supplier' = supplier
  BY Zenon DEF Next, ProducerSteps, ConsumerSteps, vars, Connect, Disconnect,
     PrimeConnection, PrimeSignals, PrimeContinues, FlushConnection,
     FlushContinues, SendPacket, SendPacketUnbound, PacketSent, SentSignals,
     SentContinues, Answered, SupplyReturns, ConsumerReceives, Release,
     RunCallback, FlushDone, SupplyPacket

\* The theorem about MojoProducer::SupplyPacket: where the main thread supplies
\* the packets its assertions DCHECK(current_pushes_outstanding_ <
\* max_pushes_outstanding_) and DCHECK(!end_of_stream_) hold, for every window
\* and any number of packets, flushes and reconnections.
THEOREM SuppliedWithinWindowHolds == Spec => []SuppliedWithinWindow
<1> DEFINE Inv == supplier = "main" => WInv
<1>1. Init => Inv
  <2> SUFFICES ASSUME Init PROVE WInv
    OBVIOUS
  <2>1. main.at = "idle" /\ main.demand = "negative"
    BY DEF Init, Idle
  <2>2. Typed
    <3>1. main = [at |-> main.at, demand |-> main.demand, ended |-> main.ended]
      BY DEF Init, Idle
    <3> QED
      BY <2>1, <3>1 DEF Init, Typed, Demands
  <2>3. Exclusive /\ Owed
    BY <2>1 DEF Init, Exclusive, Owed
  <2>4. Demanding
    BY <2>1 DEF Init, Demanding, Sound, Demands
  <2>5. Handling
    BY <2>1 DEF Init, Handling
  <2> QED
    BY <2>2, <2>3, <2>4, <2>5 DEF WInv
<1>2. Inv /\ [Next]_vars => Inv'
  BY StepKeepsWInv, StepKeepsSupplier
<1>3. Inv => SuppliedWithinWindow
  <2> SUFFICES ASSUME Inv, supplier = "main" PROVE SuppliedWithinWindow
    BY DEF SuppliedWithinWindow
  <2> QED
    BY DEF WInv, Typed, Demanding, Handling, Sound, Demands, SuppliedWithinWindow,
       MaySupply
<1> QED
  BY <1>1, <1>2, <1>3, PTL DEF Spec
-----------------------------------------------------------------------------
(* The order of packets. *)

Numbered == [kind : {"Packet"}, id : Nat, eos : BOOLEAN]
OnTheWire == Numbered \cup [kind : {"Prime", "Flush"}]

IsPacket(i) == toConsumer[i].kind = "Packet"

OrderTypes ==
    /\ supplied \in Nat /\ received \in Numbered
    /\ toConsumer \in Seq(OnTheWire) /\ tasks \in Seq(Numbered)

Within(id) == received.id < id /\ id <= supplied

PipeOrder ==
    /\ \A i \in 1 .. Len(toConsumer) : IsPacket(i) => Within(toConsumer[i].id)
    /\ \A i, j \in 1 .. Len(toConsumer) :
          i < j /\ IsPacket(i) /\ IsPacket(j) => toConsumer[i].id < toConsumer[j].id

TaskOrder ==
    /\ \A i \in 1 .. Len(tasks) : Within(tasks[i].id)
    /\ \A i, j \in 1 .. Len(tasks) : i < j => tasks[i].id < tasks[j].id

PipeBeforeTasks ==
    \A i \in 1 .. Len(toConsumer), j \in 1 .. Len(tasks) :
        IsPacket(i) => toConsumer[i].id < tasks[j].id

\* What is on its way is numbered upwards from the packet received last to the
\* packet supplied last: first the messages of the pipe, then the posted tasks.
OrderInv == OrderTypes /\ received.id <= supplied /\ PipeOrder /\ TaskOrder /\ PipeBeforeTasks

\* The numbers the invariant compares are numbers.
LEMMA NumbersOfPackets ==
    ASSUME OrderTypes
    PROVE  /\ received.id \in Nat /\ supplied \in Nat
           /\ \A i \in 1 .. Len(tasks) : tasks[i] \in Numbered /\ tasks[i].id \in Nat
           /\ \A i \in 1 .. Len(toConsumer) :
                 toConsumer[i] \in OnTheWire /\ (IsPacket(i) => toConsumer[i].id \in Nat)
           /\ Len(tasks) \in Nat /\ Len(toConsumer) \in Nat
<1>1. ASSUME NEW m \in Numbered PROVE m.id \in Nat
  BY DEF Numbered
<1>2. ASSUME NEW m \in OnTheWire, m.kind = "Packet" PROVE m.id \in Nat
  BY <1>2 DEF OnTheWire, Numbered
<1>3. received.id \in Nat /\ supplied \in Nat
  BY <1>1 DEF OrderTypes
<1>4. \A i \in 1 .. Len(tasks) : tasks[i] \in Numbered
  BY DEF OrderTypes
<1>5. \A i \in 1 .. Len(toConsumer) : toConsumer[i] \in OnTheWire
  BY DEF OrderTypes
<1>6. Len(tasks) \in Nat /\ Len(toConsumer) \in Nat
  BY DEF OrderTypes
<1> QED
  BY <1>1, <1>2, <1>3, <1>4, <1>5, <1>6 DEF IsPacket

\* A message that is no packet may be appended to the pipe.
LEMMA ControlKeepsOrder ==
    ASSUME OrderInv, NEW kind \in {"Prime", "Flush"},
           toConsumer' = Append(toConsumer, Control(kind)),
           UNCHANGED <<supplied, received, tasks>>
    PROVE  OrderInv'
<1>1. Control(kind) \in OnTheWire /\ Control(kind).kind # "Packet"
  BY DEF Control, OnTheWire
<1>2. /\ toConsumer' \in Seq(OnTheWire) /\ Len(toConsumer') = Len(toConsumer) + 1
      /\ \A i \in 1 .. Len(toConsumer) : toConsumer'[i] = toConsumer[i]
      /\ toConsumer'[Len(toConsumer) + 1].kind # "Packet"
  BY <1>1 DEF OrderInv, OrderTypes
<1>3. \A i \in 1 .. Len(toConsumer') : IsPacket(i)' =>
        i \in 1 .. Len(toConsumer) /\ IsPacket(i) /\ toConsumer'[i] = toConsumer[i]
  BY <1>2, NumbersOfPackets DEF OrderInv, IsPacket
<1>4. OrderTypes'
  BY <1>2 DEF OrderInv, OrderTypes
<1>5. PipeOrder'
  BY <1>3 DEF OrderInv, PipeOrder, Within
<1>6. TaskOrder'
  BY DEF OrderInv, TaskOrder, Within
<1>7. PipeBeforeTasks'
  BY <1>3 DEF OrderInv, PipeBeforeTasks
<1> QED
  BY <1>4, <1>5, <1>6, <1>7 DEF OrderInv

\* The packet of the first task goes to the end of the pipe.
LEMMA SendPacketKeepsOrder ==
    ASSUME OrderInv, SendPacket
    PROVE  OrderInv' /\ received' = received
<1>1. /\ tasks # <<>> /\ toConsumer' = Append(toConsumer, Head(tasks)) /\ tasks' = Tail(tasks)
      /\ UNCHANGED <<supplied, received>>
  BY DEF SendPacket, upstream, consumer
<1>2. /\ Head(tasks) = tasks[1] /\ 1 \in 1 .. Len(tasks) /\ tasks[1] \in Numbered
      /\ tasks[1] \in OnTheWire
  BY <1>1 DEF OrderInv, OrderTypes, OnTheWire
<1>3. /\ tasks' \in Seq(Numbered)
      /\ \A i \in 1 .. Len(tasks') : i + 1 \in 1 .. Len(tasks) /\ tasks'[i] = tasks[i + 1]
  BY <1>1 DEF OrderInv, OrderTypes
<1>4. /\ toConsumer' \in Seq(OnTheWire) /\ Len(toConsumer') = Len(toConsumer) + 1
      /\ \A i \in 1 .. Len(toConsumer) : toConsumer'[i] = toConsumer[i]
      /\ toConsumer'[Len(toConsumer) + 1] = tasks[1]
  BY <1>1, <1>2 DEF OrderInv, OrderTypes
<1>5. \A i \in 1 .. Len(toConsumer') :
        \/ i \in 1 .. Len(toConsumer) /\ toConsumer'[i] = toConsumer[i] /\ (IsPacket(i)' <=> IsPacket(i))
        \/ i = Len(toConsumer) + 1 /\ toConsumer'[i] = tasks[1]
  BY <1>4, NumbersOfPackets DEF OrderInv, IsPacket
<1>6. OrderTypes'
  BY <1>1, <1>3, <1>4 DEF OrderInv, OrderTypes
<1>7. TaskOrder'
  BY <1>1, <1>3, NumbersOfPackets DEF OrderInv, TaskOrder, Within
<1>8. PipeBeforeTasks'
  <2> SUFFICES ASSUME NEW i \in 1 .. Len(toConsumer'), NEW j \in 1 .. Len(tasks'), IsPacket(i)'
               PROVE  toConsumer'[i].id < tasks'[j].id
    BY DEF PipeBeforeTasks
  <2>1. j + 1 \in 1 .. Len(tasks) /\ tasks'[j] = tasks[j + 1]
    BY <1>3
  <2>2. CASE toConsumer'[i] = tasks[1]
    BY <1>2, <2>1, <2>2, NumbersOfPackets DEF OrderInv, TaskOrder
  <2>3. CASE i \in 1 .. Len(toConsumer) /\ toConsumer'[i] = toConsumer[i] /\ IsPacket(i)
    BY <2>1, <2>3 DEF OrderInv, PipeBeforeTasks
  <2> QED
    BY <1>5, <2>2, <2>3
<1>9. PipeOrder'
  <2>1. ASSUME NEW i \in 1 .. Len(toConsumer'), IsPacket(i)' PROVE Within(toConsumer[i].id)'
    BY <1>1, <1>2, <1>5, <2>1 DEF OrderInv, PipeOrder, TaskOrder, Within
  <2>2. ASSUME NEW i \in 1 .. Len(toConsumer'), NEW j \in 1 .. Len(toConsumer'), i < j,
               IsPacket(i)', IsPacket(j)'
        PROVE  toConsumer'[i].id < toConsumer'[j].id
    <3>1. i \in 1 .. Len(toConsumer) /\ toConsumer'[i] = toConsumer[i] /\ IsPacket(i)
      BY <1>4, <1>5, <2>2, NumbersOfPackets DEF OrderInv
    <3>2. CASE toConsumer'[j] = tasks[1]
      BY <1>2, <3>1, <3>2 DEF OrderInv, PipeBeforeTasks
    <3>3. CASE j \in 1 .. Len(toConsumer) /\ toConsumer'[j] = toConsumer[j] /\ IsPacket(j)
      BY <2>2, <3>1, <3>3 DEF OrderInv, PipeOrder
    <3> QED
      BY <1>5, <2>2, <3>2, <3>3
  <2> QED
    BY <2>1, <2>2 DEF PipeOrder
<1> QED
  BY <1>1, <1>6, <1>7, <1>8, <1>9 DEF OrderInv

\* A supplied packet has the next number, and its task is the last one.
LEMMA SupplyPacketKeepsOrder ==
    ASSUME OrderInv, NEW eos \in BOOLEAN, SupplyPacket(eos)
    PROVE  OrderInv' /\ received' = received
<1> DEFINE p == Packet(supplied + 1, eos)
<1>1. /\ supplied' = supplied + 1 /\ UNCHANGED <<received, toConsumer>>
      /\ (tasks' = tasks \/ tasks' = Append(tasks, p))
  BY DEF SupplyPacket, consumer
<1>2. supplied \in Nat
  BY DEF OrderInv, OrderTypes
<1>3. p \in Numbered /\ p.id = supplied + 1
  BY <1>2 DEF Packet, Numbered
<1> HIDE DEF p
<1>4. /\ tasks' \in Seq(Numbered)
      /\ \A i \in 1 .. Len(tasks') :
            \/ i \in 1 .. Len(tasks) /\ tasks'[i] = tasks[i]
            \/ i > Len(tasks) /\ i = Len(tasks') /\ tasks'[i].id = supplied + 1
  <2>1. CASE tasks' = tasks
    BY <2>1 DEF OrderInv, OrderTypes
  <2>2. CASE tasks' = Append(tasks, p)
    BY <1>3, <2>2 DEF OrderInv, OrderTypes
  <2> QED
    BY <1>1, <2>1, <2>2
<1>5. \A id \in Nat : Within(id) => Within(id)'
  BY <1>1, <1>2 DEF Within
<1>6. OrderTypes'
  BY <1>1, <1>2, <1>4 DEF OrderInv, OrderTypes
<1>7. PipeOrder'
  BY <1>1, <1>5, NumbersOfPackets DEF OrderInv, PipeOrder, IsPacket
<1>8. TaskOrder'
  <2>1. ASSUME NEW i \in 1 .. Len(tasks') PROVE Within(tasks[i].id)'
    BY <1>1, <1>4, <1>5, NumbersOfPackets DEF OrderInv, TaskOrder, Within
  <2>2. ASSUME NEW i \in 1 .. Len(tasks'), NEW j \in 1 .. Len(tasks'), i < j
        PROVE  tasks'[i].id < tasks'[j].id
    <3>1. Len(tasks') \in Nat
      BY <1>4
    <3>2. i \in 1 .. Len(tasks) /\ tasks'[i] = tasks[i]
      BY <1>4, <2>2, <3>1
    <3>3. tasks[i].id \in Nat /\ tasks[i].id <= supplied
      BY <3>2, NumbersOfPackets DEF OrderInv, TaskOrder, Within
    <3> QED
      BY <1>2, <1>4, <2>2, <3>2, <3>3 DEF OrderInv, TaskOrder
  <2> QED
    BY <2>1, <2>2 DEF TaskOrder
<1>9. PipeBeforeTasks'
  <2> SUFFICES ASSUME NEW i \in 1 .. Len(toConsumer'), NEW j \in 1 .. Len(tasks'), IsPacket(i)'
               PROVE  toConsumer'[i].id < tasks'[j].id
    BY DEF PipeBeforeTasks
  <2>1. i \in 1 .. Len(toConsumer) /\ toConsumer'[i] = toConsumer[i] /\ IsPacket(i)
    BY <1>1 DEF IsPacket
  <2>2. toConsumer[i].id \in Nat /\ toConsumer[i].id <= supplied
    BY Zenon, <2>1, NumbersOfPackets DEF OrderInv, PipeOrder, Within
  <2> QED
    BY <1>2, <1>4, <2>1, <2>2 DEF OrderInv, PipeBeforeTasks
<1>10. received'.id <= supplied'
  BY <1>1, NumbersOfPackets DEF OrderInv
<1> QED
  BY <1>1, <1>6, <1>7, <1>8, <1>9, <1>10 DEF OrderInv

\* The consumer takes the first message, which is the next packet if it is one.
LEMMA ConsumerReceivesInOrder ==
    ASSUME OrderInv, ConsumerReceives
    PROVE  OrderInv' /\ (received' # received => received'.id > received.id)
<1>1. /\ toConsumer # <<>> /\ toConsumer' = Tail(toConsumer) /\ UNCHANGED <<supplied, tasks>>
      /\ \/ received' = received
         \/ Head(toConsumer).kind = "Packet" /\ received' = Head(toConsumer)
  BY DEF ConsumerReceives, consumer, upstream
<1>2. /\ Head(toConsumer) = toConsumer[1] /\ 1 \in 1 .. Len(toConsumer)
      /\ toConsumer[1] \in OnTheWire
  BY <1>1 DEF OrderInv, OrderTypes
<1>3. /\ toConsumer' \in Seq(OnTheWire)
      /\ \A i \in 1 .. Len(toConsumer') : /\ i + 1 \in 1 .. Len(toConsumer) /\ 1 < i + 1
                                          /\ toConsumer'[i] = toConsumer[i + 1]
                                          /\ IsPacket(i)' <=> IsPacket(i + 1)
  BY <1>1 DEF OrderInv, OrderTypes, IsPacket
<1>4. \/ received' = received
      \/ /\ IsPacket(1) /\ received' = toConsumer[1] /\ received' \in Numbered
         /\ Within(received'.id)
  BY <1>1, <1>2 DEF OrderInv, PipeOrder, IsPacket, OnTheWire
<1>5. OrderTypes'
  BY <1>1, <1>3, <1>4 DEF OrderInv, OrderTypes
<1>6. received'.id <= supplied'
  BY <1>1, <1>4 DEF OrderInv, Within
<1>7. TaskOrder'
  BY <1>1, <1>2, <1>4 DEF OrderInv, TaskOrder, PipeBeforeTasks, Within
<1>8. PipeBeforeTasks'
  BY <1>1, <1>3 DEF OrderInv, PipeBeforeTasks
<1>9. PipeOrder'
  <2>1. ASSUME NEW i \in 1 .. Len(toConsumer'), IsPacket(i)' PROVE Within(toConsumer[i].id)'
    BY <1>1, <1>2, <1>3, <1>4, <2>1 DEF OrderInv, PipeOrder, Within
  <2>2. ASSUME NEW i \in 1 .. Len(toConsumer'), NEW j \in 1 .. Len(toConsumer'), i < j,
               IsPacket(i)', IsPacket(j)'
        PROVE  toConsumer'[i].id < toConsumer'[j].id
    <3>1. i + 1 < j + 1
      BY <2>2
    <3> QED
      BY <1>3, <2>2, <3>1 DEF OrderInv, PipeOrder
  <2> QED
    BY <2>1, <2>2 DEF PipeOrder
<1>10. received' # received => received'.id > received.id
  BY <1>4, <1>5, NumbersOfPackets DEF OrderInv, Within
<1> QED
  BY <1>5, <1>6, <1>7, <1>8, <1>9, <1>10 DEF OrderInv

\* Every step keeps the packets that are on their way in order, and accepts only a later one.
LEMMA StepKeepsOrder ==
    ASSUME OrderInv, [Next]_vars
    PROVE  OrderInv' /\ (received' # received => received'.id > received.id)
<1>1. CASE UNCHANGED <<supplied, received, toConsumer, tasks>>
  BY <1>1 DEF OrderInv, OrderTypes, PipeOrder, TaskOrder, PipeBeforeTasks, Within, IsPacket
<1>2. CASE Disconnect
  <2>1. toConsumer' = <<>> /\ UNCHANGED <<supplied, received, tasks>>
    BY <1>2 DEF Disconnect
  <2>2. OrderTypes' /\ Len(toConsumer') = 0
    BY <2>1 DEF OrderInv, OrderTypes
  <2> QED
    BY <2>1, <2>2 DEF OrderInv, PipeOrder, TaskOrder, PipeBeforeTasks, Within
<1>3. CASE PrimeContinues \/ FlushContinues
  BY <1>1, <1>3, ControlKeepsOrder DEF PrimeContinues, FlushContinues, consumer, upstream
<1>4. CASE \/ PrimeSignals \/ SendPacketUnbound \/ PacketSent \/ SentSignals \/ SentContinues
           \/ Answered \/ SupplyReturns
  BY <1>1, <1>4 DEF PrimeSignals, SendPacketUnbound, PacketSent, SentSignals,
     SentContinues, Answered, SupplyReturns, consumer, upstream
<1>5. CASE Release \/ RunCallback \/ FlushDone
  BY <1>1, <1>5 DEF Release, RunCallback, FlushDone, upstream
<1>6. CASE Connect \/ PrimeConnection \/ FlushConnection \/ UNCHANGED vars
  BY <1>1, <1>6 DEF Connect, PrimeConnection, FlushConnection, upstream, consumer, vars
<1>7. CASE ConsumerReceives
  BY <1>7, ConsumerReceivesInOrder
<1>8. CASE SendPacket
  BY <1>8, SendPacketKeepsOrder
<1>9. ASSUME NEW eos \in BOOLEAN, SupplyPacket(eos)
      PROVE  OrderInv' /\ (received' # received => received'.id > received.id)
  BY <1>9, SupplyPacketKeepsOrder
<1> QED
  BY <1>2, <1>3, <1>4, <1>5, <1>6, <1>7, <1>8, <1>9 DEF Next, ProducerSteps, ConsumerSteps

\* The theorem about MojoProducer and MojoConsumer: whichever thread supplies the packets,
\* through any number of flushes and reconnections, MojoConsumer::SendPacket hands them to
\* the graph in the order in which SupplyPacket got them, and none twice.
THEOREM DeliveredInOrderHolds == Spec => DeliveredInOrder
<1>1. Init => OrderInv
  <2> SUFFICES ASSUME Init PROVE OrderInv
    OBVIOUS
  <2>1. OrderTypes /\ received.id = 0 /\ supplied = 0
    BY DEF Init, OrderTypes, NoPacket, Packet, Numbered
  <2>2. Len(toConsumer) = 0 /\ Len(tasks) = 0
    BY DEF Init
  <2> QED
    BY <2>1, <2>2 DEF OrderInv, PipeOrder, TaskOrder, PipeBeforeTasks
<1>2. OrderInv /\ [Next]_vars => OrderInv'
  BY StepKeepsOrder
<1>3. OrderInv /\ [Next]_vars => [received' # received => received'.id > received.id]_received
  BY StepKeepsOrder
<1> QED
  BY <1>1, <1>2, <1>3, PTL DEF Spec, DeliveredInOrder

-----------------------------------------------------------------------------
(* The WAV player. *)

\* Outside of playing there is no pipe, and nothing has been read.
PhaseInv ==
    /\ app = "loading" => /\ payload_len_ = 0 /\ taken = 0 /\ packet = 0 /\ pipe = NoPipe
                          /\ failed = FALSE /\ (posted = TRUE => server # "up")
    /\ app = "quit" => packet = 0 /\ pipe = NoPipe /\ posted = FALSE

\* While it plays, every byte of the data chunk is taken or still to be read, and a
\* player that failed has bytes to read that do not come.
ChunkInv ==
    app = "playing" => /\ Accepted(file) /\ taken + payload_len_ = Payload(file)
                       /\ failed = TRUE => payload_len_ > 0 /\ ~Intact(file)

\* The pipe holds what was taken, and signals below the high mark.
PipeInv ==
    /\ pipe.handler = TRUE => pipe.exists = TRUE /\ failed = FALSE
    /\ pipe.scheduled = TRUE => pipe.exists = TRUE
    /\ pipe.in_flight # <<>> => pipe.exists = TRUE
    /\ pipe.handler = TRUE /\ pipe.signalled = TRUE => Pending(pipe) < Hi
    /\ failed = FALSE /\ (pipe.handler = TRUE \/ pipe.in_flight # <<>>) => pipe.wr = taken
    /\ packet # 0 => failed = TRUE /\ pipe.exists = TRUE

\* A packet with the callback OnPlayoutComplete ends the data chunk.
LastInv ==
    \A i \in 1 .. Len(pipe.in_flight) :
        pipe.in_flight[i].last = TRUE =>
            payload_len_ = 0 /\ pipe.in_flight[i].post_consume_rd = Payload(file)

Done == played = Payload(file) /\ taken = Payload(file) /\ clock_started_ = TRUE

\* A player that ends with its server alive, without an error, is done.
EndInv ==
    server = "up" /\ failed = FALSE =>
        /\ app = "quit" => Done
        /\ posted = TRUE => Done /\ pipe = NoPipe

IInv == WavTypeOK /\ PhaseInv /\ ChunkInv /\ PipeInv /\ LastInv /\ EndInv /\ IntactNeverFails

-----------------------------------------------------------------------------
(* Sizes.                                                                  *)

\* Rounding two times down loses no less than rounding their sum (USecToFrames).
LEMMA DivAdds ==
    ASSUME NEW x \in Nat, NEW y \in Nat, NEW z \in Nat, NEW s \in Nat \ {0}, x + y <= z
    PROVE  /\ x \div s \in Nat /\ y \div s \in Nat /\ z \div s \in Nat
           /\ (x \div s) + (y \div s) <= z \div s
<1> DEFINE a == x \div s
           b == y \div s
           c == z \div s
<1>1. a \in Nat /\ s * a <= x
  BY Z3
<1>2. b \in Nat /\ s * b <= y
  BY Z3
<1>3. c \in Nat /\ z < s * (c + 1)
  BY Z3
<1> HIDE DEF a, b, c
<1>4. s * (a + b) < s * (c + 1)
  BY <1>1, <1>2, <1>3
<1>5. a + b < c + 1
  BY <1>1, <1>2, <1>3, <1>4
<1>6. a + b <= c
  BY <1>1, <1>2, <1>3, <1>5
<1> QED
  BY <1>1, <1>2, <1>3, <1>6 DEF a, b, c

\* A file that is accepted has frames of one, two or four bytes, a data chunk of whole
\* frames, and a buffer with room for a chunk above the high mark.
LEMMA Sizes ==
    ASSUME WellSized, NEW f \in Files, Accepted(f)
    PROVE  /\ Payload(f) \in Nat
           /\ USecToBytes(f, BUF_HI_WATER_USEC) \in Nat
           /\ USecToBytes(f, BUF_LO_WATER_USEC) \in Nat
           /\ USecToBytes(f, CHUNK_SIZE_USEC) \in Nat
           /\ USecToBytes(f, BUF_DEPTH_USEC) \in Nat
           /\ USecToBytes(f, BUF_LO_WATER_USEC) <= USecToBytes(f, BUF_HI_WATER_USEC)
           /\ USecToBytes(f, BUF_HI_WATER_USEC) + USecToBytes(f, CHUNK_SIZE_USEC)
                <= USecToBytes(f, BUF_DEPTH_USEC)
<1>1. f.frame_size \in {1, 2, 4}
  BY DEF Accepted, ReadAndValidateWAVHeader, VALID_BITS_PER_SAMPLES
<1>2. f.frame_rate \in Nat
  BY DEF WellSized
<1>3. Payload(f) \in Nat
  <2>1. f.length \in Nat
    BY DEF WellSized
  <2> QED
    BY <1>1, <2>1 DEF Payload
<1>4. PICK hi \in Nat, lo \in Nat, chunk \in Nat, depth \in Nat, r \in Nat, s \in Nat \ {0} :
          /\ hi = BUF_HI_WATER_USEC /\ lo = BUF_LO_WATER_USEC /\ chunk = CHUNK_SIZE_USEC
          /\ depth = BUF_DEPTH_USEC /\ r = f.frame_rate /\ s = SECOND
          /\ lo <= hi /\ hi + chunk <= depth
  <2>1. /\ BUF_HI_WATER_USEC \in Nat /\ BUF_LO_WATER_USEC \in Nat
        /\ CHUNK_SIZE_USEC \in Nat /\ BUF_DEPTH_USEC \in Nat /\ SECOND \in Nat \ {0}
        /\ BUF_LO_WATER_USEC <= BUF_HI_WATER_USEC
        /\ BUF_HI_WATER_USEC + CHUNK_SIZE_USEC <= BUF_DEPTH_USEC
    BY DEF WellSized
  <2> QED
    BY Zenon, <1>2, <2>1
<1>5. /\ hi * r \in Nat /\ lo * r \in Nat /\ chunk * r \in Nat /\ depth * r \in Nat
      /\ lo * r + 0 <= hi * r /\ hi * r + chunk * r <= depth * r
  BY <1>4
<1> DEFINE H == (hi * r) \div s
           L == (lo * r) \div s
           C == (chunk * r) \div s
           D == (depth * r) \div s
<1>6. H \in Nat /\ C \in Nat /\ D \in Nat /\ H + C <= D
  BY Zenon, <1>5, DivAdds
<1>7. L \in Nat /\ 0 \div s \in Nat /\ L + (0 \div s) <= H
  <2>1. 0 \in Nat
    OBVIOUS
  <2> QED
    BY Zenon, <1>5, <2>1, DivAdds
<1>8. /\ USecToBytes(f, BUF_HI_WATER_USEC) = H * f.frame_size
      /\ USecToBytes(f, BUF_LO_WATER_USEC) = L * f.frame_size
      /\ USecToBytes(f, CHUNK_SIZE_USEC) = C * f.frame_size
      /\ USecToBytes(f, BUF_DEPTH_USEC) = D * f.frame_size
  BY Zenon, <1>4 DEF USecToBytes, USecToFrames
<1> HIDE DEF H, L, C, D
<1>9. PICK z \in Nat : z = 0 \div s
  BY <1>7
<1>10. L <= H
  BY <1>6, <1>7, <1>9
<1> QED
  BY <1>1, <1>3, <1>6, <1>7, <1>8, <1>10
-----------------------------------------------------------------------------
(* The pipe.                                                               *)

InFlightType == Seq([post_consume_rd : Nat, last : BOOLEAN])

PipeType == [exists : BOOLEAN, rd : Nat, wr : Nat, in_flight : InFlightType,
             signalled : BOOLEAN, scheduled : BOOLEAN, handler : BOOLEAN]

\* Before there is a pipe, and after it is dropped.
LEMMA NoPipeFields ==
    /\ NoPipe \in PipeType /\ NoPipe.in_flight = <<>> /\ NoPipe.exists = FALSE
    /\ NoPipe.scheduled = FALSE /\ NoPipe.handler = FALSE /\ NoPipe.wr = 0 /\ NoPipe.rd = 0
    /\ NoPipe.signalled = FALSE
BY DEF NoPipe, PipeType, InFlightType

\* What UpdateSignalled leaves alone, and when it signals.
LEMMA Updates ==
    ASSUME NEW p \in PipeType, Hi \in Nat, Lo \in Nat, Lo <= Hi
    PROVE  LET q == UpdateSignalled(p)
           IN  /\ q \in PipeType
               /\ q.exists = p.exists /\ q.rd = p.rd /\ q.wr = p.wr
               /\ q.in_flight = p.in_flight /\ q.handler = p.handler
               /\ q.signalled = TRUE => Pending(q) < Hi
<1> DEFINE s == IF p.signalled THEN Pending(p) < Hi ELSE Pending(p) < Lo
           q == UpdateSignalled(p)
<1>2. Pending(p) \in Int
  BY DEF Pending, PipeType
<1>1. s \in BOOLEAN /\ (p.scheduled \/ s) \in BOOLEAN
  <2>1. (Pending(p) < Hi) \in BOOLEAN /\ (Pending(p) < Lo) \in BOOLEAN
    BY <1>2
  <2>2. s \in BOOLEAN
    BY Zenon, <2>1
  <2>3. p.scheduled \in BOOLEAN
    BY DEF PipeType
  <2> HIDE DEF s
  <2> QED
    BY Zenon, <2>2, <2>3
<1>3. s = TRUE => Pending(p) < Hi
  BY <1>2
<1>4. q = [p EXCEPT !.signalled = s, !.scheduled = p.scheduled \/ s]
  BY Zenon DEF UpdateSignalled
<1> DEFINE t == p.scheduled \/ s
<1>5. t \in BOOLEAN /\ q = [p EXCEPT !.signalled = s, !.scheduled = t]
  BY Zenon, <1>1, <1>4
<1> HIDE DEF s, t, q
<1>6. /\ q \in PipeType /\ q.exists = p.exists /\ q.rd = p.rd /\ q.wr = p.wr
      /\ q.in_flight = p.in_flight /\ q.handler = p.handler /\ q.signalled = s
  BY Zenon, <1>1, <1>5 DEF PipeType
<1>7. Pending(q) = Pending(p)
  BY Zenon, <1>6 DEF Pending
<1> QED
  BY Zenon, <1>3, <1>6, <1>7 DEF q

\* The facts about the present state that the steps use.
LEMMA Types ==
    ASSUME WavTypeOK
    PROVE  /\ pipe \in PipeType /\ pipe.rd \in Nat /\ pipe.wr \in Nat
           /\ pipe.in_flight \in InFlightType
           /\ payload_len_ \in Nat /\ taken \in Nat /\ packet \in Nat /\ played \in Nat
           /\ file \in Files /\ posted \in BOOLEAN /\ failed \in BOOLEAN
           /\ clock_started_ \in BOOLEAN
<1>1. pipe \in PipeType
  BY DEF WavTypeOK, PipeType, InFlightType
<1>2. pipe.rd \in Nat /\ pipe.wr \in Nat /\ pipe.in_flight \in InFlightType
  BY <1>1 DEF PipeType
<1> QED
  BY <1>1, <1>2 DEF WavTypeOK

\* A pipe that was dropped, or not yet made, has nothing to keep.
LEMMA EmptyPipe ==
    ASSUME pipe' = NoPipe, packet' = 0
    PROVE  PipeInv' /\ LastInv'
<1>1. /\ pipe'.in_flight = <<>> /\ pipe'.scheduled = FALSE /\ pipe'.handler = FALSE
  BY NoPipeFields
<1>2. PipeInv'
  BY <1>1 DEF PipeInv
<1>3. LastInv'
  <2>1. Len(pipe'.in_flight) = 0
    BY <1>1
  <2> QED
    BY <2>1 DEF LastInv
<1> QED
  BY <1>2, <1>3

\* The first state.
LEMMA InitIInv ==
    ASSUME WavInit
    PROVE  IInv
<1>1. pipe \in PipeType /\ pipe.in_flight = <<>> /\ pipe.scheduled = FALSE /\ pipe.handler = FALSE
  BY NoPipeFields DEF WavInit
<1>2. WavTypeOK
  BY Zenon, <1>1 DEF WavInit, WavTypeOK, PipeType, InFlightType
<1>3. PhaseInv /\ ChunkInv /\ EndInv /\ IntactNeverFails
  BY DEF WavInit, PhaseInv, ChunkInv, EndInv, IntactNeverFails
<1>4. PipeInv
  BY <1>1 DEF WavInit, PipeInv
<1>5. LastInv
  <2>1. Len(pipe.in_flight) = 0
    BY <1>1
  <2> QED
    BY <2>1 DEF LastInv
<1> QED
  BY <1>2, <1>3, <1>4, <1>5 DEF IInv

\* PlayWAVApp::Shutdown.
LEMMA ShutdownKeeps ==
    ASSUME IInv, Shutdown
    PROVE  IInv'
<1>1. /\ app' = "quit" /\ packet' = 0 /\ pipe' = NoPipe /\ posted' = FALSE /\ file' = file
      /\ payload_len_' = payload_len_ /\ taken' = taken /\ clock_started_' = clock_started_
      /\ server' = server /\ failed' = failed /\ played' = played /\ posted
  BY Zenon DEF Shutdown, Quit
<1>2. WavTypeOK'
  <2>1. pipe' \in PipeType
    BY <1>1, NoPipeFields
  <2> QED
    BY Zenon, <1>1, <2>1 DEF IInv, WavTypeOK, PipeType, InFlightType
<1>3. PhaseInv' /\ ChunkInv'
  BY <1>1 DEF PhaseInv, ChunkInv
<1>4. PipeInv' /\ LastInv'
  BY Zenon, <1>1, EmptyPipe
<1>5. EndInv'
  <2>1. posted = TRUE
    BY <1>1 DEF IInv, WavTypeOK
  <2>2. server = "up" /\ failed = FALSE => Done
    BY Zenon, <2>1 DEF IInv, EndInv
  <2>3. Done <=> Done'
    BY Zenon, <1>1 DEF Done
  <2> QED
    BY Zenon, <1>1, <2>2, <2>3 DEF EndInv
<1>6. IntactNeverFails'
  BY Zenon, <1>1 DEF IInv, IntactNeverFails
<1> QED
  BY <1>2, <1>3, <1>4, <1>5, <1>6 DEF IInv

\* ServerDies changes what the player knows of nothing.
LEMMA ServerDiesKeeps ==
    ASSUME IInv, ServerDies
    PROVE  IInv'
<1>1. /\ app' = app /\ packet' = packet /\ pipe' = pipe /\ posted' = posted /\ file' = file
      /\ payload_len_' = payload_len_ /\ taken' = taken /\ clock_started_' = clock_started_
      /\ server' = "lost" /\ failed' = failed /\ played' = played
  BY Zenon DEF ServerDies
<1>2. WavTypeOK'
  BY <1>1 DEF IInv, WavTypeOK
<1>3. PhaseInv' /\ ChunkInv' /\ IntactNeverFails' /\ EndInv'
  BY <1>1 DEF IInv, PhaseInv, ChunkInv, IntactNeverFails, EndInv
<1>4. PipeInv'
  <2>1. Hi' = Hi /\ Pending(pipe)' = Pending(pipe)
    BY Zenon, <1>1 DEF Hi, Pending
  <2> QED
    BY Zenon, <1>1, <2>1 DEF IInv, PipeInv
<1>5. LastInv'
  BY Zenon, <1>1 DEF IInv, LastInv
<1> QED
  BY <1>2, <1>3, <1>4, <1>5 DEF IInv

\* The adapter's fault: the buffer is gone, and so is the callback.
LEMMA AdapterFaultsKeeps ==
    ASSUME IInv, AdapterFaults
    PROVE  IInv'
<1> DEFINE q == [NoPipe EXCEPT !.exists = TRUE, !.signalled = TRUE, !.scheduled = pipe.scheduled]
<1>1. /\ app' = app /\ packet' = packet /\ pipe' = q /\ posted' = posted /\ file' = file
      /\ payload_len_' = payload_len_ /\ taken' = taken /\ clock_started_' = clock_started_
      /\ server' = server /\ failed' = failed /\ played' = played
      /\ app = "playing" /\ server # "up"
  BY Zenon DEF AdapterFaults
<1>2. /\ pipe' \in PipeType /\ pipe'.exists = TRUE /\ pipe'.handler = FALSE
      /\ pipe'.in_flight = <<>>
  <2>1. pipe.scheduled \in BOOLEAN
    BY Types DEF IInv, PipeType
  <2>2. /\ q \in PipeType /\ q.exists = TRUE /\ q.handler = NoPipe.handler
        /\ q.in_flight = NoPipe.in_flight
    BY Zenon, <2>1, NoPipeFields DEF PipeType
  <2> HIDE DEF q
  <2> QED
    BY Zenon, <1>1, <2>2, NoPipeFields
<1>3. WavTypeOK'
  BY <1>1, <1>2 DEF IInv, WavTypeOK, PipeType, InFlightType
<1>4. PhaseInv' /\ ChunkInv' /\ EndInv' /\ IntactNeverFails'
  BY <1>1 DEF IInv, PhaseInv, ChunkInv, EndInv, IntactNeverFails
<1>5. PipeInv'
  BY <1>1, <1>2 DEF IInv, PipeInv
<1>6. LastInv'
  <2>1. Len(pipe'.in_flight) = 0
    BY <1>2
  <2> QED
    BY <2>1 DEF LastInv
<1> QED
  BY <1>3, <1>4, <1>5, <1>6 DEF IInv

\* A pipe without its handler is the same pipe otherwise.
LEMMA Unhandled ==
    ASSUME NEW p \in PipeType
    PROVE  LET q == [p EXCEPT !.handler = FALSE]
           IN  /\ q \in PipeType /\ q.handler = FALSE /\ q.exists = p.exists
               /\ q.scheduled = p.scheduled /\ q.in_flight = p.in_flight /\ q.wr = p.wr
               /\ q.rd = p.rd
BY Zenon DEF PipeType

\* And one that had no handler is the same pipe.
LEMMA SamePipe ==
    ASSUME NEW p \in PipeType, p.handler = FALSE
    PROVE  [p EXCEPT !.handler = FALSE] = p
BY DEF PipeType

\* PlayWAVApp::OnConnectionError.
LEMMA OnConnectionErrorKeeps ==
    ASSUME IInv, OnConnectionError
    PROVE  IInv'
<1>1. /\ app' = app /\ packet' = packet /\ pipe' = [pipe EXCEPT !.handler = FALSE]
      /\ posted' = TRUE /\ file' = file
      /\ payload_len_' = payload_len_ /\ taken' = taken /\ clock_started_' = clock_started_
      /\ server' = "reported" /\ failed' = failed /\ played' = played /\ app # "quit"
  BY Zenon DEF OnConnectionError, PostShutdown
<1>2. /\ pipe' \in PipeType /\ pipe'.handler = FALSE /\ pipe'.exists = pipe.exists
      /\ pipe'.scheduled = pipe.scheduled /\ pipe'.in_flight = pipe.in_flight
      /\ pipe'.wr = pipe.wr
  BY Zenon, <1>1, Types, Unhandled DEF IInv
<1>3. WavTypeOK'
  BY <1>1, <1>2 DEF IInv, WavTypeOK, PipeType, InFlightType
<1>4. PhaseInv'
  <2>1. app = "loading" => pipe' = NoPipe
    <3>1. [NoPipe EXCEPT !.handler = FALSE] = NoPipe
      BY Zenon, NoPipeFields, SamePipe
    <3> QED
      BY Zenon, <1>1, <3>1 DEF IInv, PhaseInv
  <2> QED
    BY <1>1, <2>1 DEF IInv, PhaseInv
<1>5. ChunkInv' /\ EndInv' /\ IntactNeverFails'
  BY <1>1 DEF IInv, ChunkInv, EndInv, IntactNeverFails
<1>6. PipeInv'
  BY <1>1, <1>2 DEF IInv, PipeInv
<1>7. LastInv'
  BY Zenon, <1>1, <1>2 DEF IInv, LastInv
<1> QED
  BY <1>3, <1>4, <1>5, <1>6, <1>7 DEF IInv

\* PlayWAVApp::ProcessHTTPResponse.
LEMMA ProcessHTTPResponseKeeps ==
    ASSUME WellSized, IInv, ProcessHTTPResponse
    PROVE  IInv'
<1>1. /\ app = "loading" /\ file' = file /\ taken' = taken /\ server' = server
      /\ clock_started_' = clock_started_ /\ played' = played
  BY Zenon DEF ProcessHTTPResponse
<1>2. /\ payload_len_ = 0 /\ taken = 0 /\ packet = 0 /\ failed = FALSE
      /\ posted = TRUE => server # "up"
  BY Zenon, <1>1 DEF IInv, PhaseInv
<1>3. CASE Accepted(file)
  <2>1. /\ app' = "playing" /\ payload_len_' = Payload(file) /\ pipe' = NewPipe
        /\ packet' = packet /\ posted' = posted /\ failed' = failed
    BY Zenon, <1>3 DEF ProcessHTTPResponse
  <2>2. Payload(file) \in Nat /\ Hi \in Nat /\ Lo \in Nat /\ Lo <= Hi
    <3>1. file \in Files
      BY Zenon, Types DEF IInv
    <3> QED
      BY Zenon, <1>3, <3>1, Sizes DEF Hi, Lo
  <2>3. /\ pipe' \in PipeType /\ pipe'.exists = TRUE /\ pipe'.handler = TRUE
        /\ pipe'.in_flight = <<>> /\ pipe'.wr = 0
        /\ pipe'.signalled = TRUE => Pending(pipe') < Hi
    <3> DEFINE p == [NoPipe EXCEPT !.exists = TRUE, !.handler = TRUE]
    <3>1. /\ p \in PipeType /\ p.exists = TRUE /\ p.handler = TRUE
          /\ p.in_flight = NoPipe.in_flight /\ p.wr = NoPipe.wr
      BY Zenon, NoPipeFields DEF PipeType
    <3>2. pipe' = UpdateSignalled(p)
      BY Zenon, <2>1 DEF NewPipe
    <3> HIDE DEF p
    <3> QED
      BY Zenon, <2>2, <3>1, <3>2, Updates, NoPipeFields
  <2>4. WavTypeOK'
    BY <1>1, <2>1, <2>2, <2>3 DEF IInv, WavTypeOK, PipeType, InFlightType
  <2>5. PhaseInv' /\ ChunkInv'
    BY <1>1, <1>2, <1>3, <2>1, <2>2 DEF PhaseInv, ChunkInv
  <2>6. PipeInv'
    <3>1. Hi' = Hi /\ Pending(pipe)' = Pending(pipe')
      BY Zenon, <1>1 DEF Hi, Pending
    <3> QED
      BY Zenon, <1>1, <1>2, <2>1, <2>3, <3>1 DEF PipeInv
  <2>7. LastInv'
    <3>1. Len(pipe'.in_flight) = 0
      BY <2>3
    <3> QED
      BY <3>1 DEF LastInv
  <2>8. EndInv' /\ IntactNeverFails'
    BY <1>1, <1>2, <2>1 DEF EndInv, IntactNeverFails
  <2> QED
    BY <2>4, <2>5, <2>6, <2>7, <2>8 DEF IInv
<1>4. CASE ~Accepted(file)
  <2>1. /\ app' = "quit" /\ packet' = 0 /\ pipe' = NoPipe /\ posted' = FALSE /\ failed' = TRUE
        /\ payload_len_' = payload_len_
    BY Zenon, <1>4 DEF ProcessHTTPResponse, Quit
  <2>2. WavTypeOK'
    <3>1. pipe' \in PipeType
      BY Zenon, <2>1, NoPipeFields
    <3> QED
      BY Zenon, <1>1, <2>1, <3>1 DEF IInv, WavTypeOK, PipeType, InFlightType
  <2>3. PhaseInv' /\ ChunkInv' /\ EndInv'
    BY <2>1 DEF PhaseInv, ChunkInv, EndInv
  <2>4. PipeInv' /\ LastInv'
    BY Zenon, <2>1, EmptyPipe
  <2>5. IntactNeverFails'
    BY Zenon, <1>1, <1>4 DEF IntactNeverFails, Intact
  <2> QED
    BY <2>2, <2>3, <2>4, <2>5 DEF IInv
<1> QED
  BY <1>3, <1>4

\* The first packet in flight and the others.
LEMMA TailOf ==
    ASSUME NEW S, NEW s \in Seq(S), s # <<>>
    PROVE  /\ Head(s) \in S /\ Head(s) = s[1] /\ 1 \in 1 .. Len(s)
           /\ Tail(s) \in Seq(S)
           /\ \A i \in 1 .. Len(Tail(s)) : i + 1 \in 1 .. Len(s) /\ Tail(s)[i] = s[i + 1]
OBVIOUS

\* One packet more in flight.
LEMMA AppendOf ==
    ASSUME NEW S, NEW s \in Seq(S), NEW e \in S
    PROVE  /\ Append(s, e) \in Seq(S) /\ Append(s, e) # <<>>
           /\ \A i \in 1 .. Len(Append(s, e)) :
                 \/ i \in 1 .. Len(s) /\ Append(s, e)[i] = s[i]
                 \/ Append(s, e)[i] = e
OBVIOUS

\* An answer: OnPlayoutComplete after the last packet, and otherwise what
\* CircularBufferMediaPipeAdapter::HandleSendPacket does.
LEMMA HandleSendPacketKeeps ==
    ASSUME WellSized, IInv, HandleSendPacket
    PROVE  IInv'
<1> DEFINE e == Head(pipe.in_flight)
           p == [pipe EXCEPT !.rd = e.post_consume_rd, !.in_flight = Tail(@)]
<1>1. /\ app = "playing" /\ server = "up" /\ clock_started_ /\ pipe.in_flight # <<>>
      /\ file' = file /\ app' = app /\ payload_len_' = payload_len_ /\ taken' = taken
      /\ packet' = packet /\ clock_started_' = clock_started_ /\ server' = server
      /\ failed' = failed /\ played' = e.post_consume_rd
  BY Zenon DEF HandleSendPacket
<1>2. /\ e \in [post_consume_rd : Nat, last : BOOLEAN] /\ e = pipe.in_flight[1]
      /\ 1 \in 1 .. Len(pipe.in_flight) /\ Tail(pipe.in_flight) \in InFlightType
      /\ \A i \in 1 .. Len(Tail(pipe.in_flight)) :
            /\ i + 1 \in 1 .. Len(pipe.in_flight)
            /\ Tail(pipe.in_flight)[i] = pipe.in_flight[i + 1]
  BY Zenon, <1>1, Types, TailOf DEF IInv, InFlightType
<1> HIDE DEF e
<1>3. /\ Accepted(file) /\ taken + payload_len_ = Payload(file)
      /\ failed = TRUE => payload_len_ > 0
  BY Zenon, <1>1 DEF IInv, ChunkInv
<1>4. e.post_consume_rd \in Nat /\ e.last \in BOOLEAN
  BY <1>2
<1>5. pipe.exists = TRUE
  BY Zenon, <1>1 DEF IInv, PipeInv
<1>6. CASE e.last = TRUE
  <2>1. pipe' = NoPipe /\ posted' = TRUE
    BY Zenon, <1>6 DEF HandleSendPacket, e
  <2>2. payload_len_ = 0 /\ e.post_consume_rd = Payload(file)
    BY Zenon, <1>2, <1>6 DEF IInv, LastInv
  <2>3. failed = FALSE /\ packet = 0 /\ taken = Payload(file)
    <3>1. failed \in BOOLEAN /\ taken \in Nat /\ payload_len_ \in Nat
      BY Zenon, Types DEF IInv
    <3>2. failed = FALSE
      BY <1>3, <2>2, <3>1
    <3>3. packet = 0
      BY <3>2 DEF IInv, PipeInv
    <3> QED
      BY <1>3, <2>2, <3>1, <3>2, <3>3
  <2>4. WavTypeOK'
    <3>1. pipe' \in PipeType
      BY Zenon, <2>1, NoPipeFields
    <3> QED
      BY <1>1, <1>4, <2>1, <3>1 DEF IInv, WavTypeOK, PipeType, InFlightType
  <2>5. PhaseInv' /\ ChunkInv' /\ IntactNeverFails'
    BY <1>1 DEF IInv, PhaseInv, ChunkInv, IntactNeverFails
  <2>6. PipeInv' /\ LastInv'
    BY Zenon, <1>1, <2>1, <2>3, EmptyPipe
  <2>7. EndInv'
    <3>1. clock_started_ = TRUE
      BY <1>1, Types DEF IInv
    <3>2. Done'
      BY Zenon, <1>1, <2>2, <2>3, <3>1 DEF Done
    <3> QED
      BY <1>1, <2>1, <3>2 DEF EndInv
  <2> QED
    BY <2>4, <2>5, <2>6, <2>7 DEF IInv
<1>7. CASE e.last = FALSE
  <2>1. pipe' = UpdateSignalled(p) /\ posted' = posted
    BY Zenon, <1>7 DEF HandleSendPacket, e
  <2>2. /\ p \in PipeType /\ p.exists = pipe.exists /\ p.wr = pipe.wr /\ p.handler = pipe.handler
        /\ p.in_flight = Tail(pipe.in_flight)
    BY Zenon, <1>2, <1>4, Types DEF IInv, PipeType
  <2> HIDE DEF p
  <2>3. Hi \in Nat /\ Lo \in Nat /\ Lo <= Hi
    <3>1. file \in Files
      BY Zenon, Types DEF IInv
    <3> QED
      BY Zenon, <1>3, <3>1, Sizes DEF Hi, Lo
  <2>4. /\ pipe' \in PipeType /\ pipe'.exists = TRUE /\ pipe'.wr = pipe.wr
        /\ pipe'.handler = pipe.handler /\ pipe'.in_flight = Tail(pipe.in_flight)
        /\ pipe'.signalled = TRUE => Pending(pipe') < Hi
    BY Zenon, <1>5, <2>1, <2>2, <2>3, Updates
  <2>5. WavTypeOK'
    BY <1>1, <1>4, <2>1, <2>4 DEF IInv, WavTypeOK, PipeType, InFlightType
  <2>6. PhaseInv' /\ ChunkInv' /\ IntactNeverFails'
    BY <1>1 DEF IInv, PhaseInv, ChunkInv, IntactNeverFails
  <2>7. PipeInv'
    <3>1. Hi' = Hi /\ Pending(pipe)' = Pending(pipe')
      BY Zenon, <1>1 DEF Hi, Pending
    <3>2. failed = FALSE => pipe.wr = taken
      BY Zenon, <1>1 DEF IInv, PipeInv
    <3>3. /\ pipe.handler = TRUE => failed = FALSE
          /\ packet # 0 => failed = TRUE
      BY Zenon DEF IInv, PipeInv
    <3> QED
      BY Zenon, <1>1, <2>4, <3>1, <3>2, <3>3 DEF PipeInv
  <2>8. LastInv'
    <3>1. SUFFICES ASSUME NEW i \in 1 .. Len(pipe'.in_flight), pipe'.in_flight[i].last = TRUE
                   PROVE  payload_len_ = 0 /\ pipe'.in_flight[i].post_consume_rd = Payload(file)
      BY Zenon, <1>1 DEF LastInv
    <3>2. /\ i + 1 \in 1 .. Len(pipe.in_flight)
          /\ pipe'.in_flight[i] = pipe.in_flight[i + 1]
      BY Zenon, <1>2, <2>4
    <3> QED
      BY Zenon, <3>1, <3>2 DEF IInv, LastInv
  <2>9. EndInv'
    <3>1. ~(posted = TRUE /\ failed = FALSE)
      BY <1>1, NoPipeFields DEF IInv, EndInv
    <3> QED
      BY <1>1, <2>1, <3>1 DEF EndInv
  <2> QED
    BY <2>5, <2>6, <2>7, <2>8, <2>9 DEF IInv
<1> QED
  BY Zenon, <1>4, <1>6, <1>7

\* A callback that finds nothing to do.
LEMMA CallbackIsIdle ==
    ASSUME IInv, app = "playing",
           pipe' = [pipe EXCEPT !.scheduled = FALSE], UNCHANGED <<payload_len_, taken, packet>>,
           UNCHANGED <<clock_started_, posted, failed, file, app, server, played>>
    PROVE  IInv'
<1> DEFINE p == [pipe EXCEPT !.scheduled = FALSE]
<1>1. /\ app' = app /\ packet' = packet /\ pipe' = p /\ posted' = posted /\ file' = file
      /\ payload_len_' = payload_len_ /\ taken' = taken /\ clock_started_' = clock_started_
      /\ server' = server /\ failed' = failed /\ played' = played
  BY Zenon
<1>2. /\ p \in PipeType /\ p.exists = pipe.exists /\ p.wr = pipe.wr /\ p.rd = pipe.rd
      /\ p.handler = pipe.handler /\ p.in_flight = pipe.in_flight /\ p.scheduled = FALSE
      /\ p.signalled = pipe.signalled
  BY Zenon, Types DEF IInv, PipeType
<1>3. pipe = NoPipe => p = NoPipe
  <2>1. pipe = NoPipe => pipe.scheduled = FALSE
    BY Zenon, NoPipeFields
  <2>2. pipe.scheduled = FALSE => p = pipe
    BY Types DEF IInv, PipeType
  <2> QED
    BY Zenon, <2>1, <2>2
<1> HIDE DEF p
<1>4. WavTypeOK'
  BY Zenon, <1>1, <1>2 DEF IInv, WavTypeOK, PipeType, InFlightType
<1>5. PhaseInv' /\ ChunkInv' /\ IntactNeverFails'
  BY <1>1 DEF IInv, PhaseInv, ChunkInv, IntactNeverFails
<1>6. PipeInv'
  <2>1. Hi' = Hi /\ Pending(pipe)' = Pending(pipe)
    BY Zenon, <1>1, <1>2 DEF Hi, Pending
  <2> QED
    BY Zenon, <1>1, <1>2, <2>1 DEF IInv, PipeInv
<1>7. LastInv'
  BY Zenon, <1>1, <1>2 DEF IInv, LastInv
<1>8. EndInv'
  <2>1. Done' <=> Done
    BY Zenon, <1>1 DEF Done
  <2> QED
    BY Zenon, <1>1, <1>3, <2>1 DEF IInv, EndInv
<1> QED
  BY <1>4, <1>5, <1>6, <1>7, <1>8 DEF IInv

\* What OnNeedsData finds: a pipe with room for the chunk, and a player that has put all
\* it has taken into the pipe.
LEMMA RoomIsFound ==
    ASSUME WellSized, IInv, app = "playing", pipe.handler = TRUE, pipe.signalled = TRUE,
           payload_len_ > 0,
           NEW p \in PipeType, p.wr = pipe.wr, p.rd = pipe.rd,
           NEW bytes, bytes = IF Chunk > payload_len_ THEN payload_len_ ELSE Chunk
    PROVE  /\ ~NoRoom(p, bytes)
           /\ bytes \in Nat /\ bytes <= payload_len_
           /\ Hi \in Nat /\ Lo \in Nat /\ Lo <= Hi
           /\ failed = FALSE /\ pipe.exists = TRUE /\ pipe.wr = taken
           /\ Accepted(file) /\ taken + payload_len_ = Payload(file) /\ Payload(file) \in Nat
<1>1. /\ Accepted(file) /\ taken + payload_len_ = Payload(file)
  BY Zenon DEF IInv, ChunkInv
<1>2. /\ Payload(file) \in Nat /\ Hi \in Nat /\ Lo \in Nat /\ Lo <= Hi /\ Chunk \in Nat
      /\ Depth \in Nat /\ Hi + Chunk <= Depth
  <2>1. file \in Files
    BY Zenon, Types DEF IInv
  <2> QED
    BY Zenon, <1>1, <2>1, Sizes DEF Hi, Lo, Chunk, Depth
<1>3. payload_len_ \in Nat /\ pipe.rd \in Nat /\ pipe.wr \in Nat
  BY Zenon, Types DEF IInv
<1>4. bytes \in Nat /\ bytes <= payload_len_ /\ bytes <= Chunk
  BY <1>2, <1>3
<1>5. /\ failed = FALSE /\ pipe.exists = TRUE /\ pipe.wr = taken
      /\ Pending(pipe) < Hi
  BY Zenon DEF IInv, PipeInv
<1>6. Pending(p) = Pending(pipe) /\ Pending(pipe) \in Int
  BY <1>3 DEF Pending
<1>7. ~(Pending(p) + bytes > Depth - 1)
  BY <1>2, <1>4, <1>5, <1>6
<1> QED
  BY Zenon, <1>1, <1>2, <1>4, <1>5, <1>7 DEF NoRoom

\* The packet that OnNeedsData creates moves the write position on, and nothing else
\* that the invariants speak of.
LEMMA Creates ==
    ASSUME NEW p \in PipeType, NEW bytes \in Nat, Hi \in Nat, Lo \in Nat, Lo <= Hi
    PROVE  LET q == Created(p, bytes)
           IN  /\ q \in PipeType
               /\ q.exists = p.exists /\ q.rd = p.rd /\ q.wr = p.wr + bytes
               /\ q.in_flight = p.in_flight /\ q.handler = p.handler
               /\ q.signalled = TRUE => Pending(q) < Hi
<1> DEFINE r == [p EXCEPT !.wr = p.wr + bytes]
<1>1. p.wr \in Nat
  BY DEF PipeType
<1>2. p.wr + bytes \in Nat
  BY <1>1
<1>3. /\ r \in PipeType /\ r.exists = p.exists /\ r.rd = p.rd /\ r.wr = p.wr + bytes
      /\ r.in_flight = p.in_flight /\ r.handler = p.handler
  BY <1>2 DEF PipeType
<1>4. Created(p, bytes) = UpdateSignalled(r)
  BY Zenon DEF Created
<1> HIDE DEF r
<1> QED
  BY Zenon, <1>3, <1>4, Updates

\* The body ends inside the chunk: what is left to read does not come.
LEMMA SourceEndsKeeps ==
    ASSUME WellSized, IInv, app = "playing", pipe.handler = TRUE, payload_len_ > 0,
           NEW p \in PipeType, p.wr = pipe.wr, p.rd = pipe.rd, p.in_flight = pipe.in_flight,
           p.exists = pipe.exists,
           NEW bytes \in Nat, bytes <= payload_len_,
           Hi \in Nat, Lo \in Nat, Lo <= Hi, pipe.exists = TRUE, Accepted(file),
           taken + payload_len_ = Payload(file), Payload(file) \in Nat,
           SourceEnds(p, bytes), UNCHANGED <<file, app, server, played>>
    PROVE  IInv'
<1> DEFINE q == Created(p, bytes)
<1>1. /\ file.available - taken < bytes
      /\ packet' = bytes /\ failed' = TRUE /\ pipe' = [q EXCEPT !.handler = FALSE]
      /\ posted' = TRUE /\ clock_started_' = clock_started_
      /\ file' = file /\ app' = app /\ server' = server /\ played' = played
  BY Zenon DEF SourceEnds, PostShutdown
<1>2. PICK n \in 0 .. (bytes - 1) : payload_len_' = payload_len_ - n /\ taken' = taken + n
  BY Zenon DEF SourceEnds
<1>3. /\ q \in PipeType /\ q.exists = p.exists /\ q.wr = p.wr + bytes
      /\ q.in_flight = p.in_flight
  BY Zenon, Creates
<1> HIDE DEF q
<1>4. /\ pipe' \in PipeType /\ pipe'.handler = FALSE /\ pipe'.exists = TRUE
      /\ pipe'.in_flight = pipe.in_flight
  BY Zenon, <1>1, <1>3, Unhandled
<1>5. payload_len_ \in Nat /\ taken \in Nat /\ file.available \in Nat
  <2>1. file \in Files
    BY Zenon, Types DEF IInv
  <2>2. file.available \in Nat
    BY Zenon, <2>1 DEF WellSized
  <2> QED
    BY Zenon, <2>2, Types DEF IInv
<1>6. /\ payload_len_' \in Nat /\ payload_len_' > 0 /\ taken' \in Nat
      /\ taken' + payload_len_' = Payload(file)
  BY <1>2, <1>5
<1>7. ~Intact(file)
  <2>1. ~(file.available >= Payload(file))
    BY <1>1, <1>5
  <2> QED
    BY Zenon, <2>1 DEF Intact
<1>8. WavTypeOK'
  BY <1>1, <1>4, <1>6 DEF IInv, WavTypeOK, PipeType, InFlightType
<1>9. PhaseInv' /\ EndInv'
  BY <1>1 DEF PhaseInv, EndInv
<1>10. ChunkInv' /\ IntactNeverFails'
  BY Zenon, <1>1, <1>6, <1>7 DEF ChunkInv, IntactNeverFails
<1>11. PipeInv'
  BY <1>1, <1>4 DEF PipeInv
<1>12. LastInv'
  <2>1. \A i \in 1 .. Len(pipe.in_flight) : ~(pipe.in_flight[i].last = TRUE)
    <3>1. payload_len_ # 0
      BY <1>5
    <3> QED
      BY Zenon, <3>1 DEF IInv, LastInv
  <2> QED
    BY Zenon, <1>4, <2>1 DEF LastInv
<1> QED
  BY <1>8, <1>9, <1>10, <1>11, <1>12 DEF IInv

\* The chunk is sent, the last one of them ending where the data chunk ends.
LEMMA SendChunkKeeps ==
    ASSUME WellSized, IInv, app = "playing", pipe.handler = TRUE, payload_len_ > 0,
           pipe.scheduled = TRUE,
           NEW p \in PipeType, p.wr = pipe.wr, p.rd = pipe.rd, p.in_flight = pipe.in_flight,
           p.exists = pipe.exists, p.handler = pipe.handler,
           NEW bytes \in Nat, bytes <= payload_len_,
           Hi \in Nat, Lo \in Nat, Lo <= Hi, pipe.exists = TRUE, Accepted(file),
           taken + payload_len_ = Payload(file), Payload(file) \in Nat,
           failed = FALSE, pipe.wr = taken,
           SendChunk(p, bytes), UNCHANGED <<file, app, server, played>>
    PROVE  IInv'
<1> DEFINE q == Created(p, bytes)
           l == payload_len_ = bytes
           e == [post_consume_rd |-> q.wr, last |-> l]
<1>1. /\ payload_len_' = payload_len_ - bytes /\ taken' = taken + bytes
      /\ clock_started_' = (clock_started_ \/ Pending(pipe') >= Hi \/ payload_len_ = bytes)
      /\ packet' = packet /\ failed' = failed /\ posted' = posted
      /\ file' = file /\ app' = app /\ server' = server /\ played' = played
  BY Zenon DEF SendChunk
<1>2. pipe' = [q EXCEPT !.in_flight = Append(q.in_flight, e)]
  BY Zenon DEF SendChunk, Sent
<1>3. /\ q \in PipeType /\ q.exists = p.exists /\ q.rd = p.rd /\ q.wr = p.wr + bytes
      /\ q.in_flight = p.in_flight /\ q.handler = p.handler
      /\ q.signalled = TRUE => Pending(q) < Hi
  BY Zenon, Creates
<1> HIDE DEF q
<1>4. l \in BOOLEAN
  BY Zenon
<1> HIDE DEF l
<1>5. q.wr \in Nat /\ q.in_flight \in InFlightType
  BY <1>3 DEF PipeType
<1>6. e \in [post_consume_rd : Nat, last : BOOLEAN] /\ e.post_consume_rd = q.wr /\ e.last = l
  BY <1>4, <1>5
<1> HIDE DEF e
<1>7. /\ Append(pipe.in_flight, e) \in InFlightType
      /\ \A i \in 1 .. Len(Append(pipe.in_flight, e)) :
            \/ i \in 1 .. Len(pipe.in_flight) /\ Append(pipe.in_flight, e)[i] = pipe.in_flight[i]
            \/ Append(pipe.in_flight, e)[i] = e
  <2> DEFINE S == [post_consume_rd : Nat, last : BOOLEAN]
  <2>1. pipe.in_flight \in Seq(S) /\ InFlightType = Seq(S)
    BY Zenon, Types DEF IInv, InFlightType
  <2>2. e \in S
    BY Zenon, <1>6
  <2> HIDE DEF S
  <2> QED
    <3>1. Append(pipe.in_flight, e) \in Seq(S)
      BY Zenon, <2>1, <2>2, AppendOf
    <3>2. \A i \in 1 .. Len(Append(pipe.in_flight, e)) :
             \/ i \in 1 .. Len(pipe.in_flight) /\ Append(pipe.in_flight, e)[i] = pipe.in_flight[i]
             \/ Append(pipe.in_flight, e)[i] = e
      <4> DEFINE a == Append(pipe.in_flight, e)
      <4>1. \A i \in 1 .. Len(a) :
               (i \in 1 .. Len(pipe.in_flight) /\ a[i] = pipe.in_flight[i]) \/ a[i] = e
        BY SMT, <2>1, <2>2, AppendOf
      <4> QED
        BY <4>1
    <3> QED
      BY Zenon, <2>1, <3>1, <3>2
<1>8. /\ pipe' \in PipeType /\ pipe'.exists = q.exists /\ pipe'.rd = q.rd /\ pipe'.wr = q.wr
      /\ pipe'.handler = q.handler /\ pipe'.signalled = q.signalled
      /\ pipe'.in_flight = Append(pipe.in_flight, e)
  <2>1. Append(q.in_flight, e) = Append(pipe.in_flight, e)
    BY Zenon, <1>3
  <2> DEFINE a == Append(pipe.in_flight, e)
  <2>2. a \in InFlightType /\ pipe' = [q EXCEPT !.in_flight = a]
    BY Zenon, <1>2, <1>7, <2>1
  <2> HIDE DEF a
  <2>3. /\ pipe' \in PipeType /\ pipe'.exists = q.exists /\ pipe'.rd = q.rd /\ pipe'.wr = q.wr
        /\ pipe'.handler = q.handler /\ pipe'.signalled = q.signalled /\ pipe'.in_flight = a
    BY <1>3, <2>2 DEF PipeType
  <2> QED
    BY Zenon, <2>3 DEF a
<1>9. payload_len_ \in Nat /\ taken \in Nat /\ clock_started_ \in BOOLEAN
  BY Zenon, Types DEF IInv
<1>10. /\ payload_len_' \in Nat /\ taken' \in Nat /\ taken' + payload_len_' = Payload(file)
       /\ q.wr = taken'
  BY <1>1, <1>3, <1>9
<1>11. WavTypeOK'
  <2>1. clock_started_' \in BOOLEAN
    <3>1. (Pending(pipe') >= Hi) \in BOOLEAN
      <4>1. pipe'.rd \in Nat /\ pipe'.wr \in Nat
        BY <1>8 DEF PipeType
      <4>2. Pending(pipe') \in Int
        BY <4>1 DEF Pending
      <4> QED
        BY <4>2
    <3> QED
      BY Zenon, <1>1, <1>9, <3>1
  <2> QED
    BY <1>1, <1>8, <1>10, <2>1 DEF IInv, WavTypeOK, PipeType, InFlightType
<1>12. PhaseInv' /\ ChunkInv' /\ IntactNeverFails'
  BY Zenon, <1>1, <1>10 DEF PhaseInv, ChunkInv, IntactNeverFails
<1>13. PipeInv'
  <2>1. Hi' = Hi /\ Pending(pipe)' = Pending(q)
    BY Zenon, <1>1, <1>8 DEF Hi, Pending
  <2>2. packet = 0
    BY Zenon DEF IInv, PipeInv
  <2> QED
    BY Zenon, <1>1, <1>3, <1>8, <1>10, <2>1, <2>2 DEF PipeInv
<1>14. LastInv'
  <2>1. SUFFICES ASSUME NEW i \in 1 .. Len(pipe'.in_flight), pipe'.in_flight[i].last = TRUE
                 PROVE  payload_len_' = 0 /\ pipe'.in_flight[i].post_consume_rd = Payload(file)
    BY Zenon, <1>1 DEF LastInv
  <2>2. CASE i \in 1 .. Len(pipe.in_flight) /\ pipe'.in_flight[i] = pipe.in_flight[i]
    <3>1. payload_len_ = 0
      BY Zenon, <2>1, <2>2 DEF IInv, LastInv
    <3> QED
      BY <1>9, <3>1
  <2>3. CASE pipe'.in_flight[i] = e
    <3>1. payload_len_ = bytes
      BY Zenon, <1>6, <2>1, <2>3 DEF l
    <3>2. payload_len_' = 0 /\ taken' = Payload(file)
      BY <1>1, <1>9, <3>1
    <3> QED
      BY Zenon, <1>6, <1>10, <2>3, <3>2
  <2> QED
    BY Zenon, <1>7, <1>8, <2>2, <2>3
<1>15. EndInv'
  <2>1. ~(posted = TRUE /\ server = "up")
    BY NoPipeFields DEF IInv, EndInv
  <2> QED
    BY <1>1, <2>1 DEF EndInv
<1> QED
  BY <1>11, <1>12, <1>13, <1>14, <1>15 DEF IInv

\* CircularBufferMediaPipeAdapter::HandleSignalCallback and PlayWAVApp::OnNeedsData.
LEMMA HandleSignalCallbackKeeps ==
    ASSUME WellSized, IInv, HandleSignalCallback
    PROVE  IInv'
<1> DEFINE p == [pipe EXCEPT !.scheduled = FALSE]
           bytes == IF Chunk > payload_len_ THEN payload_len_ ELSE Chunk
<1>1. /\ app = "playing" /\ pipe.scheduled /\ UNCHANGED <<file, app, server, played>>
  BY Zenon DEF HandleSignalCallback
<1>2. /\ p \in PipeType /\ p.exists = pipe.exists /\ p.wr = pipe.wr /\ p.rd = pipe.rd
      /\ p.handler = pipe.handler /\ p.in_flight = pipe.in_flight
      /\ p.signalled = pipe.signalled
      /\ pipe.handler \in BOOLEAN /\ pipe.signalled \in BOOLEAN /\ pipe.scheduled \in BOOLEAN
  BY Zenon, Types DEF IInv, PipeType
<1>3. pipe.scheduled = TRUE
  BY <1>1, <1>2
<1>4. CASE ~(pipe.signalled = TRUE /\ pipe.handler = TRUE) \/ payload_len_ = 0
  <2>1. /\ pipe' = p /\ UNCHANGED <<payload_len_, taken, packet>>
        /\ UNCHANGED <<clock_started_, posted, failed, file, app, server, played>>
    <3>1. CASE ~(pipe.signalled = TRUE /\ pipe.handler = TRUE)
      <4>1. ~(p.signalled /\ p.handler)
        BY Zenon, <1>2, <3>1
      <4> QED
        BY Zenon, <4>1 DEF HandleSignalCallback
    <3>2. CASE pipe.signalled = TRUE /\ pipe.handler = TRUE /\ payload_len_ = 0
      <4>1. p.signalled /\ p.handler
        BY Zenon, <1>2, <3>2
      <4>2. OnNeedsData(p)
        BY Zenon, <4>1 DEF HandleSignalCallback
      <4>3. ~(payload_len_ > 0)
        BY <3>2
      <4> QED
        BY Zenon, <1>1, <4>2, <4>3 DEF OnNeedsData
    <3> QED
      BY Zenon, <1>4, <3>1, <3>2
  <2> QED
    BY Zenon, <1>1, <2>1, CallbackIsIdle
<1>5. CASE pipe.signalled = TRUE /\ pipe.handler = TRUE /\ payload_len_ # 0
  <2>1. payload_len_ > 0
    BY <1>5, Types DEF IInv
  <2>2. OnNeedsData(p)
    <3>1. p.signalled /\ p.handler
      BY Zenon, <1>2, <1>5
    <3> QED
      BY Zenon, <3>1 DEF HandleSignalCallback
  <2>3. /\ ~NoRoom(p, bytes)
        /\ bytes \in Nat /\ bytes <= payload_len_
        /\ Hi \in Nat /\ Lo \in Nat /\ Lo <= Hi
        /\ failed = FALSE /\ pipe.exists = TRUE /\ pipe.wr = taken
        /\ Accepted(file) /\ taken + payload_len_ = Payload(file) /\ Payload(file) \in Nat
    <3> HIDE DEF p
    <3> QED
      BY Zenon, <1>1, <1>2, <1>5, <2>1, RoomIsFound
  <2>4. SourceEnds(p, bytes) \/ SendChunk(p, bytes)
    BY Zenon, <1>5, <2>2, <2>3 DEF OnNeedsData
  <2> HIDE DEF p, bytes
  <2>5. CASE SourceEnds(p, bytes)
    BY Zenon, <1>1, <1>2, <1>5, <2>1, <2>3, <2>5, SourceEndsKeeps
  <2>6. CASE SendChunk(p, bytes)
    BY Zenon, <1>1, <1>2, <1>3, <1>5, <2>1, <2>3, <2>6, SendChunkKeeps
  <2> QED
    BY Zenon, <2>4, <2>5, <2>6
<1> QED
  BY Zenon, <1>4, <1>5

\* What the invariants say of PlaysWhole.
LEMMA IInvImplies ==
    ASSUME IInv
    PROVE  PlaysWhole
<1>1. EndsWhenPlayed
  BY Types DEF IInv, EndInv, Done, EndsWhenPlayed
<1>2. packet # 0 => pipe.exists
  BY Zenon DEF IInv, PipeInv
<1>3. ASSUME pipe.in_flight # <<>>, Head(pipe.in_flight).last
      PROVE  Head(pipe.in_flight).post_consume_rd = pipe.wr
  <2> DEFINE e == Head(pipe.in_flight)
  <2>1. /\ e \in [post_consume_rd : Nat, last : BOOLEAN] /\ e = pipe.in_flight[1]
        /\ 1 \in 1 .. Len(pipe.in_flight)
    BY Zenon, <1>3, Types, TailOf DEF IInv, InFlightType
  <2>2. e.last = TRUE
    BY <1>3, <2>1
  <2> HIDE DEF e
  <2>3. payload_len_ = 0 /\ e.post_consume_rd = Payload(file)
    BY Zenon, <2>1, <2>2 DEF IInv, LastInv
  <2>4. app = "playing"
    <3>1. pipe # NoPipe
      BY Zenon, <1>3, NoPipeFields
    <3> QED
      BY <3>1 DEF IInv, PhaseInv, WavTypeOK
  <2>5. taken + payload_len_ = Payload(file) /\ (failed = TRUE => payload_len_ > 0)
    BY Zenon, <2>4 DEF IInv, ChunkInv
  <2>6. failed \in BOOLEAN /\ taken \in Nat
    BY Zenon, Types DEF IInv
  <2>7. failed = FALSE /\ taken = Payload(file)
    BY <2>3, <2>5, <2>6
  <2>8. pipe.wr = taken
    BY Zenon, <1>3, <2>7 DEF IInv, PipeInv
  <2> QED
    BY Zenon, <2>3, <2>7, <2>8 DEF e
<1>4. ChecksHold
  BY Zenon, <1>2, <1>3 DEF ChecksHold
<1> QED
  BY Zenon, <1>1, <1>4 DEF IInv, PlaysWhole

\* For every set of files and every buffer that has room for a chunk above its high mark:
\* PlayWAVApp::OnNeedsData never fails for a file with nothing wrong, the player of a
\* living server ends after an error or with every frame of the data chunk played
\* (OnPlayoutComplete), and the checks of OnPlayoutComplete and Shutdown hold.
THEOREM PlaysWholeHolds ==
    ASSUME WellSized
    PROVE  WavSpec => []PlaysWhole
<1>1. WavInit => IInv
  BY InitIInv
<1>2. IInv /\ [WavNext]_wavVars => IInv'
  <2>1. ASSUME IInv, UNCHANGED wavVars PROVE IInv'
    <3>1. /\ app' = app /\ packet' = packet /\ pipe' = pipe /\ posted' = posted /\ file' = file
          /\ payload_len_' = payload_len_ /\ taken' = taken /\ clock_started_' = clock_started_
          /\ server' = server /\ failed' = failed /\ played' = played
      BY Zenon, <2>1 DEF wavVars
    <3>2. WavTypeOK'
      BY Zenon, <2>1, <3>1 DEF IInv, WavTypeOK
    <3>3. PhaseInv' /\ ChunkInv' /\ IntactNeverFails'
      BY <2>1, <3>1 DEF IInv, PhaseInv, ChunkInv, IntactNeverFails
    <3>4. PipeInv'
      <4>1. Hi' = Hi /\ Pending(pipe)' = Pending(pipe)
        BY Zenon, <3>1 DEF Hi, Pending
      <4> QED
        BY Zenon, <2>1, <3>1, <4>1 DEF IInv, PipeInv
    <3>5. LastInv'
      BY Zenon, <2>1, <3>1 DEF IInv, LastInv
    <3>6. EndInv'
      BY Zenon, <2>1, <3>1 DEF IInv, EndInv, Done
    <3> QED
      BY Zenon, <3>2, <3>3, <3>4, <3>5, <3>6 DEF IInv
  <2> QED
    BY Zenon, <2>1, ProcessHTTPResponseKeeps, HandleSignalCallbackKeeps, ShutdownKeeps,
       AdapterFaultsKeeps, OnConnectionErrorKeeps, HandleSendPacketKeeps, ServerDiesKeeps
       DEF WavNext, LoopNext
<1>3. IInv => PlaysWhole
  BY IInvImplies
<1> QED
  BY <1>1, <1>2, <1>3, PTL DEF WavSpec
=============================================================================
