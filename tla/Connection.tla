----------------------------- MODULE Connection -----------------------------
(***************************************************************************)
(* A connection between two services: MojoProducer, the sink of one        *)
(* service's graph, sends packets over a message pipe to MojoConsumer, the *)
(* source of the next service's graph.  A push window of Limit packets     *)
(* bounds what is outstanding; Prime opens it and Flush closes it.         *)
(*                                                                         *)
(* The producer has up to two threads.  Its main thread runs the tasks and *)
(* the handlers of messages; the engine thread supplies packets.  In the   *)
(* demux service the engine thread is the demux's worker; in the decoder   *)
(* and sink services it is the main thread.                                *)
(*                                                                         *)
(* A demand callback runs after the lock that guarded the computation of   *)
(* the demand was released, and it updates the engine, which may supply    *)
(* packets before the callback returns.  So a handler is up to three       *)
(* steps: its critical section, its demand callback, and the rest.         *)
(***************************************************************************)
EXTENDS Integers, Sequences

CONSTANTS
    Limit,          \* pushes outstanding at most; the code has 3
    Suppliers,      \* the threads that may supply packets, "main" and "worker"
    MaxPackets,     \* bound on the packets supplied
    MaxFlushes,     \* bound on the flushes
    MaxDisconnects  \* bound on the disconnections

ASSUME ConnectionAssumption ==
    /\ Limit \in Nat \ {0} /\ Suppliers \subseteq {"main", "worker"}
    /\ MaxPackets \in Nat /\ MaxFlushes \in Nat /\ MaxDisconnects \in Nat

VARIABLES
    \* MojoProducer
    bound,          \* consumer_ is bound
    max, current,   \* max_pushes_outstanding_, current_pushes_outstanding_
    endOfStream, state,
    main,           \* the handler of the main thread and how far it is
    supply,         \* what SupplyPacket is about to return on the engine thread
    tasks,          \* posted SendPacket tasks
    \* the stage and the graph upstream
    sinkDemand, upstreamEnded, supplied, flushes,
    \* the pipe and MojoConsumer
    toConsumer, held, releases, flushOwed, toProducer,
    \* the client
    client, disconnects,
    supplier,       \* the thread that supplies packets
    \* history
    received        \* the packet the consumer accepted last

producer == <<bound, max, current, endOfStream, state>>
threads == <<main, supply>>
upstream == <<sinkDemand, upstreamEnded, supplied, flushes>>
consumer == <<held, releases, flushOwed, received>>
vars == <<producer, threads, tasks, upstream, toConsumer, consumer, toProducer,
          client, disconnects, supplier>>

Demands == {"negative", "neutral", "positive"}
Packet(id, eos) == [kind |-> "Packet", id |-> id, eos |-> eos]
Packets == [kind : {"Packet"}, id : 0 .. MaxPackets, eos : BOOLEAN]
NoPacket == Packet(0, FALSE)
Control(kind) == [kind |-> kind]
Idle == [at |-> "idle", demand |-> "negative", ended |-> FALSE]

TypeOK ==
    /\ bound \in BOOLEAN /\ endOfStream \in BOOLEAN
    /\ max \in {0, Limit} /\ current \in 0 .. MaxPackets
    /\ state \in {"UNPREPARED", "PAUSED", "ENDED"}
    /\ main \in [at : {"idle", "prime", "primeRest", "flush", "sent",
                       "sentRest", "crashed"}, demand : Demands,
                 ended : BOOLEAN]
    /\ supply \in Demands \cup {"idle"}
    /\ tasks \in Seq(Packets) /\ held \in Seq(Packets) /\ releases \in Seq(Packets)
    /\ sinkDemand \in Demands /\ upstreamEnded \in BOOLEAN
    /\ supplied \in 0 .. MaxPackets /\ flushes \in 0 .. MaxFlushes
    /\ toConsumer \in Seq(Packets \cup [kind : {"Prime", "Flush"}])
    /\ toProducer \in Seq(Packets \cup [kind : {"primed", "flushed"}])
    /\ flushOwed \in BOOLEAN
    /\ client \in {"flushed", "priming", "primed", "flushing"}
    /\ disconnects \in 0 .. MaxDisconnects
    /\ received \in Packets
    /\ supplier \in Suppliers

Init ==
    /\ bound = FALSE /\ max = 0 /\ current = 0 /\ endOfStream = FALSE
    /\ state = "UNPREPARED"
    /\ main = Idle /\ supply = "idle" /\ tasks = <<>>
    /\ sinkDemand = "negative" /\ upstreamEnded = FALSE
    /\ supplied = 0 /\ flushes = 0
    /\ toConsumer = <<>> /\ held = <<>> /\ releases = <<>>
    /\ flushOwed = FALSE /\ toProducer = <<>>
    /\ client = "flushed" /\ disconnects = 0
    /\ received = NoPacket
    /\ supplier \in Suppliers

\* The main thread may start a handler or a task.
MainFree == main = Idle /\ (supplier = "worker" \/ supply = "idle")

\* Mutant of WindowDemand: one packet too many.
WindowDemandOff(outstanding, limit) ==
    IF outstanding <= limit THEN "positive" ELSE "negative"

\* Room in the window: the demand every update of the counters computes.
WindowDemand(outstanding, limit) ==
    IF outstanding < limit THEN "positive" ELSE "negative"

-----------------------------------------------------------------------------
(* MojoProducer, main thread *)

Connect ==
    /\ MainFree /\ ~bound /\ client = "flushed"
    /\ bound' = TRUE
    /\ UNCHANGED <<max, current, endOfStream, state, threads, tasks, upstream,
                   toConsumer, held, releases, flushOwed, received, toProducer,
                   client, disconnects, supplier>>

\* Disconnect drops the pipe, and with it every answer it owes.
Disconnect ==
    /\ MainFree /\ bound /\ disconnects < MaxDisconnects
    /\ client \in {"flushed", "primed"}
    /\ disconnects' = disconnects + 1
    /\ bound' = FALSE /\ state' = "UNPREPARED" /\ sinkDemand' = "negative"
    /\ toConsumer' = <<>> /\ toProducer' = <<>> /\ held' = <<>>
    /\ releases' = <<>> /\ flushOwed' = FALSE
    /\ client' = "flushed"
    /\ UNCHANGED <<max, current, endOfStream, threads, tasks, upstreamEnded,
                   supplied, flushes, received, supplier>>

\* PrimeConnection, up to the end of its critical section.
PrimeConnection ==
    /\ MainFree /\ client = "flushed"
    /\ client' = "priming"
    /\ max' = IF bound THEN Limit ELSE max
    /\ main' = [at |-> "prime", ended |-> FALSE,
                demand |-> IF bound THEN WindowDemand(current, Limit) ELSE "neutral"]
    /\ UNCHANGED <<bound, current, endOfStream, state, supply, tasks, upstream,
                   toConsumer, consumer, toProducer, disconnects, supplier>>

\* Its demand callback.
PrimeSignals ==
    /\ main.at = "prime"
    /\ sinkDemand' = main.demand
    /\ main' = [main EXCEPT !.at = "primeRest"]
    /\ UNCHANGED <<producer, supply, tasks, upstreamEnded, supplied, flushes,
                   toConsumer, consumer, toProducer, client, disconnects, supplier>>

\* The engine is up to date when the callback returns.
Returned == supplier = "worker" \/ supply = "idle"

PrimeContinues ==
    /\ main.at = "primeRest" /\ Returned
    /\ state' = "PAUSED"
    /\ IF bound
       THEN toConsumer' = Append(toConsumer, Control("Prime")) /\ UNCHANGED client
       ELSE client' = "primed" /\ UNCHANGED toConsumer
    /\ main' = Idle
    /\ UNCHANGED <<bound, max, current, endOfStream, supply, tasks, upstream,
                   consumer, toProducer, disconnects, supplier>>

\* The flush of the graph, which takes the engine's lock and forgets the sink's
\* demand, then FlushConnection, up to the end of its critical section.
FlushConnection ==
    /\ MainFree /\ supply = "idle" /\ client = "primed" /\ flushes < MaxFlushes
    /\ sinkDemand' = "negative"
    /\ client' = "flushing"
    /\ flushes' = flushes + 1 /\ upstreamEnded' = FALSE
    /\ max' = 0
    /\ main' = [at |-> "flush", demand |-> "negative", ended |-> FALSE]
    /\ UNCHANGED <<bound, current, endOfStream, state, supply, tasks,
                   supplied, toConsumer, consumer, toProducer, disconnects, supplier>>

\* Its demand callback, which finds nothing to do, and the rest.
FlushContinues ==
    /\ main.at = "flush"
    /\ sinkDemand' = "negative"
    /\ IF bound
       THEN toConsumer' = Append(toConsumer, Control("Flush")) /\ UNCHANGED client
       ELSE client' = "flushed" /\ UNCHANGED toConsumer
    /\ endOfStream' = FALSE
    /\ main' = Idle
    /\ UNCHANGED <<bound, max, current, state, supply, tasks, upstreamEnded,
                   supplied, flushes, consumer, toProducer, disconnects, supplier>>

\* The posted task SendPacket.
SendPacket ==
    /\ MainFree /\ tasks # <<>> /\ bound
    /\ toConsumer' = Append(toConsumer, Head(tasks))
    /\ tasks' = Tail(tasks)
    /\ UNCHANGED <<producer, threads, upstream, consumer, toProducer, client,
                   disconnects, supplier>>

\* The task calls through consumer_, which Disconnect has reset.
SendPacketUnbound ==
    /\ MainFree /\ tasks # <<>> /\ ~bound
    /\ main' = [Idle EXCEPT !.at = "crashed"]
    /\ UNCHANGED <<producer, supply, tasks, upstream, toConsumer, consumer,
                   toProducer, client, disconnects, supplier>>

\* The answer to SendPacket, up to the end of its critical section.
PacketSent ==
    /\ MainFree /\ toProducer # <<>> /\ Head(toProducer).kind = "Packet"
    /\ toProducer' = Tail(toProducer)
    /\ current' = current - 1
    /\ main' = [at |-> "sent", demand |-> WindowDemand(current - 1, max),
                ended |-> Head(toProducer).eos]
    /\ UNCHANGED <<bound, max, endOfStream, state, supply, tasks, upstream,
                   toConsumer, consumer, client, disconnects, supplier>>

\* Its demand callback.
SentSignals ==
    /\ main.at = "sent"
    /\ sinkDemand' = main.demand
    /\ main' = [main EXCEPT !.at = "sentRest"]
    /\ UNCHANGED <<producer, supply, tasks, upstreamEnded, supplied, flushes,
                   toConsumer, consumer, toProducer, client, disconnects, supplier>>

\* Mutant of SentContinues: the end of the stream is not reported.
SentContinuesEndless ==
    /\ main.at = "sentRest" /\ Returned
    /\ main' = Idle
    /\ UNCHANGED <<producer, supply, tasks, upstream, toConsumer, consumer,
                   toProducer, client, disconnects, supplier>>

SentContinues ==
    /\ main.at = "sentRest" /\ Returned
    /\ state' = IF endOfStream /\ main.ended THEN "ENDED" ELSE state
    /\ main' = Idle
    /\ UNCHANGED <<bound, max, current, endOfStream, supply, tasks, upstream,
                   toConsumer, consumer, toProducer, client, disconnects, supplier>>

\* The answers to Prime and Flush are passed on to the client.
Answered ==
    /\ MainFree /\ toProducer # <<>> /\ Head(toProducer).kind # "Packet"
    /\ toProducer' = Tail(toProducer)
    /\ client' = Head(toProducer).kind
    /\ UNCHANGED <<producer, threads, tasks, upstream, toConsumer, consumer,
                   disconnects, supplier>>

-----------------------------------------------------------------------------
(* MojoProducer, engine thread: ActiveSinkStage::Update calls SupplyPacket   *)
(* while the demand it has on record is not negative and keeps the demand    *)
(* that returns.                                                             *)

MaySupply ==
    /\ supply = "idle"
    /\ supplier = "worker" \/ main.at \in {"idle", "primeRest", "sentRest"}
    /\ sinkDemand # "negative" /\ ~upstreamEnded /\ supplied < MaxPackets

SupplyPacketAtOnce(eos) ==
    LET packet == Packet(supplied + 1, eos)
    IN /\ MaySupply /\ bound
       /\ supplied' = supplied + 1
       /\ upstreamEnded' = eos
       /\ current' = current + 1
       /\ endOfStream' = (endOfStream \/ eos)
       /\ max' = IF eos THEN 0 ELSE max
       /\ supply' = WindowDemand(current', max')
       /\ IF eos THEN toConsumer' = Append(toConsumer, packet) /\ UNCHANGED tasks
                 ELSE tasks' = Append(tasks, packet) /\ UNCHANGED toConsumer
       /\ UNCHANGED <<bound, state, main, sinkDemand, flushes, consumer,
                      toProducer, client, disconnects, supplier>>

SupplyPacket(eos) ==
    LET packet == Packet(supplied + 1, eos)
    IN /\ MaySupply
       /\ supplied' = supplied + 1
       /\ upstreamEnded' = eos
       /\ IF bound
          THEN /\ current' = current + 1
               /\ endOfStream' = (endOfStream \/ eos)
               /\ max' = IF eos THEN 0 ELSE max
               /\ supply' = IF eos THEN "negative" ELSE WindowDemand(current', max)
               /\ tasks' = Append(tasks, packet)
               /\ UNCHANGED state
          ELSE /\ endOfStream' = (endOfStream \/ eos)
               /\ state' = IF eos THEN "ENDED" ELSE state
               /\ supply' = IF eos THEN "negative" ELSE "neutral"
               /\ UNCHANGED <<current, max, tasks>>
       /\ UNCHANGED <<bound, main, sinkDemand, flushes, toConsumer, consumer,
                      toProducer, client, disconnects, supplier>>

SupplyReturns ==
    /\ supply # "idle"
    /\ sinkDemand' = supply
    /\ supply' = "idle"
    /\ UNCHANGED <<producer, main, tasks, upstreamEnded, supplied, flushes,
                   toConsumer, consumer, toProducer, client, disconnects, supplier>>

-----------------------------------------------------------------------------
(* MojoConsumer *)

\* SendPacket hands the packet to the graph; Prime is passed on and answered;
\* Flush makes the graph release the packets it holds.
ConsumerReceives ==
    LET message == Head(toConsumer)
    IN /\ toConsumer # <<>>
       /\ toConsumer' = Tail(toConsumer)
       /\ \/ /\ message.kind = "Prime"
             /\ toProducer' = Append(toProducer, Control("primed"))
             /\ UNCHANGED consumer
          \/ /\ message.kind = "Flush"
             /\ releases' = releases \o held
             /\ held' = <<>>
             /\ flushOwed' = TRUE
             /\ UNCHANGED <<received, toProducer>>
          \/ /\ message.kind = "Packet"
             /\ held' = Append(held, message)
             /\ received' = message
             /\ UNCHANGED <<releases, flushOwed, toProducer>>
       /\ UNCHANGED <<producer, threads, tasks, upstream, client, disconnects, supplier>>

\* The graph is done with its oldest packet: PacketImpl::Release posts a task.
Release ==
    /\ held # <<>>
    /\ releases' = Append(releases, Head(held))
    /\ held' = Tail(held)
    /\ UNCHANGED <<producer, threads, tasks, upstream, toConsumer, flushOwed,
                   received, toProducer, client, disconnects, supplier>>

\* The posted task RunCallback.
RunCallback ==
    /\ releases # <<>>
    /\ toProducer' = Append(toProducer, Head(releases))
    /\ releases' = Tail(releases)
    /\ UNCHANGED <<producer, threads, tasks, upstream, toConsumer, held, flushOwed,
                   received, client, disconnects, supplier>>

\* The flush is complete downstream.
FlushDone ==
    /\ flushOwed
    /\ flushOwed' = FALSE
    /\ toProducer' = Append(toProducer, Control("flushed"))
    /\ UNCHANGED <<producer, threads, tasks, upstream, toConsumer, held, releases,
                   received, client, disconnects, supplier>>

-----------------------------------------------------------------------------
ProducerSteps ==
    \/ PrimeSignals \/ PrimeContinues \/ FlushContinues
    \/ SendPacket \/ SendPacketUnbound \/ PacketSent \/ SentSignals
    \/ SentContinues \/ Answered \/ SupplyReturns

ConsumerSteps == ConsumerReceives \/ Release \/ RunCallback \/ FlushDone

Next ==
    \/ ProducerSteps \/ ConsumerSteps
    \/ Connect \/ Disconnect \/ PrimeConnection \/ FlushConnection
    \/ \E eos \in BOOLEAN : SupplyPacket(eos)

\* Handlers run to their end, posted tasks run, messages are delivered and the
\* graph downstream consumes what it is given.
Fairness ==
    /\ WF_vars(PrimeSignals) /\ WF_vars(PrimeContinues) /\ WF_vars(FlushContinues)
    /\ WF_vars(SendPacket) /\ WF_vars(PacketSent) /\ WF_vars(SentSignals)
    /\ WF_vars(SentContinues) /\ WF_vars(Answered)
    /\ WF_vars(SupplyReturns) /\ WF_vars(ConsumerReceives) /\ WF_vars(Release)
    /\ WF_vars(RunCallback) /\ WF_vars(FlushDone)
    /\ WF_vars(\E eos \in BOOLEAN : SupplyPacket(eos))

Spec == Init /\ [][Next]_vars /\ Fairness

-----------------------------------------------------------------------------
(* Properties *)

\* SupplyPacket is never entered with the window full or closed, nor after the
\* end of the stream: DCHECK(current_pushes_outstanding_ <
\* max_pushes_outstanding_) and DCHECK(!end_of_stream_) in SupplyPacket.  With
\* a worker the code does not ensure it: the worker may fill the window between
\* the critical section and the demand callback of a handler.
SuppliedWithinWindow ==
    supplier = "main" /\ bound /\ MaySupply => current < max /\ ~endOfStream

\* The consumer gets the packets in the order they were supplied, each once.
DeliveredInOrder ==
    [][received' # received => received'.id > received.id]_received

\* The end of the stream, once supplied, is reported, unless a flush takes it back
\* or Disconnect drops its answer.
EndIsReached ==
    bound /\ endOfStream ~> (state = "ENDED" \/ ~endOfStream \/ disconnects > 0)
=============================================================================
