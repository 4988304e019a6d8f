----------------------------- MODULE MediaPipe -----------------------------
(***************************************************************************)
(* A media pipe: CircularBufferMediaPipeAdapter, through which a client    *)
(* writes packets into a shared circular buffer, and MediaPipeBase at the  *)
(* other end of the connection, whose owner reads the packets and returns  *)
(* them.  The owner returns packets in the order in which it got them, as  *)
(* the audio server does (AudioServer, ReturnedInOrder).                   *)
(*                                                                         *)
(* The client is disciplined the way the clients of the repository are: it *)
(* writes when the signal callback asks it to, stops at the high water     *)
(* mark, sends packets in the order it created them and cancels the last   *)
(* one only.  All of it runs on one thread; the connection carries         *)
(* messages in order, both ways, and may be lost.                          *)
(***************************************************************************)
EXTENDS Integers, Sequences

CONSTANTS
    BufferSize,     \* bytes of the shared buffer
    Hi, Lo,         \* the water marks the client sets
    Sizes,          \* sizes of the client's packets
    Unset,          \* what rd_ and wr_, which no constructor sets, may hold
    MaxPackets, MaxHeld, MaxCancels, MaxFlushes

VARIABLES
    adapter,        \* CircularBufferMediaPipeAdapter
    held,           \* packets created and neither sent nor cancelled
    writing,        \* the client was asked to write and has not stopped yet
    sent, cancels, flushes, acked,
    undefined,      \* HandleFlush has popped an empty queue
    toConsumer, toAdapter, connected,
    consumer        \* MediaPipeBase and its owner

client == <<held, writing, sent, cancels, flushes>>
pipe == <<toConsumer, toAdapter, connected>>
vars == <<adapter, client, acked, undefined, pipe, consumer>>

Offsets == 0 .. BufferSize - 1
Seqs == 0 .. MaxPackets - 1
Packet == [start : Offsets, size : Sizes]
Message == [kind : {"buffer", "flush"}] \cup [kind : {"packet"}, seq : Seqs, packet : Packet]
Reply == [kind : {"flush"}] \cup [kind : {"packet"}, seq : Seqs]

\* What the client and its buffer must be like: packets are not empty, take at most
\* half of the buffer and fit above the high water mark.
Disciplined ==
    /\ BufferSize \in Nat \ {0} /\ Hi \in Nat /\ Lo \in Nat
    /\ Sizes \subseteq Nat
    /\ \A n \in Sizes : n >= 1 /\ 2 * n <= BufferSize /\ Hi + n <= BufferSize
    /\ MaxPackets \in Nat /\ MaxHeld \in Nat /\ MaxCancels \in Nat /\ MaxFlushes \in Nat

\* The members of the adapter: a packet in flight is the read pointer it leaves
\* behind and its number.
Adapter ==
    [rd : Offsets, wr : Offsets, buffer : BOOLEAN, hi : {0, Hi}, lo : {0, Lo},
     signalled : BOOLEAN, scheduled : BOOLEAN, cbk : BOOLEAN, faultMade : BOOLEAN,
     flushing : BOOLEAN, generation : 0 .. MaxFlushes, state : {"OK", "SHUTTING_DOWN"},
     inFlight : Seq([rd : Offsets, seq : Seqs])]

MappedPacket == [packet : Packet, cancel : Offsets, generation : 0 .. MaxFlushes]

MediaPipeBase == [buffer : BOOLEAN, packets : Seq([seq : Seqs, packet : Packet])]

TypeOK ==
    /\ adapter \in Adapter /\ held \in Seq(MappedPacket) /\ consumer \in MediaPipeBase
    /\ writing \in BOOLEAN /\ connected \in BOOLEAN /\ undefined \in BOOLEAN
    /\ sent \in 0 .. MaxPackets /\ acked \in 0 .. sent
    /\ cancels \in 0 .. MaxCancels /\ flushes \in 0 .. MaxFlushes
    /\ toConsumer \in Seq(Message) /\ toAdapter \in Seq(Reply)

\* The adapter after Init(size): the buffer is on its way to the other end.
Init ==
    /\ \E rd, wr \in Unset :
          adapter = [rd |-> rd, wr |-> wr, buffer |-> TRUE, hi |-> 0, lo |-> 0,
                     signalled |-> FALSE, scheduled |-> FALSE, cbk |-> FALSE,
                     faultMade |-> FALSE, flushing |-> FALSE, generation |-> 0,
                     state |-> "OK", inFlight |-> <<>>]
    /\ held = <<>> /\ writing = FALSE /\ undefined = FALSE
    /\ sent = 0 /\ cancels = 0 /\ flushes = 0 /\ acked = 0
    /\ toConsumer = <<[kind |-> "buffer"]>> /\ toAdapter = <<>> /\ connected = TRUE
    /\ consumer = [buffer |-> FALSE, packets |-> <<>>]

\* What nothing in the adapter ensures of a new pipe: that it is empty.  The constructor
\* and Init leave rd_ and wr_ as they find them; Flush is the first to set them.
EmptyAtFirst == adapter.rd \in Offsets /\ adapter.wr = adapter.rd

-----------------------------------------------------------------------------
(* The adapter's bookkeeping *)

Faulted(a) == a.state # "OK"
Busy(a) == a.flushing

GetPending(a) ==
    IF ~a.buffer THEN 0 ELSE (a.wr - a.rd) + (IF a.wr < a.rd THEN BufferSize ELSE 0)

AboveHiWater(a) == GetPending(a) >= a.hi

Signalled(a) ==
    \/ Faulted(a)
    \/ ~Busy(a) /\ IF a.signalled THEN ~AboveHiWater(a) ELSE GetPending(a) < a.lo

UpdateSignalled(a) ==
    [a EXCEPT !.signalled = Signalled(a),
              !.scheduled = @ \/ (Signalled(a) /\ ~a.faultMade)]

Cleanup(a) ==
    [a EXCEPT !.rd = 0, !.wr = 0, !.buffer = FALSE, !.cbk = FALSE,
              !.state = "SHUTTING_DOWN", !.inFlight = <<>>]

Fault(a) == UpdateSignalled(IF Faulted(a) THEN a ELSE Cleanup(a))

Post(message) == IF connected THEN Append(toConsumer, message) ELSE toConsumer

-----------------------------------------------------------------------------
(* The client, on the adapter's thread *)

SetWatermarks ==
    /\ ~undefined /\ adapter.hi = 0
    /\ adapter' = UpdateSignalled([adapter EXCEPT !.hi = Hi, !.lo = Lo])
    /\ UNCHANGED <<client, acked, undefined, pipe, consumer>>

SetSignalCallback ==
    /\ ~undefined /\ ~adapter.cbk /\ ~Faulted(adapter)
    /\ adapter' = UpdateSignalled([adapter EXCEPT !.cbk = TRUE])
    /\ UNCHANGED <<client, acked, undefined, pipe, consumer>>

AllocStart(a, size, noWrap) ==
    IF noWrap /\ a.wr > a.rd /\ BufferSize - a.wr < size THEN 0 ELSE a.wr

\* Mutant of NoRoom: the check is left out.
NoRoomNever(a, end) == FALSE

\* The end lies in the part of the buffer that is pending.
NoRoom(a, end) ==
    end >= a.rd /\ end < a.wr + (IF a.rd > a.wr THEN BufferSize ELSE 0)

MayWrite == ~undefined /\ writing /\ ~AboveHiWater(adapter) /\ Len(held) < MaxHeld
            /\ sent + Len(held) < MaxPackets

\* The packet is created, ...
CreateMediaPacket(size, noWrap) ==
    LET start == AllocStart(adapter, size, noWrap)
    IN /\ MayWrite /\ ~Faulted(adapter) /\ ~Busy(adapter)
       /\ ~NoRoom(adapter, start + size)
       /\ held' = Append(held, [packet |-> [start |-> start, size |-> size],
                                cancel |-> adapter.wr,
                                generation |-> adapter.generation])
       /\ adapter' = UpdateSignalled([adapter EXCEPT !.wr = (start + size) % BufferSize])
       /\ UNCHANGED <<writing, sent, cancels, flushes, acked, undefined, pipe, consumer>>

\* ... or refused: the client gives up until it is asked again.
CreateRefused(size, noWrap) ==
    /\ MayWrite
    /\ \/ Faulted(adapter) \/ Busy(adapter)
       \/ NoRoom(adapter, AllocStart(adapter, size, noWrap) + size)
    /\ writing' = FALSE
    /\ UNCHANGED <<adapter, held, sent, cancels, flushes, acked, undefined, pipe,
                   consumer>>

StopWriting ==
    /\ ~undefined /\ writing /\ AboveHiWater(adapter)
    /\ writing' = FALSE
    /\ UNCHANGED <<adapter, held, sent, cancels, flushes, acked, undefined, pipe,
                   consumer>>

IsFlushed(h) == Faulted(adapter) \/ h.generation # adapter.generation

\* Where the read pointer goes when the packet has been consumed.
PostConsumeRd(packet) == (packet.start + packet.size) % BufferSize

SendMediaPacket ==
    LET h == Head(held)
    IN /\ ~undefined /\ held # <<>>
       /\ held' = Tail(held)
       /\ \/ IsFlushed(h) /\ UNCHANGED <<adapter, sent, toConsumer>>
          \/ /\ ~IsFlushed(h)
             /\ adapter' = [adapter EXCEPT !.inFlight =
                    Append(@, [rd |-> PostConsumeRd(h.packet), seq |-> sent])]
             /\ toConsumer' = Post([kind |-> "packet", seq |-> sent, packet |-> h.packet])
             /\ sent' = sent + 1
       /\ UNCHANGED <<writing, cancels, flushes, acked, undefined, toAdapter,
                      connected, consumer>>

CancelMediaPacket ==
    /\ ~undefined /\ held # <<>> /\ cancels < MaxCancels
    /\ cancels' = cancels + 1
    /\ held' = SubSeq(held, 1, Len(held) - 1)
    /\ adapter' = IF IsFlushed(held[Len(held)]) THEN adapter
                  ELSE UpdateSignalled([adapter EXCEPT !.wr = held[Len(held)].cancel])
    /\ UNCHANGED <<writing, sent, flushes, acked, undefined, pipe, consumer>>

Flush ==
    /\ ~undefined /\ ~Faulted(adapter) /\ ~Busy(adapter) /\ flushes < MaxFlushes
    /\ flushes' = flushes + 1
    /\ adapter' = [adapter EXCEPT !.inFlight = <<>>, !.rd = 0, !.wr = 0,
                                  !.flushing = TRUE, !.generation = @ + 1]
    /\ toConsumer' = Post([kind |-> "flush"])
    /\ UNCHANGED <<held, writing, sent, cancels, acked, undefined, toAdapter,
                   connected, consumer>>

-----------------------------------------------------------------------------
(* What the adapter's message loop runs *)

\* The posted callback: the client, if it is told of nothing worse, writes.
HandleSignalCallback ==
    LET call == ~adapter.faultMade /\ adapter.signalled /\ adapter.cbk
    IN /\ ~undefined /\ adapter.scheduled
       /\ adapter' = [adapter EXCEPT !.scheduled = FALSE,
                                     !.faultMade = @ \/ (call /\ Faulted(adapter))]
       /\ writing' = (writing \/ (call /\ ~Faulted(adapter)))
       /\ UNCHANGED <<held, sent, cancels, flushes, acked, undefined, pipe, consumer>>

\* Mutant of Consumed: the signal is not updated.
ConsumedQuietly(a, rd) == [a EXCEPT !.rd = rd, !.inFlight = Tail(@)]

Consumed(a, rd) == UpdateSignalled([a EXCEPT !.rd = rd, !.inFlight = Tail(@)])

\* The new read pointer must lie between the read and the write pointer.
Between(a, rd) ==
    LET unwound(p) == p + (IF p < a.rd THEN BufferSize ELSE 0)
    IN unwound(rd) >= a.rd /\ unwound(rd) <= unwound(a.wr)

HandleSendPacket ==
    LET m == Head(toAdapter)
        first == Head(adapter.inFlight)
        known == adapter.inFlight # <<>> /\ first.seq = m.seq
    IN /\ ~undefined /\ ~Faulted(adapter) /\ toAdapter # <<>> /\ m.kind = "packet"
       /\ toAdapter' = Tail(toAdapter)
       /\ \/ ~known /\ adapter' = Fault(adapter) /\ UNCHANGED acked
          \/ /\ known
             /\ adapter' = IF Between(adapter, first.rd)
                           THEN Consumed(adapter, first.rd) ELSE Fault(adapter)
             /\ acked' = acked + 1
       /\ UNCHANGED <<client, undefined, toConsumer, connected, consumer>>

\* in_flight_queue_ is empty since Flush, so its pop_front is undefined.
HandleFlush ==
    /\ ~undefined /\ ~Faulted(adapter)
    /\ toAdapter # <<>> /\ Head(toAdapter).kind = "flush"
    /\ toAdapter' = Tail(toAdapter)
    /\ IF Busy(adapter) THEN undefined' = TRUE /\ UNCHANGED adapter
       ELSE adapter' = Fault(adapter) /\ UNCHANGED undefined
    /\ UNCHANGED <<client, acked, toConsumer, connected, consumer>>

\* The connection error handler runs after the last message.
ConnectionLost ==
    /\ ~undefined /\ ~connected /\ toAdapter = <<>> /\ ~Faulted(adapter)
    /\ adapter' = Fault(adapter)
    /\ UNCHANGED <<client, acked, undefined, pipe, consumer>>

-----------------------------------------------------------------------------
(* The consumer *)

\* Reset, when the owner, or a message that makes no sense, ends the connection.
Reset ==
    /\ connected' = FALSE /\ toConsumer' = <<>>
    /\ consumer' = [buffer |-> FALSE, packets |-> <<>>]

Leave ==
    /\ connected /\ Reset
    /\ UNCHANGED <<adapter, client, acked, undefined, toAdapter>>

\* A message is handled if the buffer is, or is not yet, there.
Receive(kind, buffer, after) ==
    /\ connected /\ toConsumer # <<>> /\ Head(toConsumer).kind = kind
    /\ IF consumer.buffer # buffer THEN Reset
       ELSE consumer' = after /\ toConsumer' = Tail(toConsumer) /\ UNCHANGED connected

SetBuffer ==
    /\ Receive("buffer", FALSE, [consumer EXCEPT !.buffer = TRUE])
    /\ UNCHANGED <<adapter, client, acked, undefined, toAdapter>>

\* The regions of a packet that runs past the end of the buffer are the end and
\* the beginning of the buffer, so every packet lies inside it.
SendPacket ==
    /\ Receive("packet", TRUE, [consumer EXCEPT !.packets = Append(@,
          [seq |-> Head(toConsumer).seq, packet |-> Head(toConsumer).packet])])
    /\ UNCHANGED <<adapter, client, acked, undefined, toAdapter>>

\* A flush is answered at once; the packets follow.
OnFlushRequested ==
    /\ Receive("flush", TRUE, consumer)
    /\ toAdapter' = IF consumer.buffer THEN Append(toAdapter, [kind |-> "flush"])
                    ELSE toAdapter
    /\ UNCHANGED <<adapter, client, acked, undefined>>

\* ~MediaPacketState runs the callback.
ReturnPacket ==
    /\ connected /\ consumer.packets # <<>>
    /\ toAdapter' = Append(toAdapter, [kind |-> "packet", seq |-> Head(consumer.packets).seq])
    /\ consumer' = [consumer EXCEPT !.packets = Tail(@)]
    /\ UNCHANGED <<adapter, client, acked, undefined, toConsumer, connected>>

-----------------------------------------------------------------------------
Produce ==
    \E n \in Sizes, noWrap \in BOOLEAN :
        CreateMediaPacket(n, noWrap) \/ CreateRefused(n, noWrap)

AdapterNext ==
    HandleSignalCallback \/ HandleSendPacket \/ HandleFlush \/ ConnectionLost

ConsumerNext == SetBuffer \/ SendPacket \/ OnFlushRequested \/ ReturnPacket

Next ==
    \/ SetWatermarks \/ SetSignalCallback \/ Produce \/ StopWriting
    \/ SendMediaPacket \/ CancelMediaPacket \/ Flush
    \/ AdapterNext \/ ConsumerNext \/ Leave

\* The client sets up the pipe, and writes and sends when asked; messages and
\* posted callbacks are handled, and the consumer plays what it got.
Fairness ==
    /\ WF_vars(SetWatermarks) /\ WF_vars(SetSignalCallback)
    /\ WF_vars(Produce \/ StopWriting) /\ WF_vars(SendMediaPacket)
    /\ WF_vars(AdapterNext) /\ WF_vars(ConsumerNext)

Spec == Init /\ [][Next]_vars /\ Fairness

-----------------------------------------------------------------------------
(* Properties *)

Bytes(packet) ==
    {(packet.start + i) % BufferSize : i \in 0 .. packet.size - 1}

PendingBytes ==
    {(adapter.rd + i) % BufferSize : i \in 0 .. GetPending(adapter) - 1}

\* Where the packets are that somebody still writes to or reads from: with the
\* client, on the way to the consumer, and with the consumer's owner.
InUse ==
    {<<"client", i>> : i \in {k \in 1 .. Len(held) : ~IsFlushed(held[k])}}
      \cup {<<"pipe", i>> : i \in {k \in 1 .. Len(toConsumer) : toConsumer[k].kind = "packet"}}
      \cup {<<"owner", i>> : i \in 1 .. Len(consumer.packets)}

PacketAt(place) ==
    CASE place[1] = "client" -> held[place[2]].packet
      [] place[1] = "pipe" -> toConsumer[place[2]].packet
      [] place[1] = "owner" -> consumer.packets[place[2]].packet

\* Until the pipe is flushed or faulted, no two packets that the client writes
\* or the consumer reads share a byte of the buffer, and each lies in the part
\* that GetPending counts (CreateMediaPacket's choice of the place, the read
\* pointer HandleSendPacket moves, CancelMediaPacket's return).
NoSharedBytes ==
    flushes = 0 /\ ~Faulted(adapter) =>
        /\ \A u \in InUse : Bytes(PacketAt(u)) \subseteq PendingBytes
        /\ \A u, v \in InUse : u # v => Bytes(PacketAt(u)) \cap Bytes(PacketAt(v)) = {}

\* The adapter's checks on what comes back never fail: as long as the client
\* does not flush, only the loss of the connection makes it fault.
OnlyLossFaults ==
    Faulted(adapter) => ~connected \/ flushes > 0

\* When nothing is outstanding any more, nothing is pending.
NothingPendingAtRest ==
    flushes = 0 /\ ~Faulted(adapter) /\ held = <<>> /\ acked = sent =>
        GetPending(adapter) = 0

\* In a pipe that is empty at first, and until it is flushed or faulted, no two packets
\* in use share a byte of the buffer
\* (CircularBufferMediaPipeAdapter::CreateMediaPacket, HandleSendPacket), the
\* adapter's own checks fail only with the connection, and an adapter at rest has
\* given back every byte.
PayloadsDisjoint == TypeOK /\ NoSharedBytes /\ OnlyLossFaults /\ NothingPendingAtRest

AllSent == acked = MaxPackets \/ flushes > 0 \/ ~connected

\* The client is asked for packets as often as it takes: all of them are sent
\* and acknowledged, unless the pipe is flushed or its connection lost.
EverythingIsSent == <>AllSent
=============================================================================
