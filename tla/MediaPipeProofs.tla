-------------------------- MODULE MediaPipeProofs --------------------------
(***************************************************************************)
(* Packets in a media pipe share no byte of the circular buffer, whatever  *)
(* its size, the sizes of the packets and their number.                    *)
(*                                                                         *)
(* Packets are numbered in the order in which the client created them.     *)
(* Mark(k) is where packet k ends: for a packet in flight the adapter      *)
(* keeps only that.  Seen from the read pointer, in the direction in which *)
(* the buffer is used, the marks rise from the packet that was consumed    *)
(* last to the write pointer, and each packet lies between the mark of its *)
(* predecessor and its own.  When the read pointer moves to the next mark, *)
(* all distances shrink by the same amount.                                *)
(*                                                                         *)
(* That the marks of the adapter are the ones of the packets the consumer  *)
(* holds needs the numbers that travel with packets and answers: what is   *)
(* in toAdapter, with the owner and in toConsumer are consecutive runs.    *)
(***************************************************************************)
EXTENDS MediaPipe, TLAPS

\* How long the solver may work on a leaf, in seconds.
USE SMTT(30)

-----------------------------------------------------------------------------
(* The ring *)

\* How far p is ahead of r in the direction in which the buffer is used.
Distance(p, r) == IF p < r THEN p + BufferSize - r ELSE p - r

\* Where packet k ends; the read pointer, for the packets already consumed.
Mark(k) ==
    IF k < acked THEN adapter.rd
    ELSE IF k < sent THEN adapter.inFlight[k - acked + 1].rd
    ELSE PostConsumeRd(held[k - sent + 1].packet)

Created == sent + Len(held)
Numbers == acked - 1 .. Created - 1

\* Packet p lies between the marks m and e, seen from r.
Placed(p, r, m, e) ==
    /\ Distance(m, r) <= Distance(p.start, r)
    /\ Distance(p.start, r) + p.size = Distance(e, r)

Calm == flushes = 0 /\ ~Faulted(adapter)

\* The marks rise, seen from the read pointer.
Rising ==
    \A k, l \in Numbers :
        k < l => Distance(Mark(k), adapter.rd) < Distance(Mark(l), adapter.rd)

FlightRun ==
    \A i \in 1 .. Len(adapter.inFlight) : adapter.inFlight[i].seq = acked + i - 1

HeldPlaced ==
    \A k \in sent .. Created - 1 :
        /\ held[k - sent + 1].cancel = Mark(k - 1)
        /\ Placed(held[k - sent + 1].packet, adapter.rd, Mark(k - 1), Mark(k))

Ring ==
    /\ Len(adapter.inFlight) = sent - acked /\ FlightRun
    /\ adapter.wr = Mark(Created - 1)
    /\ Rising /\ HeldPlaced

-----------------------------------------------------------------------------
(* What is on its way *)

Known(n, packet) ==
    /\ n \in acked .. sent - 1
    /\ Placed(packet, adapter.rd, Mark(n - 1), Mark(n))

AnswersRun ==
    \A i \in 1 .. Len(toAdapter) :
        toAdapter[i].kind = "packet" /\ toAdapter[i].seq = acked + i - 1

OwnedRun ==
    \A i \in 1 .. Len(consumer.packets) :
        /\ consumer.packets[i].seq = acked + Len(toAdapter) + i - 1
        /\ Known(consumer.packets[i].seq, consumer.packets[i].packet)

SentRun ==
    \A i \in 1 .. Len(toConsumer) :
        \/ i = 1 /\ toConsumer[i].kind = "buffer" /\ ~consumer.buffer
        \/ /\ toConsumer[i].kind = "packet"
           /\ toConsumer[i].seq = sent - Len(toConsumer) + i - 1
           /\ Known(toConsumer[i].seq, toConsumer[i].packet)

\* Answers, packets with the owner and packets under way are all that is in flight.
Balance ==
    /\ acked + Len(toAdapter) + Len(consumer.packets) <= sent
    /\ ~connected => toConsumer = <<>> /\ consumer.packets = <<>>
    /\ connected /\ consumer.buffer =>
          acked + Len(toAdapter) + Len(consumer.packets) + Len(toConsumer) = sent
    /\ connected /\ ~consumer.buffer =>
          /\ acked + Len(toAdapter) + Len(toConsumer) = sent + 1
          /\ consumer.packets = <<>>
          /\ Len(toConsumer) > 0 /\ toConsumer[1].kind = "buffer"

Transport == AnswersRun /\ OwnedRun /\ SentRun /\ Balance

-----------------------------------------------------------------------------
\* At any time, also after a flush or a fault.
Counted ==
    /\ sent + Len(held) <= MaxPackets
    /\ acked + Len(adapter.inFlight) <= sent
    /\ adapter.generation = flushes
    /\ Faulted(adapter) => ~connected \/ flushes > 0

CalmInv ==
    Calm => /\ adapter.buffer = TRUE /\ adapter.flushing = FALSE
            /\ \A j \in 1 .. Len(held) : held[j].generation = 0
            /\ Ring /\ Transport

IInv == TypeOK /\ Counted /\ CalmInv

-----------------------------------------------------------------------------
(* Arithmetic of the ring *)

\* Distances from a place in the buffer are less than its size and tell places apart.
LEMMA DistanceFacts ==
    ASSUME Disciplined, NEW r \in Offsets
    PROVE  /\ Distance(r, r) = 0
           /\ \A p \in Offsets : Distance(p, r) \in 0 .. BufferSize - 1
           /\ \A p, q \in Offsets : Distance(p, r) = Distance(q, r) => p = q
  BY DEF Disciplined, Distance, Offsets

\* Seen from a place further on, distances are smaller by its distance.
LEMMA DistanceShifts ==
    ASSUME Disciplined, NEW r \in Offsets, NEW p \in Offsets, NEW q \in Offsets,
           Distance(q, r) <= Distance(p, r)
    PROVE  Distance(p, q) = Distance(p, r) - Distance(q, r)
  BY DEF Disciplined, Distance, Offsets

\* A place less than two rounds on, reduced once.
LEMMA ModOnce ==
    ASSUME Disciplined, NEW s \in Offsets, NEW n \in Nat, n <= BufferSize
    PROVE  /\ (s + n) % BufferSize = IF s + n < BufferSize THEN s + n ELSE s + n - BufferSize
           /\ (s + n) % BufferSize \in Offsets
  BY DEF Disciplined, Offsets

\* The end of n bytes from s is n further on, if that is less than a round.
LEMMA DistanceOfEnd ==
    ASSUME Disciplined, NEW r \in Offsets, NEW s \in Offsets, NEW n \in Nat,
           Distance(s, r) + n < BufferSize
    PROVE  /\ (s + n) % BufferSize \in Offsets
           /\ Distance((s + n) % BufferSize, r) = Distance(s, r) + n
<1>1. n <= BufferSize
  BY DistanceFacts DEF Disciplined, Offsets
<1>2. PICK e \in Offsets : e = (s + n) % BufferSize
  BY <1>1, ModOnce
<1>3. e = IF s + n < BufferSize THEN s + n ELSE s + n - BufferSize
  BY <1>1, <1>2, ModOnce
<1> QED
  BY <1>2, <1>3 DEF Disciplined, Distance, Offsets

\* The bytes of a packet between the marks m and e lie at the distances between them.
LEMMA BytesOfPlaced ==
    ASSUME Disciplined, NEW r \in Offsets, NEW m \in Offsets, NEW e \in Offsets,
           NEW p \in Packet, Placed(p, r, m, e), NEW b \in Bytes(p)
    PROVE  /\ b \in Offsets
           /\ Distance(m, r) <= Distance(b, r) /\ Distance(b, r) < Distance(e, r)
<1>1. p.start \in Offsets /\ p.size \in Nat
  BY Zenon DEF Packet, Disciplined
<1>2. PICK i \in 0 .. p.size - 1 : b = (p.start + i) % BufferSize
  BY DEF Bytes
<1>3. i \in Nat /\ i < p.size
  BY <1>1, <1>2
<1>4. Distance(p.start, r) \in 0 .. BufferSize - 1 /\ Distance(e, r) \in 0 .. BufferSize - 1
      /\ Distance(m, r) \in 0 .. BufferSize - 1 /\ BufferSize \in Nat
  BY <1>1, DistanceFacts DEF Disciplined
<1>5. Distance(p.start, r) + i < BufferSize
  BY <1>1, <1>3, <1>4 DEF Placed
<1>6. b \in Offsets /\ Distance(b, r) = Distance(p.start, r) + i
  BY <1>1, <1>2, <1>3, <1>5, DistanceOfEnd
<1> QED
  BY <1>1, <1>3, <1>4, <1>6 DEF Placed

\* GetPending is the distance from the read to the write pointer.
LEMMA PendingIsDistance ==
    ASSUME NEW a, a.buffer = TRUE, a.rd \in Offsets, a.wr \in Offsets, Disciplined
    PROVE  GetPending(a) = Distance(a.wr, a.rd)
  BY DEF GetPending, Distance, Offsets, Disciplined

\* A byte less far from the read pointer than the write pointer is pending.
LEMMA PendingBytesAhead ==
    ASSUME Disciplined, adapter.buffer = TRUE, adapter.rd \in Offsets, adapter.wr \in Offsets,
           NEW b \in Offsets, Distance(b, adapter.rd) < Distance(adapter.wr, adapter.rd)
    PROVE  b \in PendingBytes
<1> DEFINE i == Distance(b, adapter.rd)
<1>1. BufferSize \in Nat \ {0} /\ i \in 0 .. BufferSize - 1
  BY DistanceFacts DEF Disciplined
<1>2. GetPending(adapter) = Distance(adapter.wr, adapter.rd)
  BY Zenon, PendingIsDistance
<1>3. Distance(adapter.wr, adapter.rd) \in 0 .. BufferSize - 1
  BY DistanceFacts
<1>4. i \in 0 .. GetPending(adapter) - 1
  BY <1>1, <1>2, <1>3
<1>5. adapter.rd + i = b \/ adapter.rd + i = b + BufferSize
  BY <1>1 DEF Distance, Offsets
<1>6. (adapter.rd + i) % BufferSize = IF adapter.rd + i < BufferSize THEN adapter.rd + i
                                      ELSE adapter.rd + i - BufferSize
  BY <1>1, ModOnce
<1>7. (adapter.rd + i) % BufferSize = b
  BY <1>1, <1>5, <1>6 DEF Offsets
<1> QED
  BY <1>4, <1>7 DEF PendingBytes

\* CreateMediaPacket's choice: the packet starts at the write pointer or further on, and
\* ends before the read pointer.
LEMMA PlaceOfNew ==
    ASSUME Disciplined, NEW r \in Offsets, NEW w \in Offsets, NEW n \in Sizes, NEW s,
           \/ s = w /\ Distance(w, r) < Hi
           \/ s = 0 /\ w > r /\ BufferSize - w < n /\ ~(n >= r /\ n < w)
    PROVE  /\ s \in Offsets /\ n \in Nat \ {0}
           /\ Distance(w, r) <= Distance(s, r) /\ Distance(s, r) + n < BufferSize
<1>1. /\ n \in Nat /\ n >= 1 /\ 2 * n <= BufferSize /\ Hi + n <= BufferSize
      /\ BufferSize \in Nat \ {0} /\ Hi \in Nat
  BY DEF Disciplined
<1>2. CASE s = w /\ Distance(w, r) < Hi
  BY <1>1, <1>2, DistanceFacts
<1>3. CASE s = 0 /\ w > r /\ BufferSize - w < n /\ ~(n >= r /\ n < w)
  BY <1>1, <1>3 DEF Distance, Offsets
<1> QED
  BY <1>2, <1>3

-----------------------------------------------------------------------------
(* Types *)

InFlight == [rd : Offsets, seq : Seqs]
Owned == [seq : Seqs, packet : Packet]

\* The first element and the rest of a sequence, and a sequence with one more element.
LEMMA Ends ==
    ASSUME NEW S, NEW q \in Seq(S)
    PROVE  /\ Len(q) \in Nat
           /\ q # <<>> => /\ Len(q) >= 1 /\ Head(q) = q[1] /\ Head(q) \in S
                          /\ Tail(q) \in Seq(S) /\ Len(Tail(q)) = Len(q) - 1
                          /\ \A i \in 1 .. Len(q) - 1 : Tail(q)[i] = q[i + 1]
           /\ \A e \in S : /\ Append(q, e) \in Seq(S) /\ Len(Append(q, e)) = Len(q) + 1
                           /\ \A i \in 1 .. Len(q) : Append(q, e)[i] = q[i]
                           /\ Append(q, e)[Len(q) + 1] = e
<1>1. Len(q) \in Nat
  OBVIOUS
<1>2. ASSUME q # <<>>
      PROVE  /\ Len(q) >= 1 /\ Head(q) = q[1] /\ Head(q) \in S
             /\ Tail(q) \in Seq(S) /\ Len(Tail(q)) = Len(q) - 1
             /\ \A i \in 1 .. Len(q) - 1 : Tail(q)[i] = q[i + 1]
  BY <1>2
<1>3. ASSUME NEW e \in S
      PROVE  /\ Append(q, e) \in Seq(S) /\ Len(Append(q, e)) = Len(q) + 1
             /\ \A i \in 1 .. Len(q) : Append(q, e)[i] = q[i]
             /\ Append(q, e)[Len(q) + 1] = e
  OBVIOUS
<1> QED
  BY <1>1, <1>2, <1>3

\* The first n elements of a sequence.
LEMMA FrontOf ==
    ASSUME NEW S, NEW q \in Seq(S), NEW n \in Nat, n <= Len(q)
    PROVE  /\ SubSeq(q, 1, n) \in Seq(S) /\ Len(SubSeq(q, 1, n)) = n
           /\ \A i \in 1 .. n : SubSeq(q, 1, n)[i] = q[i]
  OBVIOUS

\* UpdateSignalled changes two flags only.
LEMMA SignalKeeps ==
    ASSUME NEW a \in Adapter
    PROVE  LET b == UpdateSignalled(a)
           IN  /\ b \in Adapter
               /\ b.rd = a.rd /\ b.wr = a.wr /\ b.inFlight = a.inFlight /\ b.buffer = a.buffer
               /\ b.flushing = a.flushing /\ b.generation = a.generation /\ b.state = a.state
<1>1. PICK x, y : x = Signalled(a) /\ y = (a.scheduled \/ (Signalled(a) /\ ~a.faultMade))
  OBVIOUS
<1>2. x \in BOOLEAN /\ y \in BOOLEAN
  <2>1. Signalled(a) \in BOOLEAN
    BY Zenon DEF Signalled
  <2>2. (a.scheduled \/ (Signalled(a) /\ ~a.faultMade)) \in BOOLEAN
    BY Zenon
  <2> QED
    BY <1>1, <2>1, <2>2
<1>3. UpdateSignalled(a) = [a EXCEPT !.signalled = x, !.scheduled = y]
  BY <1>1 DEF UpdateSignalled
<1> QED
  BY Zenon, <1>2, <1>3 DEF Adapter

\* Fault keeps the type and leaves a faulted adapter.
LEMMA FaultFaults ==
    ASSUME Disciplined, NEW a \in Adapter
    PROVE  Fault(a) \in Adapter /\ Faulted(Fault(a)) /\ Fault(a).generation = a.generation
           /\ (Fault(a).inFlight = a.inFlight \/ Fault(a).inFlight = <<>>)
<1>1. 0 \in Offsets
  BY DEF Disciplined, Offsets
<1>2. CASE Faulted(a)
  BY <1>2, SignalKeeps DEF Fault, Faulted
<1>3. CASE ~Faulted(a)
  <2>1. PICK c : c = Cleanup(a)
    OBVIOUS
  <2>2. c \in Adapter /\ c.state = "SHUTTING_DOWN" /\ c.generation = a.generation
        /\ c.inFlight = <<>>
    <3>1. c = [a EXCEPT !.rd = 0, !.wr = 0, !.buffer = FALSE, !.cbk = FALSE,
                        !.state = "SHUTTING_DOWN", !.inFlight = <<>>]
      BY <2>1 DEF Cleanup
    <3>2. <<>> \in Seq([rd : Offsets, seq : Seqs])
      OBVIOUS
    <3> QED
      BY Zenon, <1>1, <3>1, <3>2 DEF Adapter
  <2>3. Fault(a) = UpdateSignalled(c)
    BY <1>3, <2>1 DEF Fault
  <2> QED
    BY <2>2, <2>3, SignalKeeps DEF Faulted
<1> QED
  BY <1>2, <1>3

\* What the type invariant says of the parts of the state.
LEMMA Parts ==
    ASSUME Disciplined, TypeOK
    PROVE  /\ adapter.rd \in Offsets /\ adapter.wr \in Offsets
           /\ adapter.inFlight \in Seq(InFlight)
           /\ adapter.generation \in 0 .. MaxFlushes /\ adapter.hi \in {0, Hi}
           /\ Len(adapter.inFlight) \in Nat /\ Len(held) \in Nat /\ Len(toAdapter) \in Nat
           /\ Len(toConsumer) \in Nat /\ Len(consumer.packets) \in Nat
           /\ sent \in Nat /\ acked \in Nat /\ flushes \in Nat
           /\ consumer.packets \in Seq(Owned)
           /\ BufferSize \in Nat \ {0} /\ MaxPackets \in Nat
<1>1. adapter.rd \in Offsets /\ adapter.wr \in Offsets /\ adapter.generation \in 0 .. MaxFlushes
      /\ adapter.inFlight \in Seq(InFlight) /\ adapter.hi \in {0, Hi}
  BY DEF TypeOK, Adapter, InFlight
<1>2. consumer.packets \in Seq(Owned)
  BY DEF TypeOK, MediaPipeBase, Owned
<1>3. sent \in Nat /\ acked \in Nat /\ flushes \in Nat /\ BufferSize \in Nat \ {0} /\ MaxPackets \in Nat
  BY DEF TypeOK, Disciplined
<1>4. held \in Seq(MappedPacket) /\ toAdapter \in Seq(Reply) /\ toConsumer \in Seq(Message)
  BY DEF TypeOK
<1>5. /\ Len(adapter.inFlight) \in Nat /\ Len(held) \in Nat /\ Len(toAdapter) \in Nat
      /\ Len(toConsumer) \in Nat /\ Len(consumer.packets) \in Nat
  BY <1>1, <1>2, <1>4, Ends
<1> QED
  BY <1>1, <1>2, <1>3, <1>5

\* Where a packet ends is in the buffer.
LEMMA EndInBuffer ==
    ASSUME Disciplined, NEW p \in Packet
    PROVE  PostConsumeRd(p) \in Offsets /\ p.start \in Offsets /\ p.size \in Sizes /\ p.size \in Nat
<1>1. p.start \in Offsets /\ p.size \in Sizes
  BY DEF Packet
<1>2. p.size \in Nat /\ p.size <= BufferSize
  <2>1. p.size \in Nat /\ BufferSize \in Nat /\ 2 * p.size <= BufferSize
    BY Zenon, <1>1 DEF Disciplined
  <2> QED
    BY <2>1
<1> QED
  BY <1>1, <1>2, ModOnce DEF PostConsumeRd

\* What the client does keeps the types.
LEMMA ClientTypes ==
    ASSUME Disciplined, TypeOK, Counted,
           \/ SetWatermarks \/ SetSignalCallback \/ Produce \/ StopWriting
           \/ SendMediaPacket \/ CancelMediaPacket \/ Flush
    PROVE  TypeOK'
<1>0. adapter \in Adapter /\ held \in Seq(MappedPacket) /\ toConsumer \in Seq(Message)
  BY DEF TypeOK
<1>1. CASE SetWatermarks
  <2>1. [adapter EXCEPT !.hi = Hi, !.lo = Lo] \in Adapter
    BY Zenon, <1>0 DEF Adapter
  <2>2. adapter' \in Adapter
    BY <1>1, <2>1, SignalKeeps DEF SetWatermarks
  <2> QED
    BY <1>1, <2>2 DEF SetWatermarks, TypeOK, client, pipe
<1>2. CASE SetSignalCallback
  <2>1. [adapter EXCEPT !.cbk = TRUE] \in Adapter
    BY Zenon, <1>0 DEF Adapter
  <2>2. adapter' \in Adapter
    BY <1>2, <2>1, SignalKeeps DEF SetSignalCallback
  <2> QED
    BY <1>2, <2>2 DEF SetSignalCallback, TypeOK, client, pipe
<1>3. ASSUME NEW n \in Sizes, NEW noWrap \in BOOLEAN, CreateMediaPacket(n, noWrap)
      PROVE  TypeOK'
  <2>1. PICK s : s = AllocStart(adapter, n, noWrap)
    OBVIOUS
  <2>2. s \in Offsets /\ n \in Nat /\ n <= BufferSize
    BY <2>1, Parts DEF AllocStart, Disciplined, Offsets
  <2>3. PICK e \in Offsets : e = (s + n) % BufferSize
    BY <2>2, ModOnce
  <2>4. [adapter EXCEPT !.wr = e] \in Adapter
    BY <1>0, <2>3 DEF Adapter
  <2>5. adapter' \in Adapter
    BY <1>3, <2>1, <2>3, <2>4, SignalKeeps DEF CreateMediaPacket
  <2>6. [packet |-> [start |-> s, size |-> n], cancel |-> adapter.wr,
         generation |-> adapter.generation] \in MappedPacket
    BY <2>2, Parts DEF MappedPacket, Packet
  <2>7. held' \in Seq(MappedPacket)
    BY <1>0, <1>3, <2>1, <2>6 DEF CreateMediaPacket
  <2> QED
    BY <1>3, <2>5, <2>7 DEF CreateMediaPacket, TypeOK, pipe
<1>4. ASSUME NEW n \in Sizes, NEW noWrap \in BOOLEAN, CreateRefused(n, noWrap)
      PROVE  TypeOK'
  BY Zenon, <1>4 DEF CreateRefused, TypeOK, pipe
<1>5. CASE StopWriting
  BY Zenon, <1>5 DEF StopWriting, TypeOK, pipe
<1>6. CASE SendMediaPacket
  <2>1. PICK h : h = Head(held)
    OBVIOUS
  <2>2. held # <<>> /\ h \in MappedPacket /\ h.packet \in Packet /\ Len(held) >= 1
        /\ held' = Tail(held)
    <3>1. held # <<>> /\ held' = Tail(held)
      BY <1>6 DEF SendMediaPacket
    <3>2. h \in MappedPacket /\ Len(held) >= 1
      BY <1>0, <2>1, <3>1, Ends
    <3> QED
      BY <3>1, <3>2 DEF MappedPacket
  <2>3. held' \in Seq(MappedPacket)
    BY <1>0, <2>2, Ends
  <2>4. sent \in Seqs /\ sent + 1 \in 0 .. MaxPackets
    BY <2>2, Parts DEF Counted, Seqs
  <2>5. CASE UNCHANGED <<adapter, sent, toConsumer>>
    BY <1>6, <2>3, <2>5 DEF SendMediaPacket, TypeOK
  <2>6. CASE /\ adapter' = [adapter EXCEPT !.inFlight =
                    Append(@, [rd |-> PostConsumeRd(h.packet), seq |-> sent])]
             /\ toConsumer' = Post([kind |-> "packet", seq |-> sent, packet |-> h.packet])
             /\ sent' = sent + 1
    <3>1. PICK f : f = [rd |-> PostConsumeRd(h.packet), seq |-> sent]
      BY Zenon
    <3>2. f \in InFlight
      BY <2>2, <2>4, <3>1, EndInBuffer DEF InFlight
    <3>3. PICK q : q = Append(adapter.inFlight, f) /\ q \in Seq(InFlight)
      BY Zenon, <3>2, Parts, Ends
    <3>4. adapter' = [adapter EXCEPT !.inFlight = q]
      BY <2>6, <3>1, <3>3
    <3>5. adapter' \in Adapter
      BY Zenon, <1>0, <3>3, <3>4 DEF Adapter, InFlight
    <3>6. [kind |-> "packet", seq |-> sent, packet |-> h.packet] \in Message
      BY <2>2, <2>4 DEF Message
    <3>7. toConsumer' \in Seq(Message)
      BY <1>0, <2>6, <3>6 DEF Post
    <3>8. sent' \in 0 .. MaxPackets /\ acked \in 0 .. sent'
      BY <2>4, <2>6, Parts DEF TypeOK
    <3> QED
      BY <1>6, <2>3, <3>5, <3>7, <3>8 DEF SendMediaPacket, TypeOK
  <2> QED
    BY <1>6, <2>1, <2>5, <2>6 DEF SendMediaPacket
<1>7. CASE CancelMediaPacket
  <2>1. held # <<>> /\ held' = SubSeq(held, 1, Len(held) - 1)
    BY <1>7 DEF CancelMediaPacket
  <2>2. Len(held) \in 1 .. Len(held) /\ held' \in Seq(MappedPacket)
    BY <1>0, <2>1
  <2>3. PICK c \in Offsets : c = held[Len(held)].cancel
    <3>1. held[Len(held)] \in MappedPacket
      BY <1>0, <2>2
    <3> QED
      BY <3>1 DEF MappedPacket
  <2>4. [adapter EXCEPT !.wr = c] \in Adapter
    BY <1>0, <2>3 DEF Adapter
  <2>5. adapter' = adapter \/ adapter' = UpdateSignalled([adapter EXCEPT !.wr = c])
    BY <1>7, <2>3 DEF CancelMediaPacket
  <2>6. adapter' \in Adapter
    BY <1>0, <2>4, <2>5, SignalKeeps
  <2>7. cancels' \in 0 .. MaxCancels
    <3>1. cancels \in 0 .. MaxCancels /\ MaxCancels \in Nat
      BY DEF TypeOK, Disciplined
    <3> QED
      BY <1>7, <3>1 DEF CancelMediaPacket
  <2> QED
    BY <1>7, <2>2, <2>6, <2>7 DEF CancelMediaPacket, TypeOK, pipe
<1>8. CASE Flush
  <2>1. flushes \in Nat /\ flushes < MaxFlushes /\ flushes' = flushes + 1 /\ MaxFlushes \in Nat
        /\ adapter.generation = flushes
    BY <1>8 DEF Flush, TypeOK, Disciplined, Counted
  <2>2. 0 \in Offsets /\ <<>> \in Seq([rd : Offsets, seq : Seqs])
    BY Parts DEF Offsets
  <2>3. PICK g \in 0 .. MaxFlushes : g = adapter.generation + 1
    BY <2>1
  <2>4. adapter' = [adapter EXCEPT !.inFlight = <<>>, !.rd = 0, !.wr = 0,
                                  !.flushing = TRUE, !.generation = g]
    BY <1>8, <2>3 DEF Flush
  <2>5. adapter' \in Adapter
    BY Zenon, <1>0, <2>2, <2>3, <2>4 DEF Adapter
  <2>6. toConsumer' \in Seq(Message)
    BY <1>0, <1>8 DEF Flush, Post, Message
  <2>7. flushes' \in 0 .. MaxFlushes
    BY <2>1
  <2> QED
    BY <1>8, <2>5, <2>6, <2>7 DEF Flush, TypeOK
<1> QED
  BY <1>1, <1>2, <1>3, <1>4, <1>5, <1>6, <1>7, <1>8 DEF Produce

\* What the adapter's loop does keeps the types.
LEMMA LoopTypes ==
    ASSUME Disciplined, TypeOK, Counted, AdapterNext
    PROVE  TypeOK'
<1>0. adapter \in Adapter /\ toAdapter \in Seq(Reply)
  BY DEF TypeOK
<1>1. CASE HandleSignalCallback
  <2>1. PICK x, y : /\ x = (adapter.faultMade \/ (~adapter.faultMade /\ adapter.signalled
                                                   /\ adapter.cbk /\ Faulted(adapter)))
                    /\ y = (writing \/ (~adapter.faultMade /\ adapter.signalled
                                                   /\ adapter.cbk /\ ~Faulted(adapter)))
    OBVIOUS
  <2>2. x \in BOOLEAN /\ y \in BOOLEAN
    <3>1. (adapter.faultMade \/ (~adapter.faultMade /\ adapter.signalled
             /\ adapter.cbk /\ Faulted(adapter))) \in BOOLEAN
      BY Zenon
    <3>2. (writing \/ (~adapter.faultMade /\ adapter.signalled
             /\ adapter.cbk /\ ~Faulted(adapter))) \in BOOLEAN
      BY Zenon
    <3> QED
      BY <2>1, <3>1, <3>2
  <2>3. adapter' = [adapter EXCEPT !.scheduled = FALSE, !.faultMade = x] /\ writing' = y
    BY <1>1, <2>1 DEF HandleSignalCallback
  <2>4. adapter' \in Adapter
    BY Zenon, <1>0, <2>2, <2>3 DEF Adapter
  <2> QED
    BY <1>1, <2>2, <2>3, <2>4 DEF HandleSignalCallback, TypeOK, pipe
<1>2. CASE HandleSendPacket
  <2>1. toAdapter' \in Seq(Reply)
    BY <1>0, <1>2 DEF HandleSendPacket
  <2>2. CASE adapter' = Fault(adapter) /\ UNCHANGED acked
    BY <1>0, <1>2, <2>1, <2>2, FaultFaults DEF HandleSendPacket, TypeOK, client
  <2>3. CASE /\ adapter.inFlight # <<>> /\ acked' = acked + 1
             /\ \/ adapter' = Consumed(adapter, Head(adapter.inFlight).rd)
                \/ adapter' = Fault(adapter)
    <3>1. PICK f : f = Head(adapter.inFlight)
      OBVIOUS
    <3>2. f \in InFlight /\ Len(adapter.inFlight) >= 1
      BY <2>3, <3>1, Parts, Ends
    <3>3. acked' \in 0 .. sent
      BY <2>3, <3>2, Parts DEF Counted
    <3>4. PICK q : q = Tail(adapter.inFlight) /\ q \in Seq(InFlight)
      BY Zenon, <2>3, Parts, Ends
    <3>5. [adapter EXCEPT !.rd = f.rd, !.inFlight = q] \in Adapter
      BY Zenon, <1>0, <3>2, <3>4 DEF Adapter, InFlight
    <3>6. Consumed(adapter, f.rd) = UpdateSignalled([adapter EXCEPT !.rd = f.rd, !.inFlight = q])
      BY <3>4 DEF Consumed
    <3>7. adapter' \in Adapter
      BY <1>0, <2>3, <3>1, <3>5, <3>6, SignalKeeps, FaultFaults
    <3> QED
      BY <1>2, <2>1, <3>3, <3>7 DEF HandleSendPacket, TypeOK, client
  <2> QED
    BY <1>2, <2>2, <2>3 DEF HandleSendPacket
<1>3. CASE HandleFlush
  <2>1. toAdapter' \in Seq(Reply)
    BY <1>0, <1>3 DEF HandleFlush
  <2>2. adapter' \in Adapter /\ undefined' \in BOOLEAN
    BY Zenon, <1>0, <1>3, FaultFaults DEF HandleFlush, TypeOK
  <2> QED
    BY <1>3, <2>1, <2>2 DEF HandleFlush, TypeOK, client
<1>4. CASE ConnectionLost
  BY <1>0, <1>4, FaultFaults DEF ConnectionLost, TypeOK, client, pipe
<1> QED
  BY <1>1, <1>2, <1>3, <1>4 DEF AdapterNext

\* What the consumer does keeps the types.
LEMMA ConsumerTypes ==
    ASSUME Disciplined, TypeOK, ConsumerNext \/ Leave
    PROVE  TypeOK'
<1>0. /\ consumer \in MediaPipeBase /\ toAdapter \in Seq(Reply) /\ toConsumer \in Seq(Message)
      /\ connected \in BOOLEAN
  BY DEF TypeOK
<1>1. ASSUME Reset
      PROVE  consumer' \in MediaPipeBase /\ toConsumer' \in Seq(Message) /\ connected' \in BOOLEAN
  <2>1. <<>> \in Seq([seq : Seqs, packet : Packet]) /\ <<>> \in Seq(Message)
    OBVIOUS
  <2> QED
    BY Zenon, <1>1, <2>1 DEF Reset, MediaPipeBase
<1>2. ASSUME NEW k, NEW b, NEW after \in MediaPipeBase, Receive(k, b, after)
      PROVE  consumer' \in MediaPipeBase /\ toConsumer' \in Seq(Message) /\ connected' \in BOOLEAN
  <2>1. CASE Reset
    BY <1>1, <2>1
  <2>2. CASE consumer' = after /\ toConsumer' = Tail(toConsumer) /\ UNCHANGED connected
    <3>1. toConsumer' \in Seq(Message)
      BY <1>0, <1>2, <2>2, Ends DEF Receive
    <3> QED
      BY <1>0, <1>2, <2>2, <3>1
  <2> QED
    BY Zenon, <1>2, <2>1, <2>2 DEF Receive
<1>3. CASE SetBuffer
  <2>1. [consumer EXCEPT !.buffer = TRUE] \in MediaPipeBase
    BY Zenon, <1>0 DEF MediaPipeBase
  <2> QED
    BY Zenon, <1>2, <1>3, <2>1 DEF SetBuffer, TypeOK, client
<1>4. CASE SendPacket
  <2>1. PICK m : m = Head(toConsumer)
    OBVIOUS
  <2>2. m \in Message /\ m.kind = "packet"
    BY <1>0, <1>4, <2>1 DEF SendPacket, Receive
  <2>3. m.seq \in Seqs /\ m.packet \in Packet
    BY <2>2 DEF Message
  <2>4. PICK q : q = Append(consumer.packets, [seq |-> m.seq, packet |-> m.packet])
                 /\ q \in Seq(Owned)
    <3>1. [seq |-> m.seq, packet |-> m.packet] \in Owned
      BY <2>3 DEF Owned
    <3>2. consumer.packets \in Seq(Owned)
      BY Parts
    <3>3. PICK o \in Owned : o = [seq |-> m.seq, packet |-> m.packet]
      BY <3>1
    <3>4. Append(consumer.packets, o) \in Seq(Owned)
      BY <3>2, Ends
    <3> QED
      BY Zenon, <3>3, <3>4
  <2>5. [consumer EXCEPT !.packets = q] \in MediaPipeBase
    BY Zenon, <1>0, <2>4 DEF MediaPipeBase, Owned
  <2>6. Receive("packet", TRUE, [consumer EXCEPT !.packets = q])
    BY Zenon, <1>4, <2>1, <2>4 DEF SendPacket
  <2> QED
    BY Zenon, <1>2, <1>4, <2>5, <2>6 DEF SendPacket, TypeOK, client
<1>5. CASE OnFlushRequested
  <2>1. toAdapter' \in Seq(Reply)
    BY <1>0, <1>5 DEF OnFlushRequested, Reply
  <2> QED
    BY Zenon, <1>0, <1>2, <1>5, <2>1 DEF OnFlushRequested, TypeOK, client
<1>6. CASE ReturnPacket
  <2>1. PICK h : h = Head(consumer.packets)
    OBVIOUS
  <2>2. h \in Owned /\ consumer.packets # <<>>
    BY <1>6, <2>1, Parts, Ends DEF ReturnPacket
  <2>3. [kind |-> "packet", seq |-> h.seq] \in Reply
    BY <2>2 DEF Reply, Owned
  <2>4. toAdapter' \in Seq(Reply)
    BY <1>0, <1>6, <2>1, <2>3 DEF ReturnPacket
  <2>5. PICK q : q = Tail(consumer.packets) /\ q \in Seq(Owned)
    BY Zenon, <2>2, Parts, Ends
  <2>6. consumer' = [consumer EXCEPT !.packets = q]
    BY <1>6, <2>5 DEF ReturnPacket
  <2>7. consumer' \in MediaPipeBase
    BY Zenon, <1>0, <2>5, <2>6 DEF MediaPipeBase, Owned
  <2> QED
    BY <1>6, <2>4, <2>7 DEF ReturnPacket, TypeOK, client
<1>7. CASE Leave
  BY <1>1, <1>7 DEF Leave, TypeOK, client
<1> QED
  BY <1>3, <1>4, <1>5, <1>6, <1>7 DEF ConsumerNext

\* Every step keeps the types.
LEMMA TypeStep ==
    ASSUME Disciplined, TypeOK, Counted, [Next]_vars
    PROVE  TypeOK'
<1>1. CASE UNCHANGED vars
  BY <1>1 DEF vars, client, pipe, TypeOK
<1> QED
  BY <1>1, ClientTypes, LoopTypes, ConsumerTypes DEF Next

-----------------------------------------------------------------------------
(* The marks *)

\* The mark of a packet that is consumed, in flight or with the client.
LEMMA MarkCases ==
    ASSUME Disciplined, TypeOK, Len(adapter.inFlight) = sent - acked, NEW k \in Numbers
    PROVE  /\ Mark(k) \in Offsets /\ k \in Int
           /\ \/ k < acked /\ Mark(k) = adapter.rd
              \/ /\ k >= acked /\ k < sent /\ k - acked + 1 \in 1 .. Len(adapter.inFlight)
                 /\ Mark(k) = adapter.inFlight[k - acked + 1].rd
              \/ /\ k >= sent /\ k - sent + 1 \in 1 .. Len(held) /\ held[k - sent + 1].packet \in Packet
                 /\ Mark(k) = PostConsumeRd(held[k - sent + 1].packet)
<1>1. /\ k \in Int /\ sent \in Nat /\ acked \in Nat /\ Len(held) \in Nat
      /\ acked - 1 <= k /\ k <= sent + Len(held) - 1 /\ acked <= sent
  BY Parts DEF Numbers, Created, TypeOK
<1>2. CASE k < acked
  BY <1>1, <1>2, Parts DEF Mark
<1>3. CASE k >= acked /\ k < sent
  <2>1. k - acked + 1 \in 1 .. Len(adapter.inFlight)
    BY <1>1, <1>3
  <2>2. adapter.inFlight[k - acked + 1] \in InFlight
    BY <2>1, Parts
  <2>3. adapter.inFlight[k - acked + 1].rd \in Offsets
    BY <2>2 DEF InFlight
  <2> QED
    BY <1>1, <1>3, <2>1, <2>3 DEF Mark
<1>4. CASE k >= sent
  <2>1. k - sent + 1 \in 1 .. Len(held)
    BY <1>1, <1>4
  <2>2. held[k - sent + 1] \in MappedPacket
    BY <2>1 DEF TypeOK
  <2>3. held[k - sent + 1].packet \in Packet
    BY <2>2 DEF MappedPacket
  <2>4. ~(k < acked) /\ ~(k < sent)
    BY <1>1, <1>4
  <2>5. Mark(k) = PostConsumeRd(held[k - sent + 1].packet)
    BY <2>4 DEF Mark
  <2> QED
    BY <1>1, <1>4, <2>1, <2>3, <2>5, EndInBuffer
<1> QED
  BY <1>1, <1>2, <1>3, <1>4

\* The distance of a mark is a number.
LEMMA MarkDistance ==
    ASSUME Disciplined, TypeOK, Len(adapter.inFlight) = sent - acked, NEW k \in Numbers
    PROVE  Mark(k) \in Offsets /\ Distance(Mark(k), adapter.rd) \in 0 .. BufferSize - 1
<1>1. Mark(k) \in Offsets
  BY MarkCases
<1>2. PICK m \in Offsets : m = Mark(k)
  BY <1>1
<1>3. Distance(m, adapter.rd) \in 0 .. BufferSize - 1
  BY Zenon, Parts, DistanceFacts
<1> QED
  BY <1>1, <1>2, <1>3

\* What comes back to a calm adapter is the answer to its first packet in flight, and the
\* read pointer of that packet is one HandleSendPacket accepts.
LEMMA AnswersAreKnown ==
    ASSUME Disciplined, TypeOK, Ring, Transport, toAdapter # <<>>
    PROVE  /\ Head(toAdapter).kind = "packet" /\ adapter.inFlight # <<>> /\ acked < sent
           /\ Head(adapter.inFlight) = adapter.inFlight[1]
           /\ Head(adapter.inFlight).seq = Head(toAdapter).seq
           /\ Mark(acked) = Head(adapter.inFlight).rd /\ acked \in Numbers
           /\ Between(adapter, Head(adapter.inFlight).rd)
<1>1. /\ sent \in Nat /\ acked \in Nat /\ Len(held) \in Nat /\ Len(adapter.inFlight) \in Nat
      /\ Len(toAdapter) \in Nat /\ Len(consumer.packets) \in Nat
  BY Parts
<1>2. Len(toAdapter) >= 1 /\ Head(toAdapter) = toAdapter[1]
  BY Ends DEF TypeOK
<1>3. acked < sent /\ Len(adapter.inFlight) >= 1
  <2>1. acked + Len(toAdapter) + Len(consumer.packets) <= sent
    BY DEF Transport, Balance
  <2>2. Len(adapter.inFlight) = sent - acked
    BY DEF Ring
  <2>3. PICK x \in Nat, y \in Nat, z \in Nat :
           x = Len(toAdapter) /\ y = Len(consumer.packets) /\ z = Len(adapter.inFlight)
    BY <1>1
  <2>4. x >= 1 /\ acked + x + y <= sent /\ z = sent - acked
    BY <1>2, <2>1, <2>2, <2>3
  <2>5. acked < sent /\ z >= 1
    BY <1>1, <2>4
  <2> QED
    BY <2>3, <2>5
<1>4. adapter.inFlight # <<>> /\ Head(adapter.inFlight) = adapter.inFlight[1]
  BY <1>3, Parts
<1>5. Head(toAdapter).kind = "packet" /\ Head(toAdapter).seq = acked + 1 - 1
  BY <1>1, <1>2 DEF Transport, AnswersRun
<1>6. Head(adapter.inFlight).seq = acked + 1 - 1
  BY <1>1, <1>3, <1>4 DEF Ring, FlightRun
<1>7. acked \in Numbers /\ Created - 1 \in Numbers /\ acked <= Created - 1
  BY <1>1, <1>3 DEF Numbers, Created
<1>8. Mark(acked) = Head(adapter.inFlight).rd
  BY <1>1, <1>3, <1>4 DEF Mark
<1>9. PICK m, w \in Offsets, r \in Offsets :
         m = Mark(acked) /\ w = adapter.wr /\ r = adapter.rd /\ m \in Offsets
  BY <1>7, Parts, MarkDistance DEF Ring
<1>10. Distance(m, r) <= Distance(w, r)
  <2>1. Distance(Mark(acked), adapter.rd) \in Int
    BY <1>7, MarkDistance DEF Ring
  <2>2. acked = Created - 1 \/ acked < Created - 1
    BY <1>1, <1>7 DEF Created
  <2>3. Distance(Mark(acked), adapter.rd) <= Distance(Mark(Created - 1), adapter.rd)
    BY <1>7, <2>1, <2>2, MarkDistance DEF Ring, Rising
  <2> QED
    BY <1>9, <2>3 DEF Ring
<1>11. Between(adapter, m)
  BY <1>9, <1>10 DEF Between, Distance, Offsets, Disciplined
<1> QED
  BY <1>3, <1>4, <1>5, <1>6, <1>7, <1>8, <1>9, <1>11

-----------------------------------------------------------------------------
(* What a step does to the ring *)

\* The part of the adapter that says where packets are.
SameRest ==
    /\ adapter'.buffer = adapter.buffer /\ adapter'.flushing = adapter.flushing
    /\ adapter'.generation = adapter.generation /\ adapter'.state = adapter.state
    /\ flushes' = flushes

transfer == <<toConsumer, toAdapter, connected, consumer>>

Quiet ==
    /\ adapter'.rd = adapter.rd /\ adapter'.wr = adapter.wr /\ adapter'.inFlight = adapter.inFlight
    /\ SameRest /\ UNCHANGED <<held, sent, acked, transfer>>

Creates(n, s) ==
    /\ \/ s = adapter.wr /\ GetPending(adapter) < Hi
       \/ /\ s = 0 /\ adapter.wr > adapter.rd /\ BufferSize - adapter.wr < n
          /\ ~(n >= adapter.rd /\ n < adapter.wr)
    /\ sent + Len(held) < MaxPackets
    /\ held' = Append(held, [packet |-> [start |-> s, size |-> n], cancel |-> adapter.wr,
                             generation |-> adapter.generation])
    /\ adapter'.rd = adapter.rd /\ adapter'.wr = (s + n) % BufferSize
    /\ adapter'.inFlight = adapter.inFlight
    /\ SameRest /\ UNCHANGED <<sent, acked, transfer>>

Sends ==
    /\ held # <<>> /\ held' = Tail(held) /\ sent' = sent + 1
    /\ adapter'.rd = adapter.rd /\ adapter'.wr = adapter.wr
    /\ adapter'.inFlight =
          Append(adapter.inFlight, [rd |-> PostConsumeRd(Head(held).packet), seq |-> sent])
    /\ toConsumer' = Post([kind |-> "packet", seq |-> sent, packet |-> Head(held).packet])
    /\ SameRest /\ UNCHANGED <<acked, toAdapter, connected, consumer>>

Drops ==
    /\ held # <<>> /\ held' = SubSeq(held, 1, Len(held) - 1)
    /\ adapter'.rd = adapter.rd /\ adapter'.wr = held[Len(held)].cancel
    /\ adapter'.inFlight = adapter.inFlight
    /\ SameRest /\ UNCHANGED <<sent, acked, transfer>>

Consumes ==
    /\ adapter.inFlight # <<>> /\ toAdapter # <<>> /\ acked' = acked + 1
    /\ toAdapter' = Tail(toAdapter)
    /\ adapter'.rd = Head(adapter.inFlight).rd /\ adapter'.wr = adapter.wr
    /\ adapter'.inFlight = Tail(adapter.inFlight)
    /\ SameRest /\ UNCHANGED <<held, sent, toConsumer, connected, consumer>>

Moves ==
    /\ UNCHANGED <<adapter, held, sent, acked, flushes>>
    /\ SetBuffer \/ SendPacket \/ ReturnPacket \/ Leave

\* A packet is with the client for nothing once the pipe is flushed.
Discards ==
    /\ flushes > 0 \/ Faulted(adapter)
    /\ held # <<>> /\ (held' = Tail(held) \/ held' = SubSeq(held, 1, Len(held) - 1))
    /\ UNCHANGED <<adapter, sent, acked, flushes, transfer>>

\* The steps of the client.
LEMMA ClientEffects ==
    ASSUME Disciplined, TypeOK, Counted, CalmInv,
           \/ SetWatermarks \/ SetSignalCallback \/ Produce \/ StopWriting
           \/ SendMediaPacket \/ CancelMediaPacket
    PROVE  \/ Quiet \/ Sends \/ Drops \/ Discards
           \/ \E n \in Sizes, s \in Offsets : Creates(n, s)
<1>0. adapter \in Adapter /\ held \in Seq(MappedPacket)
  BY DEF TypeOK
<1> USE DEF transfer, client, pipe
<1>1. CASE SetWatermarks
  <2>1. PICK a \in Adapter : a = [adapter EXCEPT !.hi = Hi, !.lo = Lo]
    BY Zenon, <1>0 DEF Adapter
  <2>2. /\ a.rd = adapter.rd /\ a.wr = adapter.wr /\ a.inFlight = adapter.inFlight
        /\ a.buffer = adapter.buffer /\ a.flushing = adapter.flushing
        /\ a.generation = adapter.generation /\ a.state = adapter.state
    BY <1>0, <2>1 DEF Adapter
  <2>3. adapter' = UpdateSignalled(a) /\ UNCHANGED <<held, sent, acked, flushes, transfer>>
    BY <1>1, <2>1 DEF SetWatermarks
  <2> QED
    BY <2>2, <2>3, SignalKeeps DEF Quiet, SameRest
<1>2. CASE SetSignalCallback
  <2>1. PICK a \in Adapter : a = [adapter EXCEPT !.cbk = TRUE]
    BY Zenon, <1>0 DEF Adapter
  <2>2. /\ a.rd = adapter.rd /\ a.wr = adapter.wr /\ a.inFlight = adapter.inFlight
        /\ a.buffer = adapter.buffer /\ a.flushing = adapter.flushing
        /\ a.generation = adapter.generation /\ a.state = adapter.state
    BY <1>0, <2>1 DEF Adapter
  <2>3. adapter' = UpdateSignalled(a) /\ UNCHANGED <<held, sent, acked, flushes, transfer>>
    BY <1>2, <2>1 DEF SetSignalCallback
  <2> QED
    BY <2>2, <2>3, SignalKeeps DEF Quiet, SameRest
<1>3. ASSUME NEW n \in Sizes, NEW noWrap \in BOOLEAN, CreateMediaPacket(n, noWrap)
      PROVE  \E s \in Offsets : Creates(n, s)
  <2>1. PICK s : s = AllocStart(adapter, n, noWrap)
    OBVIOUS
  <2>2. s \in Offsets /\ n \in Nat /\ n <= BufferSize
    BY <2>1, Parts DEF AllocStart, Disciplined, Offsets
  <2>3. PICK e \in Offsets : e = (s + n) % BufferSize
    BY <2>2, ModOnce
  <2>4. PICK a \in Adapter : a = [adapter EXCEPT !.wr = e]
    BY Zenon, <1>0, <2>3 DEF Adapter
  <2>5. /\ a.rd = adapter.rd /\ a.wr = e /\ a.inFlight = adapter.inFlight
        /\ a.buffer = adapter.buffer /\ a.flushing = adapter.flushing
        /\ a.generation = adapter.generation /\ a.state = adapter.state
    BY <1>0, <2>4 DEF Adapter
  <2>6. /\ adapter' = UpdateSignalled(a) /\ UNCHANGED <<sent, acked, flushes, transfer>>
        /\ held' = Append(held, [packet |-> [start |-> s, size |-> n], cancel |-> adapter.wr,
                                 generation |-> adapter.generation])
        /\ sent + Len(held) < MaxPackets /\ ~AboveHiWater(adapter)
        /\ ~NoRoom(adapter, s + n)
    BY <1>3, <2>1, <2>3, <2>4 DEF CreateMediaPacket, MayWrite
  <2>7. GetPending(adapter) < Hi
    <3>0. adapter.rd \in Offsets /\ adapter.wr \in Offsets /\ BufferSize \in Nat /\ adapter.hi \in {0, Hi}
          /\ Hi \in Nat
      BY Zenon, Parts DEF Disciplined
    <3>1. GetPending(adapter) \in Nat
      BY <3>0 DEF GetPending, Offsets
    <3>2. ~(GetPending(adapter) >= adapter.hi)
      BY <2>6 DEF AboveHiWater
    <3> QED
      BY <3>0, <3>1, <3>2
  <2>8. \/ s = adapter.wr /\ GetPending(adapter) < Hi
        \/ /\ s = 0 /\ adapter.wr > adapter.rd /\ BufferSize - adapter.wr < n
           /\ ~(n >= adapter.rd /\ n < adapter.wr)
    <3>1. adapter.rd \in Offsets /\ adapter.wr \in Offsets /\ BufferSize \in Nat
      BY Parts
    <3>2. ~NoRoom(adapter, s + n)
      BY <2>6
    <3> QED
      BY <2>1, <2>2, <2>7, <3>1, <3>2 DEF AllocStart, NoRoom, Offsets
  <2>9. /\ adapter'.rd = adapter.rd /\ adapter'.wr = (s + n) % BufferSize
        /\ adapter'.inFlight = adapter.inFlight /\ SameRest
    BY <2>3, <2>5, <2>6, SignalKeeps DEF SameRest
  <2> QED
    BY <2>2, <2>6, <2>8, <2>9 DEF Creates
<1>4. ASSUME NEW n \in Sizes, NEW noWrap \in BOOLEAN, CreateRefused(n, noWrap)
      PROVE  Quiet
  BY <1>4 DEF CreateRefused, Quiet, SameRest
<1>5. CASE StopWriting
  BY <1>5 DEF StopWriting, Quiet, SameRest
<1>6. ASSUME NEW h \in MappedPacket, IsFlushed(h), Calm => h.generation = 0
      PROVE  flushes > 0 \/ Faulted(adapter)
  BY <1>6, Parts DEF IsFlushed, Calm, Counted
<1>7. CASE SendMediaPacket
  <2>1. held # <<>> /\ held' = Tail(held) /\ UNCHANGED <<flushes, acked, toAdapter, connected, consumer>>
    BY <1>7 DEF SendMediaPacket
  <2>2. PICK h \in MappedPacket : h = Head(held) /\ h = held[1] /\ Len(held) >= 1
    BY <1>0, <2>1, Ends
  <2>3. Calm => h.generation = 0
    BY <1>0, <2>2 DEF CalmInv
  <2>4. CASE IsFlushed(h)
    <3>1. UNCHANGED <<adapter, sent, toConsumer>>
      BY <1>7, <2>2, <2>4 DEF SendMediaPacket
    <3> QED
      BY <1>6, <2>1, <2>3, <2>4, <3>1 DEF Discards
  <2>5. CASE ~IsFlushed(h)
    <3>1. PICK q : q = Append(adapter.inFlight, [rd |-> PostConsumeRd(h.packet), seq |-> sent])
      BY Zenon
    <3>2. /\ adapter' = [adapter EXCEPT !.inFlight = q]
          /\ toConsumer' = Post([kind |-> "packet", seq |-> sent, packet |-> h.packet])
          /\ sent' = sent + 1
      BY <1>7, <2>2, <2>5, <3>1 DEF SendMediaPacket
    <3>3. /\ adapter'.rd = adapter.rd /\ adapter'.wr = adapter.wr /\ adapter'.inFlight = q
          /\ SameRest
      BY <1>0, <2>1, <3>2 DEF Adapter, SameRest
    <3> QED
      BY <2>1, <2>2, <3>1, <3>2, <3>3 DEF Sends
  <2> QED
    BY <2>4, <2>5
<1>8. CASE CancelMediaPacket
  <2>1. held # <<>> /\ held' = SubSeq(held, 1, Len(held) - 1)
        /\ UNCHANGED <<sent, acked, flushes, transfer>>
    BY <1>8 DEF CancelMediaPacket
  <2>2. Len(held) \in 1 .. Len(held)
    BY <1>0, <2>1
  <2>3. PICK h \in MappedPacket : h = held[Len(held)]
    BY <1>0, <2>2
  <2>4. Calm => h.generation = 0
    BY <2>2, <2>3 DEF CalmInv
  <2>5. CASE IsFlushed(h)
    <3>1. UNCHANGED adapter
      BY <1>8, <2>3, <2>5 DEF CancelMediaPacket
    <3> QED
      BY <1>6, <2>1, <2>4, <2>5, <3>1 DEF Discards
  <2>6. CASE ~IsFlushed(h)
    <3>1. PICK c \in Offsets : c = h.cancel
      BY DEF MappedPacket
    <3>2. PICK a \in Adapter : a = [adapter EXCEPT !.wr = c]
      BY Zenon, <1>0, <3>1 DEF Adapter
    <3>3. /\ a.rd = adapter.rd /\ a.wr = c /\ a.inFlight = adapter.inFlight
          /\ a.buffer = adapter.buffer /\ a.flushing = adapter.flushing
          /\ a.generation = adapter.generation /\ a.state = adapter.state
      BY <1>0, <3>2 DEF Adapter
    <3>4. adapter' = UpdateSignalled(a)
      BY <1>8, <2>3, <2>6, <3>1, <3>2 DEF CancelMediaPacket
    <3> QED
      BY <2>1, <2>3, <3>1, <3>3, <3>4, SignalKeeps DEF Drops, SameRest
  <2> QED
    BY <2>5, <2>6
<1> QED
  BY <1>1, <1>2, <1>3, <1>4, <1>5, <1>7, <1>8 DEF Produce

\* The adapter faults, which only happens once the connection is lost or a flush was asked for.
Faults ==
    /\ Faulted(adapter') /\ adapter'.generation = adapter.generation
    /\ adapter'.inFlight = <<>> \/ adapter'.inFlight = adapter.inFlight
    /\ acked' = acked \/ (adapter.inFlight # <<>> /\ adapter'.inFlight = <<>> /\ acked' = acked + 1)
    /\ flushes > 0 \/ ~connected
    /\ UNCHANGED <<held, sent, flushes, connected>>

\* What else happens once the pipe is flushed.
Lingers ==
    /\ ~Calm /\ (connected' => connected)
    /\ UNCHANGED <<adapter, held, sent, acked, flushes>>

\* The steps of the adapter's loop.
LEMMA LoopEffects ==
    ASSUME Disciplined, TypeOK, Counted, CalmInv, AdapterNext
    PROVE  Quiet \/ Consumes \/ Faults \/ Lingers
<1>0. adapter \in Adapter /\ toAdapter \in Seq(Reply) /\ flushes \in Nat
  BY DEF TypeOK
<1> USE DEF transfer, client, pipe
<1>1. CASE HandleSignalCallback
  <2>1. PICK x : x = (adapter.faultMade \/ (~adapter.faultMade /\ adapter.signalled
                                                   /\ adapter.cbk /\ Faulted(adapter)))
    OBVIOUS
  <2>2. adapter' = [adapter EXCEPT !.scheduled = FALSE, !.faultMade = x]
        /\ UNCHANGED <<held, sent, acked, flushes, transfer>>
    BY <1>1, <2>1 DEF HandleSignalCallback
  <2> QED
    BY <1>0, <2>2 DEF Adapter, Quiet, SameRest
<1>2. CASE HandleSendPacket
  <2>1. /\ ~Faulted(adapter) /\ toAdapter # <<>> /\ toAdapter' = Tail(toAdapter)
        /\ UNCHANGED <<held, sent, flushes, toConsumer, connected, consumer>>
    BY <1>2 DEF HandleSendPacket
  <2>2. CASE /\ adapter.inFlight # <<>> /\ acked' = acked + 1
             /\ adapter' = Consumed(adapter, Head(adapter.inFlight).rd)
    <3>1. PICK f \in InFlight, q \in Seq(InFlight) :
             f = Head(adapter.inFlight) /\ q = Tail(adapter.inFlight)
      BY Zenon, <2>2, Parts, Ends
    <3>2. PICK a \in Adapter : a = [adapter EXCEPT !.rd = f.rd, !.inFlight = q]
      BY Zenon, <1>0, <3>1 DEF Adapter, InFlight
    <3>3. /\ a.rd = f.rd /\ a.wr = adapter.wr /\ a.inFlight = q
          /\ a.buffer = adapter.buffer /\ a.flushing = adapter.flushing
          /\ a.generation = adapter.generation /\ a.state = adapter.state
      BY <1>0, <3>2 DEF Adapter
    <3>4. adapter' = UpdateSignalled(a)
      BY <2>2, <3>1, <3>2 DEF Consumed
    <3> QED
      BY <2>1, <2>2, <3>1, <3>3, <3>4, SignalKeeps DEF Consumes, SameRest
  <2>3. CASE /\ adapter' = Fault(adapter)
             /\ acked' = acked \/ (adapter.inFlight # <<>> /\ acked' = acked + 1)
             /\ flushes > 0
    <3>1. Fault(adapter) = UpdateSignalled(Cleanup(adapter)) /\ Cleanup(adapter).inFlight = <<>>
      BY <1>0, <2>1 DEF Fault, Cleanup, Adapter
    <3>2. 0 \in Offsets /\ <<>> \in Seq([rd : Offsets, seq : Seqs])
      BY Parts DEF Offsets
    <3>3. Cleanup(adapter) \in Adapter
      BY Zenon, <1>0, <3>2 DEF Cleanup, Adapter
    <3>4. adapter'.inFlight = <<>>
      BY <2>3, <3>1, <3>3, SignalKeeps
    <3> QED
      BY <1>0, <2>1, <2>3, <3>4, FaultFaults DEF Faults
  <2>4. CASE flushes > 0
    BY <1>2, <2>2, <2>3, <2>4 DEF HandleSendPacket
  <2>5. CASE ~(flushes > 0)
    <3>1. Calm
      BY <1>0, <2>1, <2>5 DEF Calm
    <3>2. /\ adapter.inFlight # <<>> /\ Head(adapter.inFlight).seq = Head(toAdapter).seq
          /\ Between(adapter, Head(adapter.inFlight).rd)
      BY <2>1, <3>1, AnswersAreKnown DEF CalmInv
    <3> QED
      BY <1>2, <2>2, <3>2 DEF HandleSendPacket
  <2> QED
    BY <2>4, <2>5
<1>3. CASE HandleFlush
  <2>1. ~Faulted(adapter) /\ toAdapter # <<>> /\ Head(toAdapter).kind = "flush"
    BY <1>3 DEF HandleFlush
  <2>2. ~Calm
    BY <2>1, AnswersAreKnown DEF CalmInv
  <2>3. flushes > 0
    BY <1>0, <2>1, <2>2 DEF Calm
  <2>4. CASE Busy(adapter)
    BY <1>3, <2>2, <2>4 DEF HandleFlush, Lingers
  <2>5. CASE ~Busy(adapter)
    BY <1>0, <1>3, <2>3, <2>5, FaultFaults DEF HandleFlush, Faults
  <2> QED
    BY <2>4, <2>5
<1>4. CASE ConnectionLost
  BY <1>0, <1>4, FaultFaults DEF ConnectionLost, Faults
<1> QED
  BY <1>1, <1>2, <1>3, <1>4 DEF AdapterNext

\* The steps of the consumer.
LEMMA ConsumerEffects ==
    ASSUME Disciplined, TypeOK, CalmInv, ConsumerNext \/ Leave
    PROVE  Moves \/ Lingers
<1> USE DEF client
<1>1. CASE SetBuffer \/ SendPacket \/ ReturnPacket \/ Leave
  BY Zenon, <1>1 DEF SetBuffer, SendPacket, ReturnPacket, Leave, Moves
<1>2. CASE OnFlushRequested
  <2>1. /\ connected /\ toConsumer # <<>> /\ Head(toConsumer).kind = "flush"
        /\ UNCHANGED <<adapter, held, sent, acked, flushes>>
    BY <1>2 DEF OnFlushRequested, Receive
  <2>2. toConsumer \in Seq(Message)
    BY DEF TypeOK
  <2>3. Head(toConsumer) = toConsumer[1] /\ 1 \in 1 .. Len(toConsumer)
    BY <2>1, <2>2, Ends
  <2>4. ~Calm
    BY <2>1, <2>3 DEF CalmInv, Transport, SentRun
  <2> QED
    BY <2>1, <2>4 DEF Lingers
<1> QED
  BY <1>1, <1>2 DEF ConsumerNext

\* The invariants that hold at any time are kept.
LEMMA CountedStep ==
    ASSUME Disciplined, TypeOK, Counted, CalmInv, [Next]_vars
    PROVE  Counted'
<1>0. /\ sent \in Nat /\ acked \in Nat /\ flushes \in Nat /\ Len(held) \in Nat
      /\ Len(adapter.inFlight) \in Nat /\ MaxPackets \in Nat
  BY Parts
<1>1. /\ sent + Len(held) <= MaxPackets /\ acked + Len(adapter.inFlight) <= sent
      /\ adapter.generation = flushes /\ (Faulted(adapter) => ~connected \/ flushes > 0)
  BY DEF Counted
<1>2. SUFFICES /\ sent' + Len(held') <= MaxPackets /\ acked' + Len(adapter'.inFlight) <= sent'
               /\ adapter'.generation = flushes'
               /\ (Faulted(adapter') => ~connected' \/ flushes' > 0)
  BY DEF Counted
<1>3. CASE Quiet
  BY <1>1, <1>3 DEF Quiet, SameRest, Faulted, transfer
<1>4. ASSUME NEW n \in Sizes, NEW s \in Offsets, Creates(n, s)
      PROVE  Counted'
  <2>1. Len(held') = Len(held) + 1
    BY <1>4 DEF Creates, TypeOK
  <2> QED
    BY <1>0, <1>1, <1>4, <2>1 DEF Creates, SameRest, Faulted, transfer, Counted
<1>5. CASE Sends
  <2>1. Len(held') = Len(held) - 1
    BY <1>5, Ends DEF Sends, TypeOK
  <2>2. Len(adapter'.inFlight) = Len(adapter.inFlight) + 1
    BY <1>5, Parts DEF Sends
  <2> QED
    BY <1>0, <1>1, <1>5, <2>1, <2>2 DEF Sends, SameRest, Faulted
<1>6. CASE Drops
  <2>1. Len(held') = Len(held) - 1
    <3>1. held \in Seq(MappedPacket) /\ held # <<>> /\ held' = SubSeq(held, 1, Len(held) - 1)
      BY <1>6 DEF Drops, TypeOK
    <3>2. Len(held) \in Nat /\ Len(held) >= 1
      BY <3>1, Ends
    <3>3. PICK n \in Nat : n = Len(held) - 1
      BY <3>2
    <3>4. Len(SubSeq(held, 1, n)) = n
      BY <3>1, <3>2, <3>3, FrontOf
    <3> QED
      BY <3>1, <3>3, <3>4
  <2> QED
    BY <1>0, <1>1, <1>6, <2>1 DEF Drops, SameRest, Faulted, transfer
<1>7. CASE Discards
  <2>1. Len(held') = Len(held) - 1
    BY <1>7, Ends DEF Discards, TypeOK
  <2> QED
    BY <1>0, <1>1, <1>7, <2>1 DEF Discards, Faulted, transfer
<1>8. CASE Consumes
  <2>1. Len(adapter'.inFlight) = Len(adapter.inFlight) - 1
    BY <1>8, Parts, Ends DEF Consumes
  <2>2. /\ acked' = acked + 1 /\ held' = held /\ sent' = sent /\ connected' = connected
        /\ flushes' = flushes
        /\ adapter'.generation = adapter.generation /\ adapter'.state = adapter.state
    BY <1>8 DEF Consumes, SameRest
  <2>3. Faulted(adapter') => ~connected' \/ flushes' > 0
    BY <1>1, <2>2 DEF Faulted
  <2>4. acked' + Len(adapter'.inFlight) <= sent'
    <3>1. PICK n \in Nat : n = Len(adapter.inFlight)
      BY <1>0
    <3>0. acked + n <= sent /\ acked \in Nat /\ sent \in Nat
      BY Zenon, <1>0, <1>1, <3>1
    <3>2. acked + 1 + (n - 1) <= sent
      BY <3>0
    <3> QED
      BY <2>1, <2>2, <3>1, <3>2
  <2> QED
    BY <1>1, <2>2, <2>3, <2>4
<1>9. CASE Faults
  <2>1. Len(<<>>) = 0 /\ (adapter.inFlight # <<>> => Len(adapter.inFlight) >= 1)
    BY Parts, Ends
  <2> QED
    BY <1>0, <1>1, <1>9, <2>1 DEF Faults
<1>10. CASE Lingers
  BY <1>1, <1>10 DEF Lingers, Faulted
<1>11. CASE Moves
  <2>1. connected' => connected
    BY Zenon, <1>11 DEF Moves, SetBuffer, SendPacket, ReturnPacket, Leave, Receive, Reset
  <2> QED
    BY <1>1, <1>11, <2>1 DEF Moves, Faulted
<1>12. CASE Flush
  <2>1. adapter \in Adapter
    BY DEF TypeOK
  <2>2. PICK g : g = adapter.generation + 1
    OBVIOUS
  <2>3. adapter' = [adapter EXCEPT !.inFlight = <<>>, !.rd = 0, !.wr = 0,
                                  !.flushing = TRUE, !.generation = g]
    BY <1>12, <2>2 DEF Flush
  <2>4. adapter'.inFlight = <<>> /\ adapter'.generation = g
    BY <2>1, <2>3 DEF Adapter
  <2>5. UNCHANGED <<held, sent, acked, connected>> /\ flushes' = flushes + 1
    BY <1>12 DEF Flush
  <2>6. Len(adapter'.inFlight) = 0
    BY <2>4
  <2>7. acked <= sent
    BY DEF TypeOK
  <2> QED
    BY <1>0, <1>1, <2>2, <2>4, <2>5, <2>6, <2>7
<1>13. CASE UNCHANGED vars
  BY <1>1, <1>13 DEF vars, client, pipe, Faulted
<1>14. CASE \/ SetWatermarks \/ SetSignalCallback \/ Produce \/ StopWriting
            \/ SendMediaPacket \/ CancelMediaPacket
  BY <1>3, <1>4, <1>5, <1>6, <1>7, <1>14, ClientEffects DEF Counted
<1> QED
  BY <1>3, <1>8, <1>9, <1>10, <1>11, <1>12, <1>13, <1>14, LoopEffects, ConsumerEffects DEF Next

-----------------------------------------------------------------------------
(* The ring is kept *)

\* How many packets there are.
LEMMA Sizing ==
    ASSUME Disciplined, TypeOK, Ring
    PROVE  /\ sent \in Nat /\ acked \in Nat /\ acked <= sent /\ Len(held) \in Nat
           /\ Len(adapter.inFlight) = sent - acked
           /\ Created = sent + Len(held) /\ Created \in Nat
           /\ Numbers = acked - 1 .. Created - 1
<1>1. sent \in Nat /\ acked \in Nat /\ Len(held) \in Nat
  BY Zenon, Parts
<1>2. acked <= sent
  BY DEF TypeOK
<1>3. Len(adapter.inFlight) = sent - acked
  BY Zenon DEF Ring
<1> QED
  BY <1>1, <1>2, <1>3 DEF Created, Numbers

\* Marks are in the buffer, and a later one is no nearer.
LEMMA RisingTo ==
    ASSUME Disciplined, TypeOK, Ring, NEW k \in Numbers, NEW l \in Numbers, k <= l
    PROVE  /\ Mark(k) \in Offsets /\ Mark(l) \in Offsets
           /\ Distance(Mark(k), adapter.rd) \in 0 .. BufferSize - 1
           /\ Distance(Mark(l), adapter.rd) \in 0 .. BufferSize - 1
           /\ Distance(Mark(k), adapter.rd) <= Distance(Mark(l), adapter.rd)
<1>1. Len(adapter.inFlight) = sent - acked
  BY Zenon DEF Ring
<1>2. /\ Mark(k) \in Offsets /\ Mark(l) \in Offsets
      /\ Distance(Mark(k), adapter.rd) \in 0 .. BufferSize - 1
      /\ Distance(Mark(l), adapter.rd) \in 0 .. BufferSize - 1
  BY Zenon, <1>1, MarkDistance
<1>3. k \in Int /\ l \in Int /\ BufferSize \in Nat
  BY Sizing, Parts
<1>4. CASE k = l
  BY <1>2, <1>3, <1>4
<1>5. CASE k < l
  <2>1. Distance(Mark(k), adapter.rd) < Distance(Mark(l), adapter.rd)
    BY Zenon, <1>5 DEF Ring, Rising
  <2> QED
    BY <1>2, <1>3, <2>1
<1> QED
  BY <1>2, <1>3, <1>4, <1>5

\* A packet that the client holds lies between its predecessor's mark and its own.
LEMMA HeldIsPlaced ==
    ASSUME Disciplined, TypeOK, Ring, NEW k \in sent .. Created - 1
    PROVE  /\ k \in Numbers /\ k - 1 \in Numbers
           /\ k - sent + 1 \in 1 .. Len(held)
           /\ held[k - sent + 1].cancel = Mark(k - 1)
           /\ Placed(held[k - sent + 1].packet, adapter.rd, Mark(k - 1), Mark(k))
<1>1. k \in Numbers /\ k - 1 \in Numbers /\ k - sent + 1 \in 1 .. Len(held)
  BY Sizing
<1> QED
  BY Zenon, <1>1 DEF Ring, HeldPlaced

\* CreateMediaPacket puts a packet between the write pointer and its new value.
LEMMA CreatesRing ==
    ASSUME Disciplined, TypeOK, Ring, adapter.buffer = TRUE,
           NEW n \in Sizes, NEW s \in Offsets, Creates(n, s)
    PROVE  Ring' /\ \A k \in Numbers : Mark(k)' = Mark(k)
<1>1. PICK h : h = [packet |-> [start |-> s, size |-> n], cancel |-> adapter.wr,
                    generation |-> adapter.generation]
  BY Zenon
<1>2. /\ sent' = sent /\ acked' = acked /\ held' = Append(held, h)
      /\ adapter'.rd = adapter.rd /\ adapter'.inFlight = adapter.inFlight
      /\ adapter'.wr = (s + n) % BufferSize
  BY <1>1 DEF Creates
<1>3. /\ Len(held') = Len(held) + 1 /\ held'[Len(held) + 1] = h
      /\ \A i \in 1 .. Len(held) : held'[i] = held[i]
  <2>1. held \in Seq(MappedPacket)
    BY Zenon DEF TypeOK
  <2>2. adapter.wr \in Offsets /\ adapter.generation \in 0 .. MaxFlushes
    BY Zenon, Parts
  <2>3. h \in MappedPacket
    BY <1>1, <2>2 DEF MappedPacket, Packet
  <2> QED
    BY <1>2, <2>1, <2>3, Ends
<1>4. Created' = Created + 1 /\ Numbers' = acked - 1 .. Created
  BY <1>2, <1>3, Sizing DEF Created, Numbers
<1>5. Mark(Created - 1) = adapter.wr /\ Created - 1 \in Numbers
  BY Sizing DEF Ring
<1>6. PICK r \in Offsets, w \in Offsets : r = adapter.rd /\ w = adapter.wr
  BY Zenon, Parts
<1>7. Distance(w, r) <= Distance(s, r) /\ Distance(s, r) + n < BufferSize /\ n \in Nat \ {0}
  <2>1. GetPending(adapter) = Distance(w, r)
    BY Zenon, <1>6, PendingIsDistance
  <2>2. \/ s = w /\ Distance(w, r) < Hi
        \/ s = 0 /\ w > r /\ BufferSize - w < n /\ ~(n >= r /\ n < w)
    BY Zenon, <1>6, <2>1 DEF Creates
  <2> QED
    BY Zenon, <2>2, PlaceOfNew
<1>8. PICK e \in Offsets : e = (s + n) % BufferSize /\ Distance(e, r) = Distance(s, r) + n
  BY <1>7, DistanceOfEnd
<1>9. /\ BufferSize \in Nat /\ Distance(s, r) \in 0 .. BufferSize - 1
      /\ Distance(w, r) \in 0 .. BufferSize - 1 /\ Distance(e, r) \in 0 .. BufferSize - 1
  BY DistanceFacts, Parts
<1>10. ASSUME NEW k \in Numbers PROVE Mark(k)' = Mark(k)
  <2>1. CASE k < sent
    BY <1>2, <2>1 DEF Mark
  <2>2. CASE k >= sent
    <3>1. k - sent + 1 \in 1 .. Len(held) /\ ~(k < sent) /\ ~(k < acked)
      BY <2>2, Sizing
    <3>2. held'[k - sent + 1] = held[k - sent + 1]
      BY Zenon, <1>3, <3>1
    <3> QED
      BY Zenon, <1>2, <3>1, <3>2 DEF Mark, PostConsumeRd
  <2>3. k < sent \/ k >= sent
    BY Sizing
  <2> QED
    BY <2>1, <2>2, <2>3
<1>11. ASSUME NEW k, k = Created PROVE Mark(k)' = e
  <2>1. k - sent + 1 = Len(held) + 1 /\ ~(k < sent) /\ ~(k < acked)
    BY <1>11, Sizing
  <2>2. held'[k - sent' + 1].packet = [start |-> s, size |-> n]
    BY <1>1, <1>2, <1>3, <2>1
  <2>3. Mark(k)' = PostConsumeRd(held'[k - sent' + 1].packet)
    BY Zenon, <1>2, <2>1 DEF Mark, PostConsumeRd
  <2> QED
    BY <1>8, <2>2, <2>3 DEF PostConsumeRd
<1>12. Len(adapter'.inFlight) = sent' - acked' /\ FlightRun'
  BY <1>2 DEF Ring, FlightRun
<1>13. PICK c : c = Created /\ c \in Nat /\ c - 1 \in Numbers /\ Mark(c)' = e /\ Mark(c - 1) = w
  BY <1>5, <1>6, <1>11, Sizing
<1>14. adapter'.wr = Mark(Created - 1)'
  <2>1. (Created - 1)' = c
    BY <1>4, <1>13, Sizing
  <2> QED
    BY <1>2, <1>8, <1>13, <2>1
<1>15. Rising'
  <2>1. SUFFICES ASSUME NEW k \in Numbers', NEW l \in Numbers', k < l
                 PROVE  Distance(Mark(k)', r) < Distance(Mark(l)', r)
    BY Zenon, <1>2, <1>6 DEF Rising
  <2>2. k \in Numbers /\ (l \in Numbers \/ l = c)
    <3>1. k \in acked - 1 .. c /\ l \in acked - 1 .. c
      BY Zenon, <1>4, <1>13
    <3>2. Numbers = acked - 1 .. c - 1 /\ acked \in Nat /\ c \in Nat
      BY Zenon, <1>13, Sizing
    <3> QED
      BY <2>1, <3>1, <3>2
  <2>3. CASE l \in Numbers
    BY Zenon, <1>6, <1>10, <2>1, <2>2, <2>3 DEF Ring, Rising
  <2>4. CASE l = c
    <3>1. k <= c - 1
      BY <1>13, <2>1, <2>2, <2>4, Sizing
    <3>2. Distance(Mark(k), r) <= Distance(w, r) /\ Distance(Mark(k), r) \in 0 .. BufferSize - 1
      BY Zenon, <1>6, <1>13, <2>2, <3>1, RisingTo
    <3>3. Distance(Mark(k), r) < Distance(e, r)
      BY <1>7, <1>8, <1>9, <3>2
    <3> QED
      BY Zenon, <1>10, <1>13, <2>2, <2>4, <3>3
  <2> QED
    BY <2>2, <2>3, <2>4
<1>16. HeldPlaced'
  <2>1. SUFFICES ASSUME NEW k \in sent .. Created
                 PROVE  /\ held'[k - sent + 1].cancel = Mark(k - 1)'
                        /\ Placed(held'[k - sent + 1].packet, r, Mark(k - 1)', Mark(k)')
    <3>1. sent' .. Created' - 1 = sent .. Created
      BY <1>2, <1>4, Sizing
    <3> QED
      BY Zenon, <1>2, <1>6, <3>1 DEF HeldPlaced
  <2>2. CASE k \in sent .. Created - 1
    <3>1. held'[k - sent + 1] = held[k - sent + 1]
      BY Zenon, <1>3, <2>2, HeldIsPlaced
    <3> QED
      BY Zenon, <1>6, <1>10, <2>2, <3>1, HeldIsPlaced
  <2>3. CASE k = c
    <3>1. held'[k - sent + 1] = h
      BY <1>3, <1>13, <2>3, Sizing
    <3>2. h.cancel = w /\ h.packet.start = s /\ h.packet.size = n
      BY <1>1, <1>6
    <3>3. Mark(c - 1)' = w
      BY Zenon, <1>10, <1>13
    <3>4. Placed(h.packet, r, w, e)
      BY <1>7, <1>8, <3>2 DEF Placed
    <3> QED
      BY Zenon, <1>13, <2>3, <3>1, <3>2, <3>3, <3>4
  <2>4. k \in sent .. Created - 1 \/ k = c
    BY <1>13, Sizing
  <2> QED
    BY <2>2, <2>3, <2>4
<1> QED
  BY <1>10, <1>12, <1>14, <1>15, <1>16 DEF Ring

\* SendMediaPacket turns the client's first packet into the last one in flight, with the
\* same mark.
LEMMA SendsRing ==
    ASSUME Disciplined, TypeOK, Counted, Ring, Sends
    PROVE  Ring' /\ Created' = Created /\ \A k \in Numbers : Mark(k)' = Mark(k)
<1>1. PICK f : f = [rd |-> PostConsumeRd(Head(held).packet), seq |-> sent]
  BY Zenon
<1>2. /\ sent' = sent + 1 /\ acked' = acked /\ held # <<>> /\ held' = Tail(held)
      /\ adapter'.rd = adapter.rd /\ adapter'.inFlight = Append(adapter.inFlight, f)
      /\ adapter'.wr = adapter.wr
  BY <1>1 DEF Sends
<1>3. /\ Len(held) >= 1 /\ Head(held) = held[1] /\ Len(held') = Len(held) - 1
      /\ \A i \in 1 .. Len(held) - 1 : held'[i] = held[i + 1]
  <2>1. held \in Seq(MappedPacket)
    BY Zenon DEF TypeOK
  <2> QED
    BY <1>2, <2>1, Ends
<1>4. Created' = Created /\ Numbers' = Numbers /\ Created > sent
  <2>1. PICK n \in Nat : n = Len(held)
    BY Zenon, Sizing
  <2>2. Created = sent + n /\ sent \in Nat /\ acked \in Nat /\ n >= 1
    BY Zenon, <1>3, <2>1, Sizing
  <2>3. Created' = (sent + 1) + (n - 1)
    BY Zenon, <1>2, <1>3, <2>1 DEF Created
  <2>4. Created' = Created /\ Created > sent
    BY <2>2, <2>3
  <2> QED
    BY <1>2, <2>4 DEF Numbers
<1>5. /\ Len(adapter'.inFlight) = sent' - acked'
      /\ \A i \in 1 .. sent - acked : adapter'.inFlight[i] = adapter.inFlight[i]
      /\ adapter'.inFlight[sent - acked + 1] = f
  <2>1. adapter.inFlight \in Seq(InFlight) /\ Len(adapter.inFlight) = sent - acked
    BY Zenon, Parts, Sizing
  <2>2. f \in InFlight
    <3>2. Head(held) \in MappedPacket
      BY <1>2, Ends DEF TypeOK
    <3>3. Head(held).packet \in Packet
      BY <3>2 DEF MappedPacket
    <3>4. sent \in Seqs
      <4>1. PICK n \in Nat : n = Len(held)
        BY Zenon, Sizing
      <4>2. sent \in Nat /\ MaxPackets \in Nat /\ n >= 1 /\ sent + n <= MaxPackets
        BY <1>3, <4>1, Parts DEF Counted
      <4> QED
        BY <4>2 DEF Seqs
    <3> QED
      BY <1>1, <3>3, <3>4, EndInBuffer DEF InFlight
  <2>3. sent \in Nat /\ acked \in Nat
    BY Zenon, Sizing
  <2> QED
    BY <1>2, <2>1, <2>2, <2>3, Ends
<1>6. ASSUME NEW k \in Numbers PROVE Mark(k)' = Mark(k)
  <2>0. /\ k \in acked - 1 .. sent + Len(held) - 1 /\ sent \in Nat /\ acked \in Nat
        /\ Len(held) \in Nat /\ acked <= sent
    BY Sizing
  <2>1. CASE k < acked
    BY Zenon, <1>2, <2>1 DEF Mark
  <2>2. CASE k >= acked /\ k < sent
    <3>1. ~(k < acked) /\ k < sent + 1 /\ k - acked + 1 \in 1 .. sent - acked
      BY <2>0, <2>2
    <3> QED
      BY Zenon, <1>2, <1>5, <2>2, <3>1 DEF Mark
  <2>3. CASE k = sent
    <3>1. ~(k < acked) /\ k < sent + 1 /\ k - acked + 1 = sent - acked + 1 /\ ~(k < sent)
          /\ k - sent + 1 = 1
      BY <2>0, <2>3
    <3>2. Mark(k)' = f.rd
      BY Zenon, <1>2, <1>5, <3>1 DEF Mark
    <3>3. Mark(k) = PostConsumeRd(held[1].packet)
      BY Zenon, <3>1 DEF Mark
    <3> QED
      BY <1>1, <1>3, <3>2, <3>3
  <2>4. CASE k > sent
    <3>1. ~(k < acked) /\ ~(k < sent + 1) /\ ~(k < sent) /\ k - (sent + 1) + 1 \in 1 .. Len(held) - 1
          /\ (k - (sent + 1) + 1) + 1 = k - sent + 1
      BY <2>0, <2>4
    <3>3. PICK j \in 1 .. Len(held) - 1 : j = k - (sent + 1) + 1 /\ j + 1 = k - sent + 1
      BY Zenon, <3>1
    <3>2. held'[k - (sent + 1) + 1] = held[k - sent + 1]
      <4>1. held'[j] = held[j + 1]
        BY Zenon, <1>3
      <4> QED
        BY <3>3, <4>1
    <3> QED
      BY Zenon, <1>2, <3>1, <3>2 DEF Mark, PostConsumeRd
  <2> QED
    BY <2>0, <2>1, <2>2, <2>3, <2>4
<1>7. FlightRun'
  <2>1. SUFFICES ASSUME NEW i \in 1 .. sent - acked + 1
                 PROVE  adapter'.inFlight[i].seq = acked + i - 1
    <3>1. Len(adapter'.inFlight) = sent - acked + 1
      BY <1>2, <1>5, Sizing
    <3> QED
      BY Zenon, <1>2, <3>1 DEF FlightRun
  <2>2. CASE i \in 1 .. sent - acked
    BY Zenon, <1>5, <2>2, Sizing DEF Ring, FlightRun
  <2>3. CASE i = sent - acked + 1
    <3>1. adapter'.inFlight[i].seq = sent
      BY <1>1, <1>5, <2>3
    <3> QED
      BY <2>3, <3>1, Sizing
  <2> QED
    <3>1. sent \in Nat /\ acked \in Nat /\ acked <= sent
      BY Zenon, Sizing
    <3> QED
      BY <2>2, <2>3, <3>1
<1>8. PICK c \in Numbers : c = Created - 1 /\ c = Created' - 1
  BY <1>4, Sizing
<1>9. adapter'.wr = Mark(Created - 1)'
  <2>1. adapter'.wr = Mark(c)'
    BY Zenon, <1>2, <1>6, <1>8 DEF Ring
  <2> QED
    BY <1>8, <2>1
<1>10. Rising'
  BY Zenon, <1>2, <1>4, <1>6 DEF Ring, Rising
<1>11. HeldPlaced'
  <2>1. SUFFICES ASSUME NEW k \in sent + 1 .. Created - 1
                 PROVE  /\ held'[k - (sent + 1) + 1].cancel = Mark(k - 1)'
                        /\ Placed(held'[k - (sent + 1) + 1].packet, adapter.rd, Mark(k - 1)', Mark(k)')
    BY Zenon, <1>2, <1>4 DEF HeldPlaced
  <2>2. k \in sent .. Created - 1
    BY Sizing
  <2>3. k - (sent + 1) + 1 \in 1 .. Len(held) - 1 /\ (k - (sent + 1) + 1) + 1 = k - sent + 1
    BY Sizing
  <2>4. held'[k - (sent + 1) + 1] = held[k - sent + 1]
    <3>1. PICK j \in 1 .. Len(held) - 1 : j = k - (sent + 1) + 1 /\ j + 1 = k - sent + 1
      BY Zenon, <2>3
    <3>2. held'[j] = held[j + 1]
      BY Zenon, <1>3
    <3> QED
      BY <3>1, <3>2
  <2> QED
    BY Zenon, <1>6, <2>2, <2>4, HeldIsPlaced
<1> QED
  BY <1>4, <1>5, <1>6, <1>7, <1>9, <1>10, <1>11 DEF Ring

\* CancelMediaPacket takes back the last packet: the write pointer returns to the mark of
\* its predecessor.
LEMMA DropsRing ==
    ASSUME Disciplined, TypeOK, Ring, Drops
    PROVE  Ring' /\ \A k \in acked - 1 .. sent - 1 : Mark(k)' = Mark(k)
<1>1. PICK n \in Nat : n = Len(held) /\ n >= 1
  BY Ends DEF Drops, TypeOK
<1>2. /\ sent' = sent /\ acked' = acked /\ held' = SubSeq(held, 1, n - 1)
      /\ adapter'.rd = adapter.rd /\ adapter'.inFlight = adapter.inFlight
      /\ adapter'.wr = held[n].cancel
  BY <1>1 DEF Drops
<1>3. Len(held') = n - 1 /\ \A i \in 1 .. n - 1 : held'[i] = held[i]
  <2>1. held \in Seq(MappedPacket)
    BY Zenon DEF TypeOK
  <2>2. PICK m \in Nat : m = n - 1 /\ m <= Len(held)
    BY <1>1
  <2>3. Len(SubSeq(held, 1, m)) = m /\ \A i \in 1 .. m : SubSeq(held, 1, m)[i] = held[i]
    BY Zenon, <2>1, <2>2, FrontOf
  <2> QED
    BY Zenon, <1>2, <2>2, <2>3
<1>4. PICK c : c = Created - 1 /\ c = Created' /\ c \in sent .. Created - 1 /\ c - sent + 1 = n
  <2>1. Created = sent + n /\ sent \in Nat
    BY Zenon, <1>1, Sizing
  <2>2. Created' = sent + (n - 1)
    BY Zenon, <1>2, <1>3 DEF Created
  <2> QED
    BY <1>1, <2>1, <2>2
<1>5. Numbers' = acked - 1 .. c - 1 /\ Numbers = acked - 1 .. c /\ acked \in Nat /\ c \in Int
      /\ acked <= sent /\ sent <= c /\ sent \in Nat
  BY <1>2, <1>4, Sizing DEF Numbers
<1>6. ASSUME NEW k \in Numbers' PROVE Mark(k)' = Mark(k)
  <2>0. k \in acked - 1 .. c - 1 /\ sent \in Nat
    BY Zenon, <1>5, Sizing
  <2>1. CASE k < sent
    BY Zenon, <1>2, <2>1 DEF Mark
  <2>2. CASE k >= sent
    <3>1. ~(k < acked) /\ ~(k < sent) /\ k - sent + 1 \in 1 .. n - 1
      BY <1>1, <1>4, <1>5, <2>0, <2>2
    <3>2. held'[k - sent + 1] = held[k - sent + 1]
      BY Zenon, <1>3, <3>1
    <3> QED
      BY Zenon, <1>2, <3>1, <3>2 DEF Mark, PostConsumeRd
  <2> QED
    BY <2>0, <2>1, <2>2
<1>7. Len(adapter'.inFlight) = sent' - acked' /\ FlightRun'
  BY <1>2 DEF Ring, FlightRun
<1>8. adapter'.wr = Mark(Created - 1)'
  <2>1. held[n].cancel = Mark(c - 1)
    BY Zenon, <1>4, HeldIsPlaced
  <2>2. PICK k \in Numbers' : k = c - 1
    BY <1>5
  <2>3. adapter'.wr = Mark(k)'
    BY Zenon, <1>2, <1>6, <2>1, <2>2
  <2> QED
    BY <1>4, <2>2, <2>3
<1>9. Numbers' \subseteq Numbers
  BY <1>5
<1>10. Rising'
  BY Zenon, <1>2, <1>6, <1>9 DEF Ring, Rising
<1>11. HeldPlaced'
  <2>1. SUFFICES ASSUME NEW k \in sent .. c - 1
                 PROVE  /\ held'[k - sent + 1].cancel = Mark(k - 1)'
                        /\ Placed(held'[k - sent + 1].packet, adapter.rd, Mark(k - 1)', Mark(k)')
    BY Zenon, <1>2, <1>4 DEF HeldPlaced
  <2>2. /\ k \in sent .. Created - 1 /\ k \in Numbers' /\ k - 1 \in Numbers'
        /\ k - sent + 1 \in 1 .. n - 1
    <3>1. k \in sent .. c /\ k \in acked - 1 .. c - 1 /\ k - 1 \in acked - 1 .. c - 1
      BY <1>5
    <3>2. k - sent + 1 \in 1 .. n - 1
      BY <1>1, <1>4, <1>5
    <3> QED
      BY Zenon, <1>4, <1>5, <3>1, <3>2
  <2>3. held'[k - sent + 1] = held[k - sent + 1]
    BY Zenon, <1>3, <2>2
  <2> QED
    BY Zenon, <1>6, <2>2, <2>3, HeldIsPlaced
<1>12. acked - 1 .. sent - 1 \subseteq Numbers'
  BY <1>5, Sizing
<1> QED
  BY <1>6, <1>7, <1>8, <1>10, <1>11, <1>12 DEF Ring

\* A packet is between its marks also as seen from a place further on, up to the first.
LEMMA PlacedShifts ==
    ASSUME Disciplined, NEW r \in Offsets, NEW q \in Offsets, NEW m \in Offsets,
           NEW e \in Offsets, NEW p \in Packet, Placed(p, r, m, e),
           Distance(q, r) <= Distance(m, r)
    PROVE  Placed(p, q, m, e)
<1>1. p.start \in Offsets /\ p.size \in Nat
  BY Zenon, EndInBuffer
<1>2. /\ Distance(q, r) \in 0 .. BufferSize - 1 /\ Distance(m, r) \in 0 .. BufferSize - 1
      /\ Distance(e, r) \in 0 .. BufferSize - 1 /\ Distance(p.start, r) \in 0 .. BufferSize - 1
  BY Zenon, <1>1, DistanceFacts
<1>3. BufferSize \in Nat
  BY DEF Disciplined
<1>4. Distance(q, r) <= Distance(p.start, r) /\ Distance(q, r) <= Distance(e, r)
  BY <1>1, <1>2, <1>3 DEF Placed
<1>5. /\ Distance(m, q) = Distance(m, r) - Distance(q, r)
      /\ Distance(e, q) = Distance(e, r) - Distance(q, r)
      /\ Distance(p.start, q) = Distance(p.start, r) - Distance(q, r)
  BY Zenon, <1>1, <1>4, DistanceShifts
<1> QED
  BY <1>1, <1>2, <1>3, <1>5 DEF Placed

\* HandleSendPacket moves the read pointer to the mark of the packet that is back.
LEMMA ConsumesRing ==
    ASSUME Disciplined, TypeOK, Ring, Transport, Consumes
    PROVE  /\ Ring' /\ acked < sent /\ adapter'.rd = Mark(acked)
           /\ \A k \in acked .. Created - 1 : Mark(k)' = Mark(k)
<1>1. /\ sent' = sent /\ acked' = acked + 1 /\ held' = held /\ adapter.inFlight # <<>>
      /\ toAdapter # <<>> /\ adapter'.rd = Head(adapter.inFlight).rd
      /\ adapter'.wr = adapter.wr /\ adapter'.inFlight = Tail(adapter.inFlight)
  BY DEF Consumes
<1>2. acked < sent /\ acked \in Numbers /\ adapter'.rd = Mark(acked)
  BY <1>1, AnswersAreKnown
<1>3. PICK c, n \in Nat : /\ n = sent - acked /\ n = Len(adapter.inFlight) /\ n >= 1
                          /\ c = Created /\ c \in Nat /\ sent <= c /\ acked + n = sent
                          /\ sent \in Nat /\ acked \in Nat
  <2>1. /\ sent \in Nat /\ acked \in Nat /\ acked < sent
        /\ Len(adapter.inFlight) = sent - acked
    BY Zenon, <1>2, Sizing
  <2>2. PICK h \in Nat : h = Len(held) /\ Created = sent + h
    BY Zenon, Sizing
  <2>3. PICK m \in Nat : m = sent - acked /\ m >= 1 /\ acked + m = sent
    BY <2>1
  <2>4. sent + h \in Nat /\ sent <= sent + h
    BY <2>1
  <2> QED
    BY Zenon, <2>1, <2>2, <2>3, <2>4
<1>4. Created' = c /\ Numbers' = acked .. c - 1 /\ Numbers = acked - 1 .. c - 1
  BY <1>1, <1>3, Sizing DEF Created, Numbers
<1>5. Len(adapter'.inFlight) = n - 1 /\ \A i \in 1 .. n - 1 : adapter'.inFlight[i] = adapter.inFlight[i + 1]
  <2>1. adapter.inFlight \in Seq(InFlight)
    BY Zenon, Parts
  <2> QED
    BY <1>1, <1>3, <2>1, Ends
<1>6. ASSUME NEW k \in acked .. c - 1 PROVE Mark(k)' = Mark(k)
  <2>1. CASE k = acked
    <3>1. k < acked + 1
      BY <1>3, <2>1
    <3>2. Mark(k)' = adapter'.rd
      BY Zenon, <1>1, <3>1 DEF Mark
    <3> QED
      BY Zenon, <1>2, <2>1, <3>2
  <2>2. CASE k > acked /\ k < sent
    <3>1. PICK j \in 1 .. n - 1 : j = k - (acked + 1) + 1 /\ j + 1 = k - acked + 1
      BY <1>3, <2>2
    <3>2. ~(k < acked) /\ ~(k < acked + 1)
      BY <1>3, <2>2
    <3>3. adapter'.inFlight[j] = adapter.inFlight[j + 1]
      BY Zenon, <1>5
    <3>4. Mark(k)' = adapter'.inFlight[j].rd
      BY Zenon, <1>1, <2>2, <3>1, <3>2 DEF Mark
    <3>5. Mark(k) = adapter.inFlight[j + 1].rd
      BY Zenon, <2>2, <3>1, <3>2 DEF Mark
    <3> QED
      BY Zenon, <3>3, <3>4, <3>5
  <2>3. CASE k >= sent
    <3>1. ~(k < acked) /\ ~(k < acked + 1) /\ ~(k < sent)
      BY <1>2, <1>3, <2>3
    <3> QED
      BY Zenon, <1>1, <3>1 DEF Mark, PostConsumeRd
  <2> QED
    BY <1>3, <2>1, <2>2, <2>3
<1>7. Len(adapter'.inFlight) = sent' - acked'
  BY <1>1, <1>3, <1>5
<1>8. FlightRun'
  <2>1. SUFFICES ASSUME NEW i \in 1 .. n - 1
                 PROVE  adapter'.inFlight[i].seq = (acked + 1) + i - 1
    BY Zenon, <1>1, <1>5 DEF FlightRun
  <2>2. adapter'.inFlight[i] = adapter.inFlight[i + 1]
    BY Zenon, <1>5
  <2>3. PICK j \in 1 .. n : j = i + 1
    BY <1>3
  <2>4. adapter.inFlight[j].seq = acked + j - 1
    BY Zenon, <1>3 DEF Ring, FlightRun
  <2> QED
    BY <1>3, <2>2, <2>3, <2>4
<1>9. adapter'.wr = Mark(Created - 1)'
  <2>1. PICK k \in acked .. c - 1 : k = c - 1
    BY <1>2, <1>3
  <2>2. adapter'.wr = Mark(k)'
    BY Zenon, <1>1, <1>3, <1>6, <2>1 DEF Ring
  <2> QED
    BY <1>4, <2>1, <2>2
<1>10. PICK r \in Offsets, q \in Offsets :
          /\ r = adapter.rd /\ q = adapter'.rd /\ q = Mark(acked)
          /\ Distance(q, r) \in 0 .. BufferSize - 1
  <2>1. acked <= acked
    BY <1>3
  <2> QED
    BY Zenon, <1>2, <2>1, RisingTo, Parts
<1>11. ASSUME NEW k \in acked .. c - 1
       PROVE  /\ Mark(k) \in Offsets /\ Distance(q, r) <= Distance(Mark(k), r)
              /\ Distance(Mark(k), r) \in 0 .. BufferSize - 1
              /\ Distance(Mark(k), q) = Distance(Mark(k), r) - Distance(q, r)
  <2>1. k \in Numbers /\ acked <= k
    BY <1>3, <1>4
  <2>2. /\ Mark(k) \in Offsets /\ Distance(q, r) <= Distance(Mark(k), r)
        /\ Distance(Mark(k), r) \in 0 .. BufferSize - 1
    BY Zenon, <1>2, <1>10, <2>1, RisingTo
  <2>3. PICK m \in Offsets : m = Mark(k)
    BY Zenon, <2>2
  <2>4. Distance(m, q) = Distance(m, r) - Distance(q, r)
    BY Zenon, <2>2, <2>3, DistanceShifts
  <2> QED
    BY Zenon, <2>2, <2>3, <2>4
<1>12. Rising'
  <2>1. SUFFICES ASSUME NEW k \in acked .. c - 1, NEW l \in acked .. c - 1, k < l
                 PROVE  Distance(Mark(k)', q) < Distance(Mark(l)', q)
    BY Zenon, <1>4, <1>10 DEF Rising
  <2>2. k \in Numbers /\ l \in Numbers
    BY <1>3, <1>4
  <2>3. Distance(Mark(k), r) < Distance(Mark(l), r)
    BY Zenon, <1>10, <2>1, <2>2 DEF Ring, Rising
  <2>4. PICK x \in Int, y \in Int, z \in Int :
           x = Distance(Mark(k), r) /\ y = Distance(Mark(l), r) /\ z = Distance(q, r)
    BY <1>10, <1>11
  <2>5. Distance(Mark(k), q) = x - z /\ Distance(Mark(l), q) = y - z
    BY Zenon, <1>11, <2>4
  <2>6. x - z < y - z
    BY <2>3, <2>4
  <2> QED
    BY Zenon, <1>6, <2>5, <2>6
<1>13. HeldPlaced'
  <2>1. SUFFICES ASSUME NEW k \in sent .. c - 1
                 PROVE  /\ held[k - sent + 1].cancel = Mark(k - 1)'
                        /\ Placed(held[k - sent + 1].packet, q, Mark(k - 1)', Mark(k)')
    BY Zenon, <1>1, <1>4, <1>10 DEF HeldPlaced
  <2>2. k \in sent .. Created - 1 /\ k \in acked .. c - 1 /\ k - 1 \in acked .. c - 1
    BY <1>2, <1>3
  <2>3. /\ held[k - sent + 1].cancel = Mark(k - 1)
        /\ Placed(held[k - sent + 1].packet, r, Mark(k - 1), Mark(k))
        /\ k - sent + 1 \in 1 .. Len(held)
    BY Zenon, <1>10, <2>2, HeldIsPlaced
  <2>4. held[k - sent + 1].packet \in Packet
    <3>1. held[k - sent + 1] \in MappedPacket
      BY <2>3 DEF TypeOK
    <3> QED
      BY <3>1 DEF MappedPacket
  <2>5. Placed(held[k - sent + 1].packet, q, Mark(k - 1), Mark(k))
    BY Zenon, <1>11, <2>2, <2>3, <2>4, PlacedShifts
  <2> QED
    BY Zenon, <1>6, <2>2, <2>3, <2>5
<1>14. Ring'
  BY <1>7, <1>8, <1>9, <1>12, <1>13 DEF Ring
<1> QED
  BY Zenon, <1>2, <1>3, <1>6, <1>14

-----------------------------------------------------------------------------
(* What is on its way stays in order *)

\* What is known of a packet in flight stays so while the read pointer and the marks do.
LEMMA KnownStays ==
    ASSUME Disciplined, TypeOK, acked' = acked, sent' \in Nat, sent <= sent',
           adapter'.rd = adapter.rd, \A k \in acked - 1 .. sent - 1 : Mark(k)' = Mark(k),
           NEW n, NEW p, Known(n, p)
    PROVE  Known(n, p)'
<1>1. sent \in Nat /\ acked \in Nat
  BY Zenon, Parts
<1>2. n \in acked .. sent - 1 /\ Placed(p, adapter.rd, Mark(n - 1), Mark(n))
  BY Zenon DEF Known
<1>3. n \in acked - 1 .. sent - 1 /\ n - 1 \in acked - 1 .. sent - 1 /\ n \in acked .. sent' - 1
  <2>1. PICK t \in Nat : t = sent' /\ sent <= t
    OBVIOUS
  <2>2. n \in acked .. sent - 1
    BY Zenon, <1>2
  <2>3. \A a, s \in Nat : \A k \in a .. s - 1 :
           s <= t => k \in a - 1 .. s - 1 /\ k - 1 \in a - 1 .. s - 1 /\ k \in a .. t - 1
    BY SMT
  <2> QED
    BY Zenon, <1>1, <2>1, <2>2, <2>3
<1>4. Mark(n)' = Mark(n) /\ Mark(n - 1)' = Mark(n - 1)
  BY Zenon, <1>3
<1> QED
  BY Zenon, <1>2, <1>3, <1>4 DEF Known

\* Creating or cancelling a packet moves nothing that is on its way.
LEMMA IdleTransport ==
    ASSUME Disciplined, TypeOK, Transport, UNCHANGED <<acked, sent, transfer>>,
           adapter'.rd = adapter.rd, \A k \in acked - 1 .. sent - 1 : Mark(k)' = Mark(k)
    PROVE  Transport'
<1>1. /\ acked' = acked /\ sent' = sent /\ toConsumer' = toConsumer /\ toAdapter' = toAdapter
      /\ connected' = connected /\ consumer' = consumer
  BY DEF transfer
<1>2. \A n, p : Known(n, p) => Known(n, p)'
  <2>1. sent \in Nat /\ sent <= sent'
    BY <1>1, Parts
  <2> QED
    BY <1>1, <2>1, KnownStays
<1>3. AnswersRun' /\ Balance'
  BY Zenon, <1>1 DEF Transport, AnswersRun, Balance
<1>4. OwnedRun'
  BY Zenon, <1>1, <1>2 DEF Transport, OwnedRun
<1>5. SentRun'
  BY Zenon, <1>1, <1>2 DEF Transport, SentRun
<1> QED
  BY <1>3, <1>4, <1>5 DEF Transport

\* A packet that is sent is the last one on its way.
LEMMA SendsTransport ==
    ASSUME Disciplined, TypeOK, Counted, Ring, Transport, Sends
    PROVE  Transport'
<1>1. PICK m : m = [kind |-> "packet", seq |-> sent, packet |-> Head(held).packet]
  BY Zenon
<1>2. /\ acked' = acked /\ sent' = sent + 1 /\ toAdapter' = toAdapter /\ connected' = connected
      /\ consumer' = consumer /\ toConsumer' = Post(m) /\ adapter'.rd = adapter.rd
      /\ held # <<>>
  BY <1>1 DEF Sends
<1>3. sent \in Nat /\ acked \in Nat /\ acked <= sent /\ Created > sent
  <2>1. Len(held) >= 1
    BY <1>2, Ends DEF TypeOK
  <2> QED
    BY <2>1, Sizing
<1>4. \A k \in Numbers : Mark(k)' = Mark(k)
  BY Zenon, SendsRing
<1>5. acked - 1 .. sent - 1 \subseteq Numbers
  BY <1>3, Sizing
<1>6. \A n, p : Known(n, p) => Known(n, p)'
  <2>1. sent' \in Nat /\ sent <= sent'
    BY <1>2, <1>3
  <2>2. \A k \in acked - 1 .. sent - 1 : Mark(k)' = Mark(k)
    BY Zenon, <1>4, <1>5
  <2> QED
    BY <1>2, <2>1, <2>2, KnownStays
<1>7. PICK h \in MappedPacket : h = Head(held) /\ h = held[1] /\ h.packet \in Packet
  <2>1. Head(held) \in MappedPacket /\ Head(held) = held[1]
    BY <1>2, Ends DEF TypeOK
  <2> QED
    BY <2>1 DEF MappedPacket
<1>8. ASSUME NEW n, n = sent PROVE Known(n, h.packet)'
  <2>1. n \in sent .. Created - 1 /\ n - sent + 1 = 1 /\ n \in acked .. sent' - 1
    BY <1>2, <1>3, <1>8, Sizing
  <2>2. /\ n \in Numbers /\ n - 1 \in Numbers
        /\ Placed(held[n - sent + 1].packet, adapter.rd, Mark(n - 1), Mark(n))
    BY Zenon, <2>1, HeldIsPlaced
  <2>3. Placed(h.packet, adapter.rd, Mark(n - 1), Mark(n))
    BY Zenon, <1>7, <2>1, <2>2
  <2>4. Mark(n)' = Mark(n) /\ Mark(n - 1)' = Mark(n - 1)
    BY Zenon, <1>4, <2>2
  <2> QED
    BY Zenon, <1>2, <2>1, <2>3, <2>4 DEF Known
<1>9. AnswersRun'
  BY Zenon, <1>2 DEF Transport, AnswersRun
<1>10. OwnedRun'
  BY Zenon, <1>2, <1>6 DEF Transport, OwnedRun
<1>11. PICK a \in Nat, o \in Nat, l \in Nat :
          a = Len(toAdapter) /\ o = Len(consumer.packets) /\ l = Len(toConsumer)
  BY Zenon, Parts
<1>12. acked + a + o <= sent
  BY Zenon, <1>11 DEF Transport, Balance
<1>13. CASE connected
  <2>1. /\ Len(toConsumer') = l + 1 /\ toConsumer'[l + 1] = m
        /\ \A i \in 1 .. l : toConsumer'[i] = toConsumer[i]
    <3>1. toConsumer \in Seq(Message)
      BY Zenon DEF TypeOK
    <3>2. m \in Message
      <4>1. sent \in Seqs
        <5>1. PICK n \in Nat : n = Len(held) /\ n >= 1
          BY <1>2, Ends DEF TypeOK
        <5>2. MaxPackets \in Nat /\ sent + n <= MaxPackets
          BY <5>1, Parts DEF Counted
        <5> QED
          BY <1>3, <5>1, <5>2 DEF Seqs
      <4> QED
        BY <1>1, <1>7, <4>1 DEF Message
    <3>3. toConsumer' = Append(toConsumer, m)
      BY Zenon, <1>2, <1>13 DEF Post
    <3> QED
      BY <1>11, <3>1, <3>2, <3>3, Ends
  <2>2. SentRun'
    <3>1. SUFFICES ASSUME NEW i \in 1 .. l + 1
                   PROVE  \/ i = 1 /\ toConsumer'[i].kind = "buffer" /\ ~consumer.buffer
                          \/ /\ toConsumer'[i].kind = "packet"
                             /\ toConsumer'[i].seq = (sent + 1) - (l + 1) + i - 1
                             /\ Known(toConsumer[i].seq, toConsumer[i].packet)'
      BY Zenon, <1>2, <2>1 DEF SentRun
    <3>2. (sent + 1) - (l + 1) + i - 1 = sent - l + i - 1
      BY <1>3, <1>11
    <3>3. CASE i \in 1 .. l
      BY Zenon, <1>6, <1>11, <2>1, <3>2, <3>3 DEF Transport, SentRun
    <3>4. CASE i = l + 1
      <4>1. m.kind = "packet" /\ m.seq = sent /\ m.packet = h.packet
        BY <1>1, <1>7
      <4>2. sent - l + i - 1 = sent
        BY <1>3, <1>11, <3>4
      <4>3. PICK n : n = sent
        OBVIOUS
      <4>4. Known(n, h.packet)'
        BY Zenon, <1>8, <4>3
      <4>5. toConsumer'[i].seq = n /\ toConsumer'[i].packet = h.packet
            /\ toConsumer'[i].kind = "packet"
        BY Zenon, <2>1, <3>4, <4>1, <4>3
      <4> QED
        BY Zenon, <3>2, <4>2, <4>3, <4>4, <4>5
    <3> QED
      BY <1>11, <3>3, <3>4
  <2>3. Balance'
    <3>1. acked + a + o <= sent + 1
      BY <1>3, <1>12
    <3>2. consumer.buffer => acked + a + o + (l + 1) = sent + 1
      <4>1. consumer.buffer => acked + a + o + l = sent
        BY Zenon, <1>11, <1>13 DEF Transport, Balance
      <4> QED
        BY <1>3, <4>1
    <3>3. ~consumer.buffer => /\ acked + a + (l + 1) = (sent + 1) + 1 /\ consumer.packets = <<>>
                              /\ l > 0 /\ toConsumer[1].kind = "buffer"
      <4>1. ~consumer.buffer => /\ acked + a + l = sent + 1 /\ consumer.packets = <<>>
                                /\ l > 0 /\ toConsumer[1].kind = "buffer"
        BY Zenon, <1>11, <1>13 DEF Transport, Balance
      <4> QED
        BY <1>3, <4>1
    <3>4. ~consumer.buffer => toConsumer'[1].kind = "buffer" /\ l + 1 > 0
      BY <1>11, <2>1, <3>3
    <3> QED
      BY Zenon, <1>2, <1>11, <1>13, <2>1, <3>1, <3>2, <3>3, <3>4 DEF Balance
  <2> QED
    BY <1>9, <1>10, <2>2, <2>3 DEF Transport
<1>14. CASE ~connected
  <2>1. toConsumer = <<>> /\ consumer.packets = <<>> /\ toConsumer' = <<>>
    BY Zenon, <1>2, <1>14 DEF Transport, Balance, Post
  <2>2. SentRun'
    BY <2>1 DEF SentRun
  <2>3. acked + a + o <= sent + 1
    BY <1>3, <1>12
  <2>4. Balance'
    BY Zenon, <1>2, <1>11, <1>14, <2>1, <2>3 DEF Balance
  <2> QED
    BY <1>9, <1>10, <2>2, <2>4 DEF Transport
<1> QED
  BY <1>13, <1>14

\* A packet that is back is the first of those in flight; the others are still known.
LEMMA ConsumesTransport ==
    ASSUME Disciplined, TypeOK, Ring, Transport, Consumes
    PROVE  Transport'
<1>1. /\ acked' = acked + 1 /\ sent' = sent /\ toAdapter # <<>> /\ toAdapter' = Tail(toAdapter)
      /\ toConsumer' = toConsumer /\ connected' = connected /\ consumer' = consumer
  BY DEF Consumes
<1>2. /\ Ring' /\ acked < sent /\ adapter'.rd = Mark(acked)
      /\ \A k \in acked .. Created - 1 : Mark(k)' = Mark(k)
  BY Zenon, ConsumesRing
<1>3. PICK a \in Nat, o \in Nat, l \in Nat :
         a = Len(toAdapter) /\ o = Len(consumer.packets) /\ l = Len(toConsumer)
  BY Zenon, Parts
<1>4. sent \in Nat /\ acked \in Nat /\ Created \in Nat /\ sent <= Created /\ acked < sent
  BY <1>2, Sizing
<1>5. /\ a >= 1 /\ Len(toAdapter') = a - 1
      /\ \A i \in 1 .. a - 1 : toAdapter'[i] = toAdapter[i + 1]
  <2>1. toAdapter \in Seq(Reply)
    BY Zenon DEF TypeOK
  <2> QED
    BY <1>1, <1>3, <2>1, Ends
<1>6. ASSUME NEW n, NEW p \in Packet, Known(n, p), n # acked
      PROVE  Known(n, p)'
  <2>1. n \in acked .. sent - 1 /\ Placed(p, adapter.rd, Mark(n - 1), Mark(n))
    BY Zenon, <1>6 DEF Known
  <2>2. n \in acked + 1 .. sent - 1 /\ acked <= n - 1 /\ n \in acked .. Created - 1
        /\ n - 1 \in acked .. Created - 1 /\ n \in Numbers /\ n - 1 \in Numbers /\ acked \in Numbers
        /\ n - 1 <= n
    <3>1. n \in acked .. sent - 1
      BY Zenon, <2>1
    <3>2. n \in acked + 1 .. sent - 1
      BY <1>4, <1>6, <3>1
    <3>3. Numbers = acked - 1 .. Created - 1
      BY Zenon, Sizing
    <3> QED
      BY <1>4, <3>2, <3>3
  <2>3. Mark(n)' = Mark(n) /\ Mark(n - 1)' = Mark(n - 1)
    BY Zenon, <1>2, <2>2
  <2>4. /\ Mark(acked) \in Offsets /\ Mark(n - 1) \in Offsets /\ Mark(n) \in Offsets
        /\ Distance(Mark(acked), adapter.rd) <= Distance(Mark(n - 1), adapter.rd)
    BY Zenon, <2>2, RisingTo
  <2>5. adapter.rd \in Offsets
    BY Zenon, Parts
  <2>6. Placed(p, Mark(acked), Mark(n - 1), Mark(n))
    BY Zenon, <2>1, <2>4, <2>5, PlacedShifts
  <2> QED
    BY Zenon, <1>1, <1>2, <2>2, <2>3, <2>6 DEF Known
<1>7. AnswersRun'
  <2>1. SUFFICES ASSUME NEW i \in 1 .. a - 1
                 PROVE  toAdapter'[i].kind = "packet" /\ toAdapter'[i].seq = (acked + 1) + i - 1
    BY Zenon, <1>1, <1>5 DEF AnswersRun
  <2>2. PICK j \in 1 .. a : j = i + 1 /\ acked + j - 1 = (acked + 1) + i - 1
    BY <1>4
  <2>3. toAdapter[j].kind = "packet" /\ toAdapter[j].seq = acked + j - 1
    BY Zenon, <1>3 DEF Transport, AnswersRun
  <2>4. toAdapter'[i] = toAdapter[j]
    BY Zenon, <1>5, <2>2
  <2> QED
    BY Zenon, <2>2, <2>3, <2>4
<1>8. OwnedRun'
  <2>1. SUFFICES ASSUME NEW i \in 1 .. o
                 PROVE  /\ consumer.packets[i].seq = (acked + 1) + (a - 1) + i - 1
                        /\ Known(consumer.packets[i].seq, consumer.packets[i].packet)'
    BY Zenon, <1>1, <1>3, <1>5 DEF OwnedRun
  <2>2. PICK n, p : n = consumer.packets[i].seq /\ p = consumer.packets[i].packet
    OBVIOUS
  <2>3. n = acked + a + i - 1 /\ Known(n, p)
    BY Zenon, <1>3, <2>2 DEF Transport, OwnedRun
  <2>4. p \in Packet
    <3>1. consumer.packets[i] \in Owned
      BY <1>3, Parts
    <3> QED
      BY <2>2, <3>1 DEF Owned
  <2>5. n # acked /\ n = (acked + 1) + (a - 1) + i - 1
    <3>1. n = acked + a + i - 1
      BY Zenon, <2>3
    <3> QED
      BY <1>4, <1>5, <3>1
  <2>6. Known(n, p)'
    BY Zenon, <1>6, <2>3, <2>4, <2>5
  <2>7. consumer'.packets[i].seq = n /\ consumer'.packets[i].packet = p
    BY Zenon, <1>1, <2>2
  <2> QED
    BY Zenon, <2>2, <2>5, <2>6, <2>7
<1>9. ASSUME NEW i \in 1 .. l, i > 1 \/ consumer.buffer
      PROVE  sent - l + i - 1 # acked
  <2>1. CASE ~connected
    <3>1. l = 0
      BY <1>3, <2>1 DEF Transport, Balance
    <3> QED
      BY <3>1
  <2>2. CASE connected /\ consumer.buffer
    <3>1. acked + a + o + l = sent
      BY Zenon, <1>3, <2>2 DEF Transport, Balance
    <3> QED
      BY <1>4, <1>5, <3>1
  <2>3. CASE connected /\ ~consumer.buffer
    <3>1. acked + a + l = sent + 1
      BY Zenon, <1>3, <2>3 DEF Transport, Balance
    <3>2. i > 1
      BY Zenon, <1>9, <2>3
    <3> QED
      BY <1>4, <1>5, <3>1, <3>2
  <2> QED
    BY Zenon, <2>1, <2>2, <2>3
<1>10. SentRun'
  <2>1. SUFFICES ASSUME NEW i \in 1 .. l
                 PROVE  \/ i = 1 /\ toConsumer[i].kind = "buffer" /\ ~consumer.buffer
                        \/ /\ toConsumer[i].kind = "packet"
                           /\ toConsumer[i].seq = sent - l + i - 1
                           /\ Known(toConsumer[i].seq, toConsumer[i].packet)'
    BY Zenon, <1>1, <1>3 DEF SentRun
  <2>2. SUFFICES ASSUME ~(i = 1 /\ toConsumer[i].kind = "buffer" /\ ~consumer.buffer)
                 PROVE  /\ toConsumer[i].kind = "packet"
                        /\ toConsumer[i].seq = sent - l + i - 1
                        /\ Known(toConsumer[i].seq, toConsumer[i].packet)'
    BY Zenon
  <2>3. PICK n, p : n = toConsumer[i].seq /\ p = toConsumer[i].packet
    OBVIOUS
  <2>4. toConsumer[i].kind = "packet" /\ n = sent - l + i - 1 /\ Known(n, p)
    BY Zenon, <1>3, <2>2, <2>3 DEF Transport, SentRun
  <2>5. p \in Packet
    <3>1. toConsumer[i] \in Message
      BY <1>3 DEF TypeOK
    <3> QED
      BY <2>3, <2>4, <3>1 DEF Message
  <2>6. i > 1 \/ consumer.buffer
    <3>1. i = 1 => consumer.buffer
      <4>1. SUFFICES ASSUME i = 1, ~consumer.buffer PROVE FALSE
        BY Zenon
      <4>2. connected => toConsumer[1].kind = "buffer"
        BY Zenon, <4>1 DEF Transport, Balance
      <4>3. ~connected => l = 0
        BY <1>3 DEF Transport, Balance
      <4> QED
        BY <2>4, <4>1, <4>2, <4>3
    <3> QED
      BY <3>1
  <2>7. n # acked
    BY Zenon, <1>9, <2>4, <2>6
  <2>8. Known(n, p)'
    BY Zenon, <1>6, <2>4, <2>5, <2>7
  <2>9. toConsumer'[i].seq = n /\ toConsumer'[i].packet = p
    BY Zenon, <1>1, <2>3
  <2> QED
    BY Zenon, <2>3, <2>4, <2>8, <2>9
<1>11. Balance'
  <2>1. (acked + 1) + (a - 1) = acked + a
    BY <1>4
  <2>2. (acked + 1) + (a - 1) + o = acked + a + o /\ (acked + 1) + (a - 1) + l = acked + a + l
    BY Zenon, <2>1
  <2>3. (acked + 1) + (a - 1) + o + l = acked + a + o + l
    BY Zenon, <2>1
  <2> QED
    BY Zenon, <1>1, <1>3, <1>5, <2>2, <2>3 DEF Transport, Balance
<1> QED
  BY <1>7, <1>8, <1>10, <1>11 DEF Transport

\* The messages on their way to the consumer, without the first.
LEMMA Shifted ==
    ASSUME SentRun, sent \in Nat, sent' = sent, \A n, p : Known(n, p)' <=> Known(n, p),
           NEW l \in Nat, l = Len(toConsumer), Len(toConsumer') = l - 1,
           \A i \in 1 .. l - 1 : toConsumer'[i] = toConsumer[i + 1]
    PROVE  SentRun'
<1>1. SUFFICES ASSUME NEW i \in 1 .. l - 1
               PROVE  /\ toConsumer'[i].kind = "packet"
                      /\ toConsumer'[i].seq = sent - (l - 1) + i - 1
                      /\ Known(toConsumer[i].seq, toConsumer[i].packet)'
  BY Zenon DEF SentRun
<1>2. PICK j \in 1 .. l : j = i + 1 /\ j # 1 /\ sent - l + j - 1 = sent - (l - 1) + i - 1
  <2>1. \A s \in Nat : s - l + (i + 1) - 1 = s - (l - 1) + i - 1
    OBVIOUS
  <2>2. i + 1 \in 1 .. l /\ i + 1 # 1
    OBVIOUS
  <2> QED
    BY Zenon, <2>1, <2>2
<1>3. PICK n, p : n = toConsumer[j].seq /\ p = toConsumer[j].packet
  BY Zenon
<1>4. toConsumer[j].kind = "packet" /\ n = sent - l + j - 1 /\ Known(n, p)
  BY Zenon, <1>2, <1>3 DEF SentRun
<1>5. toConsumer'[i] = toConsumer[j]
  BY Zenon, <1>2
<1>6. toConsumer'[i].seq = n /\ toConsumer'[i].packet = p
  BY Zenon, <1>3, <1>5
<1> QED
  BY Zenon, <1>2, <1>4, <1>5, <1>6

\* When the consumer's end is gone, only the answers under way remain.
LEMMA ResetTransport ==
    ASSUME Disciplined, TypeOK, Transport, Reset, UNCHANGED <<acked, sent, toAdapter>>
    PROVE  Transport'
<1>1. /\ acked' = acked /\ sent' = sent /\ toAdapter' = toAdapter /\ connected' = FALSE
      /\ toConsumer' = <<>> /\ consumer' = [buffer |-> FALSE, packets |-> <<>>]
  BY DEF Reset
<1>2. consumer'.packets = <<>> /\ Len(<<>>) = 0
  BY <1>1
<1>3. PICK a \in Nat, o \in Nat : a = Len(toAdapter) /\ o = Len(consumer.packets)
  BY Zenon, Parts
<1>4. acked + a + o <= sent /\ acked \in Nat /\ sent \in Nat
  BY Zenon, <1>3, Parts DEF Transport, Balance
<1>5. acked + a + 0 <= sent
  BY <1>4
<1>6. Balance'
  BY Zenon, <1>1, <1>2, <1>3, <1>5 DEF Balance
<1>7. AnswersRun'
  BY Zenon, <1>1 DEF Transport, AnswersRun
<1>8. SentRun' /\ OwnedRun'
  BY <1>1, <1>2 DEF SentRun, OwnedRun
<1> QED
  BY <1>6, <1>7, <1>8 DEF Transport

\* What moves between the two ends stays in order.
LEMMA MovesTransport ==
    ASSUME Disciplined, TypeOK, Transport, Moves
    PROVE  Transport'
<1>1. adapter' = adapter /\ held' = held /\ sent' = sent /\ acked' = acked
  BY DEF Moves
<1>2. \A n, p : Known(n, p)' <=> Known(n, p)
  <2>1. \A k : Mark(k)' = Mark(k)
    BY Zenon, <1>1 DEF Mark, PostConsumeRd
  <2>2. ASSUME NEW n, NEW p PROVE Known(n, p)' <=> Known(n, p)
    BY Zenon, <1>1, <2>1 DEF Known
  <2> QED
    BY Zenon, <2>2
<1>3. PICK a \in Nat, o \in Nat, l \in Nat :
         a = Len(toAdapter) /\ o = Len(consumer.packets) /\ l = Len(toConsumer)
  BY Zenon, Parts
<1>4. sent \in Nat /\ acked \in Nat
  BY Zenon, Parts
<1>5. toConsumer \in Seq(Message) /\ toAdapter \in Seq(Reply) /\ consumer.packets \in Seq(Owned)
  BY Parts DEF TypeOK
<1>6. CASE Reset /\ toAdapter' = toAdapter
  BY <1>1, <1>6, ResetTransport
<1>7. CASE SetBuffer /\ ~Reset
  <2>1. /\ connected /\ connected' /\ toConsumer # <<>> /\ toAdapter' = toAdapter
        /\ consumer' = [consumer EXCEPT !.buffer = TRUE] /\ toConsumer' = Tail(toConsumer)
        /\ ~consumer.buffer
    BY Zenon, <1>7 DEF SetBuffer, Receive, TypeOK, MediaPipeBase
  <2>2. consumer'.packets = consumer.packets /\ consumer'.buffer = TRUE
    BY <2>1 DEF TypeOK, MediaPipeBase
  <2>3. /\ l >= 1 /\ Len(toConsumer') = l - 1
        /\ \A i \in 1 .. l - 1 : toConsumer'[i] = toConsumer[i + 1]
    BY <1>3, <1>5, <2>1, Ends
  <2>4. AnswersRun' /\ OwnedRun'
    BY Zenon, <1>1, <1>2, <2>1, <2>2 DEF Transport, AnswersRun, OwnedRun
  <2>5. /\ acked + a + l = sent + 1 /\ consumer.packets = <<>> /\ o = 0
    BY <1>3, <2>1 DEF Transport, Balance
  <2>6. Balance'
    <3>1. acked + a + o <= sent /\ acked + a + o + (l - 1) = sent
      BY <1>4, <2>3, <2>5
    <3> QED
      BY Zenon, <1>1, <1>3, <2>1, <2>2, <2>3, <3>1 DEF Balance
  <2>7. SentRun'
    BY Zenon, <1>1, <1>2, <1>3, <1>4, <2>3, Shifted DEF Transport
  <2> QED
    BY <2>4, <2>6, <2>7 DEF Transport
<1>8. CASE SendPacket /\ ~Reset
  <2>1. PICK m : m = [seq |-> Head(toConsumer).seq, packet |-> Head(toConsumer).packet]
    BY Zenon
  <2>2. /\ connected /\ connected' /\ toConsumer # <<>> /\ toAdapter' = toAdapter
        /\ Head(toConsumer).kind = "packet"
        /\ consumer' = [consumer EXCEPT !.packets = Append(@, m)]
        /\ toConsumer' = Tail(toConsumer) /\ consumer.buffer
    BY Zenon, <1>8, <2>1 DEF SendPacket, Receive, TypeOK, MediaPipeBase
  <2>3. /\ l >= 1 /\ Len(toConsumer') = l - 1 /\ Head(toConsumer) = toConsumer[1]
        /\ Head(toConsumer) \in Message
        /\ \A i \in 1 .. l - 1 : toConsumer'[i] = toConsumer[i + 1]
    BY <1>3, <1>5, <2>2, Ends
  <2>4. m \in Owned /\ m.seq = toConsumer[1].seq /\ m.packet = toConsumer[1].packet
    BY <2>1, <2>2, <2>3 DEF Message, Owned
  <2>5. /\ consumer'.packets = Append(consumer.packets, m) /\ consumer'.buffer = consumer.buffer
    BY Zenon, <2>2 DEF TypeOK, MediaPipeBase
  <2>6. /\ Len(consumer'.packets) = o + 1 /\ consumer'.packets[o + 1] = m
        /\ \A i \in 1 .. o : consumer'.packets[i] = consumer.packets[i]
    BY <1>3, <1>5, <2>4, <2>5, Ends
  <2>7. AnswersRun'
    BY Zenon, <1>1, <2>2 DEF Transport, AnswersRun
  <2>8. acked + a + o + l = sent
    BY Zenon, <1>3, <2>2 DEF Transport, Balance
  <2>9. m.seq = sent - l + 1 - 1 /\ Known(m.seq, m.packet)
    <3>1. 1 \in 1 .. l
      BY <2>3
    <3> QED
      BY Zenon, <1>3, <2>2, <2>3, <2>4, <3>1 DEF Transport, SentRun
  <2>10. OwnedRun'
    <3>1. SUFFICES ASSUME NEW i \in 1 .. o + 1
                   PROVE  /\ consumer'.packets[i].seq = acked + a + i - 1
                          /\ Known(consumer.packets[i].seq, consumer.packets[i].packet)'
      BY Zenon, <1>1, <1>3, <2>2, <2>6 DEF OwnedRun
    <3>2. CASE i \in 1 .. o
      BY Zenon, <1>2, <1>3, <2>6, <3>2 DEF Transport, OwnedRun
    <3>3. CASE i = o + 1
      <4>1. sent - l + 1 - 1 = acked + a + i - 1
        BY <1>4, <2>8, <3>3
      <4>2. PICK n, p : n = m.seq /\ p = m.packet
        OBVIOUS
      <4>3. Known(n, p)'
        BY Zenon, <1>2, <2>9, <4>2
      <4>4. consumer'.packets[i].seq = n /\ consumer'.packets[i].packet = p
        BY Zenon, <2>6, <3>3, <4>2
      <4> QED
        BY Zenon, <2>9, <4>1, <4>2, <4>3, <4>4
    <3> QED
      BY <3>2, <3>3
  <2>11. Balance'
    <3>1. acked + a + (o + 1) <= sent /\ acked + a + (o + 1) + (l - 1) = sent
      BY <1>4, <2>3, <2>8
    <3> QED
      BY Zenon, <1>1, <1>3, <2>2, <2>3, <2>5, <2>6, <3>1 DEF Balance
  <2>12. SentRun'
    BY Zenon, <1>1, <1>2, <1>3, <1>4, <2>3, Shifted DEF Transport
  <2> QED
    BY <2>7, <2>10, <2>11, <2>12 DEF Transport
<1>9. CASE ReturnPacket
  <2>1. PICK m : m = [kind |-> "packet", seq |-> Head(consumer.packets).seq]
    BY Zenon
  <2>2. /\ connected /\ connected' = connected /\ toConsumer' = toConsumer
        /\ consumer.packets # <<>> /\ toAdapter' = Append(toAdapter, m)
        /\ consumer' = [consumer EXCEPT !.packets = Tail(@)]
    BY <1>9, <2>1 DEF ReturnPacket
  <2>3. /\ o >= 1 /\ Head(consumer.packets) = consumer.packets[1]
        /\ Head(consumer.packets) \in Owned /\ Len(Tail(consumer.packets)) = o - 1
        /\ \A i \in 1 .. o - 1 : Tail(consumer.packets)[i] = consumer.packets[i + 1]
    BY <1>3, <1>5, <2>2, Ends
  <2>4. consumer'.packets = Tail(consumer.packets) /\ consumer'.buffer = consumer.buffer
    BY <2>2 DEF TypeOK, MediaPipeBase
  <2>5. m \in Reply /\ m.kind = "packet" /\ m.seq = consumer.packets[1].seq
    BY <2>1, <2>3 DEF Owned, Reply
  <2>6. /\ Len(toAdapter') = a + 1 /\ toAdapter'[a + 1] = m
        /\ \A i \in 1 .. a : toAdapter'[i] = toAdapter[i]
    BY <1>3, <1>5, <2>2, <2>5, Ends
  <2>7. m.seq = acked + a + 1 - 1
    <3>1. 1 \in 1 .. o
      BY <2>3
    <3> QED
      BY Zenon, <1>3, <2>5, <3>1 DEF Transport, OwnedRun
  <2>8. AnswersRun'
    <3>1. SUFFICES ASSUME NEW i \in 1 .. a + 1
                   PROVE  toAdapter'[i].kind = "packet" /\ toAdapter'[i].seq = acked + i - 1
      BY Zenon, <1>1, <2>6 DEF AnswersRun
    <3>2. CASE i \in 1 .. a
      BY Zenon, <1>3, <2>6, <3>2 DEF Transport, AnswersRun
    <3>3. CASE i = a + 1
      <4>1. acked + a + 1 - 1 = acked + i - 1
        BY <1>4, <3>3
      <4> QED
        BY Zenon, <2>5, <2>6, <2>7, <3>3, <4>1
    <3> QED
      BY <3>2, <3>3
  <2>9. OwnedRun'
    <3>1. SUFFICES ASSUME NEW i \in 1 .. o - 1
                   PROVE  /\ consumer'.packets[i].seq = acked + (a + 1) + i - 1
                          /\ Known(consumer.packets[i].seq, consumer.packets[i].packet)'
      BY Zenon, <1>1, <2>3, <2>4, <2>6 DEF OwnedRun
    <3>2. PICK j \in 1 .. o : j = i + 1 /\ acked + a + j - 1 = acked + (a + 1) + i - 1
      BY <1>4
    <3>3. PICK n, p : n = consumer.packets[j].seq /\ p = consumer.packets[j].packet
      BY Zenon
    <3>4. n = acked + a + j - 1 /\ Known(n, p)'
      BY Zenon, <1>2, <1>3, <3>3 DEF Transport, OwnedRun
    <3>5. consumer'.packets[i] = consumer.packets[j]
      BY Zenon, <2>3, <2>4, <3>2
    <3>6. consumer'.packets[i].seq = n /\ consumer'.packets[i].packet = p
      BY Zenon, <3>3, <3>5
    <3> QED
      BY Zenon, <3>2, <3>4, <3>6
  <2>10. consumer.buffer /\ acked + a + o + l = sent
    BY Zenon, <1>3, <2>2 DEF Transport, Balance
  <2>11. Balance'
    <3>1. acked + (a + 1) + (o - 1) <= sent /\ acked + (a + 1) + (o - 1) + l = sent
      BY <1>4, <2>3, <2>10
    <3> QED
      BY Zenon, <1>1, <1>3, <2>2, <2>3, <2>4, <2>6, <2>10, <3>1 DEF Balance
  <2>12. SentRun'
    BY Zenon, <1>1, <1>2, <2>2, <2>4 DEF Transport, SentRun
  <2> QED
    BY <2>8, <2>9, <2>11, <2>12 DEF Transport
<1>10. CASE Leave
  BY <1>6, <1>10 DEF Leave
<1> QED
  BY Zenon, <1>6, <1>7, <1>8, <1>9, <1>10 DEF Moves, SetBuffer, SendPacket

-----------------------------------------------------------------------------
(* The invariant *)

\* A step that leaves the packets alone leaves the marks alone.
LEMMA QuietKeeps ==
    ASSUME Disciplined, TypeOK, Ring, Transport, Quiet
    PROVE  Ring' /\ Transport'
<1>1. /\ held' = held /\ sent' = sent /\ acked' = acked /\ adapter'.rd = adapter.rd
      /\ adapter'.wr = adapter.wr /\ adapter'.inFlight = adapter.inFlight
      /\ UNCHANGED <<acked, sent, transfer>>
  BY DEF Quiet
<1>2. \A k : Mark(k)' = Mark(k)
  BY Zenon, <1>1 DEF Mark, PostConsumeRd
<1>3. Created' = Created /\ Numbers' = Numbers
  BY Zenon, <1>1 DEF Created, Numbers
<1>4. Len(adapter'.inFlight) = sent' - acked' /\ FlightRun' /\ Rising'
  BY Zenon, <1>1, <1>2, <1>3 DEF Ring, FlightRun, Rising
<1>5. HeldPlaced'
  BY Zenon, <1>1, <1>2, <1>3 DEF Ring, HeldPlaced
<1>6. adapter'.wr = Mark(Created - 1)'
  <2>1. PICK c : c = Created - 1 /\ c = Created' - 1
    BY Zenon, <1>3
  <2>2. adapter'.wr = Mark(c)'
    BY Zenon, <1>1, <1>2, <2>1 DEF Ring
  <2> QED
    BY <2>1, <2>2
<1>7. Transport'
  BY Zenon, <1>1, <1>2, IdleTransport
<1> QED
  BY <1>4, <1>5, <1>6, <1>7 DEF Ring

\* A pipe that is calm after a step was calm before it, and the step is one of these.
LEMMA CalmEffects ==
    ASSUME Disciplined, TypeOK, Counted, CalmInv, [Next]_vars, Calm'
    PROVE  /\ Calm
           /\ \/ Quiet \/ Sends \/ Drops \/ Consumes \/ Moves
              \/ \E n \in Sizes, s \in Offsets : Creates(n, s)
<1>1. flushes' = 0 /\ ~Faulted(adapter') /\ flushes \in Nat
  BY Parts DEF Calm
<1>2. CASE Quiet \/ Sends \/ Drops \/ Consumes \/ \E n \in Sizes, s \in Offsets : Creates(n, s)
  <2>1. SameRest
    BY Zenon, <1>2 DEF Quiet, Sends, Drops, Consumes, Creates
  <2> QED
    BY Zenon, <1>1, <1>2, <2>1 DEF SameRest, Calm, Faulted
<1>3. CASE Moves
  BY Zenon, <1>1, <1>3 DEF Moves, Calm, Faulted
<1>4. ~Faults
  BY Zenon, <1>1 DEF Faults
<1>5. ~Lingers /\ ~Discards
  <2>1. ASSUME adapter' = adapter, flushes' = flushes PROVE Calm
    BY Zenon, <1>1, <2>1 DEF Calm, Faulted
  <2>2. Calm => ~(flushes > 0 \/ Faulted(adapter))
    BY DEF Calm
  <2> QED
    BY Zenon, <2>1, <2>2 DEF Lingers, Discards
<1>6. ~Flush
  BY <1>1 DEF Flush
<1>7. CASE UNCHANGED vars
  <2>1. Quiet
    BY <1>7 DEF vars, client, pipe, Quiet, SameRest, transfer
  <2> QED
    BY <1>2, <2>1
<1>8. CASE \/ SetWatermarks \/ SetSignalCallback \/ Produce \/ StopWriting
           \/ SendMediaPacket \/ CancelMediaPacket
  BY <1>2, <1>5, <1>8, ClientEffects
<1> QED
  BY <1>2, <1>3, <1>4, <1>5, <1>6, <1>7, <1>8, LoopEffects, ConsumerEffects DEF Next

\* While the pipe is calm its packets stay in place.
LEMMA CalmStep ==
    ASSUME Disciplined, TypeOK, Counted, CalmInv, [Next]_vars
    PROVE  CalmInv'
<1>1. SUFFICES ASSUME Calm'
               PROVE  /\ adapter'.buffer = TRUE /\ adapter'.flushing = FALSE
                      /\ \A j \in 1 .. Len(held') : held'[j].generation = 0
                      /\ Ring' /\ Transport'
  BY Zenon DEF CalmInv
<1>2. /\ Calm
      /\ \/ Quiet \/ Sends \/ Drops \/ Consumes \/ Moves
         \/ \E n \in Sizes, s \in Offsets : Creates(n, s)
  BY <1>1, CalmEffects
<1>3. /\ adapter.buffer = TRUE /\ adapter.flushing = FALSE /\ Ring /\ Transport
      /\ \A j \in 1 .. Len(held) : held[j].generation = 0
  BY Zenon, <1>2 DEF CalmInv
<1>4. adapter.generation = 0
  BY Zenon, <1>2 DEF Counted, Calm
<1>5. held \in Seq(MappedPacket)
  BY Zenon DEF TypeOK
<1>6. CASE Quiet
  BY Zenon, <1>3, <1>6, QuietKeeps DEF Quiet, SameRest
<1>7. CASE Sends
  <2>1. \A j \in 1 .. Len(held') : held'[j].generation = 0
    <3>1. held # <<>> /\ held' = Tail(held)
      BY <1>7 DEF Sends
    <3>2. PICK n \in Nat : /\ n = Len(held) /\ Len(held') = n - 1
                           /\ \A i \in 1 .. n - 1 : held'[i] = held[i + 1]
      BY <1>5, <3>1, Ends
    <3>3. ASSUME NEW j \in 1 .. n - 1 PROVE held'[j].generation = 0
      <4>1. PICK i \in 1 .. n : i = j + 1
        OBVIOUS
      <4> QED
        BY Zenon, <1>3, <3>2, <4>1
    <3> QED
      BY Zenon, <3>2, <3>3
  <2>2. Ring' /\ Transport'
    BY Zenon, <1>3, <1>7, SendsRing, SendsTransport
  <2> QED
    BY Zenon, <1>3, <1>7, <2>1, <2>2 DEF Sends, SameRest
<1>8. CASE Drops
  <2>1. \A j \in 1 .. Len(held') : held'[j].generation = 0
    <3>1. PICK n \in Nat : n = Len(held) - 1 /\ held' = SubSeq(held, 1, n) /\ n <= Len(held)
      BY <1>5, <1>8, Ends DEF Drops
    <3>2. Len(held') = n /\ \A i \in 1 .. n : held'[i] = held[i] /\ i \in 1 .. Len(held)
      BY <1>5, <3>1, FrontOf, Ends
    <3> QED
      BY Zenon, <1>3, <3>2
  <2>2. Ring' /\ \A k \in acked - 1 .. sent - 1 : Mark(k)' = Mark(k)
    BY Zenon, <1>3, <1>8, DropsRing
  <2>3. Transport'
    BY Zenon, <1>3, <1>8, <2>2, IdleTransport DEF Drops
  <2> QED
    BY Zenon, <1>3, <1>8, <2>1, <2>2, <2>3 DEF Drops, SameRest
<1>9. CASE Consumes
  BY Zenon, <1>3, <1>9, ConsumesRing, ConsumesTransport DEF Consumes, SameRest
<1>10. CASE Moves
  <2>1. adapter' = adapter /\ held' = held /\ sent' = sent /\ acked' = acked
    BY <1>10 DEF Moves
  <2>2. \A k : Mark(k)' = Mark(k)
    BY Zenon, <2>1 DEF Mark, PostConsumeRd
  <2>3. Created' = Created /\ Numbers' = Numbers
    BY Zenon, <2>1 DEF Created, Numbers
  <2>4. Len(adapter'.inFlight) = sent' - acked' /\ FlightRun' /\ Rising'
    BY Zenon, <1>3, <2>1, <2>2, <2>3 DEF Ring, FlightRun, Rising
  <2>5. HeldPlaced'
    BY Zenon, <1>3, <2>1, <2>2, <2>3 DEF Ring, HeldPlaced
  <2>6. adapter'.wr = Mark(Created - 1)'
    <3>1. PICK c : c = Created - 1 /\ c = Created' - 1
      BY Zenon, <2>3
    <3>2. adapter'.wr = Mark(c)'
      BY Zenon, <1>3, <2>1, <2>2, <3>1 DEF Ring
    <3> QED
      BY <3>1, <3>2
  <2>7. Ring'
    BY <2>4, <2>5, <2>6 DEF Ring
  <2> QED
    BY Zenon, <1>3, <1>10, <2>1, <2>7, MovesTransport
<1>11. ASSUME NEW n \in Sizes, NEW s \in Offsets, Creates(n, s)
       PROVE  /\ adapter'.buffer = TRUE /\ adapter'.flushing = FALSE
              /\ \A j \in 1 .. Len(held') : held'[j].generation = 0
              /\ Ring' /\ Transport'
  <2>1. Ring' /\ \A k \in Numbers : Mark(k)' = Mark(k)
    BY Zenon, <1>3, <1>11, CreatesRing
  <2>2. acked - 1 .. sent - 1 \subseteq Numbers
    BY <1>3, Sizing
  <2>3. Transport'
    <3>1. UNCHANGED <<acked, sent, transfer>> /\ adapter'.rd = adapter.rd
      BY <1>11 DEF Creates
    <3>2. \A k \in acked - 1 .. sent - 1 : Mark(k)' = Mark(k)
      BY Zenon, <2>1, <2>2
    <3> QED
      BY Zenon, <1>3, <3>1, <3>2, IdleTransport
  <2>4. \A j \in 1 .. Len(held') : held'[j].generation = 0
    <3>1. PICK h : h = [packet |-> [start |-> s, size |-> n], cancel |-> adapter.wr,
                        generation |-> adapter.generation]
      BY Zenon
    <3>2. held' = Append(held, h)
      BY <1>11, <3>1 DEF Creates
    <3>3. h.generation = 0
      BY <1>4, <3>1
    <3>4. h \in MappedPacket
      <4>1. adapter.wr \in Offsets /\ adapter.generation \in 0 .. MaxFlushes
        BY Zenon, Parts
      <4> QED
        BY <3>1, <4>1 DEF MappedPacket, Packet
    <3>5. PICK m \in Nat : /\ m = Len(held) /\ Len(held') = m + 1 /\ held'[m + 1] = h
                           /\ \A i \in 1 .. m : held'[i] = held[i]
      BY <1>5, <3>2, <3>4, Ends
    <3>6. ASSUME NEW j \in 1 .. m + 1 PROVE held'[j].generation = 0
      <4>1. CASE j \in 1 .. m
        BY Zenon, <1>3, <3>5, <4>1
      <4>2. CASE j = m + 1
        BY Zenon, <3>3, <3>5, <4>2
      <4> QED
        BY <4>1, <4>2
    <3> QED
      BY Zenon, <3>5, <3>6
  <2> QED
    BY Zenon, <1>3, <1>11, <2>1, <2>3, <2>4 DEF Creates, SameRest
<1> QED
  BY Zenon, <1>2, <1>6, <1>7, <1>8, <1>9, <1>10, <1>11

\* The invariant holds in a new pipe that is empty: nothing is on its way but the buffer.
LEMMA InitIInv ==
    ASSUME Disciplined, Init, EmptyAtFirst
    PROVE  IInv
<1>1. /\ held = <<>> /\ writing = FALSE /\ undefined = FALSE
      /\ sent = 0 /\ cancels = 0 /\ flushes = 0 /\ acked = 0
      /\ toConsumer = <<[kind |-> "buffer"]>> /\ toAdapter = <<>> /\ connected = TRUE
      /\ consumer = [buffer |-> FALSE, packets |-> <<>>]
  BY DEF Init
<1>2. PICK u \in Offsets :
         adapter = [rd |-> u, wr |-> u, buffer |-> TRUE, hi |-> 0, lo |-> 0,
                    signalled |-> FALSE, scheduled |-> FALSE, cbk |-> FALSE,
                    faultMade |-> FALSE, flushing |-> FALSE, generation |-> 0,
                    state |-> "OK", inFlight |-> <<>>]
  <2>1. PICK rd \in Unset, wr \in Unset :
           adapter = [rd |-> rd, wr |-> wr, buffer |-> TRUE, hi |-> 0, lo |-> 0,
                      signalled |-> FALSE, scheduled |-> FALSE, cbk |-> FALSE,
                      faultMade |-> FALSE, flushing |-> FALSE, generation |-> 0,
                      state |-> "OK", inFlight |-> <<>>]
    BY Zenon DEF Init
  <2>2. adapter.rd = rd /\ adapter.wr = wr
    BY <2>1
  <2> QED
    BY Zenon, <2>1, <2>2 DEF EmptyAtFirst
<1>3. /\ MaxPackets \in Nat /\ MaxFlushes \in Nat /\ MaxCancels \in Nat
  BY DEF Disciplined
<1>4. TypeOK
  <2>1. <<>> \in Seq([rd : Offsets, seq : Seqs]) /\ 0 \in 0 .. MaxFlushes
    BY <1>3
  <2>2. adapter \in Adapter
    BY <1>2, <2>1 DEF Adapter
  <2>3. consumer \in MediaPipeBase
    BY <1>1 DEF MediaPipeBase
  <2>4. [kind |-> "buffer"] \in Message
    BY DEF Message
  <2>5. toConsumer \in Seq(Message)
    BY <1>1, <2>4
  <2>6. held \in Seq(MappedPacket) /\ toAdapter \in Seq(Reply)
    BY <1>1
  <2>7. /\ sent \in 0 .. MaxPackets /\ acked \in 0 .. sent /\ cancels \in 0 .. MaxCancels
        /\ flushes \in 0 .. MaxFlushes
    BY <1>1, <1>3
  <2>8. writing \in BOOLEAN /\ connected \in BOOLEAN /\ undefined \in BOOLEAN
    BY Zenon, <1>1
  <2> QED
    BY Zenon, <2>2, <2>3, <2>5, <2>6, <2>7, <2>8 DEF TypeOK
<1>5. /\ adapter.inFlight = <<>> /\ adapter.rd = u /\ adapter.wr = u /\ adapter.generation = 0
      /\ adapter.buffer = TRUE /\ adapter.flushing = FALSE /\ adapter.state = "OK"
      /\ consumer.packets = <<>> /\ consumer.buffer = FALSE
      /\ Len(toConsumer) = 1 /\ toConsumer[1].kind = "buffer"
  BY <1>1, <1>2
<1>6. Counted
  BY <1>1, <1>3, <1>5 DEF Counted, Faulted
<1>7. Created = 0 /\ Numbers = -1 .. -1
  BY <1>1 DEF Created, Numbers
<1>8. Mark(-1) = u
  BY <1>1, <1>5 DEF Mark
<1>9. Ring
  BY <1>1, <1>5, <1>7, <1>8 DEF Ring, FlightRun, Rising, HeldPlaced
<1>10. AnswersRun /\ OwnedRun
  BY <1>1, <1>5 DEF AnswersRun, OwnedRun
<1>11. SentRun /\ Balance
  BY <1>1, <1>5 DEF SentRun, Balance
<1> QED
  BY <1>1, <1>4, <1>5, <1>6, <1>9, <1>10, <1>11 DEF IInv, CalmInv, Transport

-----------------------------------------------------------------------------
(* The theorem *)

\* Packet n is the one at place u.
IsNumber(u, n) ==
    \/ \E i \in 1 .. Len(held) : u = <<"client", i>> /\ n = sent + i - 1
    \/ \E i \in 1 .. Len(toConsumer) : u = <<"pipe", i>> /\ n = sent - Len(toConsumer) + i - 1
    \/ \E i \in 1 .. Len(consumer.packets) : u = <<"owner", i>> /\ n = acked + Len(toAdapter) + i - 1

\* Every packet in use has a number, and lies between the marks of its predecessor and its own.
LEMMA PlacesAreKnown ==
    ASSUME Disciplined, TypeOK, Ring, Transport, NEW u \in InUse
    PROVE  \E n \in acked .. Created - 1 :
              /\ IsNumber(u, n) /\ PacketAt(u) \in Packet
              /\ Placed(PacketAt(u), adapter.rd, Mark(n - 1), Mark(n))
<1>1. sent \in Nat /\ acked \in Nat /\ acked <= sent /\ Created \in Nat /\ sent <= Created
  BY Sizing
<1>2. ASSUME NEW i \in 1 .. Len(held), u = <<"client", i>>
      PROVE  \E n \in acked .. Created - 1 :
                /\ IsNumber(u, n) /\ PacketAt(u) \in Packet
                /\ Placed(PacketAt(u), adapter.rd, Mark(n - 1), Mark(n))
  <2>1. PICK n \in sent .. Created - 1 : n = sent + i - 1 /\ n - sent + 1 = i /\ n \in acked .. Created - 1
    <3>1. Created = sent + Len(held) /\ Len(held) \in Nat
      BY Zenon, Sizing
    <3> QED
      BY <1>1, <3>1
  <2>2. PacketAt(u) = held[i].packet
    BY <1>2 DEF PacketAt
  <2>3. held[i].packet \in Packet
    <3>1. held[i] \in MappedPacket
      BY DEF TypeOK
    <3> QED
      BY <3>1 DEF MappedPacket
  <2>4. Placed(held[i].packet, adapter.rd, Mark(n - 1), Mark(n))
    BY Zenon, <2>1, HeldIsPlaced
  <2>5. IsNumber(u, n)
    BY Zenon, <1>2, <2>1 DEF IsNumber
  <2> QED
    BY Zenon, <2>1, <2>2, <2>3, <2>4, <2>5
<1>3. ASSUME NEW n, NEW p, Known(n, p)
      PROVE  n \in acked .. Created - 1 /\ Placed(p, adapter.rd, Mark(n - 1), Mark(n))
  <2>1. n \in acked .. sent - 1 /\ Placed(p, adapter.rd, Mark(n - 1), Mark(n))
    BY Zenon, <1>3 DEF Known
  <2>2. n \in acked .. sent - 1
    BY Zenon, <2>1
  <2>3. n \in acked .. Created - 1
    BY <1>1, <2>2
  <2> QED
    BY Zenon, <2>1, <2>3
<1>4. ASSUME NEW i \in 1 .. Len(toConsumer), u = <<"pipe", i>>, toConsumer[i].kind = "packet"
      PROVE  \E n \in acked .. Created - 1 :
                /\ IsNumber(u, n) /\ PacketAt(u) \in Packet
                /\ Placed(PacketAt(u), adapter.rd, Mark(n - 1), Mark(n))
  <2>1. PICK n, p : n = toConsumer[i].seq /\ p = toConsumer[i].packet
    BY Zenon
  <2>2. n = sent - Len(toConsumer) + i - 1 /\ Known(n, p)
    BY <1>4, <2>1 DEF Transport, SentRun
  <2>3. PacketAt(u) = p
    BY <1>4, <2>1 DEF PacketAt
  <2>4. p \in Packet
    <3>1. toConsumer[i] \in Message
      BY DEF TypeOK
    <3> QED
      BY <1>4, <2>1, <3>1 DEF Message
  <2>5. IsNumber(u, n)
    BY Zenon, <1>4, <2>2 DEF IsNumber
  <2> QED
    BY Zenon, <1>3, <2>2, <2>3, <2>4, <2>5
<1>5. ASSUME NEW i \in 1 .. Len(consumer.packets), u = <<"owner", i>>
      PROVE  \E n \in acked .. Created - 1 :
                /\ IsNumber(u, n) /\ PacketAt(u) \in Packet
                /\ Placed(PacketAt(u), adapter.rd, Mark(n - 1), Mark(n))
  <2>1. PICK n, p : n = consumer.packets[i].seq /\ p = consumer.packets[i].packet
    BY Zenon
  <2>2. n = acked + Len(toAdapter) + i - 1 /\ Known(n, p)
    BY Zenon, <2>1 DEF Transport, OwnedRun
  <2>3. PacketAt(u) = p
    BY <1>5, <2>1 DEF PacketAt
  <2>4. p \in Packet
    <3>1. consumer.packets[i] \in Owned
      BY Parts
    <3> QED
      BY <2>1, <3>1 DEF Owned
  <2>5. IsNumber(u, n)
    BY Zenon, <1>5, <2>2 DEF IsNumber
  <2> QED
    BY Zenon, <1>3, <2>2, <2>3, <2>4, <2>5
<1> QED
  BY Zenon, <1>2, <1>4, <1>5 DEF InUse

\* No two places have the same packet.
LEMMA PlacesDiffer ==
    ASSUME Disciplined, TypeOK, Ring, Transport, NEW u, NEW v, NEW n,
           IsNumber(u, n), IsNumber(v, n)
    PROVE  u = v
<1>1. PICK a \in Nat, o \in Nat, l \in Nat, s \in Nat, k \in Nat :
         /\ a = Len(toAdapter) /\ o = Len(consumer.packets) /\ l = Len(toConsumer)
         /\ s = sent /\ k = acked
  BY Zenon, Parts
<1>2. k + a + o <= s /\ (o > 0 => k + a + o + l = s)
  <2>1. consumer.packets = <<>> => o = 0
    BY <1>1
  <2>2. /\ k + a + o <= s
        /\ connected /\ consumer.buffer => k + a + o + l = s
        /\ ~(connected /\ consumer.buffer) => consumer.packets = <<>>
    BY Zenon, <1>1 DEF Transport, Balance
  <2> QED
    BY <2>1, <2>2
<1>3. \/ \E i \in 1 .. Len(held) : u = <<"client", i>> /\ n = s + i - 1
      \/ \E i \in 1 .. l : u = <<"pipe", i>> /\ n = s - l + i - 1
      \/ \E i \in 1 .. o : u = <<"owner", i>> /\ n = k + a + i - 1
  BY Zenon, <1>1 DEF IsNumber
<1>4. \/ \E i \in 1 .. Len(held) : v = <<"client", i>> /\ n = s + i - 1
      \/ \E i \in 1 .. l : v = <<"pipe", i>> /\ n = s - l + i - 1
      \/ \E i \in 1 .. o : v = <<"owner", i>> /\ n = k + a + i - 1
  BY Zenon, <1>1 DEF IsNumber
<1>5. PICK h \in Nat : h = Len(held)
  BY Zenon, Parts
<1>6. \/ \E i \in 1 .. h : u = <<"client", i>> /\ n = s + i - 1
      \/ \E i \in 1 .. l : u = <<"pipe", i>> /\ n = s - l + i - 1
      \/ \E i \in 1 .. o : u = <<"owner", i>> /\ n = k + a + i - 1
  BY Zenon, <1>3, <1>5
<1>7. CASE \E i \in 1 .. h : u = <<"client", i>> /\ n = s + i - 1
  BY <1>2, <1>4, <1>5, <1>7
<1>8. CASE \E i \in 1 .. l : u = <<"pipe", i>> /\ n = s - l + i - 1
  BY <1>2, <1>4, <1>5, <1>8
<1>9. CASE \E i \in 1 .. o : u = <<"owner", i>> /\ n = k + a + i - 1
  BY <1>2, <1>4, <1>5, <1>9
<1> QED
  BY Zenon, <1>6, <1>7, <1>8, <1>9

\* Packets with different numbers share no byte.
LEMMA LaterIsBehind ==
    ASSUME Disciplined, TypeOK, Ring, NEW m \in acked .. Created - 1, NEW n \in acked .. Created - 1,
           m < n, NEW p \in Packet, NEW q \in Packet,
           Placed(p, adapter.rd, Mark(m - 1), Mark(m)), Placed(q, adapter.rd, Mark(n - 1), Mark(n))
    PROVE  Bytes(p) \cap Bytes(q) = {}
<1>1. SUFFICES ASSUME NEW b \in Bytes(p), b \in Bytes(q) PROVE FALSE
  BY Zenon
<1>2. /\ m \in Numbers /\ m - 1 \in Numbers /\ n \in Numbers /\ n - 1 \in Numbers
      /\ m <= n - 1 /\ m - 1 <= m /\ n - 1 <= n
  BY Sizing
<1>3. adapter.rd \in Offsets /\ BufferSize \in Nat
  BY Parts
<1>4. /\ Mark(m) \in Offsets /\ Mark(m - 1) \in Offsets /\ Mark(n) \in Offsets
      /\ Mark(n - 1) \in Offsets
      /\ Distance(Mark(m), adapter.rd) <= Distance(Mark(n - 1), adapter.rd)
      /\ Distance(Mark(m), adapter.rd) \in 0 .. BufferSize - 1
      /\ Distance(Mark(n - 1), adapter.rd) \in 0 .. BufferSize - 1
  BY Zenon, <1>2, RisingTo
<1>5. b \in Offsets /\ Distance(b, adapter.rd) < Distance(Mark(m), adapter.rd)
  BY Zenon, <1>3, <1>4, BytesOfPlaced
<1>6. Distance(Mark(n - 1), adapter.rd) <= Distance(b, adapter.rd)
  BY Zenon, <1>1, <1>3, <1>4, BytesOfPlaced
<1>7. Distance(b, adapter.rd) \in 0 .. BufferSize - 1
  BY Zenon, <1>3, <1>5, DistanceFacts
<1>8. PICK x \in Int, y \in Int, z \in Int :
         x = Distance(b, adapter.rd) /\ y = Distance(Mark(m), adapter.rd)
         /\ z = Distance(Mark(n - 1), adapter.rd)
  BY <1>3, <1>4, <1>7
<1>9. x < y /\ y <= z /\ z <= x
  BY Zenon, <1>4, <1>5, <1>6, <1>8
<1> QED
  BY <1>9

\* The invariant says that packets in use share no byte, that only a lost connection or a
\* flush makes the adapter fault, and that nothing is pending at rest.
LEMMA IInvImplies ==
    ASSUME Disciplined, IInv
    PROVE  PayloadsDisjoint
<1>1. TypeOK /\ Counted /\ CalmInv
  BY DEF IInv
<1>2. OnlyLossFaults
  BY Zenon, <1>1 DEF Counted, OnlyLossFaults
<1>3. ASSUME Calm
      PROVE  adapter.buffer = TRUE /\ Ring /\ Transport
  BY Zenon, <1>1, <1>3 DEF CalmInv
<1>4. adapter.rd \in Offsets /\ adapter.wr \in Offsets /\ BufferSize \in Nat
  BY <1>1, Parts
<1>5. NothingPendingAtRest
  <2>1. SUFFICES ASSUME Calm, held = <<>>, acked = sent PROVE GetPending(adapter) = 0
    BY Zenon DEF NothingPendingAtRest, Calm
  <2>2. adapter.buffer = TRUE /\ Ring
    BY Zenon, <1>3, <2>1
  <2>3. Created = sent /\ sent \in Nat
    BY <1>1, <2>1, Parts DEF Created
  <2>4. PICK k : k = Created - 1 /\ k < acked
    BY <2>1, <2>3
  <2>5. adapter.wr = adapter.rd
    BY Zenon, <2>2, <2>4 DEF Ring, Mark
  <2> QED
    BY Zenon, <1>4, <2>2, <2>5, PendingIsDistance, DistanceFacts
<1>6. NoSharedBytes
  <2>1. SUFFICES ASSUME Calm
                 PROVE  /\ \A u \in InUse : Bytes(PacketAt(u)) \subseteq PendingBytes
                        /\ \A u, v \in InUse : u # v => Bytes(PacketAt(u)) \cap Bytes(PacketAt(v)) = {}
    BY Zenon DEF NoSharedBytes, Calm
  <2>2. adapter.buffer = TRUE /\ Ring /\ Transport
    BY Zenon, <1>3, <2>1
  <2>3. ASSUME NEW u \in InUse, NEW b \in Bytes(PacketAt(u)) PROVE b \in PendingBytes
    <3>1. PICK n \in acked .. Created - 1 :
             PacketAt(u) \in Packet /\ Placed(PacketAt(u), adapter.rd, Mark(n - 1), Mark(n))
      BY Zenon, <1>1, <2>2, PlacesAreKnown
    <3>2. n \in Numbers /\ n - 1 \in Numbers /\ Created - 1 \in Numbers /\ n <= Created - 1 /\ n - 1 <= n
      BY <1>1, <2>2, Sizing
    <3>3. /\ Mark(n) \in Offsets /\ Mark(n - 1) \in Offsets
          /\ Distance(Mark(n), adapter.rd) <= Distance(Mark(Created - 1), adapter.rd)
          /\ Distance(Mark(n), adapter.rd) \in 0 .. BufferSize - 1
          /\ Distance(Mark(Created - 1), adapter.rd) \in 0 .. BufferSize - 1
      BY Zenon, <1>1, <2>2, <3>2, RisingTo
    <3>4. b \in Offsets /\ Distance(b, adapter.rd) < Distance(Mark(n), adapter.rd)
      BY Zenon, <1>4, <2>3, <3>1, <3>3, BytesOfPlaced
    <3>5. Distance(b, adapter.rd) \in 0 .. BufferSize - 1 /\ adapter.wr = Mark(Created - 1)
      BY Zenon, <1>4, <2>2, <3>4, DistanceFacts DEF Ring
    <3>6. PICK x \in Int, y \in Int, z \in Int :
             x = Distance(b, adapter.rd) /\ y = Distance(Mark(n), adapter.rd)
             /\ z = Distance(adapter.wr, adapter.rd)
      BY <1>4, <3>3, <3>5
    <3>7. x < y /\ y <= z
      BY Zenon, <3>3, <3>4, <3>5, <3>6
    <3>8. x < z
      BY <3>7
    <3> QED
      BY Zenon, <1>4, <2>2, <3>4, <3>6, <3>8, PendingBytesAhead
  <2>4. ASSUME NEW u \in InUse, NEW v \in InUse, u # v
        PROVE  Bytes(PacketAt(u)) \cap Bytes(PacketAt(v)) = {}
    <3>1. PICK m \in acked .. Created - 1 :
             /\ IsNumber(u, m) /\ PacketAt(u) \in Packet
             /\ Placed(PacketAt(u), adapter.rd, Mark(m - 1), Mark(m))
      BY Zenon, <1>1, <2>2, PlacesAreKnown
    <3>2. PICK n \in acked .. Created - 1 :
             /\ IsNumber(v, n) /\ PacketAt(v) \in Packet
             /\ Placed(PacketAt(v), adapter.rd, Mark(n - 1), Mark(n))
      BY Zenon, <1>1, <2>2, PlacesAreKnown
    <3>3. m # n
      BY Zenon, <1>1, <2>2, <2>4, <3>1, <3>2, PlacesDiffer
    <3>4. m < n \/ n < m
      BY <1>1, <2>2, <3>3, Sizing
    <3>5. CASE m < n
      BY Zenon, <1>1, <2>2, <3>1, <3>2, <3>5, LaterIsBehind
    <3>6. CASE n < m
      <4>1. Bytes(PacketAt(v)) \cap Bytes(PacketAt(u)) = {}
        BY Zenon, <1>1, <2>2, <3>1, <3>2, <3>6, LaterIsBehind
      <4> QED
        BY Zenon, <4>1
    <3> QED
      BY Zenon, <3>4, <3>5, <3>6
  <2> QED
    BY Zenon, <2>3, <2>4
<1> QED
  BY Zenon, <1>1, <1>2, <1>5, <1>6 DEF PayloadsDisjoint

\* For a buffer of any size and packets of at most half of it, that fit above the high
\* water mark, and whatever rd_ and wr_ may hold before they are set: in a pipe whose
\* pointers happen to start equal and inside the buffer, until it is flushed or faulted,
\* no two packets that
\* CircularBufferMediaPipeAdapter::CreateMediaPacket has handed out and that are still in
\* use share a byte, its checks in HandleSendPacket fail for no answer of an orderly
\* consumer, and an adapter at rest has every byte back.
THEOREM PayloadsDisjointHolds ==
    ASSUME Disciplined
    PROVE  EmptyAtFirst /\ Spec => []PayloadsDisjoint
<1>1. EmptyAtFirst /\ Init => IInv
  BY InitIInv
<1>2. IInv /\ [Next]_vars => IInv'
  BY TypeStep, CountedStep, CalmStep DEF IInv
<1>3. IInv => PayloadsDisjoint
  BY IInvImplies
<1> QED
  BY <1>1, <1>2, <1>3, PTL DEF Spec
=============================================================================
