------------------------- MODULE AudioServerProofs -------------------------
(***************************************************************************)
(* The packets of an audio track are accounted for, for any set of outputs *)
(* and any number of packets and flushes.                                  *)
(*                                                                         *)
(* Packets are numbered as they arrive.  Why they come back in that order  *)
(* although several threads let go of them: every queue, and every list of *)
(* references a thread is dropping, is a run of consecutive packets up to  *)
(* the last one that arrived.  So a thread that drops the last reference   *)
(* to a packet has dropped all earlier ones, and it still holds all later  *)
(* ones until it has handed the packet over for cleanup.                   *)
(***************************************************************************)
EXTENDS AudioServerLemmas

\* How long the solver may work on a leaf, in seconds.
USE SMTT(30)

-----------------------------------------------------------------------------
(* The order in which packets come back. *)

\* A queue that has a packet has the later ones that were pushed.
LEMMA RunFacts ==
  ASSUME TypeOK, MainInv, RunInv
  PROVE  /\ \A o \in Outputs : Pushed(o) \in Nat /\ Pushed(o) <= arrived
         /\ \A o \in Outputs : \A q \in Q(o) :
               /\ q \in Packets /\ q <= Pushed(o)
               /\ \A p \in Nat : q < p /\ p <= Pushed(o) => p \in Q(o)
         /\ \A t \in Threads : \A q \in R(t) :
               /\ q \in Packets /\ q <= arrived
               /\ \A p \in Nat : q < p /\ p <= arrived => p \in R(t)
         /\ \A o \in Outputs, p \in 1 .. arrived : p > Pushed(o) => p = main.pkt
<1>1. \A o \in Outputs : Pushed(o) \in Nat /\ Pushed(o) <= arrived
  BY Shape DEF Pushed, MainInv
<1>2. ASSUME NEW o \in Outputs, NEW q \in Q(o)
      PROVE  /\ q \in Packets /\ q <= Pushed(o)
             /\ \A p \in Nat : q < p /\ p <= Pushed(o) => p \in Q(o)
  <2>1. queue[o] \in Seq(Packets) /\ IsRun(queue[o], Pushed(o)) /\ Pushed(o) \in Nat
    BY <1>1, Shape DEF RunInv
  <2>2. \A p : p \in Q(o) <=> p \in Nat /\ Pushed(o) - Len(queue[o]) < p /\ p <= Pushed(o)
    BY <2>1, RunMembers DEF Q
  <2>3. Len(queue[o]) \in Nat /\ Len(queue[o]) <= Pushed(o) /\ Pushed(o) <= MaxPackets
    BY <1>1, <2>1, Shape, AudioAssumption DEF IsRun
  <2>4. PICK hi \in Nat : hi = Pushed(o)
    BY <2>1
  <2>5. q \in Nat /\ hi - Len(queue[o]) < q /\ q <= hi
    BY <1>2, <2>2, <2>4
  <2>6. q \in Packets
    BY <2>3, <2>4, <2>5, AudioAssumption DEF Packets
  <2>7. ASSUME NEW p \in Nat, q < p, p <= hi PROVE p \in Q(o)
    <3>1. hi - Len(queue[o]) < p
      BY <2>3, <2>5, <2>7
    <3>2. QED
      BY <2>2, <2>4, <2>7, <3>1
  <2>8. QED
    BY <2>4, <2>5, <2>6, <2>7
<1>3. ASSUME NEW t \in Threads, NEW q \in R(t)
      PROVE  /\ q \in Packets /\ q <= arrived
             /\ \A p \in Nat : q < p /\ p <= arrived => p \in R(t)
  <2>1. rel[t] \in Seq(Packets) /\ IsRun(rel[t], arrived) /\ arrived \in Nat
    BY Shape DEF RunInv
  <2>2. \A p : p \in R(t) <=> p \in Nat /\ arrived - Len(rel[t]) < p /\ p <= arrived
    BY <2>1, RunMembers DEF R
  <2>3. Len(rel[t]) \in Nat /\ Len(rel[t]) <= arrived /\ arrived <= MaxPackets
    BY <2>1, Shape, AudioAssumption DEF IsRun
  <2>4. QED
    BY <2>1, <2>2, <2>3, AudioAssumption DEF Packets
<1>4. \A o \in Outputs, p \in 1 .. arrived : p > Pushed(o) => p = main.pkt
  BY Shape DEF Pushed, MainInv
<1>5. QED
  BY <1>1, <1>2, <1>3, <1>4

KeptAlive == \A u \in Threads, q \in 1 .. arrived : KeptBy(u, q) => Held(q)

\* What a thread keeps, something keeps alive.
LEMMA KeptIsHeld == TypeOK /\ MainInv /\ RunInv => KeptAlive
<1> SUFFICES ASSUME TypeOK, MainInv, RunInv, NEW u \in Threads, NEW q \in 1 .. arrived, KeptBy(u, q)
             PROVE  Held(q)
  BY DEF KeptAlive
<1>1. CASE q \in R(u)
  BY <1>1 DEF Held
<1>2. CASE u # "main" /\ q \in Q(u)
  BY <1>2 DEF Held, Threads
<1>3. CASE u # "main" /\ q > Pushed(u)
  BY <1>3, RunFacts DEF Held, Threads
<1>4. QED
  BY <1>1, <1>2, <1>3 DEF KeptBy

\* So too in the next state.
LEMMA KeptIsHeldNext ==
  ASSUME TypeOK', MainInv', RunInv'
  PROVE  KeptAlive'
  BY KeptIsHeld, PTL

\* With a packet, all later ones are kept alive.
LEMMA HeldUp ==
  ASSUME TypeOK, MainInv, RunInv, NEW q \in Nat, NEW p \in 1 .. arrived, Held(q), q # None, q < p
  PROVE  Held(p)
<1>1. CASE main.pkt = q
  <2>1. main.pkt = arrived
    BY <1>1 DEF MainInv
  <2>2. QED
    BY <1>1, <2>1, Shape
<1>2. CASE \E o \in Outputs : q \in Q(o)
  <2>1. PICK o \in Outputs : q \in Q(o)
    BY <1>2
  <2>2. p <= Pushed(o) => p \in Q(o)
    BY <2>1, RunFacts
  <2>3. Pushed(o) \in Nat /\ (p > Pushed(o) => p = main.pkt)
    BY RunFacts
  <2>4. QED
    BY <2>2, <2>3 DEF Held
<1>3. CASE \E t \in Threads : q \in R(t)
  <2>1. PICK t \in Threads : q \in R(t)
    BY <1>3
  <2>2. p \in R(t)
    BY <2>1, RunFacts
  <2>3. QED
    BY <2>2 DEF Held
<1>4. QED
  BY <1>1, <1>2, <1>3 DEF Held

\* A step that keeps every packet alive and lets none go.
LEMMA SameKeepsCount ==
  ASSUME TypeOK, CountInv, arrived' = arrived, Back' = Back, dying' = dying,
         \A q \in 1 .. arrived : Held(q)' <=> Held(q),
         \A u \in Threads, q \in 1 .. arrived : dying[u] # None /\ KeptBy(u, q) => KeptBy(u, q)'
  PROVE  CountInv'
<1>1. \A p \in 1 .. arrived' : p > Back' <=> Held(p)' \/ \E t \in Threads : dying'[t] = p
  BY DEF CountInv
<1>2. ASSUME NEW t \in Threads, NEW p \in 1 .. arrived, dying[t] = p
      PROVE  /\ ~Held(p)'
             /\ \A u \in Threads : dying'[u] = p => u = t
             /\ \A q \in p + 1 .. arrived : KeptBy(t, q)'
  <2>1. /\ ~Held(p) /\ \A u \in Threads : dying[u] = p => u = t
        /\ \A q \in p + 1 .. arrived : KeptBy(t, q)
    BY <1>2 DEF CountInv
  <2>2. \A q \in p + 1 .. arrived : q \in 1 .. arrived
    BY Shape
  <2>3. dying[t] # None
    BY <1>2 DEF None
  <2>4. QED
    BY <2>1, <2>2, <2>3
<1>3. QED
  BY <1>1, <1>2 DEF CountInv

\* A step in which thread t lets go of one reference to packet p.  Where it was the
\* last, no other thread is in the middle of handing one over: the earlier packets
\* are gone, and t holds the later ones.
LEMMA DropKeepsCount ==
  ASSUME TypeOK, CountInv, NEW t \in Threads, NEW p \in 1 .. arrived, Held(p), dying[t] = None,
         arrived' = arrived, Back' = Back,
         \A q \in 1 .. arrived : q # p => (Held(q)' <=> Held(q)),
         Held(p)' => dying' = dying,
         ~Held(p)' => dying' = [dying EXCEPT ![t] = p],
         \A q \in p + 1 .. arrived : Held(q) /\ KeptBy(t, q)',
         \A u \in Threads, q \in 1 .. arrived :
             dying[u] # None /\ KeptBy(u, q) => KeptBy(u, q)' /\ Held(q)'
  PROVE  CountInv'
<1>1. arrived \in Nat /\ dying \in [Threads -> Packets \cup {None}] /\ p > Back
  BY Shape DEF CountInv
<1>2. CASE Held(p)'
  <2>1. \A q \in 1 .. arrived : Held(q)' <=> Held(q)
    BY <1>2
  <2>2. QED
    BY <1>2, <2>1, SameKeepsCount
<1>3. CASE ~Held(p)'
  <2>1. ASSUME NEW u \in Threads PROVE dying[u] = None
    <3>1. SUFFICES ASSUME dying[u] # None PROVE FALSE
      OBVIOUS
    <3>2. PICK d \in 1 .. arrived : dying[u] = d
      BY <1>1, <3>1 DEF CountInv, Packets
    <3>3. ~Held(d) /\ \A q \in d + 1 .. arrived : KeptBy(u, q)
      BY <3>2 DEF CountInv
    <3>4. CASE d < p
      <4>1. KeptBy(u, p)
        BY <1>1, <3>3, <3>4
      <4>2. QED
        BY <1>3, <3>1, <4>1
    <3>5. CASE p < d
      BY <1>1, <3>3, <3>5
    <3>6. CASE p = d
      BY <3>3, <3>6
    <3>7. QED
      BY <3>4, <3>5, <3>6
  <2>2. \A u \in Threads : dying'[u] = IF u = t THEN p ELSE None
    BY <1>1, <1>3, <2>1
  <2>3. \A q \in 1 .. arrived' : q > Back' <=> Held(q)' \/ \E u \in Threads : dying'[u] = q
    <3>1. ASSUME NEW q \in 1 .. arrived PROVE q > Back <=> Held(q)' \/ \E u \in Threads : dying'[u] = q
      <4>1. q > Back <=> Held(q)
        BY <2>1 DEF CountInv, None
      <4>2. CASE q = p
        BY Zenon, <1>1, <2>2, <4>2
      <4>3. CASE q # p
        <5>1. \A u \in Threads : dying'[u] # q
          BY <2>2, <4>3 DEF None
        <5>2. QED
          BY <4>1, <4>3, <5>1
      <4>4. QED
        BY <4>2, <4>3
    <3>2. QED
      BY <3>1
  <2>4. ASSUME NEW u \in Threads, NEW d \in 1 .. arrived, dying'[u] = d
        PROVE  /\ ~Held(d)'
               /\ \A v \in Threads : dying'[v] = d => v = u
               /\ \A q \in d + 1 .. arrived : KeptBy(u, q)'
    <3>1. u = t /\ d = p
      BY <2>2, <2>4 DEF None
    <3>2. \A v \in Threads : dying'[v] = d => v = u
      BY <2>2, <3>1 DEF None
    <3>3. QED
      BY <1>3, <3>1, <3>2
  <2>5. Back' <= arrived' /\ \A u \in Threads : dying'[u] # None => dying'[u] <= arrived'
    BY <1>1, <2>2 DEF CountInv
  <2>6. QED
    BY <2>3, <2>4, <2>5 DEF CountInv
<1>4. QED
  BY <1>2, <1>3

\* ReleaseQueue drops the reference at the front of what its thread took over.
LEMMA ReleaseKeepsCount ==
  ASSUME TypeOK, TypeOK', MainInv, MainInv', RunInv, RunInv', CountInv,
         NEW t \in Threads, ReleaseQueue(t)
  PROVE  CountInv'
<1> USE DEF client
<1>1. /\ rel[t] # <<>> /\ dying[t] = None /\ UNCHANGED <<queue, main, arrived, answered, cleanup>>
      /\ rel' = [rel EXCEPT ![t] = Tail(@)]
  BY DEF ReleaseQueue, link
<1>2. rel[t] \in Seq(Packets) /\ IsRun(rel[t], arrived) /\ arrived \in Nat
  BY Shape DEF RunInv
<1>3. PICK p : p = Head(rel[t])
  OBVIOUS
<1>4. /\ p \in 1 .. arrived /\ p \in R(t) /\ rel'[t] = Tail(rel[t])
      /\ \A q : q \in R(t)' <=> q \in R(t) /\ q # p
      /\ \A q \in p + 1 .. arrived : q \in R(t)'
  <2>1. rel'[t] = Tail(rel[t])
    BY <1>1, Shape
  <2>2. QED
    BY <1>1, <1>2, <1>3, <2>1, TailRun DEF R, Packets
<1>5. \A u \in Threads : u # t => R(u)' = R(u)
  BY <1>1, Shape DEF R
<1>6. \A o \in Outputs : Q(o)' = Q(o) /\ Pushed(o)' = Pushed(o)
  BY <1>1 DEF Q, Pushed
<1>7. Held(p)
  BY <1>4 DEF Held
<1>8. \A q \in 1 .. arrived : q # p => (Held(q)' <=> Held(q))
  BY <1>1, <1>4, <1>5, <1>6 DEF Held
<1>9. LastReference(p, queue, rel', main.pkt) <=> ~Held(p)'
  BY <1>1 DEF LastReference, Held, Q, R
<1>10. dying' = IF LastReference(p, queue, rel', main.pkt) THEN [dying EXCEPT ![t] = p] ELSE dying
  BY <1>3 DEF ReleaseQueue
<1>11. \A q \in p + 1 .. arrived : Held(q) /\ KeptBy(t, q)'
  BY <1>4 DEF Held, KeptBy
<1>12. ASSUME NEW u \in Threads, NEW q \in 1 .. arrived, dying[u] # None, KeptBy(u, q)
       PROVE  KeptBy(u, q)' /\ Held(q)'
  <2>1. KeptBy(u, q)'
    BY Zenon, <1>1, <1>5, <1>6, <1>12, Shape DEF KeptBy
  <2>2. QED
    BY <1>1, <2>1, KeptIsHeldNext DEF KeptAlive
<1>13. Back' = Back
  BY <1>1 DEF Back
<1>14. QED
  BY Zenon, <1>1, <1>4, <1>7, <1>8, <1>9, <1>10, <1>11, <1>12, <1>13, DropKeepsCount

\* A mix that consumes the packet at the front of its queue drops the queue's
\* reference to it.
LEMMA ConsumeKeepsCount ==
  ASSUME TypeOK, TypeOK', MainInv, MainInv', RunInv, RunInv', CountInv, OutputInv, FlushInv,
         NEW o \in Outputs, ConsumeFront(o)
  PROVE  CountInv'
<1>1. /\ queue[o] # <<>> /\ UNCHANGED <<rel, main, arrived, answered, cleanup>>
      /\ queue' = [queue EXCEPT ![o] = Tail(@)] /\ mixer[o].pkt = Head(queue[o])
  BY DEF ConsumeFront, FlushInv, FrontInv
<1>2. queue[o] \in Seq(Packets) /\ IsRun(queue[o], Pushed(o)) /\ arrived \in Nat
  BY Zenon, Shape DEF RunInv
<1>3. PICK p : p = Head(queue[o])
  OBVIOUS
<1>4. PICK hi \in Nat : hi = Pushed(o) /\ hi <= arrived
  BY RunFacts
<1>5. /\ p \in 1 .. arrived /\ p \in Q(o)
      /\ \A q : q \in Q(o)' <=> q \in Q(o) /\ q # p
      /\ \A q \in p + 1 .. hi : q \in Q(o)'
  <2>1. queue'[o] = Tail(queue[o])
    BY <1>1, Shape
  <2>2. /\ p \in Packets /\ p \in Q(o) /\ p <= hi
        /\ \A q : q \in Q(o)' <=> q \in Q(o) /\ q # p
        /\ \A q \in Nat : p < q /\ q <= hi => q \in Q(o)'
    BY <1>1, <1>2, <1>3, <1>4, <2>1, TailRun DEF Q
  <2>3. QED
    BY <1>2, <1>4, <2>2 DEF Packets
<1>6. \A x \in Outputs : x # o => Q(x)' = Q(x)
  BY <1>1, Shape DEF Q
<1>7. \A t \in Threads : R(t)' = R(t)
  BY <1>1 DEF R
<1>8. \A x \in Outputs : Pushed(x)' = Pushed(x)
  BY <1>1 DEF Pushed
<1>9. Held(p) /\ o \in Threads /\ o # "main"
  BY <1>5, Shape DEF Held
<1>10. \A q \in 1 .. arrived : q # p => (Held(q)' <=> Held(q))
  BY <1>1, <1>5, <1>6, <1>7 DEF Held
<1>11. LastReference(p, queue', rel, main.pkt) <=> ~Held(p)'
  BY <1>1 DEF LastReference, Held, Q, R
<1>12. dying' = IF LastReference(p, queue', rel, main.pkt) THEN [dying EXCEPT ![o] = p] ELSE dying
  BY <1>1, <1>3 DEF ConsumeFront
<1>13. dying[o] = None
  BY Zenon DEF ConsumeFront, OutputInv
<1>14. ASSUME NEW q \in p + 1 .. arrived PROVE Held(q) /\ KeptBy(o, q)'
  <2>1. q \in 1 .. arrived
    BY <1>2, <1>5
  <2>2. KeptBy(o, q)'
    BY <1>4, <1>5, <1>8, <1>9, <2>1 DEF KeptBy
  <2>3. KeptBy(o, q)
    BY <1>5, <1>7, <1>8, <1>9, <2>2 DEF KeptBy
  <2>4. QED
    BY <1>9, <2>1, <2>2, <2>3, KeptIsHeld DEF KeptAlive
<1>15. ASSUME NEW u \in Threads, NEW q \in 1 .. arrived, dying[u] # None, KeptBy(u, q)
       PROVE  KeptBy(u, q)' /\ Held(q)'
  <2>1. KeptBy(u, q)'
    BY Zenon, <1>6, <1>7, <1>8, <1>13, <1>15, Shape DEF KeptBy
  <2>2. QED
    BY <1>1, <2>1, KeptIsHeldNext DEF KeptAlive
<1>16. Back' = Back
  BY <1>1 DEF Back
<1>17. QED
  BY Zenon, <1>1, <1>5, <1>9, <1>10, <1>11, <1>12, <1>13, <1>14, <1>15, <1>16, DropKeepsCount

\* The main loop drops its own reference when it has pushed the packet.
LEMMA PushedKeepsCount ==
  ASSUME TypeOK, TypeOK', MainInv, MainInv', RunInv, RunInv', CountInv, PacketPushed
  PROVE  CountInv'
<1>1. /\ UNCHANGED <<queue, rel, arrived, answered, cleanup>> /\ main' = Idle
      /\ main.at = "receive" /\ main.todo = {}
      /\ dying' = IF LastReference(main.pkt, queue, rel, None)
                  THEN [dying EXCEPT !["main"] = main.pkt] ELSE dying
  BY DEF PacketPushed, link, client
<1>2. main'.pkt = None /\ main'.at = "idle"
  BY <1>1 DEF Idle, Busy
<1>3. PICK p \in 1 .. arrived : p = main.pkt /\ p = arrived
  BY Zenon, <1>1, PushesLast
<1>4. dying["main"] = None /\ "main" \in Threads
  BY Zenon, <1>1, Shape DEF MainInv, Dropped
<1>5. \A o \in Outputs : Q(o)' = Q(o) /\ Pushed(o)' = arrived /\ Pushed(o) = arrived
  BY <1>1, <1>2 DEF Q, Pushed
<1>6. \A t \in Threads : R(t)' = R(t)
  BY Zenon, <1>1 DEF R
<1>7. Held(p)
  BY <1>3 DEF Held
<1>8. \A q \in 1 .. arrived : q # p => (Held(q)' <=> Held(q))
  BY <1>2, <1>3, <1>5, <1>6 DEF Held, None
<1>9. LastReference(p, queue, rel, None) <=> ~Held(p)'
  BY Zenon, <1>1, <1>2, <1>3 DEF LastReference, Held, Q, R, None
<1>10. \A q \in p + 1 .. arrived : FALSE
  BY <1>3, Shape
<1>11. ASSUME NEW u \in Threads, NEW q \in 1 .. arrived, dying[u] # None, KeptBy(u, q)
       PROVE  KeptBy(u, q)' /\ Held(q)'
  <2>1. KeptBy(u, q)'
    BY <1>5, <1>6, <1>11, Shape DEF KeptBy
  <2>2. QED
    BY <1>1, <2>1, KeptIsHeldNext DEF KeptAlive
<1>12. Back' = Back
  BY <1>1 DEF Back
<1>13. QED
  BY Zenon, <1>1, <1>3, <1>4, <1>7, <1>8, <1>9, <1>10, <1>11, <1>12, DropKeepsCount

\* A queue that is taken over keeps its packets alive.
LEMMA MoveKeepsCount ==
  ASSUME TypeOK, MainInv, CountInv, NEW o \in Outputs, NEW t \in Threads, MovesQueue(o, t)
  PROVE  CountInv'
<1>1. /\ arrived' = arrived /\ dying' = dying /\ UNCHANGED <<answered, cleanup>>
      /\ main'.pkt = main.pkt /\ dying[t] = None /\ dying[o] = None
  BY DEF MovesQueue, NotPushing
<1>2. R(t) = {} /\ R(t)' = Q(o) /\ Q(o)' = {}
  BY Shape, NoRun DEF MovesQueue, R, Q
<1>3. /\ \A x \in Outputs : x # o => Q(x)' = Q(x)
      /\ \A u \in Threads : u # t => R(u)' = R(u)
  BY Shape DEF MovesQueue, Q, R
<1>4. \A x \in Outputs : Pushed(x)' = Pushed(x)
  BY PushedSame DEF MovesQueue
<1>5. \A q \in 1 .. arrived : Held(q)' <=> Held(q)
  BY <1>1, <1>2, <1>3 DEF Held
<1>6. \A u \in Threads, q \in 1 .. arrived : dying[u] # None /\ KeptBy(u, q) => KeptBy(u, q)'
  BY Zenon, <1>1, <1>3, <1>4, Shape DEF KeptBy
<1>7. QED
  BY Zenon, <1>1, <1>5, <1>6, SameKeepsCount DEF Back

\* A packet that is pushed is alive already; the output's mixer is not handing over
\* another one, for it would hold the queue's lock.
LEMMA PushKeepsCount ==
  ASSUME TypeOK, MainInv, OutputInv, RunInv, CountInv, NEW o \in Outputs, PushToPendingQueue(o)
  PROVE  CountInv'
<1>1. /\ main.at = "receive" /\ o \in main.todo /\ mixer[o].at # "unlock"
      /\ UNCHANGED <<rel, arrived, answered, cleanup, dying>>
      /\ queue' = [queue EXCEPT ![o] = Append(@, main.pkt)]
      /\ main' = [main EXCEPT !.todo = @ \ {o}]
  BY DEF PushToPendingQueue, packets
<1>2. main'.pkt = main.pkt /\ main'.at = main.at /\ main'.todo = main.todo \ {o}
  BY <1>1, Shape
<1>3. main.pkt = arrived /\ arrived \in Packets /\ IsRun(queue[o], arrived - 1)
  BY <1>1, Shape DEF MainInv, RunInv, Pushed, Packets
<1>4. \A q : q \in Q(o)' <=> q \in Q(o) \/ q = arrived
  <2>1. queue'[o] = Append(queue[o], arrived)
    BY <1>1, <1>3, Shape
  <2>2. QED
    BY <1>3, <2>1, Shape, AppendRun DEF Q
<1>5. /\ \A x \in Outputs : x # o => Q(x)' = Q(x) /\ Pushed(x)' = Pushed(x)
      /\ \A u \in Threads : R(u)' = R(u)
  BY <1>1, <1>2, Shape DEF Q, R, Pushed
<1>6. dying[o] = None
  BY <1>1 DEF OutputInv, MainInv
<1>7. \A q \in 1 .. arrived : Held(q)' <=> Held(q)
  BY <1>2, <1>3, <1>4, <1>5 DEF Held
<1>8. \A u \in Threads, q \in 1 .. arrived : dying[u] # None /\ KeptBy(u, q) => KeptBy(u, q)'
  BY Zenon, <1>5, <1>6, Shape DEF KeptBy
<1>9. QED
  BY <1>1, <1>7, <1>8, SameKeepsCount DEF Back

\* A new packet is held by the main loop, and will be pushed to every output whose
\* mixer is handing over an earlier one.
LEMMA ReceiveKeepsCount ==
  ASSUME TypeOK, MainInv, OutputInv, RunInv, CountInv, OnPacketReceived
  PROVE  CountInv'
<1>1. /\ main.at = "idle" /\ track = "configured" /\ arrived' = arrived + 1
      /\ main'.at = "receive" /\ main'.todo = trackLinks /\ main'.pkt = arrived + 1
      /\ UNCHANGED <<queue, rel, dying, answered, cleanup>> /\ dying["main"] = None
  BY Zenon DEF OnPacketReceived, MainFree, Dropped, Busy, link, packets
<1>2. main.pkt = None /\ arrived \in Nat /\ Back' = Back
  BY Zenon, <1>1, Shape DEF MainInv, Back
<1>3. /\ \A o \in Outputs : Q(o)' = Q(o) /\ Pushed(o) = arrived
      /\ \A t \in Threads : R(t)' = R(t)
  BY Zenon, <1>1 DEF Q, R, Pushed
<1>4. \A q \in 1 .. arrived : Held(q)' <=> Held(q)
  BY <1>1, <1>2, <1>3 DEF Held, None
<1>6. ASSUME NEW u \in Threads, dying[u] # None PROVE u # "main" /\ Pushed(u)' = arrived
  <2>1. u \in Outputs
    BY <1>1, <1>6, Shape
  <2>2. mixer[u].at = "unlock"
    BY <1>1, <1>6, <2>1 DEF OutputInv
  <2>3. u \in trackLinks
    BY <1>1, <2>1, <2>2 DEF OutputInv
  <2>4. QED
    BY <1>1, <1>2, <2>1, <2>3, Shape DEF Pushed
<1>7. ASSUME NEW q \in 1 .. arrived'
      PROVE  q > Back' <=> Held(q)' \/ \E t \in Threads : dying'[t] = q
  <2>1. CASE q \in 1 .. arrived
    BY <1>1, <1>2, <1>4, <2>1 DEF CountInv
  <2>2. CASE q = arrived + 1
    <3>1. Back <= arrived /\ Back \in Nat
      BY DEF CountInv, Back, TypeOK
    <3>2. Held(q)'
      BY <1>1, <2>2 DEF Held
    <3>3. QED
      BY <1>2, <2>2, <3>1, <3>2
  <2>3. QED
    BY <1>1, <1>2, <2>1, <2>2
<1>8. ASSUME NEW t \in Threads, dying[t] # None
      PROVE  dying[t] \in 1 .. arrived
  BY <1>8, Shape DEF CountInv, Packets
<1>9. ASSUME NEW t \in Threads, NEW p \in 1 .. arrived', dying'[t] = p
      PROVE  /\ ~Held(p)'
             /\ \A u \in Threads : dying'[u] = p => u = t
             /\ \A q \in p + 1 .. arrived' : KeptBy(t, q)'
  <2>1. p \in 1 .. arrived /\ dying[t] = p /\ dying[t] # None
    BY <1>1, <1>8, <1>9 DEF None
  <2>2. /\ ~Held(p) /\ \A u \in Threads : dying[u] = p => u = t
        /\ \A q \in p + 1 .. arrived : KeptBy(t, q)
    BY <2>1 DEF CountInv
  <2>3. ASSUME NEW q \in p + 1 .. arrived' PROVE KeptBy(t, q)'
    <3>1. CASE q \in p + 1 .. arrived
      <4>1. KeptBy(t, q) /\ q <= arrived /\ t \in Outputs
        BY <1>6, <2>1, <2>2, <3>1, Shape
      <4>2. QED
        BY <1>3, <4>1, <1>2, <3>1, <2>1 DEF KeptBy
    <3>2. CASE q = arrived + 1
      BY <1>2, <1>6, <2>1, <3>2 DEF KeptBy
    <3>3. QED
      BY <1>1, <1>2, <2>1, <3>1, <3>2
  <2>4. QED
    BY <1>1, <1>4, <2>1, <2>2, <2>3
<1>10. Back' <= arrived' /\ \A t \in Threads : dying'[t] # None => dying'[t] <= arrived'
  <2>1. Back <= arrived /\ Back \in Nat
    BY DEF CountInv, Back, TypeOK
  <2>2. QED
    BY <1>1, <1>2, <1>8, <2>1
<1>11. QED
  BY Zenon, <1>7, <1>9, <1>10 DEF CountInv

\* A packet that is handed over for cleanup is the next in order.
LEMMA ScheduledIsNext ==
  ASSUME TypeOK, MainInv, RunInv, CountInv, NEW t \in Threads, dying[t] # None
  PROVE  dying[t] = Back + 1 /\ dying[t] \in 1 .. arrived
<1>1. PICK p \in 1 .. arrived : p = dying[t]
  BY Shape DEF CountInv, Packets
<1>2. Back \in Nat /\ arrived \in Nat
  BY Shape DEF Back, TypeOK
<1>3. ~Held(p) /\ p > Back
  BY <1>1 DEF CountInv
<1>4. SUFFICES ASSUME p # Back + 1 PROVE FALSE
  BY <1>1
<1>5. PICK q \in 1 .. arrived : q = Back + 1 /\ q < p
  BY <1>2, <1>3, <1>4
<1>6. Held(q) \/ \E u \in Threads : dying[u] = q
  BY <1>2, <1>5 DEF CountInv
<1>7. CASE Held(q)
  BY <1>3, <1>5, <1>7, HeldUp DEF None
<1>8. CASE \E u \in Threads : dying[u] = q
  <2>1. PICK u \in Threads : dying[u] = q
    BY <1>8
  <2>2. KeptBy(u, p)
    BY <1>2, <1>5, <2>1 DEF CountInv
  <2>3. QED
    BY <1>3, <2>2, KeptIsHeld DEF KeptAlive
<1>9. QED
  BY <1>6, <1>7, <1>8

\* Handing it over makes it one of those that are back.
LEMMA ScheduleKeepsCount ==
  ASSUME TypeOK, MainInv, RunInv, CountInv, NEW t \in Threads, SchedulePacketCleanup(t)
  PROVE  CountInv'
<1>1. /\ cleanup' = Append(cleanup, dying[t]) /\ dying' = [dying EXCEPT ![t] = None]
      /\ dying[t] # None /\ UNCHANGED <<main, queue, rel, answered, arrived>>
  BY DEF SchedulePacketCleanup, link, client
<1>2. dying[t] = Back + 1 /\ dying[t] \in 1 .. arrived /\ Back \in Nat /\ arrived \in Nat
  BY Zenon, <1>1, ScheduledIsNext, BackCounts
<1>3. Back' = Back + 1
  <2>1. cleanup \in Seq(Packets) /\ answered \in Seq(Packets)
    BY Zenon DEF TypeOK
  <2>2. Len(cleanup') = Len(cleanup) + 1 /\ Len(answered') = Len(answered)
    BY <1>1, <2>1
  <2>3. PICK m \in Nat, n \in Nat : m = Len(answered) /\ n = Len(cleanup)
    BY <2>1
  <2>4. QED
    BY <2>2, <2>3 DEF Back
<1>4. \A q : Held(q)' <=> Held(q)
  BY <1>1 DEF Held, Q, R
<1>5. \A u \in Threads, q \in 1 .. arrived : KeptBy(u, q)' <=> KeptBy(u, q)
  BY <1>1 DEF KeptBy, Q, R, Pushed
<1>6. \A u \in Threads : dying'[u] = IF u = t THEN None ELSE dying[u]
  BY <1>1, Shape
<1>7. PICK p \in 1 .. arrived : p = dying[t]
  BY <1>2
<1>8. ~Held(p) /\ \A u \in Threads : dying[u] = p => u = t
  BY <1>7 DEF CountInv
<1>9. ASSUME NEW q \in 1 .. arrived
      PROVE  q > Back + 1 <=> Held(q) \/ \E u \in Threads : dying'[u] = q
  <2>1. CASE q = p
    <3>1. \A u \in Threads : dying'[u] # q
      BY <1>6, <1>8, <2>1 DEF None
    <3>2. QED
      BY <1>2, <1>7, <1>8, <2>1, <3>1
  <2>2. CASE q # p
    <3>1. q > Back <=> Held(q) \/ \E u \in Threads : dying[u] = q
      BY DEF CountInv
    <3>2. \A u \in Threads : dying'[u] = q <=> dying[u] = q
      BY <1>6, <1>7, <2>2 DEF None
    <3>3. q > Back + 1 <=> q > Back
      BY <1>2, <1>7, <2>2
    <3>4. QED
      BY <3>1, <3>2, <3>3
  <2>3. QED
    BY <2>1, <2>2
<1>10. ASSUME NEW u \in Threads, NEW d \in 1 .. arrived, dying'[u] = d
       PROVE  /\ ~Held(d) /\ \A v \in Threads : dying'[v] = d => v = u
              /\ \A q \in d + 1 .. arrived : KeptBy(u, q) /\ q \in 1 .. arrived
  <2>1. dying[u] = d
    BY <1>6, <1>10 DEF None
  <2>2. QED
    BY <1>2, <1>6, <2>1 DEF CountInv, None
<1>11. Back' <= arrived' /\ \A u \in Threads : dying'[u] # None => dying'[u] <= arrived'
  BY <1>1, <1>2, <1>3, <1>6 DEF CountInv
<1>12. QED
  BY <1>1, <1>3, <1>4, <1>5, <1>9, <1>10, <1>11 DEF CountInv

\* Every step keeps account of the packets.
LEMMA CountStep ==
  ASSUME TypeOK, TypeOK', MainInv, MainInv', OutputInv, RunInv, RunInv', FlushInv, CountInv,
         [Next]_vars
  PROVE  CountInv'
<1>1. CASE Quiet \/ Answers
  <2>1. UNCHANGED <<queue, rel, dying, arrived>> /\ main'.pkt = main.pkt
    BY <1>1 DEF Quiet, Answers, KeepsReferences
  <2>2. \A o \in Outputs : Pushed(o)' = Pushed(o)
    BY <1>1, PushedSame DEF Quiet, Answers, KeepsReferences
  <2>3. \A q \in 1 .. arrived : Held(q)' <=> Held(q)
    BY Zenon, <2>1 DEF Held, Q, R
  <2>4. \A u \in Threads, q \in 1 .. arrived : dying[u] # None /\ KeptBy(u, q) => KeptBy(u, q)'
    BY <2>1, <2>2, Shape DEF KeptBy, Q, R
  <2>5. Back' = Back
    <3>1. answered \in Seq(Packets) /\ cleanup \in Seq(Packets)
      BY DEF TypeOK
    <3>2. \/ UNCHANGED <<answered, cleanup>>
          \/ answered' = answered \o cleanup /\ cleanup' = <<>>
      BY <1>1 DEF Quiet, Answers
    <3>3. QED
      BY <3>1, <3>2 DEF Back
  <2>6. QED
    BY Zenon, <2>1, <2>3, <2>4, <2>5, SameKeepsCount
<1>2. QED
  BY <1>1, EffectCases, MoveKeepsCount, PushKeepsCount, ReceiveKeepsCount, ReleaseKeepsCount,
     ScheduleKeepsCount, ConsumeKeepsCount, PushedKeepsCount

\* Packets come back in the order in which they arrived.
LEMMA OrderStep ==
  ASSUME TypeOK, MainInv, MainInv', OutputInv, RunInv, CountInv, ReturnedInOrder, [Next]_vars
  PROVE  ReturnedInOrder'
<1>1. answered \in Seq(Packets) /\ cleanup \in Seq(Packets)
  BY DEF TypeOK
<1>2. CASE UNCHANGED <<answered, cleanup>>
  BY <1>2 DEF ReturnedInOrder
<1>3. CASE answered' = answered \o cleanup /\ cleanup' = <<>>
  <2>1. answered' \o cleanup' = answered \o cleanup
    BY <1>1, <1>3
  <2>2. QED
    BY <2>1 DEF ReturnedInOrder
<1>4. CASE \E t \in Threads : SchedulePacketCleanup(t)
  <2>1. PICK t \in Threads : SchedulePacketCleanup(t)
    BY <1>4
  <2>2. cleanup' = Append(cleanup, dying[t]) /\ answered' = answered /\ dying[t] = Back + 1
    BY <2>1, ScheduledIsNext DEF SchedulePacketCleanup, client
  <2>3. Back = Len(answered) + Len(cleanup) /\ dying[t] \in Packets
    BY <2>1, Shape DEF Back, SchedulePacketCleanup
  <2>4. PICK n \in Nat : n = Len(answered \o cleanup) /\ n = Back
    BY <1>1, <2>3
  <2>5. answered' \o cleanup' = Append(answered \o cleanup, n + 1)
    BY <1>1, <2>2, <2>3, <2>4
  <2>6. PICK s : s = answered \o cleanup
    BY Zenon
  <2>10. s \in Seq(Packets) /\ Len(s) = n /\ n + 1 \in Packets
    BY <1>1, <2>2, <2>3, <2>4, <2>6
  <2>7. \A i \in 1 .. n : s[i] = i
    BY <2>6, <2>10 DEF ReturnedInOrder
  <2>8. \A i \in DOMAIN Append(s, n + 1) : Append(s, n + 1)[i] = i
    <3>1. DOMAIN Append(s, n + 1) = 1 .. (n + 1)
      BY <2>10
    <3>2. ASSUME NEW i \in 1 .. (n + 1) PROVE Append(s, n + 1)[i] = i
      BY <2>7, <2>10, <3>2
    <3>3. QED
      BY <3>1, <3>2
  <2>9. QED
    BY <2>5, <2>6, <2>8 DEF ReturnedInOrder
<1>5. CASE \/ OnPacketReceived \/ PacketPushed \/ \E o \in Outputs : PushToPendingQueue(o) \/ ConsumeFront(o)
           \/ \E t \in Threads : ReleaseQueue(t)
  BY Zenon, <1>2, <1>5 DEF OnPacketReceived, PacketPushed, PushToPendingQueue, ConsumeFront, ReleaseQueue,
     packets, client
<1>6. CASE Quiet \/ Answers \/ \E o \in Outputs, t \in Threads : MovesQueue(o, t)
  BY <1>2, <1>3, <1>6 DEF Quiet, Answers, MovesQueue
<1>7. QED
  BY <1>4, <1>5, <1>6, EffectCases

-----------------------------------------------------------------------------
(* The result of a packet. *)

\* Who still owes what, while queues and threads hold the packet.
ResultOf(p) ==
    (\E o \in Outputs : LostBy(p, o)) <=>
        result[p] = "FLUSHED" \/ \E t \in Threads : p \in R(t)

\* Every step keeps account of who consumed what.
LEMMA OwingStep ==
  ASSUME TypeOK, TypeOK', MainInv, MainInv', OutputInv, RunInv, FlushInv, OwingInv, TodoInv,
         [Next]_vars
  PROVE  OwingInv'
<1> USE DEF client, packets, link
<1>1. /\ result \in [Packets -> {"CONSUMED", "FLUSHED"}] /\ owing \in [Packets -> SUBSET Outputs]
      /\ arrived \in Nat /\ \A p \in Packets : p \in Nat
  <2>1. result \in [Packets -> {"CONSUMED", "FLUSHED"}] /\ owing \in [Packets -> SUBSET Outputs]
    BY DEF TypeOK
  <2>2. \A p \in Packets : p \in Nat
    BY AudioAssumption DEF Packets
  <2>3. QED
    BY <2>1, <2>2, Shape
<1>2. /\ \A p \in Packets : p > arrived => owing[p] = {} /\ result[p] = "CONSUMED"
      /\ \A o \in Outputs : \A p \in Q(o) : o \in owing[p]
      /\ \A p \in Packets : ResultOf(p)
  BY DEF OwingInv, ResultOf
<1>3. /\ \A o \in Outputs : \A q \in Q(o) : q \in Packets /\ q <= arrived
      /\ \A t \in Threads : \A q \in R(t) : q \in Packets /\ q <= arrived
  BY <1>1, RunFacts
<1>4. ASSUME \A p \in Packets : p > arrived' => owing'[p] = {} /\ result'[p] = "CONSUMED",
             \A o \in Outputs : \A p \in Q(o)' : o \in owing'[p],
             \A p \in Packets : ResultOf(p)'
      PROVE  OwingInv'
  BY Zenon, <1>4 DEF OwingInv, ResultOf
<1>5. CASE UNCHANGED <<queue, rel, result, owing>> /\ arrived' >= arrived /\ arrived' \in Nat
  <2>1. \A p \in Packets : ResultOf(p)'
    BY <1>2, <1>5 DEF ResultOf, LostBy, Q, R
  <2>2. \A o \in Outputs : Q(o)' = Q(o)
    BY <1>5 DEF Q
  <2>3. QED
    BY <1>1, <1>2, <1>4, <1>5, <2>1, <2>2
<1>6. CASE \E o \in Outputs : PushToPendingQueue(o)
  <2>1. PICK o \in Outputs : PushToPendingQueue(o)
    BY <1>6
  <2>2. /\ main.at = "receive" /\ o \in main.todo /\ UNCHANGED <<rel, arrived, result>>
        /\ queue' = [queue EXCEPT ![o] = Append(@, main.pkt)]
        /\ owing' = [owing EXCEPT ![main.pkt] = @ \cup {o}]
    BY <2>1 DEF PushToPendingQueue
  <2>3. main.pkt = arrived /\ arrived \in Packets /\ IsRun(queue[o], arrived - 1)
    <3>1. main.pkt = arrived /\ arrived \in Packets
      BY Zenon, <2>2, PushesLast
    <3>2. Pushed(o) = arrived - 1
      BY <2>2 DEF Pushed
    <3>3. QED
      BY Zenon, <3>1, <3>2 DEF RunInv
  <2>4. PICK a \in Packets : a = arrived
    BY <2>3
  <2>5. \A q : q \in Q(o)' <=> q \in Q(o) \/ q = a
    <3>1. queue'[o] = Append(queue[o], a)
      BY <2>2, <2>3, <2>4, Shape
    <3>2. QED
      BY <2>3, <2>4, <3>1, Shape, AppendRun DEF Q
  <2>6. /\ \A x \in Outputs : x # o => Q(x)' = Q(x)
        /\ \A u \in Threads : R(u)' = R(u)
    BY <2>2, Shape DEF Q, R
  <2>7. \A p \in Packets : owing'[p] = IF p = a THEN owing[p] \cup {o} ELSE owing[p]
    BY Zenon, <1>1, <2>2, <2>3, <2>4
  <2>8. \A p \in Packets, x \in Outputs : LostBy(p, x)' <=> LostBy(p, x)
    <3>1. ~LostBy(a, o) /\ ~LostBy(a, o)'
      BY <2>2, <2>4, <2>5 DEF LostBy, TodoInv
    <3>2. ASSUME NEW p \in Packets, NEW x \in Outputs, p # a \/ x # o
          PROVE  LostBy(p, x)' <=> LostBy(p, x)
      BY Zenon, <2>5, <2>6, <2>7, <3>2 DEF LostBy
    <3>3. QED
      BY <3>1, <3>2
  <2>9. \A p \in Packets : ResultOf(p)'
    BY Zenon, <1>2, <2>2, <2>6, <2>8 DEF ResultOf
  <2>10. ASSUME NEW x \in Outputs, NEW p \in Q(x)' PROVE x \in owing'[p]
    <3>1. CASE x = o /\ p = a
      BY Zenon, <2>7, <3>1
    <3>2. CASE ~(x = o /\ p = a)
      <4>1. p \in Q(x) /\ p \in Packets
        BY <1>3, <2>5, <2>6, <2>10, <3>2
      <4>2. QED
        BY Zenon, <1>2, <2>7, <4>1
    <3>3. QED
      BY <3>1, <3>2
  <2>11. ASSUME NEW p \in Packets, p > arrived' PROVE owing'[p] = {} /\ result'[p] = "CONSUMED"
    <3>1. p > arrived /\ p # a
      BY <1>1, <2>2, <2>4, <2>11
    <3>2. QED
      BY Zenon, <1>2, <2>2, <2>7, <3>1
  <2>12. QED
    BY <1>4, <2>9, <2>10, <2>11
<1>7. CASE \E o \in Outputs, t \in Threads : MovesQueue(o, t)
  <2>1. PICK o \in Outputs, t \in Threads : MovesQueue(o, t)
    BY <1>7
  <2>2. UNCHANGED <<arrived, result, owing>>
    BY Zenon, <2>1 DEF MovesQueue, NotPushing
  <2>3. R(t) = {} /\ R(t)' = Q(o) /\ Q(o)' = {}
    BY Zenon, <2>1, Shape, NoRun DEF MovesQueue, R, Q
  <2>4. /\ \A x \in Outputs : x # o => Q(x)' = Q(x)
        /\ \A u \in Threads : u # t => R(u)' = R(u)
    BY <2>1, Shape DEF MovesQueue, Q, R
  <2>5. ASSUME NEW p \in Packets PROVE ResultOf(p)'
    <3>1. ResultOf(p)
      BY <1>2
    <3>2. CASE p \in Q(o)
      <4>1. LostBy(p, o)' /\ p \in R(t)'
        BY Zenon, <1>2, <2>2, <2>3, <3>2 DEF LostBy
      <4>2. QED
        BY <4>1 DEF ResultOf
    <3>3. CASE p \notin Q(o)
      <4>1. \A x \in Outputs : LostBy(p, x)' <=> LostBy(p, x)
        BY <2>2, <2>3, <2>4, <3>3 DEF LostBy
      <4>2. \A u \in Threads : p \in R(u)' <=> p \in R(u)
        BY <2>3, <2>4, <3>3
      <4>3. QED
        BY <2>2, <3>1, <4>1, <4>2 DEF ResultOf
    <3>4. QED
      BY <3>2, <3>3
  <2>6. QED
    BY <1>2, <1>4, <2>2, <2>3, <2>4, <2>5
<1>8. CASE \E t \in Threads : ReleaseQueue(t)
  <2>1. PICK t \in Threads : ReleaseQueue(t)
    BY <1>8
  <2>2. /\ rel[t] # <<>> /\ UNCHANGED <<queue, arrived, owing>>
        /\ rel' = [rel EXCEPT ![t] = Tail(@)] /\ result' = [result EXCEPT ![Head(rel[t])] = "FLUSHED"]
    BY <2>1 DEF ReleaseQueue, SetResult
  <2>3. PICK r : r = Head(rel[t])
    OBVIOUS
  <2>4. /\ r \in Packets /\ r \in R(t) /\ \A q : q \in R(t)' <=> q \in R(t) /\ q # r
    <3>1. rel[t] \in Seq(Packets) /\ IsRun(rel[t], arrived)
      BY Shape DEF RunInv
    <3>2. rel'[t] = Tail(rel[t])
      BY <2>2, Shape
    <3>3. QED
      BY <1>1, <2>2, <2>3, <3>1, <3>2, TailRun DEF R
  <2>5. \A u \in Threads : u # t => R(u)' = R(u)
    BY <2>2, Shape DEF R
  <2>6. /\ \A p \in Packets : result'[p] = IF p = r THEN "FLUSHED" ELSE result[p]
        /\ \A x \in Outputs : Q(x)' = Q(x)
    BY <1>1, <2>2, <2>3, <2>4 DEF Q
  <2>7. ASSUME NEW p \in Packets PROVE ResultOf(p)'
    <3>1. ResultOf(p) /\ \A x \in Outputs : LostBy(p, x)' <=> LostBy(p, x)
      BY <1>2, <2>2, <2>6 DEF LostBy
    <3>2. CASE p = r
      BY Zenon, <2>4, <2>6, <3>1, <3>2 DEF ResultOf
    <3>3. CASE p # r
      <4>1. \A u \in Threads : p \in R(u)' <=> p \in R(u)
        BY <2>4, <2>5, <3>3
      <4>2. QED
        BY <2>6, <3>1, <3>3, <4>1 DEF ResultOf
    <3>4. QED
      BY <3>2, <3>3
  <2>8. ASSUME NEW p \in Packets, p > arrived' PROVE owing'[p] = {} /\ result'[p] = "CONSUMED"
    <3>1. p > arrived /\ p # r
      BY <1>1, <1>3, <2>2, <2>4, <2>8
    <3>2. QED
      BY <1>2, <2>2, <2>6, <3>1
  <2>9. QED
    BY <1>2, <1>4, <2>2, <2>6, <2>7, <2>8
<1>9. CASE \E o \in Outputs : ConsumeFront(o)
  <2>1. PICK o \in Outputs : ConsumeFront(o)
    BY <1>9
  <2>2. /\ queue[o] # <<>> /\ UNCHANGED <<rel, arrived, result>>
        /\ queue' = [queue EXCEPT ![o] = Tail(@)] /\ mixer[o].pkt = Head(queue[o])
        /\ owing' = [owing EXCEPT ![mixer[o].pkt] = @ \ {o}]
    BY <2>1 DEF ConsumeFront, FlushInv, FrontInv
  <2>3. PICK r : r = Head(queue[o])
    OBVIOUS
  <2>4. /\ r \in Packets /\ r \in Q(o) /\ \A q : q \in Q(o)' <=> q \in Q(o) /\ q # r
    <3>1. queue[o] \in Seq(Packets) /\ IsRun(queue[o], Pushed(o)) /\ Pushed(o) \in Nat
      BY Shape, RunFacts DEF RunInv
    <3>2. queue'[o] = Tail(queue[o])
      BY <2>2, Shape
    <3>3. QED
      BY Zenon, <2>2, <2>3, <3>1, <3>2, TailRun DEF Q
  <2>5. /\ \A x \in Outputs : x # o => Q(x)' = Q(x)
        /\ \A u \in Threads : R(u)' = R(u)
    BY <2>2, Shape DEF Q, R
  <2>6. \A p \in Packets : owing'[p] = IF p = r THEN owing[p] \ {o} ELSE owing[p]
    BY Zenon, <1>1, <2>2, <2>3, <2>4
  <2>7. \A p \in Packets, x \in Outputs : LostBy(p, x)' <=> LostBy(p, x)
    <3>1. ~LostBy(r, o) /\ ~LostBy(r, o)'
      BY Zenon, <2>4, <2>6 DEF LostBy
    <3>2. ASSUME NEW p \in Packets, NEW x \in Outputs, p # r \/ x # o
          PROVE  LostBy(p, x)' <=> LostBy(p, x)
      BY Zenon, <2>4, <2>5, <2>6, <3>2 DEF LostBy
    <3>3. QED
      BY <3>1, <3>2
  <2>8. \A p \in Packets : ResultOf(p)'
    BY <1>2, <2>2, <2>5, <2>7 DEF ResultOf
  <2>9. \A x \in Outputs : \A p \in Q(x)' : x \in owing'[p]
    BY Zenon, <1>2, <1>3, <2>4, <2>5, <2>6
  <2>10. \A p \in Packets : p > arrived' => owing'[p] = {} /\ result'[p] = "CONSUMED"
    BY <1>2, <2>2, <2>6
  <2>11. QED
    BY <1>4, <2>8, <2>9, <2>10
<1>10. CASE \/ Quiet \/ Answers \/ OnPacketReceived \/ PacketPushed
            \/ \E t \in Threads : SchedulePacketCleanup(t)
  <2>1. UNCHANGED <<queue, rel, result, owing>> /\ (arrived' = arrived \/ arrived' = arrived + 1)
    BY <1>10 DEF Quiet, Answers, KeepsReferences, OnPacketReceived, PacketPushed, SchedulePacketCleanup
  <2>2. QED
    BY <1>1, <1>5, <2>1
<1>11. QED
  BY <1>6, <1>7, <1>8, <1>9, <1>10, EffectCases

\* An output owes a packet only from when it was pushed.
LEMMA TodoStep ==
  ASSUME TypeOK, MainInv, MainInv', OutputInv, OwingInv, TodoInv, [Next]_vars
  PROVE  TodoInv'
<1> USE DEF client, packets
<1>1. CASE main'.at # "receive"
  BY <1>1 DEF TodoInv
<1>2. CASE UNCHANGED <<main, owing, arrived>>
  BY <1>2 DEF TodoInv
<1>3. CASE OnPacketReceived
  <2>1. arrived' = arrived + 1 /\ arrived' \in Packets /\ owing' = owing
    BY <1>3, Shape, AudioAssumption DEF OnPacketReceived, Packets
  <2>2. owing'[arrived'] = {}
    <3>1. PICK a \in Packets : a = arrived' /\ a = arrived + 1
      BY Zenon, <2>1
    <3>2. arrived \in Nat
      BY Zenon, BackCounts
    <3>3. a > arrived
      BY <3>1, <3>2
    <3>4. owing[a] = {}
      BY Zenon, <3>1, <3>3 DEF OwingInv
    <3>5. QED
      BY Zenon, <2>1, <3>1, <3>4
  <2>3. QED
    BY <2>2 DEF TodoInv
<1>4. CASE \E o \in Outputs : PushToPendingQueue(o)
  <2>1. PICK o \in Outputs : PushToPendingQueue(o)
    BY <1>4
  <2>2. /\ main.at = "receive" /\ main.pkt = arrived /\ arrived' = arrived
        /\ owing' = [owing EXCEPT ![arrived] = @ \cup {o}] /\ main'.todo = main.todo \ {o}
    BY Zenon, <2>1, Shape DEF PushToPendingQueue, MainInv
  <2>3. owing'[arrived] \subseteq owing[arrived] \cup {o}
    <3>1. arrived \in Packets /\ owing \in [Packets -> SUBSET Outputs]
      BY Zenon, <2>2, PushesLast DEF TypeOK
    <3>2. QED
      BY <2>2, <3>1
  <2>4. QED
    BY <2>2, <2>3 DEF TodoInv
<1>5. CASE \E o \in Outputs : ConsumeFront(o)
  <2>1. PICK o \in Outputs : ConsumeFront(o)
    BY <1>5
  <2>2. UNCHANGED <<main, arrived>> /\ owing' = [owing EXCEPT ![mixer[o].pkt] = @ \ {o}]
    BY <2>1 DEF ConsumeFront
  <2>3. \A p \in Packets : owing'[p] \subseteq owing[p]
    BY <2>2 DEF TypeOK
  <2>4. main.at = "receive" => arrived \in Packets
    BY Zenon, PushesLast
  <2>5. QED
    BY <2>2, <2>3, <2>4 DEF TodoInv
<1>6. CASE Quiet \/ Answers
  BY <1>1, <1>2, <1>6 DEF Quiet, Answers, KeepsReferences, NotPushing
<1>7. CASE PacketPushed \/ \E o \in Outputs, t \in Threads : MovesQueue(o, t)
  BY <1>1, <1>7 DEF PacketPushed, Idle, Busy, MovesQueue, NotPushing
<1>8. CASE \E t \in Threads : ReleaseQueue(t) \/ SchedulePacketCleanup(t)
  BY <1>2, <1>8 DEF ReleaseQueue, SchedulePacketCleanup
<1>9. QED
  BY <1>3, <1>4, <1>5, <1>6, <1>7, <1>8, EffectCases

-----------------------------------------------------------------------------
(* Flushes and mixes. *)

\* A mix keeps the front of its queue: who edits a queue elsewhere waits for the
\* flush lock or for the processing lock.
LEMMA FrontStep ==
  ASSUME TypeOK, MainInv, OutputInv, FlushInv, [Next]_vars, NEW x \in Outputs
  PROVE  FrontInv(x)'
<1> USE DEF mixing, link
<1>1. /\ mixer[x].pkt # None =>
            mixer[x].at = "mix" /\ queue[x] # <<>> /\ Head(queue[x]) = mixer[x].pkt
      /\ mixer[x].at = "mix" => flushed[x] = FALSE
      /\ flushed \in [Outputs -> BOOLEAN]
      /\ queue \in [Outputs -> Seq(Packets)]
      /\ mixer \in [Outputs -> [at : {"idle", "lock", "mix", "unlock", "erase"},
                                pkt : Packets \cup {None}]]
  BY DEF FlushInv, FrontInv, TypeOK
<1>2. CASE mixer'[x] = mixer[x] /\ queue'[x] = queue[x] /\ flushed'[x] = flushed[x]
  BY <1>1, <1>2 DEF FrontInv
<1>3. CASE \E o \in Outputs : PushToPendingQueue(o)
  <2>1. PICK o \in Outputs : PushToPendingQueue(o)
    BY <1>3
  <2>2. /\ queue' = [queue EXCEPT ![o] = Append(@, main.pkt)] /\ UNCHANGED <<mixer, flushed>>
        /\ main.pkt \in Packets
    BY <2>1, Shape, AudioAssumption DEF PushToPendingQueue, MainInv, Packets
  <2>3. queue[x] # <<>> => queue'[x] # <<>> /\ Head(queue'[x]) = Head(queue[x])
    BY <1>1, <2>2
  <2>4. QED
    BY <1>1, <2>2, <2>3 DEF FrontInv
<1>4. CASE \E o \in Outputs : FlushPendingQueue(o)
  <2>1. PICK o \in Outputs : FlushPendingQueue(o)
    BY <1>4
  <2>2. CASE o = x
    <3>1. mixer' = mixer /\ mixer[x].at # "mix"
      BY <2>1, <2>2 DEF FlushPendingQueue, FlushLockFree
    <3>2. QED
      BY <1>1, <3>1 DEF FrontInv
  <2>3. CASE o # x
    BY Zenon, <1>1, <1>2, <2>1, <2>3 DEF FlushPendingQueue
  <2>4. QED
    BY <2>2, <2>3
<1>5. CASE \E o \in Outputs : UnlinkTrack(o)
  <2>1. PICK o \in Outputs : UnlinkTrack(o)
    BY <1>5
  <2>2. CASE o = x
    <3>1. mixer' = mixer /\ mixer[x].at # "mix"
      BY <2>1, <2>2 DEF UnlinkTrack
    <3>2. QED
      BY <1>1, <3>1 DEF FrontInv
  <2>3. CASE o # x
    BY <1>1, <1>2, <2>1, <2>3 DEF UnlinkTrack
  <2>4. QED
    BY <2>2, <2>3
<1>6. CASE \E o \in Outputs : ProcessThunk(o) \/ LinkErased(o)
  <2>1. PICK o \in Outputs : ProcessThunk(o) \/ LinkErased(o)
    BY <1>6
  <2>2. CASE o = x
    <3>1. mixer[x].at # "mix" /\ \E s \in {"lock", "erase", "idle"} : mixer' = [mixer EXCEPT ![x].at = s]
      BY <2>1, <2>2 DEF ProcessThunk, LinkErased
    <3>2. mixer'[x].pkt = mixer[x].pkt /\ mixer'[x].at # "mix"
      BY <1>1, <3>1
    <3>3. QED
      BY <1>1, <3>1, <3>2 DEF FrontInv
  <2>3. CASE o # x
    <3>1. mixer'[x] = mixer[x] /\ queue'[x] = queue[x] /\ flushed' = flushed
      BY <1>1, <2>1, <2>3 DEF ProcessThunk, LinkErased
    <3>2. QED
      BY <1>2, <3>1
  <2>4. QED
    BY <2>2, <2>3
<1>7. CASE \E o \in Outputs : LockPendingQueueFront(o)
  <2>1. PICK o \in Outputs : LockPendingQueueFront(o)
    BY <1>7
  <2>2. CASE o = x
    <3>1. /\ mixer'[x].at = "mix" /\ queue' = queue
          /\ mixer'[x].pkt = IF queue[x] = <<>> THEN None ELSE Head(queue[x])
      BY <1>1, <2>1, <2>2 DEF LockPendingQueueFront
    <3>2. flushed'[x] = FALSE
      BY <1>1, <2>1, <2>2, Zenon DEF LockPendingQueueFront
    <3>3. QED
      BY <3>1, <3>2 DEF FrontInv
  <2>3. CASE o # x
    <3>1. mixer'[x] = mixer[x] /\ queue' = queue /\ flushed'[x] = flushed[x]
      BY Zenon, <1>1, <2>1, <2>3 DEF LockPendingQueueFront
    <3>2. QED
      BY <1>2, <3>1
  <2>4. QED
    BY <2>2, <2>3
<1>8. CASE \E o \in Outputs : ConsumeFront(o) \/ KeepFront(o)
  <2>1. PICK o \in Outputs : ConsumeFront(o) \/ KeepFront(o)
    BY <1>8
  <2>2. CASE o = x
    <3>1. mixer'[x].pkt = None /\ mixer'[x].at # "mix"
      <4>1. CASE ConsumeFront(o)
        BY <1>1, <2>2, <4>1 DEF ConsumeFront
      <4>2. CASE KeepFront(o)
        BY <1>1, <2>2, <4>2 DEF KeepFront
      <4>3. QED
        BY <2>1, <4>1, <4>2
    <3>2. QED
      BY <3>1 DEF FrontInv
  <2>3. CASE o # x
    <3>1. mixer'[x] = mixer[x] /\ queue'[x] = queue[x] /\ flushed' = flushed
      BY Zenon, <1>1, <2>1, <2>3 DEF ConsumeFront, KeepFront
    <3>2. QED
      BY <1>2, <3>1
  <2>4. QED
    BY <2>2, <2>3
<1>9. CASE \E t \in Threads : SchedulePacketCleanup(t)
  <2>1. PICK t \in Threads : SchedulePacketCleanup(t)
    BY <1>9
  <2>2. UNCHANGED <<queue, flushed>>
    BY <2>1 DEF SchedulePacketCleanup
  <2>3. \/ mixer'[x] = mixer[x]
        \/ mixer[x].at = "unlock" /\ mixer'[x].at = "lock" /\ mixer'[x].pkt = mixer[x].pkt
    BY <1>1, <2>1, Shape DEF SchedulePacketCleanup
  <2>4. QED
    BY Zenon, <1>1, <1>2, <2>2, <2>3 DEF FrontInv
<1>10. CASE UNCHANGED vars
  BY Zenon, <1>2, <1>10 DEF vars
<1>11. CASE \/ Configure \/ OnPacketReceived \/ OnFlushRequested \/ TrackShutdown \/ ServerShutdown
            \/ DoPacketCleanup \/ PacketPushed \/ FlushDone \/ ShutdownDone
            \/ \E t \in Threads : ReleaseQueue(t)
            \/ \E o \in Outputs : \/ FinishShutdownSelf(o) \/ BeginShutdown(o)
                                  \/ SelectOutput(o) \/ ShutdownSelf(o)
  BY Zenon, <1>2, <1>11 DEF Configure, OnPacketReceived, OnFlushRequested, TrackShutdown, ServerShutdown,
     DoPacketCleanup, PacketPushed, FlushDone, ShutdownDone, ReleaseQueue, FinishShutdownSelf,
     BeginShutdown, SelectOutput, ShutdownSelf
<1>12. QED
  BY <1>3, <1>4, <1>5, <1>6, <1>7, <1>8, <1>9, <1>10, <1>11, StepCases

\* The packet a mix works on came after the last flush.
LEMMA MixedIsNew ==
  ASSUME TypeOK, FlushInv, NEW o \in Outputs, mixer[o].pkt # None
  PROVE  mixer[o].pkt > lastFlushed /\ mixer[o].pkt \in Q(o) /\ queue[o] # <<>>
<1>1. queue[o] # <<>> /\ Head(queue[o]) = mixer[o].pkt /\ queue[o] \in Seq(Packets)
  BY Shape DEF FlushInv, FrontInv
<1>2. mixer[o].pkt \in Q(o)
  <2>1. 1 \in DOMAIN queue[o] /\ Head(queue[o]) = queue[o][1]
    BY <1>1
  <2>2. QED
    BY <1>1, <2>1 DEF Q, Range
<1>3. QED
  BY <1>1, <1>2 DEF FlushInv

\* The filters stay in step with the flushes.
LEMMA FilterStep ==
  ASSUME TypeOK, MainInv, OutputInv, FlushInv, [Next]_vars, NEW x \in Outputs
  PROVE  FilterInv(x)'
<1> USE DEF tracks, mixing, link, client
<1>1. /\ FilterInv(x) /\ flushed \in [Outputs -> BOOLEAN] /\ queue \in [Outputs -> Seq(Packets)]
      /\ filter \in [Outputs -> Packets \cup {None}] /\ lastFlushed \in Nat
      /\ arrived \in Nat /\ \A p \in Packets : p \in Nat /\ p # None
      /\ trackLinks \subseteq links
      /\ main \in [at : {"idle", "configure", "receive", "flush", "shutdown"},
                   todo : SUBSET Outputs, out : Outputs \cup {NoOutput}, pkt : Packets \cup {None}]
  BY AudioAssumption DEF FlushInv, TypeOK, Packets, None
<1>2. Idle.at = "idle" /\ \A at, todo, p : Busy(at, todo, p).at = at /\ Busy(at, todo, p).todo = todo
  BY DEF Idle, Busy
\* A step that leaves the links and what belongs to them alone, and does not start
\* configuring or flushing.
<1>3. ASSUME filter'[x] = filter[x], flushed'[x] = flushed[x], lastFlushed' = lastFlushed,
             queue'[x] = queue[x] \/ queue'[x] = <<>>, x \in links' => x \in links,
             track' = "new" => track = "new",
             main'.at \in {"configure", "flush"} => main'.at = main.at /\ main'.todo = main.todo
      PROVE  FilterInv(x)'
  BY Zenon, <1>1, <1>3 DEF FilterInv
<1>4. CASE Configure
  <2>1. track = "new" /\ UNCHANGED <<links, filter, flushed, lastFlushed, queue>>
    BY <1>4 DEF Configure
  <2>2. main'.at # "flush"
    BY Zenon, <1>2, <1>4 DEF Configure
  <2>3. QED
    BY <1>1, <2>1, <2>2 DEF FilterInv
<1>5. CASE \E o \in Outputs : SelectOutput(o)
  <2>1. PICK o \in Outputs : SelectOutput(o)
    BY <1>5
  <2>2. /\ main.at = "configure" /\ o \in main.todo
        /\ UNCHANGED <<filter, flushed, lastFlushed, queue, track>> /\ links' \subseteq links \cup {o}
        /\ main' = Idle \/ main' = [main EXCEPT !.todo = @ \ {o}]
    BY <2>1 DEF SelectOutput, AddTrackLink, Remaining
  <2>3. track # "new"
    BY <2>2 DEF MainInv
  <2>4. CASE x = o
    <3>1. filter[x] = None
      BY <1>1, <2>2, <2>4 DEF FilterInv
    <3>2. main'.at # "flush" /\ (main'.at = "configure" => main'.todo = main.todo \ {o})
      BY Zenon, <1>1, <1>2, <2>2
    <3>3. QED
      BY <2>2, <2>3, <2>4, <3>1, <3>2 DEF FilterInv
  <2>5. CASE x # o
    <3>1. main'.at # "flush" /\ (main'.at = "configure" => main'.todo = main.todo \ {o})
      BY Zenon, <1>1, <1>2, <2>2
    <3>2. QED
      BY <1>1, <2>2, <2>3, <2>5, <3>1 DEF FilterInv
  <2>6. QED
    BY <2>4, <2>5
<1>6. CASE OnFlushRequested
  <2>1. /\ main'.at = "flush" /\ main'.todo = trackLinks /\ track = "configured" /\ track' = track
        /\ UNCHANGED <<links, filter, flushed, lastFlushed, queue>>
    BY <1>2, <1>6 DEF OnFlushRequested
  <2>2. links = trackLinks
    BY <2>1 DEF OutputInv
  <2>3. QED
    BY Zenon, <1>1, <2>1, <2>2 DEF FilterInv
<1>7. CASE \E o \in Outputs : FlushPendingQueue(o)
  <2>1. PICK o \in Outputs : FlushPendingQueue(o)
    BY <1>7
  <2>2. /\ main.at = "flush" /\ main' = [main EXCEPT !.todo = @ \ {o}]
        /\ UNCHANGED <<links, filter, lastFlushed, track>>
        /\ queue' = [queue EXCEPT ![o] = <<>>] /\ flushed' = [flushed EXCEPT ![o] = TRUE]
    BY <2>1 DEF FlushPendingQueue
  <2>3. track # "new" /\ main'.at = "flush" /\ main'.todo = main.todo \ {o}
    BY <1>1, <2>2 DEF MainInv
  <2>4. CASE x = o
    <3>1. flushed'[x] = TRUE /\ queue'[x] = <<>>
      BY <1>1, <2>2, <2>4
    <3>2. QED
      BY <2>2, <2>3, <3>1 DEF FilterInv
  <2>5. CASE x # o
    <3>1. flushed'[x] = flushed[x] /\ queue'[x] = queue[x]
      BY <1>1, <2>2, <2>5
    <3>2. QED
      BY <1>1, <2>2, <2>3, <2>5, <3>1 DEF FilterInv
  <2>6. QED
    BY <2>4, <2>5
<1>8. CASE FlushDone
  <2>1. /\ main.at = "flush" /\ main.todo = {} /\ main'.at = "idle"
        /\ UNCHANGED <<links, filter, flushed, queue, track>>
    BY Zenon, <1>2, <1>8 DEF FlushDone
  <2>2. track # "new"
    BY <2>1 DEF MainInv
  <2>3. QED
    BY <1>1, <2>1, <2>2 DEF FilterInv
<1>9. CASE \E o \in Outputs : PushToPendingQueue(o)
  <2>1. PICK o \in Outputs : PushToPendingQueue(o)
    BY <1>9
  <2>2. /\ main.at = "receive" /\ UNCHANGED <<links, filter, flushed, lastFlushed, track>>
        /\ main' = [main EXCEPT !.todo = @ \ {o}]
    BY <2>1 DEF PushToPendingQueue
  <2>3. track # "new" /\ main'.at = "receive"
    BY <1>1, <2>2 DEF MainInv
  <2>4. QED
    BY <1>1, <2>2, <2>3 DEF FilterInv
<1>10. CASE \E o \in Outputs : LockPendingQueueFront(o)
  <2>1. PICK o \in Outputs : LockPendingQueueFront(o)
    BY <1>10
  <2>2. UNCHANGED <<tracks, main, queue, lastFlushed>>
    BY Zenon, <2>1 DEF LockPendingQueueFront
  <2>3. CASE x = o
    <3>1. x \in links
      BY <2>1, <2>3 DEF LockPendingQueueFront, OutputInv
    <3>2. filter'[x] = IF flushed[x] = TRUE THEN None ELSE filter[x]
      BY Zenon, <1>1, <2>1, <2>3 DEF LockPendingQueueFront, ResetFilter
    <3>3. QED
      BY <1>1, <2>2, <3>1, <3>2 DEF FilterInv
  <2>4. CASE x # o
    <3>1. filter'[x] = filter[x] /\ flushed'[x] = flushed[x]
      BY Zenon, <1>1, <2>1, <2>4 DEF LockPendingQueueFront, ResetFilter
    <3>2. QED
      BY Zenon, <1>3, <2>2, <3>1
  <2>5. QED
    BY <2>3, <2>4
<1>11. CASE \E o \in Outputs : ConsumeFront(o) \/ KeepFront(o)
  <2>1. PICK o \in Outputs : ConsumeFront(o) \/ KeepFront(o)
    BY <1>11
  <2>2. UNCHANGED <<tracks, main, flushed, lastFlushed>> /\ mixer[o].at = "mix"
    BY <2>1 DEF ConsumeFront, KeepFront
  <2>3. CASE x = o /\ mixer[o].pkt # None
    <3>1. x \in links
      BY Zenon, <2>2, <2>3 DEF OutputInv
    <3>2. mixer[x].pkt > lastFlushed /\ mixer[x].pkt \in Packets /\ queue[x] # <<>>
      BY Zenon, <2>3, MixedIsNew, Shape
    <3>3. filter'[x] = mixer[x].pkt \/ filter'[x] = filter[x]
      BY Zenon, <1>1, <2>1, <2>3 DEF ConsumeFront, KeepFront
    <3>4. ~(main.at = "flush" /\ x \in links \ main.todo)
      BY <1>1, <3>2 DEF FilterInv
    <3>5. lastFlushed \in Nat /\ Packets \subseteq Nat /\ None = 0
      BY DEF TypeOK, Packets, None
    <3>6. filter'[x] # None /\ filter'[x] <= lastFlushed => filter'[x] = filter[x]
      <4>1. PICK p \in Packets : p = mixer[x].pkt /\ p > lastFlushed
        BY Zenon, <3>2
      <4>2. ~(p <= lastFlushed)
        BY <3>5, <4>1
      <4>3. QED
        BY Zenon, <3>3, <4>1, <4>2
    <3>7. ~(track = "new" \/ (main.at = "configure" /\ x \in main.todo))
      BY Zenon, <1>1, <3>1 DEF FilterInv
    <3>8. QED
      BY Zenon, <1>1, <2>2, <3>1, <3>4, <3>6, <3>7 DEF FilterInv, tracks
  <2>4. CASE ~(x = o /\ mixer[o].pkt # None)
    <3>1. filter'[x] = filter[x] /\ queue'[x] = queue[x]
      BY Zenon, <1>1, <2>1, <2>4 DEF ConsumeFront, KeepFront
    <3>2. QED
      BY <1>3, <2>2, <3>1
  <2>5. QED
    BY <2>3, <2>4
<1>12. CASE \E o \in Outputs : UnlinkTrack(o)
  <2>1. PICK o \in Outputs : UnlinkTrack(o)
    BY <1>12
  <2>2. /\ main' = [main EXCEPT !.out = NoOutput] /\ links' \subseteq links
        /\ UNCHANGED <<filter, flushed, lastFlushed, track>>
        /\ queue' = [queue EXCEPT ![o] = <<>>]
    BY <2>1 DEF UnlinkTrack
  <2>3. queue'[x] = queue[x] \/ queue'[x] = <<>>
    BY <1>1, <2>2
  <2>4. main'.at = main.at /\ main'.todo = main.todo
    BY <1>1, <2>2
  <2>5. QED
    BY <1>3, <2>2, <2>3, <2>4
<1>13. CASE \E o \in Outputs : ProcessThunk(o)
  <2>1. /\ links' \subseteq links /\ UNCHANGED <<main, filter, flushed, lastFlushed, track>>
        /\ queue'[x] = queue[x] \/ queue'[x] = <<>>
    BY <1>1, <1>13 DEF ProcessThunk
  <2>2. QED
    BY <1>3, <2>1
<1>14. CASE OnPacketReceived \/ TrackShutdown \/ ServerShutdown \/ PacketPushed \/ ShutdownDone
  <2>1. /\ UNCHANGED <<links, filter, flushed, lastFlushed, queue>> /\ (track' = "new" => track = "new")
    BY Zenon, <1>14 DEF OnPacketReceived, TrackShutdown, ServerShutdown, PacketPushed, ShutdownDone
  <2>2. main'.at \notin {"configure", "flush"} \/ main' = main
    <3>1. CASE OnPacketReceived
      BY <1>2, <3>1 DEF OnPacketReceived
    <3>2. CASE TrackShutdown \/ ServerShutdown
      BY <1>2, <3>2 DEF TrackShutdown, ServerShutdown
    <3>3. CASE PacketPushed \/ ShutdownDone
      BY <1>2, <3>3 DEF PacketPushed, ShutdownDone
    <3>4. QED
      BY <1>14, <3>1, <3>2, <3>3
  <2>3. QED
    BY <1>3, <2>1, <2>2
<1>15. CASE \E o \in Outputs : FinishShutdownSelf(o) \/ BeginShutdown(o)
  <2>1. PICK o \in Outputs : FinishShutdownSelf(o) \/ BeginShutdown(o)
    BY <1>15
  <2>2. UNCHANGED <<tracks, filter, flushed, lastFlushed, queue>>
    BY <2>1 DEF FinishShutdownSelf, BeginShutdown
  <2>3. main'.at = "shutdown" \/ main' = main
    <3>1. CASE FinishShutdownSelf(o)
      BY Zenon, <1>2, <3>1 DEF FinishShutdownSelf
    <3>2. CASE BeginShutdown(o)
      BY <1>1, <3>2 DEF BeginShutdown
    <3>3. QED
      BY <2>1, <3>1, <3>2
  <2>4. QED
    BY <1>3, <2>2, <2>3
<1>16. CASE UNCHANGED vars
  BY Zenon, <1>3, <1>16 DEF vars
<1>17. CASE \/ DoPacketCleanup \/ \E t \in Threads : ReleaseQueue(t) \/ SchedulePacketCleanup(t)
            \/ \E o \in Outputs : LinkErased(o) \/ ShutdownSelf(o)
  BY Zenon, <1>3, <1>17 DEF DoPacketCleanup, ReleaseQueue, SchedulePacketCleanup, LinkErased, ShutdownSelf
<1>18. QED
  BY <1>4, <1>5, <1>6, <1>7, <1>8, <1>9, <1>10, <1>11, <1>12, <1>13, <1>14, <1>15, <1>16, <1>17, StepCases

\* What is queued came after the last flush.
LEMMA FlushStep ==
  ASSUME TypeOK, TypeOK', MainInv, MainInv', OutputInv, RunInv, FlushInv, [Next]_vars
  PROVE  FlushInv'
<1> USE DEF client, packets, link
<1>1. /\ lastFlushed <= arrived /\ (main.at = "receive" => lastFlushed < arrived)
      /\ \A o \in Outputs : \A p \in Q(o) : p > lastFlushed
      /\ lastFlushed \in Nat /\ arrived \in Nat
  BY DEF FlushInv, TypeOK
<1>2. \A o \in Outputs : FrontInv(o)' /\ FilterInv(o)'
  BY FrontStep, FilterStep
<1>3. ASSUME lastFlushed' <= arrived', main'.at = "receive" => lastFlushed' < arrived',
             \A o \in Outputs : \A p \in Q(o)' : p > lastFlushed'
      PROVE  FlushInv'
  BY <1>2, <1>3 DEF FlushInv
<1>4. CASE FlushDone
  <2>1. /\ main.at = "flush" /\ main.todo = {} /\ lastFlushed' = arrived /\ arrived' = arrived
        /\ queue' = queue /\ main'.at = "idle"
    BY Zenon, <1>4 DEF FlushDone, Idle, Busy
  <2>2. \A o \in Outputs : queue[o] = <<>>
    BY Zenon, <2>1 DEF FlushInv, FilterInv, OutputInv
  <2>3. \A o \in Outputs : Q(o)' = {}
    BY Zenon, <2>1, <2>2, NoRun DEF Q
  <2>4. QED
    BY <1>1, <1>3, <2>1, <2>3
<1>5. CASE lastFlushed' = lastFlushed
  <2>1. CASE Quiet \/ Answers
    <3>1. UNCHANGED <<arrived, queue>> /\ (main'.at = "receive" => main.at = "receive")
      BY <2>1 DEF Quiet, Answers, KeepsReferences, NotPushing
    <3>2. QED
      BY <1>1, <1>3, <1>5, <3>1 DEF Q
  <2>2. CASE OnPacketReceived
    <3>1. arrived' = arrived + 1 /\ queue' = queue
      BY <2>2 DEF OnPacketReceived
    <3>2. QED
      BY <1>1, <1>3, <1>5, <3>1 DEF Q
  <2>3. CASE PacketPushed
    <3>1. arrived' = arrived /\ queue' = queue /\ main'.at = "idle"
      BY <2>3 DEF PacketPushed, Idle, Busy
    <3>2. QED
      BY <1>1, <1>3, <1>5, <3>1 DEF Q
  <2>4. CASE \E o \in Outputs : PushToPendingQueue(o)
    <3>1. PICK o \in Outputs : PushToPendingQueue(o)
      BY <2>4
    <3>2. /\ main.at = "receive" /\ arrived' = arrived /\ main.pkt = arrived /\ arrived \in Packets
          /\ queue' = [queue EXCEPT ![o] = Append(@, main.pkt)] /\ o \in main.todo
      BY <3>1, Shape DEF PushToPendingQueue, MainInv, Packets
    <3>3. IsRun(queue[o], arrived - 1) /\ queue[o] \in Seq(Packets)
      BY <3>2, Shape DEF RunInv, Pushed
    <3>4. \A q : q \in Q(o)' <=> q \in Q(o) \/ q = arrived
      <4>1. queue'[o] = Append(queue[o], arrived)
        BY <3>2, Shape
      <4>2. QED
        BY <3>2, <3>3, <4>1, AppendRun DEF Q
    <3>5. \A x \in Outputs : x # o => Q(x)' = Q(x)
      BY <3>2, Shape DEF Q
    <3>6. QED
      BY <1>1, <1>3, <1>5, <3>2, <3>4, <3>5
  <2>5. CASE \E o \in Outputs, t \in Threads : MovesQueue(o, t)
    <3>1. PICK o \in Outputs, t \in Threads : MovesQueue(o, t)
      BY <2>5
    <3>2. /\ main'.at # "receive" /\ arrived' = arrived
          /\ \A x \in Outputs : queue'[x] = queue[x] \/ queue'[x] = <<>>
      BY <3>1, Shape DEF MovesQueue, NotPushing
    <3>3. QED
      BY <1>1, <1>3, <1>5, <3>2, NoRun DEF Q
  <2>6. CASE \E t \in Threads : ReleaseQueue(t) \/ SchedulePacketCleanup(t)
    <3>1. UNCHANGED <<main, arrived, queue>>
      BY <2>6 DEF ReleaseQueue, SchedulePacketCleanup
    <3>2. QED
      BY <1>1, <1>3, <1>5, <3>1 DEF Q
  <2>7. CASE \E o \in Outputs : ConsumeFront(o)
    <3>1. PICK o \in Outputs : ConsumeFront(o)
      BY <2>7
    <3>2. queue' = [queue EXCEPT ![o] = Tail(@)] /\ UNCHANGED <<main, arrived>> /\ queue[o] # <<>>
      BY <3>1 DEF ConsumeFront, FlushInv, FrontInv
    <3>3. \A q : q \in Q(o)' => q \in Q(o)
      <4>1. queue'[o] = Tail(queue[o]) /\ queue[o] \in Seq(Packets)
        BY <3>2, Shape
      <4>2. IsRun(queue[o], Pushed(o)) /\ Pushed(o) \in Nat
        BY Zenon, RunFacts DEF RunInv
      <4>3. QED
        BY <3>2, <4>1, <4>2, TailRun DEF Q
    <3>4. \A x \in Outputs : x # o => Q(x)' = Q(x)
      BY <3>2, Shape DEF Q
    <3>5. QED
      BY <1>1, <1>3, <1>5, <3>2, <3>3, <3>4
  <2>8. QED
    BY <2>1, <2>2, <2>3, <2>4, <2>5, <2>6, <2>7, EffectCases
<1>6. lastFlushed' = lastFlushed \/ FlushDone
  BY Zenon, StepCases DEF Configure, OnPacketReceived, OnFlushRequested, TrackShutdown, ServerShutdown,
     DoPacketCleanup, PacketPushed, ShutdownDone, ReleaseQueue, SchedulePacketCleanup,
     FinishShutdownSelf, BeginShutdown, SelectOutput, PushToPendingQueue, FlushPendingQueue,
     UnlinkTrack, ProcessThunk, LinkErased, LockPendingQueueFront, ConsumeFront, KeepFront,
     ShutdownSelf, vars
<1>7. QED
  BY <1>4, <1>5, <1>6

-----------------------------------------------------------------------------
(* The theorem. *)

\* When the outputs are gone nothing holds a packet, so every packet is back.
LEMMA NothingLeftStep ==
  ASSUME TypeOK, MainInv, OutputInv, RunInv, CountInv, NothingLeftBehind, [Next]_vars
  PROVE  NothingLeftBehind'
<1> USE DEF management, client, packets
<1>1. CASE server = "stopped"
  <2>1. /\ outputs = {} /\ main.at = "idle" /\ dying["main"] = None /\ main.out = NoOutput
        /\ Len(answered) = arrived /\ cleanup = <<>>
    BY <1>1 DEF MainInv, NothingLeftBehind, Dropped
  <2>2. \A t \in Threads : dying[t] = None
    BY Zenon, <2>1, Shape DEF OutputInv
  <2>3. UNCHANGED <<answered, cleanup, arrived>>
    BY Zenon, <1>1, <2>1, <2>2, StepCases DEF Configure, OnPacketReceived, OnFlushRequested, TrackShutdown,
       ServerShutdown, DoPacketCleanup, PacketPushed, FlushDone, ShutdownDone, ReleaseQueue,
       SchedulePacketCleanup, FinishShutdownSelf, BeginShutdown, SelectOutput, PushToPendingQueue,
       FlushPendingQueue, UnlinkTrack, ProcessThunk, LinkErased, LockPendingQueueFront, ConsumeFront,
       KeepFront, ShutdownSelf, MainFree, vars
  <2>4. QED
    BY <2>1, <2>3 DEF NothingLeftBehind
<1>2. CASE server # "stopped" /\ server' = "stopped"
  <2>1. ShutdownDone /\ server = "stopping" /\ AnswerPackets
    BY Zenon, <1>2, StepCases DEF Configure, OnPacketReceived, OnFlushRequested, TrackShutdown,
       ServerShutdown, DoPacketCleanup, PacketPushed, FlushDone, ShutdownDone, ReleaseQueue,
       SchedulePacketCleanup, FinishShutdownSelf, BeginShutdown, SelectOutput, PushToPendingQueue,
       FlushPendingQueue, UnlinkTrack, ProcessThunk, LinkErased, LockPendingQueueFront, ConsumeFront,
       KeepFront, ShutdownSelf, vars
  <2>2. /\ main.at = "shutdown" /\ main.out = NoOutput /\ main.todo = {} /\ arrived' = arrived
        /\ rel["main"] = <<>> /\ dying["main"] = None
    BY <2>1 DEF ShutdownDone, Dropped
  <2>3. outputs = {} /\ main.pkt = None
    <3>1. outputs \subseteq {NoOutput} /\ outputs \subseteq Outputs /\ NoOutput \notin Outputs
      BY <2>1, <2>2, AudioAssumption DEF MainInv, TypeOK, NoOutput
    <3>2. QED
      BY <2>2, <3>1 DEF MainInv
  <2>4. \A o \in Outputs : rel[o] = <<>> /\ dying[o] = None /\ queue[o] = <<>>
    BY <2>3 DEF OutputInv, TypeOK
  <2>5. /\ \A o \in Outputs : Q(o) = {}
        /\ \A t \in Threads : R(t) = {} /\ dying[t] = None
    BY <2>2, <2>4, Shape, NoRun DEF Q, R
  <2>6. Back = arrived
    <3>1. Back \in Nat /\ arrived \in Nat /\ Back <= arrived
      BY Zenon, BackCounts DEF CountInv
    <3>2. SUFFICES ASSUME Back < arrived PROVE FALSE
      BY <3>1
    <3>3. PICK p \in 1 .. arrived : p = arrived
      BY <3>1, <3>2
    <3>4. Held(p) \/ \E t \in Threads : dying[t] = p
      BY <3>2, <3>3 DEF CountInv
    <3>5. QED
      BY <2>3, <2>5, <3>4 DEF Held, None
  <2>7. answered \in Seq(Packets) /\ cleanup \in Seq(Packets)
    BY DEF TypeOK
  <2>8. answered' = answered \o cleanup /\ cleanup' = <<>>
    BY <2>1 DEF AnswerPackets
  <2>9. Len(answered') = arrived
    BY <2>6, <2>7, <2>8 DEF Back
  <2>10. QED
    BY <2>2, <2>8, <2>9 DEF NothingLeftBehind
<1>3. QED
  BY <1>1, <1>2 DEF NothingLeftBehind

\* At the start nothing has arrived and nothing is linked.
LEMMA InitIInv == Init => IInv
<1> SUFFICES ASSUME Init PROVE IInv
  OBVIOUS
<1>1. /\ Idle.at = "idle" /\ Idle.out = NoOutput /\ Idle.pkt = None /\ Idle.todo = {}
      /\ Idle \in [at : {"idle", "configure", "receive", "flush", "shutdown"},
                   todo : SUBSET Outputs, out : Outputs \cup {NoOutput}, pkt : Packets \cup {None}]
  BY Zenon DEF Idle, Busy
<1>2. /\ server = "running" /\ outputs \subseteq Outputs /\ finish = {} /\ track = "new"
      /\ trackLinks = {} /\ links = {} /\ main = Idle /\ cleanup = <<>> /\ answered = <<>>
      /\ arrived = 0 /\ lastFlushed = 0 /\ flushes = 0
  BY DEF Init
<1>3. /\ \A o \in Outputs : /\ mixer[o].at = "idle" /\ mixer[o].pkt = None /\ filter[o] = None
                            /\ queue[o] = <<>>
      /\ \A t \in Threads : rel[t] = <<>> /\ dying[t] = None
      /\ \A p \in Packets : result[p] = "CONSUMED" /\ owing[p] = {}
  BY DEF Init
<1>4. MainOK
  <2>1. shuttingDown \in [Outputs -> BOOLEAN]
    BY Zenon DEF Init
  <2>2. QED
    BY <1>1, <1>2, <2>1 DEF MainOK
<1>5. MixerOK
  <2>1. flushed \in [Outputs -> BOOLEAN]
    BY Zenon DEF Init
  <2>2. /\ mixer \in [Outputs -> [at : {"idle", "lock", "mix", "unlock", "erase"},
                                  pkt : Packets \cup {None}]]
        /\ filter \in [Outputs -> Packets \cup {None}]
    BY DEF Init
  <2>3. queue \in [Outputs -> Seq(Packets)]
    BY NoRun DEF Init
  <2>4. QED
    BY <2>1, <2>2, <2>3 DEF MixerOK
<1>6. PacketOK
  <2>1. scheduled \in BOOLEAN
    BY Zenon DEF Init
  <2>2. /\ result \in [Packets -> {"CONSUMED", "FLUSHED"}] /\ owing \in [Packets -> SUBSET Outputs]
        /\ dying \in [Threads -> Packets \cup {None}] /\ rel \in [Threads -> Seq(Packets)]
    BY NoRun DEF Init
  <2>3. QED
    BY <1>2, <2>1, <2>2, NoRun, AudioAssumption DEF PacketOK
<1>7. TypeOK
  BY <1>4, <1>5, <1>6, TypeSplit
<1>8. MainInv /\ OutputInv
  BY Zenon, <1>1, <1>2, <1>3, <1>7, Shape DEF MainInv, OutputInv, Dropped
<1>9. \A o \in Outputs : Q(o) = {} /\ Pushed(o) = 0
  BY Zenon, <1>1, <1>2, <1>3, NoRun DEF Q, Pushed
<1>10. \A t \in Threads : R(t) = {}
  BY Zenon, <1>3, NoRun DEF R
<1>11. RunInv
  BY <1>2, <1>3, <1>9, NoRun DEF RunInv
<1>12. ReturnedInOrder /\ Back = 0
  <2>1. answered \o cleanup = <<>> /\ Len(answered) = 0 /\ Len(cleanup) = 0
    BY <1>2
  <2>2. QED
    BY <2>1 DEF ReturnedInOrder, Back
<1>13. CountInv
  BY <1>2, <1>3, <1>12 DEF CountInv
<1>14. OwingInv /\ TodoInv
  BY Zenon, <1>1, <1>2, <1>3, <1>9, <1>10 DEF OwingInv, TodoInv, LostBy
<1>15. FlushInv /\ NothingLeftBehind
  <2>1. lastFlushed <= arrived /\ main.at # "receive"
    BY <1>1, <1>2
  <2>2. \A o \in Outputs : FrontInv(o)
    BY <1>1, <1>2, <1>3 DEF FrontInv
  <2>3. \A o \in Outputs : FilterInv(o)
    BY <1>1, <1>2, <1>3 DEF FilterInv
  <2>4. NothingLeftBehind
    BY <1>1, <1>2, <1>3 DEF NothingLeftBehind
  <2>5. QED
    BY Zenon, <1>9, <2>1, <2>2, <2>3, <2>4 DEF FlushInv
<1>16. QED
  BY <1>7, <1>8, <1>11, <1>12, <1>13, <1>14, <1>15 DEF IInv

\* The invariant is inductive.
LEMMA IInvStep ==
  ASSUME IInv, [Next]_vars
  PROVE  IInv'
<1>1. /\ TypeOK /\ MainInv /\ OutputInv /\ RunInv /\ CountInv /\ ReturnedInOrder /\ OwingInv
      /\ TodoInv /\ FlushInv /\ NothingLeftBehind
  BY DEF IInv
<1>2. TypeOK' /\ MainInv' /\ OutputInv'
  BY <1>1, TypeStep, MainStep, OutputStep
<1>3. RunInv'
  BY <1>1, <1>2, RunStep
<1>4. CountInv' /\ ReturnedInOrder' /\ OwingInv' /\ TodoInv' /\ FlushInv' /\ NothingLeftBehind'
  BY <1>1, <1>2, <1>3, CountStep, OrderStep, OwingStep, TodoStep, FlushStep, NothingLeftStep
<1>5. QED
  BY <1>2, <1>3, <1>4 DEF IInv

\* It implies that a packet that is back was consumed by all just when it says so.
LEMMA BackIsTruthful ==
  ASSUME IInv
  PROVE  ConsumedByAll
<1>1. answered \in Seq(Packets) /\ cleanup \in Seq(Packets) /\ arrived \in Nat
  BY DEF IInv, TypeOK
<1>2. TypeOK /\ CountInv /\ OwingInv /\ ReturnedInOrder
  BY DEF IInv
<1>3. SUFFICES ASSUME NEW p \in Range(answered \o cleanup)
               PROVE  result[p] = "CONSUMED" <=> owing[p] = {}
  BY DEF ConsumedByAll
<1>4. p \in Packets /\ p \in 1 .. Back
  <2>1. PICK i \in DOMAIN (answered \o cleanup) : p = (answered \o cleanup)[i]
    BY DEF Range
  <2>2. p = i
    BY <1>2, <2>1 DEF ReturnedInOrder
  <2>3. answered \o cleanup \in Seq(Packets) /\ Len(answered \o cleanup) = Back
    BY <1>1 DEF Back
  <2>4. PICK s \in Seq(Packets) : s = answered \o cleanup /\ Len(s) = Back
    BY Zenon, <2>3
  <2>5. i \in 1 .. Len(s) /\ p = s[i]
    BY <2>1, <2>4
  <2>6. s[i] \in Packets
    BY <2>4, <2>5
  <2>7. QED
    BY Zenon, <2>2, <2>4, <2>5, <2>6
<1>5. ~Held(p)
  <2>1. Back \in Nat /\ Back <= arrived
    BY <1>1, <1>2 DEF Back, CountInv
  <2>2. p \in 1 .. arrived /\ ~(p > Back)
    BY <1>1, <1>4, <2>1
  <2>3. QED
    BY <1>2, <2>2 DEF CountInv
<1>6. \A o \in Outputs : LostBy(p, o) <=> o \in owing[p]
  BY <1>5 DEF Held, LostBy
<1>7. (\E o \in Outputs : LostBy(p, o)) <=> result[p] = "FLUSHED"
  BY <1>2, <1>4, <1>5 DEF Held, OwingInv
<1>8. result[p] \in {"CONSUMED", "FLUSHED"} /\ owing[p] \subseteq Outputs
  BY <1>2, <1>4 DEF TypeOK
<1>9. QED
  BY <1>6, <1>7, <1>8

\* For any outputs and any number of packets and flushes: packets come back once each,
\* in the order in which they arrived and with a truthful result (AudioPacketRef,
\* AudioServerImpl::SchedulePacketCleanup); a mix keeps the front of its queue and uses
\* nothing from before a flush (AudioTrackToOutputLink); and a server that has shut
\* down has answered every packet.
THEOREM PacketsAreAccountedForHolds == Spec => []PacketsAreAccountedFor
<1>1. Init => IInv
  BY InitIInv
<1>2. IInv /\ [Next]_vars => IInv'
  BY IInvStep
<1>3. IInv => PacketsAreAccountedFor
  <2>1. SUFFICES ASSUME IInv PROVE PacketsAreAccountedFor
    OBVIOUS
  <2>2. TypeOK /\ FlushInv /\ ReturnedInOrder /\ NothingLeftBehind
    BY <2>1 DEF IInv
  <2>3. FrontIsKept
    BY <2>2 DEF FrontIsKept, FlushInv, FrontInv
  <2>4. FlushSeparates
    <3>1. SUFFICES ASSUME NEW o \in Outputs, mixer[o].at = "mix", mixer[o].pkt # None
                   PROVE  /\ mixer[o].pkt > lastFlushed
                          /\ filter[o] = None \/ filter[o] > lastFlushed
      BY Zenon DEF FlushSeparates
    <3>2. mixer[o].pkt > lastFlushed
      BY <2>2, <3>1, MixedIsNew
    <3>3. flushed[o] = FALSE /\ o \in links
      BY Zenon, <2>1, <2>2, <3>1 DEF FlushInv, FrontInv, IInv, OutputInv
    <3>4. filter[o] \in Packets \cup {None} /\ lastFlushed \in Nat /\ \A p \in Packets : p \in Nat
      BY <2>2, AudioAssumption DEF TypeOK, Packets
    <3>5. QED
      BY <2>2, <3>2, <3>3, <3>4 DEF FlushInv, FilterInv
  <2>5. QED
    BY <2>1, <2>2, <2>3, <2>4, BackIsTruthful DEF PacketsAreAccountedFor
<1>4. QED
  BY <1>1, <1>2, <1>3, PTL DEF Spec
=============================================================================
