------------------------- MODULE AudioServerLemmas --------------------------
(***************************************************************************)
(* The invariants that account for the packets of an audio track, and      *)
(* those of them that stand on their own: the types, what the main loop,   *)
(* the track and the outputs are doing, and the runs of packets in the     *)
(* queues.  AudioServerProofs has the others and the theorem.              *)
(***************************************************************************)
EXTENDS AudioServer, TLAPS

\* How long the solver may work on a leaf, in seconds.
USE SMTT(30)

\* What the main loop, the track and the outputs are doing.
MainInv ==
    /\ main.out # NoOutput => main.at = "shutdown" /\ Dropped("main")
    /\ main.at = "receive" =>
           /\ main.pkt = arrived /\ arrived > 0 /\ track = "configured"
           /\ main.todo \subseteq trackLinks /\ Dropped("main")
    /\ main.at # "receive" => main.pkt = None
    /\ main.at = "configure" => track = "configured" /\ main.todo \subseteq outputs
    /\ main.at = "flush" => track = "configured"
    /\ server = "stopping" => main.at = "shutdown" /\ outputs \subseteq main.todo \cup {main.out}
    /\ server = "stopped" => outputs = {} /\ main.at = "idle" /\ Dropped("main")

OutputInv ==
    /\ track = "new" => links = {}
    /\ track = "configured" => links = trackLinks
    /\ track # "configured" => trackLinks = {}
    /\ server # "running" => track = "shut"
    /\ \A o \in Outputs :
         /\ mixer[o].at # "erase" => rel[o] = <<>>
         /\ mixer[o].at \notin {"erase", "unlock"} => dying[o] = None
         /\ mixer[o].at = "unlock" => dying[o] # None
         /\ mixer[o].at = "erase" => track = "shut"
         /\ mixer[o].at \in {"lock", "mix", "unlock"} => o \in links
         /\ o \notin outputs => mixer[o].at = "idle"
         /\ o \notin links => queue[o] = <<>>

\* q is a run of consecutive packets that ends with hi.
IsRun(q, hi) ==
    /\ Len(q) <= hi
    /\ \A i \in 1 .. Len(q) : q[i] = hi - Len(q) + i

Pushed(o) == IF main.at = "receive" /\ o \in main.todo THEN arrived - 1 ELSE arrived

RunInv ==
    /\ \A o \in Outputs : IsRun(queue[o], Pushed(o))
    /\ \A t \in Threads : IsRun(rel[t], arrived)

\* The packets in a link's queue, and those a thread is about to drop.
Q(o) == Range(queue[o])
R(t) == Range(rel[t])

\* Something keeps packet p alive.
Held(p) ==
    \/ main.pkt = p
    \/ \E o \in Outputs : p \in Q(o)
    \/ \E t \in Threads : p \in R(t)

\* The packets that are back are the first n; the others are held or have just
\* been let go of, and then the thread that did so holds all later ones.
Back == Len(answered) + Len(cleanup)

\* Thread t holds packet q, or the main loop is about to push q to it.
KeptBy(t, q) ==
    \/ q \in R(t)
    \/ t # "main" /\ (q \in Q(t) \/ q > Pushed(t))

CountInv ==
    /\ Back <= arrived
    /\ \A p \in 1 .. arrived :
           p > Back <=> Held(p) \/ \E t \in Threads : dying[t] = p
    /\ \A t \in Threads : dying[t] # None => dying[t] <= arrived
    /\ \A t \in Threads, p \in 1 .. arrived : dying[t] = p =>
           /\ ~Held(p)
           /\ \A u \in Threads : dying[u] = p => u = t
           /\ \A q \in p + 1 .. arrived : KeptBy(t, q)

\* Output o was given p and has lost it without consuming it.
LostBy(p, o) == o \in owing[p] /\ p \notin Q(o)

OwingInv ==
    /\ \A p \in Packets : p > arrived => owing[p] = {} /\ result[p] = "CONSUMED"
    /\ \A o \in Outputs : \A p \in Q(o) : o \in owing[p]
    /\ \A p \in Packets :
          (\E o \in Outputs : LostBy(p, o)) <=>
              result[p] = "FLUSHED" \/ \E t \in Threads : p \in R(t)

\* An output that is yet to get the packet owes nothing for it.
TodoInv == main.at = "receive" => \A o \in main.todo : o \notin owing[arrived]

\* The front of a queue stays put while a mix works on it.
FrontInv(o) ==
    /\ mixer[o].pkt # None =>
           mixer[o].at = "mix" /\ queue[o] # <<>> /\ Head(queue[o]) = mixer[o].pkt
    /\ mixer[o].at = "mix" => flushed[o] = FALSE

\* A filter that holds a trace of a packet from before the last flush is about to
\* be reset, and in a flush so is that of every link already flushed.
FilterInv(o) ==
    /\ track = "new" \/ (main.at = "configure" /\ o \in main.todo) =>
           o \notin links /\ filter[o] = None
    /\ o \in links /\ filter[o] # None /\ filter[o] <= lastFlushed => flushed[o] = TRUE
    /\ main.at = "flush" /\ o \in links \ main.todo =>
           queue[o] = <<>> /\ (flushed[o] = TRUE \/ filter[o] = None)

FlushInv ==
    /\ lastFlushed <= arrived /\ (main.at = "receive" => lastFlushed < arrived)
    /\ \A o \in Outputs : \A p \in Q(o) : p > lastFlushed
    /\ \A o \in Outputs : FrontInv(o) /\ FilterInv(o)

IInv == TypeOK /\ MainInv /\ OutputInv /\ RunInv /\ CountInv /\ ReturnedInOrder /\ OwingInv
        /\ TodoInv /\ FlushInv /\ NothingLeftBehind

-----------------------------------------------------------------------------
(* Runs of packets. *)

\* A run is an interval, and its members are packets.
LEMMA RunMembers ==
  ASSUME NEW q \in Seq(Packets), NEW hi \in Nat, IsRun(q, hi)
  PROVE  \A p : p \in Range(q) <=> p \in Nat /\ hi - Len(q) < p /\ p <= hi
<1>1. Len(q) \in Nat /\ DOMAIN q = 1 .. Len(q)
  OBVIOUS
<1>2. ASSUME NEW p, p \in Range(q) PROVE p \in Nat /\ hi - Len(q) < p /\ p <= hi
  <2>1. PICK i \in 1 .. Len(q) : p = q[i]
    BY <1>1, <1>2 DEF Range
  <2>2. QED
    BY <1>1, <2>1 DEF IsRun
<1>3. ASSUME NEW p \in Nat, hi - Len(q) < p, p <= hi PROVE p \in Range(q)
  <2>1. p - (hi - Len(q)) \in 1 .. Len(q)
    BY <1>1, <1>3
  <2>2. q[p - (hi - Len(q))] = p
    BY <1>1, <2>1 DEF IsRun
  <2>3. QED
    BY <1>1, <2>1, <2>2 DEF Range
<1>4. QED
  BY <1>2, <1>3

\* The references that a queue still has when its front is let go of.
LEMMA TailRun ==
  ASSUME NEW q \in Seq(Packets), NEW hi \in Nat, IsRun(q, hi), q # <<>>
  PROVE  /\ Head(q) \in Packets /\ Tail(q) \in Seq(Packets) /\ IsRun(Tail(q), hi)
         /\ Head(q) \in Range(q) /\ Head(q) \notin Range(Tail(q)) /\ Head(q) <= hi
         /\ \A p : p \in Range(Tail(q)) <=> p \in Range(q) /\ p # Head(q)
         /\ \A p \in Nat : Head(q) < p /\ p <= hi => p \in Range(Tail(q))
<1>1. /\ Len(q) \in Nat \ {0} /\ Head(q) = q[1] /\ Len(Tail(q)) = Len(q) - 1
      /\ Head(q) \in Packets /\ Tail(q) \in Seq(Packets)
      /\ \A i \in 1 .. Len(Tail(q)) : Tail(q)[i] = q[i + 1]
  OBVIOUS
<1>2. Head(q) = hi - Len(q) + 1 /\ Len(q) <= hi
  BY <1>1 DEF IsRun
<1>3. IsRun(Tail(q), hi)
  <2>1. ASSUME NEW i \in 1 .. Len(Tail(q)) PROVE Tail(q)[i] = hi - Len(Tail(q)) + i
    <3>1. i + 1 \in 1 .. Len(q) /\ i \in Nat
      BY <1>1, <2>1
    <3>2. q[i + 1] = hi - Len(q) + (i + 1)
      BY <3>1 DEF IsRun
    <3>3. QED
      BY <1>1, <2>1, <3>1, <3>2
  <2>2. QED
    BY <1>1, <1>2, <2>1 DEF IsRun
<1>4. \A p : p \in Range(q) <=> p \in Nat /\ hi - Len(q) < p /\ p <= hi
  BY RunMembers
<1>5. \A p : p \in Range(Tail(q)) <=> p \in Nat /\ hi - Len(Tail(q)) < p /\ p <= hi
  BY Zenon, <1>1, <1>3, RunMembers
<1>6. QED
  BY <1>1, <1>2, <1>3, <1>4, <1>5 DEF Packets

\* The queue of an output after the main loop has pushed the next packet.
LEMMA AppendRun ==
  ASSUME NEW q \in Seq(Packets), NEW p \in Packets, IsRun(q, p - 1)
  PROVE  /\ Append(q, p) \in Seq(Packets) /\ IsRun(Append(q, p), p)
         /\ \A r : r \in Range(Append(q, p)) <=> r \in Range(q) \/ r = p
<1>1. /\ Len(q) \in Nat /\ p \in Nat \ {0} /\ Append(q, p) \in Seq(Packets)
      /\ Len(Append(q, p)) = Len(q) + 1
      /\ \A i \in 1 .. Len(q) : Append(q, p)[i] = q[i]
      /\ Append(q, p)[Len(q) + 1] = p
  BY DEF Packets
<1>2. IsRun(Append(q, p), p)
  BY <1>1 DEF IsRun
<1>3. \A r : r \in Range(q) <=> r \in Nat /\ (p - 1) - Len(q) < r /\ r <= p - 1
  BY <1>1, RunMembers
<1>4. \A r : r \in Range(Append(q, p)) <=> r \in Nat /\ p - Len(Append(q, p)) < r /\ r <= p
  BY Zenon, <1>1, <1>2, RunMembers
<1>5. Len(q) <= p - 1
  BY DEF IsRun
<1>6. QED
  BY <1>1, <1>2, <1>3, <1>4, <1>5

\* An empty queue.
LEMMA NoRun ==
  /\ <<>> \in Seq(Packets) /\ Range(<<>>) = {}
  /\ \A hi \in Nat : IsRun(<<>>, hi)
  /\ \A q \in Seq(Packets) : Range(q) = {} => q = <<>>
<1>1. <<>> \in Seq(Packets) /\ Len(<<>>) = 0 /\ DOMAIN <<>> = {}
  OBVIOUS
<1>2. Range(<<>>) = {}
  BY <1>1 DEF Range
<1>3. \A hi \in Nat : IsRun(<<>>, hi)
  BY <1>1 DEF IsRun
<1>4. ASSUME NEW q \in Seq(Packets), q # <<>> PROVE Range(q) # {}
  <2>1. 1 \in DOMAIN q
    BY <1>4
  <2>2. QED
    BY <2>1 DEF Range
<1>5. QED
  BY <1>1, <1>2, <1>3, <1>4

-----------------------------------------------------------------------------
(* Types. *)
MainOK ==
    /\ server \in {"running", "stopping", "stopped"}
    /\ outputs \subseteq Outputs /\ finish \subseteq Outputs
    /\ track \in {"new", "configured", "shut"}
    /\ trackLinks \subseteq links /\ links \subseteq outputs
    /\ main \in [at : {"idle", "configure", "receive", "flush", "shutdown"},
                 todo : SUBSET Outputs, out : Outputs \cup {NoOutput}, pkt : Packets \cup {None}]
    /\ shuttingDown \in [Outputs -> BOOLEAN]

MixerOK ==
    /\ mixer \in [Outputs -> [at : {"idle", "lock", "mix", "unlock", "erase"},
                              pkt : Packets \cup {None}]]
    /\ filter \in [Outputs -> Packets \cup {None}]
    /\ queue \in [Outputs -> Seq(Packets)] /\ flushed \in [Outputs -> BOOLEAN]

PacketOK ==
    /\ result \in [Packets -> {"CONSUMED", "FLUSHED"}]
    /\ cleanup \in Seq(Packets) /\ scheduled \in BOOLEAN
    /\ rel \in [Threads -> Seq(Packets)]
    /\ dying \in [Threads -> Packets \cup {None}]
    /\ arrived \in 0 .. MaxPackets /\ flushes \in 0 .. MaxFlushes
    /\ answered \in Seq(Packets) /\ lastFlushed \in 0 .. MaxPackets
    /\ owing \in [Packets -> SUBSET Outputs]

\* The type invariant, by who owns the state.
LEMMA TypeSplit == TypeOK <=> MainOK /\ MixerOK /\ PacketOK
  BY DEF TypeOK, MainOK, MixerOK, PacketOK

\* The steps, one by one.
LEMMA StepCases ==
  ASSUME [Next]_vars
  PROVE  \/ Configure \/ OnPacketReceived \/ OnFlushRequested \/ TrackShutdown \/ ServerShutdown
         \/ DoPacketCleanup \/ PacketPushed \/ FlushDone \/ ShutdownDone
         \/ \E t \in Threads : ReleaseQueue(t)
         \/ \E t \in Threads : SchedulePacketCleanup(t)
         \/ \E o \in Outputs : FinishShutdownSelf(o)
         \/ \E o \in Outputs : BeginShutdown(o)
         \/ \E o \in Outputs : SelectOutput(o)
         \/ \E o \in Outputs : PushToPendingQueue(o)
         \/ \E o \in Outputs : FlushPendingQueue(o)
         \/ \E o \in Outputs : UnlinkTrack(o)
         \/ \E o \in Outputs : ProcessThunk(o)
         \/ \E o \in Outputs : LinkErased(o)
         \/ \E o \in Outputs : LockPendingQueueFront(o)
         \/ \E o \in Outputs : ConsumeFront(o)
         \/ \E o \in Outputs : KeepFront(o)
         \/ \E o \in Outputs : ShutdownSelf(o)
         \/ UNCHANGED vars
  BY DEF Next, ClientNext, MainNext, MainLocks, OutputNext, Threads

\* What the main loop's steps do to its own state is well typed.
LEMMA MainTypes ==
  ASSUME TypeOK, MainInv, OutputInv, [Next]_vars
  PROVE  MainOK'
<1> USE DEF management, tracks
<1>1. MainOK
  BY TypeSplit
<1>2. ASSUME NEW at \in {"idle", "configure", "receive", "flush", "shutdown"},
             NEW todo \in SUBSET Outputs, NEW p \in Packets \cup {None}
      PROVE  Busy(at, todo, p) \in
               [at : {"idle", "configure", "receive", "flush", "shutdown"},
                todo : SUBSET Outputs, out : Outputs \cup {NoOutput}, pkt : Packets \cup {None}]
  BY <1>2 DEF Busy
<1>3. Idle \in [at : {"idle", "configure", "receive", "flush", "shutdown"},
                todo : SUBSET Outputs, out : Outputs \cup {NoOutput}, pkt : Packets \cup {None}]
  BY <1>2 DEF Idle
<1>4. CASE UNCHANGED <<management, tracks, main>>
  BY <1>1, <1>4 DEF MainOK
<1>5. CASE Configure
  BY <1>1, <1>2, <1>3, <1>5 DEF MainOK, Configure
<1>6. CASE \E o \in Outputs : SelectOutput(o)
  <2>1. PICK o \in Outputs : SelectOutput(o)
    BY <1>6
  <2>2. o \in outputs
    BY <2>1 DEF SelectOutput, MainInv
  <2>3. main' \in [at : {"idle", "configure", "receive", "flush", "shutdown"},
                todo : SUBSET Outputs, out : Outputs \cup {NoOutput}, pkt : Packets \cup {None}]
    BY <1>1, <1>3, <2>1 DEF MainOK, SelectOutput, Remaining
  <2>4. trackLinks' \subseteq links' /\ links' \subseteq outputs'
    BY <1>1, <2>1, <2>2 DEF MainOK, SelectOutput, AddTrackLink, AddOutput
  <2>5. QED
    BY <1>1, <2>1, <2>3, <2>4 DEF MainOK, SelectOutput
<1>7. CASE OnPacketReceived
  <2>1. arrived + 1 \in Packets
    BY <1>7, TypeSplit, AudioAssumption DEF PacketOK, OnPacketReceived, Packets
  <2>2. trackLinks \in SUBSET Outputs
    BY <1>1 DEF MainOK
  <2>3. QED
    BY <1>1, <1>2, <1>7, <2>1, <2>2 DEF MainOK, OnPacketReceived
<1>8. CASE \E o \in Outputs : PushToPendingQueue(o) \/ FlushPendingQueue(o)
  BY <1>1, <1>8 DEF MainOK, PushToPendingQueue, FlushPendingQueue
<1>9. CASE PacketPushed \/ FlushDone
  BY <1>1, <1>3, <1>9 DEF MainOK, PacketPushed, FlushDone
<1>10. CASE OnFlushRequested
  BY <1>1, <1>2, <1>10 DEF MainOK, OnFlushRequested
<1>11. CASE TrackShutdown
  BY <1>1, <1>11 DEF MainOK, TrackShutdown
<1>12. CASE \E o \in Outputs : FinishShutdownSelf(o)
  BY <1>1, <1>2, <1>12 DEF MainOK, FinishShutdownSelf
<1>13. CASE ServerShutdown
  BY <1>1, <1>2, <1>13 DEF MainOK, ServerShutdown
<1>14. CASE \E o \in Outputs : BeginShutdown(o)
  <2>1. PICK o \in Outputs : BeginShutdown(o)
    BY <1>14
  <2>2. shuttingDown' \in [Outputs -> BOOLEAN]
    BY <1>1, <2>1, Zenon DEF MainOK, BeginShutdown
  <2>3. QED
    BY Zenon, <1>1, <2>1, <2>2 DEF MainOK, BeginShutdown
<1>15. CASE \E o \in Outputs : UnlinkTrack(o)
  BY <1>1, <1>15 DEF MainOK, UnlinkTrack, RemoveOutput
<1>16. CASE ShutdownDone
  BY <1>1, <1>3, <1>16 DEF MainOK, ShutdownDone
<1>17. CASE \E o \in Outputs : ProcessThunk(o)
  <2>1. PICK o \in Outputs : ProcessThunk(o)
    BY <1>17
  <2>2. ~TrackLives => trackLinks = {}
    BY DEF OutputInv, TrackLives
  <2>3. QED
    BY <1>1, <2>1, <2>2 DEF MainOK, ProcessThunk
<1>18. CASE \E o \in Outputs : ShutdownSelf(o)
  BY <1>1, <1>18 DEF MainOK, ShutdownSelf
<1>19. CASE UNCHANGED vars
  BY <1>4, <1>19 DEF vars
<1>20. CASE DoPacketCleanup \/ \E t \in Threads : ReleaseQueue(t) \/ SchedulePacketCleanup(t)
  BY Zenon, <1>4, <1>20 DEF DoPacketCleanup, ReleaseQueue, SchedulePacketCleanup
<1>21. CASE \E o \in Outputs : \/ LinkErased(o) \/ LockPendingQueueFront(o)
                              \/ ConsumeFront(o) \/ KeepFront(o)
  BY <1>4, <1>21 DEF LinkErased, LockPendingQueueFront, ConsumeFront, KeepFront
<1>22. QED
  BY <1>5, <1>6, <1>7, <1>8, <1>9, <1>10, <1>11, <1>12, <1>13, <1>14, <1>15, <1>16, <1>17,
     <1>18, <1>19, <1>20, <1>21, StepCases

\* So is what they and the outputs' threads do to the mixers and the links.
LEMMA MixerTypes ==
  ASSUME TypeOK, MainInv, FlushInv, [Next]_vars
  PROVE  MixerOK'
<1> USE DEF link, mixing
<1>1. MixerOK
  BY TypeSplit
<1>2. CASE UNCHANGED <<link, mixing>>
  BY <1>1, <1>2 DEF MixerOK
<1>3. CASE \E o \in Outputs : PushToPendingQueue(o)
  <2>1. PICK o \in Outputs : PushToPendingQueue(o)
    BY <1>3
  <2>2. main.pkt \in Packets
    <3>1. main.pkt = arrived /\ arrived > 0 /\ arrived \in 0 .. MaxPackets
      BY <2>1, TypeSplit DEF PushToPendingQueue, MainInv, PacketOK
    <3>2. QED
      BY <3>1, AudioAssumption DEF Packets
  <2>3. Append(queue[o], main.pkt) \in Seq(Packets)
    BY <1>1, <2>2 DEF MixerOK
  <2>4. QED
    BY <1>1, <2>1, <2>3 DEF MixerOK, PushToPendingQueue
<1>4. CASE \E o \in Outputs : FlushPendingQueue(o) \/ UnlinkTrack(o)
  <2>1. PICK o \in Outputs : FlushPendingQueue(o) \/ UnlinkTrack(o)
    BY <1>4
  <2>2. flushed' \in [Outputs -> BOOLEAN]
    BY <1>1, <2>1, Zenon DEF MixerOK, FlushPendingQueue, UnlinkTrack
  <2>3. queue' \in [Outputs -> Seq(Packets)]
    BY Zenon, <1>1, <2>1, NoRun DEF MixerOK, FlushPendingQueue, UnlinkTrack
  <2>4. QED
    BY <1>1, <2>1, <2>2, <2>3 DEF MixerOK, FlushPendingQueue, UnlinkTrack
<1>5. CASE \E o \in Outputs : ProcessThunk(o) \/ LinkErased(o)
  <2>1. PICK o \in Outputs : ProcessThunk(o) \/ LinkErased(o)
    BY <1>5
  <2>2. mixer' \in [Outputs -> [at : {"idle", "lock", "mix", "unlock", "erase"},
                              pkt : Packets \cup {None}]]
    <3>1. PICK x \in {"lock", "erase", "idle"} : mixer' = [mixer EXCEPT ![o].at = x]
      BY <2>1 DEF ProcessThunk, LinkErased
    <3>2. QED
      BY Zenon, <1>1, <3>1 DEF MixerOK
  <2>3. queue' \in [Outputs -> Seq(Packets)]
    BY Zenon, <1>1, <2>1, NoRun DEF MixerOK, ProcessThunk, LinkErased
  <2>4. UNCHANGED <<filter, flushed>>
    BY <2>1 DEF ProcessThunk, LinkErased
  <2>5. QED
    BY <1>1, <2>2, <2>3, <2>4 DEF MixerOK
<1>6. CASE \E o \in Outputs : LockPendingQueueFront(o)
  <2>1. PICK o \in Outputs : LockPendingQueueFront(o)
    BY <1>6
  <2>2. queue[o] # <<>> => Head(queue[o]) \in Packets
    BY <1>1 DEF MixerOK
  <2>3. QED
    BY <1>1, <2>1, <2>2 DEF MixerOK, LockPendingQueueFront, ResetFilter
<1>7. CASE \E o \in Outputs : ConsumeFront(o)
  <2>1. PICK o \in Outputs : ConsumeFront(o)
    BY <1>7
  <2>2. queue[o] # <<>>
    BY <2>1 DEF ConsumeFront, FlushInv, FrontInv
  <2>3. Tail(queue[o]) \in Seq(Packets)
    BY <1>1, <2>2 DEF MixerOK
  <2>4. QED
    BY <1>1, <2>1, <2>3 DEF MixerOK, ConsumeFront
<1>8. CASE \E o \in Outputs : KeepFront(o)
  <2>1. PICK o \in Outputs : KeepFront(o)
    BY <1>8
  <2>2. mixer' \in [Outputs -> [at : {"idle", "lock", "mix", "unlock", "erase"},
                              pkt : Packets \cup {None}]]
    BY <1>1, <2>1 DEF MixerOK, KeepFront
  <2>3. filter' \in [Outputs -> Packets \cup {None}]
    BY <1>1, <2>1 DEF MixerOK, KeepFront
  <2>4. UNCHANGED link
    BY <2>1 DEF KeepFront
  <2>5. QED
    BY <1>1, <2>2, <2>3, <2>4 DEF MixerOK
<1>9. CASE \E t \in Threads : SchedulePacketCleanup(t)
  <2>1. PICK t \in Threads : SchedulePacketCleanup(t)
    BY <1>9
  <2>2. mixer' \in [Outputs -> [at : {"idle", "lock", "mix", "unlock", "erase"},
                              pkt : Packets \cup {None}]]
    BY Zenon, <1>1, <2>1 DEF MixerOK, SchedulePacketCleanup, Threads
  <2>3. UNCHANGED <<link, filter>>
    BY <2>1 DEF SchedulePacketCleanup
  <2>4. QED
    BY <1>1, <2>2, <2>3 DEF MixerOK
<1>10. CASE UNCHANGED vars
  BY <1>2, <1>10 DEF vars
<1>11. CASE \/ Configure \/ OnPacketReceived \/ OnFlushRequested \/ TrackShutdown \/ ServerShutdown
            \/ DoPacketCleanup \/ PacketPushed \/ FlushDone \/ ShutdownDone
            \/ \E t \in Threads : ReleaseQueue(t)
            \/ \E o \in Outputs : \/ FinishShutdownSelf(o) \/ BeginShutdown(o)
                                  \/ SelectOutput(o) \/ ShutdownSelf(o)
  BY Zenon, <1>2, <1>11 DEF Configure, OnPacketReceived, OnFlushRequested, TrackShutdown, ServerShutdown,
     DoPacketCleanup, PacketPushed, FlushDone, ShutdownDone, ReleaseQueue, FinishShutdownSelf,
     BeginShutdown, SelectOutput, ShutdownSelf
<1>12. QED
  BY <1>3, <1>4, <1>5, <1>6, <1>7, <1>8, <1>9, <1>10, <1>11, StepCases

\* And what they do to the packets.
LEMMA PacketTypes ==
  ASSUME TypeOK, MainInv, [Next]_vars
  PROVE  PacketOK'
<1> USE DEF packets, client
<1>1. PacketOK /\ queue \in [Outputs -> Seq(Packets)] /\ main.pkt \in Packets \cup {None}
      /\ mixer \in [Outputs -> [at : {"idle", "lock", "mix", "unlock", "erase"},
                                pkt : Packets \cup {None}]]
  BY TypeSplit DEF MainOK, MixerOK
<1>2. CASE UNCHANGED <<packets, client>>
  BY <1>1, <1>2 DEF PacketOK
<1>3. CASE \E t \in Threads : ReleaseQueue(t)
  <2>1. PICK t \in Threads : ReleaseQueue(t)
    BY <1>3
  <2>2. Head(rel[t]) \in Packets /\ Tail(rel[t]) \in Seq(Packets)
    BY <1>1, <2>1 DEF PacketOK, ReleaseQueue
  <2>3. result' \in [Packets -> {"CONSUMED", "FLUSHED"}]
    BY <1>1, <2>1 DEF PacketOK, ReleaseQueue, SetResult
  <2>4. rel' \in [Threads -> Seq(Packets)] /\ dying' \in [Threads -> Packets \cup {None}]
    BY <1>1, <2>1, <2>2 DEF PacketOK, ReleaseQueue
  <2>5. UNCHANGED <<cleanup, scheduled, client>>
    BY <2>1 DEF ReleaseQueue
  <2>6. QED
    BY <1>1, <2>3, <2>4, <2>5 DEF PacketOK
<1>4. CASE \E t \in Threads : SchedulePacketCleanup(t)
  <2>1. PICK t \in Threads : SchedulePacketCleanup(t)
    BY <1>4
  <2>2. cleanup' \in Seq(Packets) /\ dying' \in [Threads -> Packets \cup {None}]
    <3>1. dying[t] \in Packets
      BY <1>1, <2>1 DEF PacketOK, SchedulePacketCleanup
    <3>2. QED
      BY <1>1, <2>1, <3>1 DEF PacketOK, SchedulePacketCleanup
  <2>3. scheduled' \in BOOLEAN
    BY <2>1, Zenon DEF SchedulePacketCleanup
  <2>4. UNCHANGED <<result, rel, client>>
    BY <2>1 DEF SchedulePacketCleanup
  <2>5. QED
    BY <1>1, <2>2, <2>3, <2>4 DEF PacketOK
<1>5. CASE DoPacketCleanup \/ ShutdownDone
  <2>1. CASE AnswerPackets
    <3>1. answered' \in Seq(Packets) /\ cleanup' \in Seq(Packets) /\ scheduled' \in BOOLEAN
      <4>1. scheduled' \in BOOLEAN
        BY <2>1, Zenon DEF AnswerPackets
      <4>2. answered' = answered \o cleanup /\ cleanup' = <<>>
        BY <2>1 DEF AnswerPackets
      <4>3. answered \in Seq(Packets) /\ cleanup \in Seq(Packets)
        BY <1>1 DEF PacketOK
      <4>4. QED
        BY <4>1, <4>2, <4>3
    <3>2. UNCHANGED <<result, rel, dying, arrived, flushes, lastFlushed, owing>>
      BY <1>5 DEF DoPacketCleanup, ShutdownDone
    <3>3. QED
      BY <1>1, <3>1, <3>2 DEF PacketOK
  <2>2. QED
    BY <1>2, <1>5, <2>1 DEF DoPacketCleanup, ShutdownDone
<1>6. CASE OnPacketReceived \/ OnFlushRequested \/ FlushDone
  <2>1. UNCHANGED <<packets, answered, owing>>
    BY <1>6 DEF OnPacketReceived, OnFlushRequested, FlushDone
  <2>2. arrived' \in 0 .. MaxPackets /\ lastFlushed' \in 0 .. MaxPackets
    BY <1>1, <1>6, AudioAssumption DEF PacketOK, OnPacketReceived, OnFlushRequested, FlushDone
  <2>3. flushes' \in 0 .. MaxFlushes
    BY <1>1, <1>6, AudioAssumption DEF PacketOK, OnPacketReceived, OnFlushRequested, FlushDone
  <2>4. QED
    BY <1>1, <2>1, <2>2, <2>3 DEF PacketOK
<1>7. CASE \E o \in Outputs : PushToPendingQueue(o) \/ ConsumeFront(o)
  <2>1. PICK o \in Outputs : PushToPendingQueue(o) \/ ConsumeFront(o)
    BY <1>7
  <2>2. owing' \in [Packets -> SUBSET Outputs]
    <3>1. \E p \in Packets \cup {None} : \/ owing' = [owing EXCEPT ![p] = @ \cup {o}]
                                        \/ owing' = [owing EXCEPT ![p] = @ \ {o}]
      BY Zenon, <1>1, <2>1 DEF PushToPendingQueue, ConsumeFront
    <3>2. PICK p \in Packets \cup {None} : \/ owing' = [owing EXCEPT ![p] = @ \cup {o}]
                                          \/ owing' = [owing EXCEPT ![p] = @ \ {o}]
      BY <3>1
    <3>3. owing \in [Packets -> SUBSET Outputs]
      BY <1>1 DEF PacketOK
    <3>4. CASE p \in Packets
      <4>1. owing[p] \cup {o} \in SUBSET Outputs /\ owing[p] \ {o} \in SUBSET Outputs
        BY <3>3, <3>4
      <4>2. QED
        BY <3>2, <3>3, <3>4, <4>1
    <3>5. CASE p \notin Packets
      BY <3>2, <3>3, <3>5
    <3>6. QED
      BY <3>4, <3>5
  <2>3. dying' \in [Threads -> Packets \cup {None}]
    BY Zenon, <1>1, <2>1 DEF PacketOK, PushToPendingQueue, ConsumeFront
  <2>4. UNCHANGED <<result, cleanup, scheduled, rel, arrived, flushes, answered, lastFlushed>>
    BY <2>1 DEF PushToPendingQueue, ConsumeFront
  <2>5. QED
    BY <1>1, <2>2, <2>3, <2>4 DEF PacketOK
<1>8. CASE PacketPushed
  <2>1. dying' \in [Threads -> Packets \cup {None}]
    BY Zenon, <1>1, <1>8 DEF PacketOK, PacketPushed
  <2>2. UNCHANGED <<result, cleanup, scheduled, rel, client>>
    BY <1>8 DEF PacketPushed
  <2>3. QED
    BY <1>1, <2>1, <2>2 DEF PacketOK
<1>9. CASE \E o \in Outputs : FlushPendingQueue(o) \/ UnlinkTrack(o) \/ ProcessThunk(o)
  <2>1. PICK o \in Outputs : FlushPendingQueue(o) \/ UnlinkTrack(o) \/ ProcessThunk(o)
    BY <1>9
  <2>2. rel' \in [Threads -> Seq(Packets)]
    BY Zenon, <1>1, <2>1 DEF PacketOK, FlushPendingQueue, UnlinkTrack, ProcessThunk
  <2>3. UNCHANGED <<result, cleanup, scheduled, dying, client>>
    BY <2>1 DEF FlushPendingQueue, UnlinkTrack, ProcessThunk
  <2>4. QED
    BY <1>1, <2>2, <2>3 DEF PacketOK
<1>10. CASE UNCHANGED vars
  BY <1>2, <1>10 DEF vars
<1>11. CASE \/ Configure \/ TrackShutdown \/ ServerShutdown
            \/ \E o \in Outputs : \/ FinishShutdownSelf(o) \/ BeginShutdown(o)
                                  \/ SelectOutput(o) \/ ShutdownSelf(o)
            \/ \E o \in Outputs : \/ LinkErased(o) \/ LockPendingQueueFront(o) \/ KeepFront(o)
  BY Zenon, <1>2, <1>11 DEF Configure, TrackShutdown, ServerShutdown, FinishShutdownSelf,
     BeginShutdown, SelectOutput, ShutdownSelf, LinkErased, LockPendingQueueFront, KeepFront
<1>12. QED
  BY <1>3, <1>4, <1>5, <1>6, <1>7, <1>8, <1>9, <1>10, <1>11, StepCases

\* Every step is well typed.
LEMMA TypeStep ==
  ASSUME TypeOK, MainInv, OutputInv, FlushInv, [Next]_vars
  PROVE  TypeOK'
<1>1. MainOK' /\ MixerOK' /\ PacketOK'
  BY MainTypes, MixerTypes, PacketTypes
<1>2. QED
  BY <1>1, TypeSplit, PTL

-----------------------------------------------------------------------------
(* The main loop, the track and the outputs. *)

\* What the main loop is doing stays in step with the track and the server.
LEMMA MainStep ==
  ASSUME TypeOK, MainInv, OutputInv, [Next]_vars
  PROVE  MainInv'
<1> USE DEF management, tracks, packets, client, Dropped, None
<1>1. /\ main \in [at : {"idle", "configure", "receive", "flush", "shutdown"},
                   todo : SUBSET Outputs, out : Outputs \cup {NoOutput}, pkt : Packets \cup {None}]
      /\ NoOutput \notin Outputs /\ "main" \notin Outputs
      /\ rel \in [Threads -> Seq(Packets)] /\ dying \in [Threads -> Packets \cup {None}]
      /\ arrived \in Nat /\ outputs \subseteq Outputs /\ trackLinks \subseteq outputs
      /\ "main" \in Threads /\ server \in {"running", "stopping", "stopped"}
  BY AudioAssumption DEF TypeOK, NoOutput, Threads
<1>2. \A at, todo, p : /\ Busy(at, todo, p).at = at /\ Busy(at, todo, p).todo = todo
                       /\ Busy(at, todo, p).out = NoOutput /\ Busy(at, todo, p).pkt = p
  BY DEF Busy
<1>3. Idle.at = "idle" /\ Idle.todo = {} /\ Idle.out = NoOutput /\ Idle.pkt = None
  BY <1>2 DEF Idle
<1>4. CASE UNCHANGED <<main, track, trackLinks, outputs, server, arrived, rel, dying>>
  BY <1>4 DEF MainInv
<1>5. CASE Configure
  BY <1>1, <1>2, <1>3, <1>5 DEF MainInv, Configure, MainFree
<1>6. CASE \E o \in Outputs : SelectOutput(o)
  <2>1. PICK o \in Outputs : SelectOutput(o)
    BY <1>6
  <2>2. main' = Idle \/ main' = [main EXCEPT !.todo = @ \ {o}]
    BY <2>1 DEF SelectOutput, Remaining
  <2>3. /\ main.at = "configure" /\ track' = track
        /\ UNCHANGED <<outputs, server, arrived, rel, dying>>
    BY <2>1 DEF SelectOutput
  <2>4. QED
    BY <1>1, <1>3, <2>2, <2>3 DEF MainInv
<1>7. CASE OnPacketReceived
  BY <1>1, <1>2, <1>7 DEF MainInv, OnPacketReceived, MainFree
<1>8. CASE \E o \in Outputs : PushToPendingQueue(o)
  BY <1>1, <1>8 DEF MainInv, PushToPendingQueue
<1>9. CASE PacketPushed
  <2>1. main' = Idle /\ main.at = "receive" /\ UNCHANGED <<management, tracks>>
    BY <1>9 DEF PacketPushed
  <2>2. server = "running"
    BY <1>1, <2>1 DEF MainInv, OutputInv
  <2>3. QED
    BY <1>3, <2>1, <2>2 DEF MainInv
<1>10. CASE OnFlushRequested
  BY <1>1, <1>2, <1>10 DEF MainInv, OnFlushRequested, MainFree
<1>11. CASE \E o \in Outputs : FlushPendingQueue(o)
  <2>1. PICK o \in Outputs : FlushPendingQueue(o)
    BY <1>11
  <2>2. main.at = "flush" /\ main' = [main EXCEPT !.todo = @ \ {o}] /\ UNCHANGED <<management, tracks>>
    BY <2>1 DEF FlushPendingQueue
  <2>3. main.out = NoOutput /\ server = "running"
    BY <1>1, <2>2 DEF MainInv, OutputInv
  <2>4. QED
    BY <1>1, <2>2, <2>3 DEF MainInv
<1>12. CASE FlushDone
  <2>1. server = "running"
    BY <1>1, <1>12 DEF MainInv, OutputInv, FlushDone
  <2>2. QED
    BY <1>3, <1>12, <2>1 DEF MainInv, FlushDone
<1>13. CASE TrackShutdown
  BY <1>1, <1>13 DEF MainInv, TrackShutdown, MainFree
<1>14. CASE \E o \in Outputs : FinishShutdownSelf(o)
  BY <1>1, <1>2, <1>14 DEF MainInv, FinishShutdownSelf, MainFree
<1>15. CASE ServerShutdown
  BY <1>1, <1>2, <1>15 DEF MainInv, ServerShutdown, MainFree
<1>16. CASE \E o \in Outputs : BeginShutdown(o)
  <2>1. PICK o \in Outputs : BeginShutdown(o)
    BY <1>16
  <2>2. /\ main'.at = "shutdown" /\ main'.out = o /\ main'.todo = main.todo \ {o} /\ main'.pkt = main.pkt
        /\ main.at = "shutdown" /\ main.out = NoOutput /\ o \in main.todo /\ Dropped("main")
        /\ UNCHANGED <<server, outputs, tracks, packets, client>>
    BY <1>1, <2>1 DEF BeginShutdown
  <2>3. QED
    BY <1>1, <2>2 DEF MainInv
<1>17. CASE \E o \in Outputs : UnlinkTrack(o)
  <2>1. PICK o \in Outputs : UnlinkTrack(o)
    BY <1>17
  <2>2. /\ main.out = o /\ main' = [main EXCEPT !.out = NoOutput] /\ outputs' = outputs \ {o}
        /\ UNCHANGED <<server, track>>
    BY <2>1 DEF UnlinkTrack
  <2>3. main.at = "shutdown"
    BY <1>1, <2>2 DEF MainInv
  <2>4. QED
    BY <1>1, <2>2, <2>3 DEF MainInv
<1>18. CASE ShutdownDone
  <2>1. /\ main' = Idle /\ main.at = "shutdown" /\ main.out = NoOutput /\ main.todo = {} /\ Dropped("main")
        /\ UNCHANGED <<outputs, tracks, rel, dying, arrived>>
        /\ \/ server = "stopping" /\ server' = "stopped"
           \/ server = "running" /\ server' = "running"
    BY <1>18 DEF ShutdownDone
  <2>2. QED
    BY <1>1, <1>3, <2>1 DEF MainInv
<1>19. CASE \E o \in Outputs : ProcessThunk(o)
  <2>1. PICK o \in Outputs : ProcessThunk(o)
    BY <1>19
  <2>2. /\ rel'["main"] = rel["main"]
        /\ UNCHANGED <<main, track, trackLinks, outputs, server, arrived, dying>>
    BY <1>1, <2>1 DEF ProcessThunk
  <2>3. QED
    BY <2>2 DEF MainInv
<1>20. CASE \E o \in Outputs : ConsumeFront(o)
  <2>1. PICK o \in Outputs : ConsumeFront(o)
    BY <1>20
  <2>2. /\ dying'["main"] = dying["main"]
        /\ UNCHANGED <<main, track, trackLinks, outputs, server, arrived, rel>>
    BY <1>1, <2>1 DEF ConsumeFront
  <2>3. QED
    BY <2>2 DEF MainInv
<1>21. CASE \E t \in Threads : ReleaseQueue(t) \/ SchedulePacketCleanup(t)
  <2>1. PICK t \in Threads : ReleaseQueue(t) \/ SchedulePacketCleanup(t)
    BY <1>21
  <2>2. UNCHANGED <<main, track, trackLinks, outputs, server, arrived>>
    BY <2>1 DEF ReleaseQueue, SchedulePacketCleanup
  <2>3. rel["main"] = <<>> /\ dying["main"] = None =>
            t # "main" /\ rel'["main"] = rel["main"] /\ dying'["main"] = dying["main"]
    BY <1>1, <2>1 DEF ReleaseQueue, SchedulePacketCleanup
  <2>4. QED
    BY <2>2, <2>3 DEF MainInv
<1>22. CASE UNCHANGED vars
  BY <1>4, <1>22 DEF vars
<1>23. CASE \/ DoPacketCleanup \/ \E o \in Outputs : \/ LinkErased(o) \/ LockPendingQueueFront(o)
                                                 \/ KeepFront(o) \/ ShutdownSelf(o)
  BY <1>4, <1>23 DEF DoPacketCleanup, LinkErased, LockPendingQueueFront, KeepFront, ShutdownSelf
<1>24. QED
  BY <1>5, <1>6, <1>7, <1>8, <1>9, <1>10, <1>11, <1>12, <1>13, <1>14, <1>15, <1>16, <1>17,
     <1>18, <1>19, <1>20, <1>21, <1>22, <1>23, StepCases

\* What an output's thread is doing, beside the references it still has to drop.
MixerInv(o) ==
    /\ mixer[o].at # "erase" => rel[o] = <<>>
    /\ mixer[o].at \notin {"erase", "unlock"} => dying[o] = None
    /\ mixer[o].at = "unlock" => dying[o] # None

\* It stays in step with the track and the links.
LinkInv(o) ==
    /\ mixer[o].at = "erase" => track = "shut"
    /\ mixer[o].at \in {"lock", "mix", "unlock"} => o \in links
    /\ o \notin outputs => mixer[o].at = "idle"
    /\ o \notin links => queue[o] = <<>>

\* The track and its links stay in step.
LEMMA TrackStep ==
  ASSUME TypeOK, MainInv, OutputInv, [Next]_vars
  PROVE  /\ track' = "new" => links' = {}
         /\ track' = "configured" => links' = trackLinks'
         /\ track' # "configured" => trackLinks' = {}
         /\ server' # "running" => track' = "shut"
<1> USE DEF management, tracks
<1>1. /\ track = "new" => links = {}
      /\ track = "configured" => links = trackLinks
      /\ track # "configured" => trackLinks = {}
      /\ server # "running" => track = "shut"
      /\ track \in {"new", "configured", "shut"}
  BY DEF OutputInv, TypeOK
<1>2. CASE UNCHANGED <<server, tracks>>
  BY <1>1, <1>2
<1>3. CASE Configure \/ TrackShutdown \/ ServerShutdown
  BY <1>1, <1>3 DEF Configure, TrackShutdown, ServerShutdown, MainFree
<1>4. CASE ShutdownDone
  BY <1>1, <1>4 DEF ShutdownDone
<1>5. CASE \E o \in Outputs : SelectOutput(o)
  BY <1>1, <1>5 DEF SelectOutput, AddTrackLink, AddOutput, MainInv
<1>6. CASE \E o \in Outputs : UnlinkTrack(o)
  BY <1>1, <1>6 DEF UnlinkTrack, RemoveOutput
<1>7. CASE \E o \in Outputs : ProcessThunk(o)
  BY <1>1, <1>7 DEF ProcessThunk, TrackLives
<1>8. CASE UNCHANGED vars
  BY <1>2, <1>8 DEF vars
<1>9. CASE \/ DoPacketCleanup \/ OnPacketReceived \/ OnFlushRequested \/ PacketPushed \/ FlushDone
           \/ \E t \in Threads : ReleaseQueue(t) \/ SchedulePacketCleanup(t)
           \/ \E o \in Outputs : \/ FinishShutdownSelf(o) \/ BeginShutdown(o)
                                 \/ PushToPendingQueue(o) \/ FlushPendingQueue(o)
           \/ \E o \in Outputs : \/ LinkErased(o) \/ LockPendingQueueFront(o)
                                 \/ ConsumeFront(o) \/ KeepFront(o) \/ ShutdownSelf(o)
  BY Zenon, <1>2, <1>9 DEF DoPacketCleanup, OnPacketReceived, OnFlushRequested, PacketPushed, FlushDone,
     ReleaseQueue, SchedulePacketCleanup, FinishShutdownSelf, BeginShutdown, PushToPendingQueue,
     FlushPendingQueue, LinkErased, LockPendingQueueFront, ConsumeFront, KeepFront, ShutdownSelf
<1>10. QED
  BY <1>3, <1>4, <1>5, <1>6, <1>7, <1>8, <1>9, StepCases

\* An output's thread stays in step with the references it has to drop.
LEMMA MixerStep ==
  ASSUME TypeOK, OutputInv, MainInv, [Next]_vars, NEW x \in Outputs
  PROVE  MixerInv(x)'
<1> USE DEF mixing, packets, None
<1>1. /\ mixer \in [Outputs -> [at : {"idle", "lock", "mix", "unlock", "erase"},
                                pkt : Packets \cup {None}]]
      /\ rel \in [Threads -> Seq(Packets)] /\ dying \in [Threads -> Packets \cup {None}]
      /\ "main" \notin Outputs /\ Threads = Outputs \cup {"main"} /\ MixerInv(x)
      /\ \A p \in Packets : p # 0
  BY AudioAssumption DEF TypeOK, Threads, OutputInv, MixerInv, Packets
<1>2. CASE UNCHANGED <<mixer, rel, dying>>
  BY <1>1, <1>2 DEF MixerInv
<1>3. CASE \E t \in Threads : ReleaseQueue(t)
  <2>1. PICK t \in Threads : ReleaseQueue(t)
    BY <1>3
  <2>2. rel[t] # <<>> /\ dying[t] = None /\ mixer' = mixer
    BY <2>1 DEF ReleaseQueue
  <2>3. CASE t = x
    BY <1>1, <2>2, <2>3 DEF MixerInv
  <2>4. CASE t # x
    <3>1. rel'[x] = rel[x] /\ dying'[x] = dying[x]
      BY <1>1, <2>1, <2>4 DEF ReleaseQueue
    <3>2. QED
      BY <1>1, <2>2, <3>1 DEF MixerInv
  <2>5. QED
    BY <2>3, <2>4
<1>4. CASE \E t \in Threads : SchedulePacketCleanup(t)
  <2>1. PICK t \in Threads : SchedulePacketCleanup(t)
    BY <1>4
  <2>2. rel' = rel /\ dying' = [dying EXCEPT ![t] = None]
    BY <2>1 DEF SchedulePacketCleanup
  <2>3. CASE t = x
    <3>1. mixer'[x].at = (IF mixer[x].at = "unlock" THEN "lock" ELSE mixer[x].at)
      BY <1>1, <2>1, <2>3 DEF SchedulePacketCleanup
    <3>2. QED
      BY <1>1, <2>2, <2>3, <3>1 DEF MixerInv
  <2>4. CASE t # x
    <3>1. mixer'[x] = mixer[x]
      BY <1>1, <2>1, <2>4 DEF SchedulePacketCleanup
    <3>2. QED
      BY <1>1, <2>2, <2>4, <3>1 DEF MixerInv
  <2>5. QED
    BY <2>3, <2>4
<1>5. CASE PacketPushed
  <2>1. dying'[x] = dying[x] /\ mixer' = mixer /\ rel' = rel
    BY <1>1, <1>5 DEF PacketPushed
  <2>2. QED
    BY <1>1, <2>1 DEF MixerInv
<1>6. CASE \E o \in Outputs : FlushPendingQueue(o) \/ UnlinkTrack(o)
  <2>1. rel'[x] = rel[x] /\ UNCHANGED <<mixer, dying>>
    BY <1>1, <1>6 DEF FlushPendingQueue, UnlinkTrack
  <2>2. QED
    BY <1>1, <2>1 DEF MixerInv
<1>7. CASE \E o \in Outputs : ProcessThunk(o)
  <2>1. PICK o \in Outputs : ProcessThunk(o)
    BY <1>7
  <2>2. dying' = dying /\ mixer[o].at = "idle"
    BY <2>1 DEF ProcessThunk
  <2>3. CASE o = x
    <3>1. \/ mixer'[x].at = "lock" /\ rel' = rel
          \/ mixer'[x].at = "erase"
      BY <1>1, <2>1, <2>3 DEF ProcessThunk
    <3>2. QED
      BY <1>1, <2>2, <2>3, <3>1 DEF MixerInv
  <2>4. CASE o # x
    <3>1. mixer'[x] = mixer[x] /\ rel'[x] = rel[x]
      BY <1>1, <2>1, <2>4 DEF ProcessThunk
    <3>2. QED
      BY <1>1, <2>2, <3>1 DEF MixerInv
  <2>5. QED
    BY <2>3, <2>4
<1>8. CASE \E o \in Outputs : LinkErased(o) \/ LockPendingQueueFront(o) \/ KeepFront(o)
  <2>1. PICK o \in Outputs : LinkErased(o) \/ LockPendingQueueFront(o) \/ KeepFront(o)
    BY <1>8
  <2>2. rel' = rel /\ dying' = dying
    BY <2>1 DEF LinkErased, LockPendingQueueFront, KeepFront
  <2>3. CASE o = x
    <3>1. mixer'[x].at \in {"idle", "mix"}
      BY <1>1, <2>1, <2>3 DEF LinkErased, LockPendingQueueFront, KeepFront
    <3>2. rel[x] = <<>> /\ dying[x] = None
      BY <1>1, <2>1, <2>3 DEF LinkErased, LockPendingQueueFront, KeepFront, Dropped, MixerInv
    <3>3. QED
      BY <2>2, <3>1, <3>2 DEF MixerInv
  <2>4. CASE o # x
    <3>1. mixer'[x] = mixer[x]
      BY <1>1, <2>1, <2>4 DEF LinkErased, LockPendingQueueFront, KeepFront
    <3>2. QED
      BY <1>1, <2>2, <3>1 DEF MixerInv
  <2>5. QED
    BY <2>3, <2>4
<1>9. CASE \E o \in Outputs : ConsumeFront(o)
  <2>1. PICK o \in Outputs : ConsumeFront(o)
    BY <1>9
  <2>2. rel' = rel /\ mixer[o].at = "mix" /\ mixer[o].pkt # None
    BY <2>1 DEF ConsumeFront
  <2>3. CASE o = x
    <3>1. \/ mixer'[x].at = "unlock" /\ dying'[x] = mixer[x].pkt
          \/ mixer'[x].at = "lock" /\ dying'[x] = dying[x]
      BY <1>1, <2>1, <2>3 DEF ConsumeFront
    <3>2. QED
      BY <1>1, <2>2, <2>3, <3>1 DEF MixerInv
  <2>4. CASE o # x
    <3>1. mixer'[x] = mixer[x] /\ dying'[x] = dying[x]
      BY <1>1, <2>1, <2>4 DEF ConsumeFront
    <3>2. QED
      BY <1>1, <2>2, <3>1 DEF MixerInv
  <2>5. QED
    BY <2>3, <2>4
<1>10. CASE UNCHANGED vars
  BY <1>2, <1>10 DEF vars
<1>11. CASE \/ DoPacketCleanup \/ Configure \/ TrackShutdown \/ ServerShutdown
            \/ OnPacketReceived \/ OnFlushRequested \/ FlushDone \/ ShutdownDone
            \/ \E o \in Outputs : \/ FinishShutdownSelf(o) \/ BeginShutdown(o) \/ SelectOutput(o)
                                  \/ PushToPendingQueue(o) \/ ShutdownSelf(o)
  BY Zenon, <1>2, <1>11 DEF DoPacketCleanup, Configure, TrackShutdown, ServerShutdown, OnPacketReceived,
     OnFlushRequested, FlushDone, ShutdownDone, FinishShutdownSelf, BeginShutdown, SelectOutput,
     PushToPendingQueue, ShutdownSelf
<1>12. QED
  BY <1>3, <1>4, <1>5, <1>6, <1>7, <1>8, <1>9, <1>10, <1>11, StepCases

\* And with the track, the links and the manager's outputs.
LEMMA LinkStep ==
  ASSUME TypeOK, OutputInv, MainInv, [Next]_vars, NEW x \in Outputs
  PROVE  LinkInv(x)'
<1> USE DEF management, tracks, mixing, link
<1>1. /\ mixer \in [Outputs -> [at : {"idle", "lock", "mix", "unlock", "erase"},
                                pkt : Packets \cup {None}]]
      /\ queue \in [Outputs -> Seq(Packets)] /\ LinkInv(x)
      /\ trackLinks \subseteq links /\ links \subseteq outputs
      /\ track \in {"new", "configured", "shut"}
  BY DEF TypeOK, OutputInv, LinkInv
<1>2. CASE UNCHANGED <<mixer, track, links, outputs, queue>>
  BY <1>1, <1>2 DEF LinkInv
<1>3. CASE Configure \/ TrackShutdown \/ ServerShutdown
  BY <1>1, <1>3 DEF LinkInv, Configure, TrackShutdown, ServerShutdown
<1>4. CASE \E o \in Outputs : SelectOutput(o)
  BY <1>1, <1>4 DEF LinkInv, SelectOutput, AddTrackLink
<1>5. CASE \E o \in Outputs : PushToPendingQueue(o)
  <2>1. PICK o \in Outputs : PushToPendingQueue(o)
    BY <1>5
  <2>2. o \in links /\ UNCHANGED <<mixer, track, links, outputs>>
    BY <1>1, <2>1 DEF PushToPendingQueue, MainInv
  <2>3. x \notin links => queue'[x] = queue[x]
    BY <1>1, <2>1, <2>2 DEF PushToPendingQueue
  <2>4. QED
    BY <1>1, <2>2, <2>3 DEF LinkInv
<1>6. CASE \E o \in Outputs : FlushPendingQueue(o)
  <2>1. queue'[x] \in {queue[x], <<>>} /\ UNCHANGED <<mixer, track, links, outputs>>
    BY <1>1, <1>6 DEF FlushPendingQueue
  <2>2. QED
    BY <1>1, <2>1 DEF LinkInv
<1>7. CASE \E o \in Outputs : UnlinkTrack(o)
  <2>1. PICK o \in Outputs : UnlinkTrack(o)
    BY <1>7
  <2>2. /\ mixer[o].at = "idle" /\ links' = links \ {o} /\ outputs' = outputs \ {o}
        /\ UNCHANGED <<mixer, track>>
        /\ queue'[x] = (IF x = o THEN <<>> ELSE queue[x])
    BY <1>1, <2>1 DEF UnlinkTrack
  <2>3. QED
    BY <1>1, <2>2 DEF LinkInv
<1>8. CASE \E o \in Outputs : ProcessThunk(o)
  <2>1. PICK o \in Outputs : ProcessThunk(o)
    BY <1>8
  <2>2. o \in links /\ UNCHANGED <<track, outputs>>
    BY <2>1 DEF ProcessThunk
  <2>3. CASE o = x
    <3>1. \/ mixer'[x].at = "lock" /\ UNCHANGED <<links, queue>>
          \/ /\ mixer'[x].at = "erase" /\ track = "shut"
             /\ links' = links \ {o} /\ queue'[x] = <<>>
      BY <1>1, <2>1, <2>3 DEF ProcessThunk, TrackLives
    <3>2. QED
      BY <1>1, <2>2, <2>3, <3>1 DEF LinkInv
  <2>4. CASE o # x
    <3>1. mixer'[x] = mixer[x] /\ queue'[x] = queue[x] /\ (x \in links' <=> x \in links)
      BY <1>1, <2>1, <2>4 DEF ProcessThunk
    <3>2. QED
      BY <1>1, <2>2, <3>1 DEF LinkInv
  <2>5. QED
    BY <2>3, <2>4
<1>9. CASE \E o \in Outputs : LinkErased(o) \/ LockPendingQueueFront(o) \/ KeepFront(o) \/ ConsumeFront(o)
  <2>1. PICK o \in Outputs : LinkErased(o) \/ LockPendingQueueFront(o) \/ KeepFront(o) \/ ConsumeFront(o)
    BY <1>9
  <2>2. UNCHANGED <<track, links, outputs>>
    BY <2>1 DEF LinkErased, LockPendingQueueFront, KeepFront, ConsumeFront
  <2>3. CASE o = x
    <3>1. \/ mixer'[x].at = "idle" /\ queue' = queue
          \/ mixer[x].at \in {"lock", "mix"} /\ mixer'[x].at \in {"lock", "mix", "unlock"}
      BY <1>1, <2>1, <2>3 DEF LinkErased, LockPendingQueueFront, KeepFront, ConsumeFront
    <3>2. QED
      BY <1>1, <2>2, <3>1 DEF LinkInv
  <2>4. CASE o # x
    <3>1. mixer'[x] = mixer[x] /\ queue'[x] = queue[x]
      BY <1>1, <2>1, <2>4 DEF LinkErased, LockPendingQueueFront, KeepFront, ConsumeFront
    <3>2. QED
      BY <1>1, <2>2, <3>1 DEF LinkInv
  <2>5. QED
    BY <2>3, <2>4
<1>10. CASE \E t \in Threads : SchedulePacketCleanup(t)
  <2>1. PICK t \in Threads : SchedulePacketCleanup(t)
    BY <1>10
  <2>2. /\ UNCHANGED <<track, links, outputs, queue>>
        /\ \/ mixer'[x] = mixer[x]
           \/ mixer[x].at = "unlock" /\ mixer'[x].at = "lock"
    BY <1>1, <2>1 DEF SchedulePacketCleanup, Threads
  <2>3. QED
    BY <1>1, <2>2 DEF LinkInv
<1>11. CASE UNCHANGED vars
  BY <1>2, <1>11 DEF vars
<1>12. CASE \/ DoPacketCleanup \/ OnPacketReceived \/ OnFlushRequested \/ FlushDone \/ ShutdownDone
            \/ PacketPushed \/ \E t \in Threads : ReleaseQueue(t)
            \/ \E o \in Outputs : FinishShutdownSelf(o) \/ BeginShutdown(o) \/ ShutdownSelf(o)
  BY Zenon, <1>2, <1>12 DEF DoPacketCleanup, OnPacketReceived, OnFlushRequested, FlushDone, ShutdownDone,
     PacketPushed, ReleaseQueue, FinishShutdownSelf, BeginShutdown, ShutdownSelf
<1>13. QED
  BY <1>3, <1>4, <1>5, <1>6, <1>7, <1>8, <1>9, <1>10, <1>11, <1>12, StepCases

\* So the outputs' part of the invariant is kept.
LEMMA OutputStep ==
  ASSUME TypeOK, MainInv, OutputInv, [Next]_vars
  PROVE  OutputInv'
<1>1. \A x \in Outputs : MixerInv(x)' /\ LinkInv(x)'
  BY MixerStep, LinkStep
<1>2. QED
  BY Zenon, <1>1, TrackStep DEF OutputInv, MixerInv, LinkInv

-----------------------------------------------------------------------------
(* Queues and what threads drop are runs of packets. *)

\* Facts about the state that the proofs below share.
LEMMA Shape ==
  ASSUME TypeOK
  PROVE  /\ queue \in [Outputs -> Seq(Packets)] /\ rel \in [Threads -> Seq(Packets)]
         /\ dying \in [Threads -> Packets \cup {None}] /\ arrived \in Nat /\ arrived <= MaxPackets
         /\ "main" \notin Outputs /\ Threads = Outputs \cup {"main"}
         /\ main \in [at : {"idle", "configure", "receive", "flush", "shutdown"},
                      todo : SUBSET Outputs, out : Outputs \cup {NoOutput}, pkt : Packets \cup {None}]
         /\ mixer \in [Outputs -> [at : {"idle", "lock", "mix", "unlock", "erase"},
                                   pkt : Packets \cup {None}]]
  BY AudioAssumption DEF TypeOK, Threads

\* In a push, the packet is the last one that arrived.
LEMMA PushesLast ==
  ASSUME TypeOK, MainInv, main.at = "receive"
  PROVE  main.pkt = arrived /\ arrived \in Packets /\ arrived \in 1 .. arrived
<1>1. main.pkt = arrived /\ arrived > 0
  BY Zenon DEF MainInv
<1>2. arrived \in 0 .. MaxPackets
  BY Zenon DEF TypeOK
<1>3. MaxPackets \in Nat
  BY AudioAssumption
<1>4. QED
  BY <1>1, <1>2, <1>3 DEF Packets

\* The packets that are back are counted by a number.
LEMMA BackCounts ==
  ASSUME TypeOK
  PROVE  Back \in Nat /\ arrived \in Nat
<1>1. answered \in Seq(Packets) /\ cleanup \in Seq(Packets)
  BY Zenon DEF TypeOK
<1>2. QED
  BY <1>1, Shape DEF Back

\* The main loop is not in the middle of a push, before and after.
NotPushing == main.at # "receive" /\ main'.at # "receive" /\ arrived' = arrived

\* Where the queues end, by what the main loop does.
LEMMA PushedSame ==
  ASSUME TypeOK, MainInv,
         NotPushing \/ UNCHANGED <<main, arrived>>
  PROVE  arrived' = arrived /\ \A o \in Outputs : Pushed(o) \in Nat /\ Pushed(o)' = Pushed(o)
<1>1. arrived \in Nat /\ (main.at = "receive" => arrived > 0)
  BY Shape DEF MainInv
<1>2. QED
  BY <1>1 DEF NotPushing, Pushed

\* A step that leaves the packets and the references to them alone, ...
KeepsReferences ==
    /\ UNCHANGED <<queue, rel, dying, result, owing, arrived>>
    /\ main'.pkt = main.pkt
    /\ NotPushing \/ UNCHANGED main

Quiet == KeepsReferences /\ UNCHANGED <<answered, cleanup>>

\* ... one that answers packets, ...
Answers == KeepsReferences /\ answered' = answered \o cleanup /\ cleanup' = <<>>

\* ... and one in which thread t takes over the queue of output o to release it.
MovesQueue(o, t) ==
    /\ rel[t] = <<>> /\ dying[t] = None /\ dying[o] = None
    /\ rel' = [rel EXCEPT ![t] = queue[o]]
    /\ queue' = [queue EXCEPT ![o] = <<>>]
    /\ NotPushing /\ main.pkt = None /\ main'.pkt = None
    /\ UNCHANGED <<dying, result, owing, answered, cleanup>>

\* FlushPendingQueue, the unlinking of an output and the erasing of a dead track's
\* link take over a queue.
LEMMA MoveCases ==
  ASSUME TypeOK, MainInv, OutputInv, NEW o \in Outputs,
         FlushPendingQueue(o) \/ UnlinkTrack(o) \/ (ProcessThunk(o) /\ ~TrackLives)
  PROVE  MovesQueue(o, "main") \/ MovesQueue(o, o)
<1> USE DEF client
<1>1. /\ "main" \notin Outputs /\ NoOutput \notin Outputs
      /\ main \in [at : {"idle", "configure", "receive", "flush", "shutdown"},
                   todo : SUBSET Outputs, out : Outputs \cup {NoOutput}, pkt : Packets \cup {None}]
  BY Shape, AudioAssumption DEF NoOutput
<1>2. CASE FlushPendingQueue(o)
  <2>1. /\ main.at = "flush" /\ rel["main"] = <<>> /\ dying["main"] = None
        /\ mixer[o].at \notin {"mix", "unlock"} /\ main' = [main EXCEPT !.todo = @ \ {o}]
    BY <1>2 DEF FlushPendingQueue, Dropped, FlushLockFree
  <2>2. main.pkt = None /\ main'.pkt = None /\ main'.at = "flush"
    BY <1>1, <2>1 DEF MainInv
  <2>3. dying[o] = None
    BY <2>1 DEF MainInv, OutputInv
  <2>4. QED
    BY <1>2, <2>1, <2>2, <2>3 DEF FlushPendingQueue, MovesQueue, NotPushing
<1>3. CASE UnlinkTrack(o)
  <2>1. main.out = o /\ mixer[o].at = "idle" /\ main' = [main EXCEPT !.out = NoOutput]
    BY <1>3 DEF UnlinkTrack
  <2>2. main.at = "shutdown" /\ rel["main"] = <<>> /\ dying["main"] = None
    BY <1>1, <2>1 DEF MainInv, Dropped
  <2>3. main.pkt = None /\ main'.pkt = None /\ main'.at = "shutdown"
    BY <1>1, <2>1, <2>2 DEF MainInv
  <2>4. dying[o] = None
    BY <2>1 DEF OutputInv
  <2>5. QED
    BY <1>3, <2>2, <2>3, <2>4 DEF UnlinkTrack, MovesQueue, NotPushing
<1>4. CASE ProcessThunk(o) /\ ~TrackLives
  <2>1. mixer[o].at = "idle" /\ track = "shut" /\ main' = main
    BY <1>4 DEF ProcessThunk, TrackLives
  <2>2. main.at # "receive" /\ main.pkt = None
    BY <2>1 DEF MainInv
  <2>3. dying[o] = None /\ rel[o] = <<>>
    BY <2>1 DEF OutputInv
  <2>4. QED
    BY <1>4, <2>1, <2>2, <2>3 DEF ProcessThunk, MovesQueue, NotPushing
<1>5. QED
  BY <1>2, <1>3, <1>4

\* What the steps do to the references.
LEMMA EffectCases ==
  ASSUME TypeOK, MainInv, MainInv', OutputInv, [Next]_vars
  PROVE  \/ Quiet \/ Answers \/ OnPacketReceived \/ PacketPushed
         \/ \E o \in Outputs : PushToPendingQueue(o)
         \/ \E o \in Outputs, t \in Threads : MovesQueue(o, t)
         \/ \E t \in Threads : ReleaseQueue(t)
         \/ \E t \in Threads : SchedulePacketCleanup(t)
         \/ \E o \in Outputs : ConsumeFront(o)
<1> USE DEF link, packets, client
<1>1. ASSUME main.at # "receive", main'.at # "receive" PROVE main'.pkt = main.pkt
  BY <1>1 DEF MainInv
<1>2. /\ Idle.at = "idle" /\ \A at, todo, p : Busy(at, todo, p).at = at
  BY DEF Idle, Busy
<1>3. main \in [at : {"idle", "configure", "receive", "flush", "shutdown"},
                todo : SUBSET Outputs, out : Outputs \cup {NoOutput}, pkt : Packets \cup {None}]
  BY Shape
<1>4. CASE Configure \/ OnFlushRequested \/ TrackShutdown \/ ServerShutdown
  <2>1. main.at = "idle" /\ main'.at # "receive"
    BY <1>2, <1>4 DEF Configure, OnFlushRequested, TrackShutdown, ServerShutdown, MainFree
  <2>2. QED
    BY <1>1, <1>4, <2>1 DEF Configure, OnFlushRequested, TrackShutdown, ServerShutdown,
       Quiet, KeepsReferences, NotPushing
<1>5. CASE FlushDone
  <2>1. main.at = "flush" /\ main'.at # "receive"
    BY <1>2, <1>5 DEF FlushDone
  <2>2. QED
    BY <1>1, <1>5, <2>1 DEF FlushDone, Quiet, KeepsReferences, NotPushing
<1>6. CASE DoPacketCleanup
  BY <1>6 DEF DoPacketCleanup, AnswerPackets, Answers, KeepsReferences
<1>7. CASE ShutdownDone
  <2>1. main.at = "shutdown" /\ main'.at # "receive"
    BY <1>2, <1>7 DEF ShutdownDone
  <2>2. KeepsReferences
    BY <1>1, <1>7, <2>1 DEF ShutdownDone, KeepsReferences, NotPushing
  <2>3. QED
    BY <1>7, <2>2 DEF ShutdownDone, AnswerPackets, Answers, Quiet
<1>8. CASE \E o \in Outputs : FinishShutdownSelf(o) \/ BeginShutdown(o) \/ SelectOutput(o)
  <2>1. PICK o \in Outputs : FinishShutdownSelf(o) \/ BeginShutdown(o) \/ SelectOutput(o)
    BY <1>8
  <2>2. main.at # "receive" /\ main'.at # "receive"
    <3>1. main.at \in {"idle", "shutdown", "configure"}
      BY <2>1 DEF FinishShutdownSelf, BeginShutdown, SelectOutput, MainFree
    <3>2. \/ main' \in {main, Idle, Busy("shutdown", {o}, None)}
          \/ main' = [main EXCEPT !.out = o, !.todo = @ \ {o}]
          \/ main' = [main EXCEPT !.todo = @ \ {o}]
      BY <2>1 DEF FinishShutdownSelf, BeginShutdown, SelectOutput, Remaining
    <3>3. /\ [main EXCEPT !.out = o, !.todo = @ \ {o}].at = main.at
          /\ [main EXCEPT !.todo = @ \ {o}].at = main.at
          /\ Busy("shutdown", {o}, None).at = "shutdown"
      BY <1>2, <1>3
    <3>4. QED
      BY Zenon, <1>2, <3>1, <3>2, <3>3
  <2>3. QED
    BY <1>1, <2>1, <2>2 DEF FinishShutdownSelf, BeginShutdown, SelectOutput, Quiet, KeepsReferences,
       NotPushing
<1>9. CASE \E o \in Outputs : FlushPendingQueue(o) \/ UnlinkTrack(o)
  BY <1>9, MoveCases DEF Threads
<1>10. CASE \E o \in Outputs : ProcessThunk(o)
  <2>1. PICK o \in Outputs : ProcessThunk(o)
    BY <1>10
  <2>2. CASE TrackLives
    BY <2>1, <2>2 DEF ProcessThunk, Quiet, KeepsReferences
  <2>3. CASE ~TrackLives
    BY <2>1, <2>3, MoveCases DEF Threads
  <2>4. QED
    BY <2>2, <2>3
<1>11. CASE \E o \in Outputs : LinkErased(o) \/ LockPendingQueueFront(o) \/ KeepFront(o) \/ ShutdownSelf(o)
  BY <1>11 DEF LinkErased, LockPendingQueueFront, KeepFront, ShutdownSelf, Quiet, KeepsReferences
<1>12. CASE UNCHANGED vars
  BY <1>12 DEF vars, Quiet, KeepsReferences
<1>13. QED
  BY <1>4, <1>5, <1>6, <1>7, <1>8, <1>9, <1>10, <1>11, <1>12, StepCases

\* The runs stay runs.
LEMMA RunStep ==
  ASSUME TypeOK, TypeOK', MainInv, MainInv', OutputInv, RunInv, FlushInv, [Next]_vars
  PROVE  RunInv'
<1> USE DEF packets, client, link
<1>1. /\ \A o \in Outputs : IsRun(queue[o], Pushed(o)) /\ queue[o] \in Seq(Packets)
      /\ \A t \in Threads : IsRun(rel[t], arrived) /\ rel[t] \in Seq(Packets)
      /\ \A o \in Outputs : Pushed(o) \in Nat
      /\ arrived \in Nat
  BY Shape DEF RunInv, Pushed, MainInv
<1>2. CASE Quiet \/ Answers
  <2>1. UNCHANGED <<queue, rel, arrived>> /\ \A o \in Outputs : Pushed(o)' = Pushed(o)
    BY <1>2, PushedSame DEF Quiet, Answers, KeepsReferences
  <2>2. QED
    BY <1>1, <2>1 DEF RunInv
<1>3. CASE OnPacketReceived
  <2>1. /\ main.at = "idle" /\ track = "configured" /\ arrived' = arrived + 1
        /\ main'.at = "receive" /\ main'.todo = trackLinks /\ UNCHANGED <<queue, rel>>
        /\ rel["main"] = <<>>
    BY <1>3 DEF OnPacketReceived, MainFree, Dropped, Busy
  <2>2. \A o \in Outputs : rel[o] = <<>> /\ (o \notin trackLinks => queue[o] = <<>>)
    BY <2>1 DEF OutputInv
  <2>3. ASSUME NEW o \in Outputs PROVE IsRun(queue'[o], Pushed(o)')
    <3>1. Pushed(o) = arrived
      BY <2>1 DEF Pushed
    <3>2. CASE o \in trackLinks
      BY <1>1, <2>1, <3>1, <3>2 DEF Pushed
    <3>3. CASE o \notin trackLinks
      BY <1>1, <2>1, <2>2, <3>3, NoRun DEF Pushed
    <3>4. QED
      BY <3>2, <3>3
  <2>4. \A t \in Threads : IsRun(rel'[t], arrived')
    BY <1>1, <2>1, <2>2, NoRun DEF Threads
  <2>5. QED
    BY <2>3, <2>4 DEF RunInv
<1>4. CASE PacketPushed
  <2>1. /\ main.at = "receive" /\ main.todo = {} /\ main'.at = "idle" /\ UNCHANGED <<queue, rel, arrived>>
    BY <1>4 DEF PacketPushed, Idle, Busy
  <2>2. QED
    BY <1>1, <2>1 DEF RunInv, Pushed
<1>5. CASE \E o \in Outputs : PushToPendingQueue(o)
  <2>1. PICK o \in Outputs : PushToPendingQueue(o)
    BY <1>5
  <2>2. /\ main.at = "receive" /\ o \in main.todo /\ UNCHANGED <<rel, arrived>>
        /\ queue' = [queue EXCEPT ![o] = Append(@, arrived)] /\ arrived > 0
        /\ main'.at = "receive" /\ main'.todo = main.todo \ {o}
    BY Zenon, <2>1, Shape DEF PushToPendingQueue, MainInv
  <2>3. IsRun(queue[o], arrived - 1) /\ arrived \in Packets
    BY <1>1, <2>2, Shape DEF Pushed, Packets
  <2>4. IsRun(queue'[o], arrived)
    BY <1>1, <2>2, <2>3, Shape, AppendRun
  <2>5. ASSUME NEW x \in Outputs PROVE IsRun(queue'[x], Pushed(x)')
    <3>1. CASE x = o
      BY <2>2, <2>4, <3>1 DEF Pushed
    <3>2. CASE x # o
      <4>1. queue'[x] = queue[x] /\ Pushed(x)' = Pushed(x)
        BY <2>2, <3>2, Shape DEF Pushed
      <4>2. QED
        BY <1>1, <4>1
    <3>3. QED
      BY <3>1, <3>2
  <2>6. QED
    BY <1>1, <2>2, <2>5 DEF RunInv
<1>6. CASE \E o \in Outputs, t \in Threads : MovesQueue(o, t)
  <2>1. PICK o \in Outputs, t \in Threads : MovesQueue(o, t)
    BY <1>6
  <2>2. arrived' = arrived /\ \A x \in Outputs : Pushed(x)' = Pushed(x) /\ Pushed(x) = arrived
    BY <2>1, PushedSame DEF MovesQueue, NotPushing, Pushed
  <2>3. \A x \in Outputs : queue'[x] = queue[x] \/ queue'[x] = <<>>
    BY <2>1, Shape DEF MovesQueue
  <2>4. \A u \in Threads : rel'[u] = rel[u] \/ rel'[u] = queue[o]
    BY <2>1, Shape DEF MovesQueue
  <2>5. QED
    BY <1>1, <2>2, <2>3, <2>4, NoRun DEF RunInv
<1>7. CASE \E t \in Threads : ReleaseQueue(t)
  <2>1. PICK t \in Threads : ReleaseQueue(t)
    BY <1>7
  <2>2. rel[t] # <<>> /\ rel' = [rel EXCEPT ![t] = Tail(@)] /\ UNCHANGED <<queue, main, arrived>>
    BY <2>1 DEF ReleaseQueue
  <2>3. IsRun(Tail(rel[t]), arrived)
    BY <1>1, <2>2, TailRun
  <2>4. \A u \in Threads : rel'[u] = IF u = t THEN Tail(rel[t]) ELSE rel[u]
    BY <2>2, Shape
  <2>5. QED
    BY <1>1, <2>2, <2>3, <2>4 DEF RunInv, Pushed
<1>8. CASE \E t \in Threads : SchedulePacketCleanup(t)
  <2>1. UNCHANGED <<queue, rel, main, arrived>>
    BY <1>8 DEF SchedulePacketCleanup
  <2>2. QED
    BY <1>1, <2>1 DEF RunInv, Pushed
<1>9. CASE \E o \in Outputs : ConsumeFront(o)
  <2>1. PICK o \in Outputs : ConsumeFront(o)
    BY <1>9
  <2>2. queue' = [queue EXCEPT ![o] = Tail(@)] /\ UNCHANGED <<rel, main, arrived>> /\ queue[o] # <<>>
    BY <2>1 DEF ConsumeFront, FlushInv, FrontInv
  <2>3. IsRun(Tail(queue[o]), Pushed(o))
    BY Zenon, <1>1, <2>2, TailRun
  <2>4. \A x \in Outputs : queue'[x] = IF x = o THEN Tail(queue[o]) ELSE queue[x]
    BY <2>2, Shape
  <2>5. QED
    BY <1>1, <2>2, <2>3, <2>4 DEF RunInv, Pushed
<1>10. QED
  BY <1>2, <1>3, <1>4, <1>5, <1>6, <1>7, <1>8, <1>9, EffectCases

=============================================================================
