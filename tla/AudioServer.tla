---------------------------- MODULE AudioServer ----------------------------
(***************************************************************************)
(* The audio server: the packets of an audio track on their way through    *)
(* the links to the outputs and back to the client.                        *)
(*                                                                         *)
(* AudioServerImpl, AudioTrackImpl, AudioPipe and AudioOutputManager run   *)
(* on the server's main message loop.  Each AudioOutput mixes on a thread  *)
(* of the pool, one callback at a time.  They share AudioTrackToOutputLink *)
(* (the queue of packets a track has for an output) and the cleanup queue. *)
(*                                                                         *)
(* A packet is a counted reference held by the queues it was pushed to and *)
(* by the threads that are dropping it; whoever drops the last one         *)
(* schedules the packet for cleanup, where the main loop answers it.       *)
(*                                                                         *)
(* There is one track: tracks share nothing but the cleanup queue.  Which  *)
(* packets a mix consumes depends on the clock and is left open.           *)
(***************************************************************************)
EXTENDS Naturals, Sequences, Functions

CONSTANTS
    Outputs,        \* the outputs the manager creates
    MaxPackets,     \* bound on the packets the client sends
    MaxFlushes      \* bound on the flushes the client requests

ASSUME AudioAssumption ==
    Outputs \cap {"main", "none"} = {} /\ MaxPackets \in Nat /\ MaxFlushes \in Nat

VARIABLES
    server,         \* "running", "stopping" or "stopped"
    outputs,        \* AudioOutputManager::outputs_
    track,          \* "new", "configured" or "shut"
    trackLinks,     \* AudioTrackImpl::outputs_, a link named by its output
    main,           \* what the main loop is doing
    finish,         \* outputs for which FinishShutdownSelf is posted
    \* per output
    links,          \* the outputs whose links_ hold the track's link
    shuttingDown,   \* AudioOutput::shutting_down_
    mixer,          \* what the output's thread is doing
    filter,         \* the last packet that left a trace in the mixer's filter
    \* per link
    queue, flushed,
    \* packets
    result, cleanup, scheduled,
    rel,            \* references each thread is about to drop
    dying,          \* the packet whose last reference a thread has dropped
    \* the client
    arrived, flushes,
    answered,       \* the packets answered so far
    lastFlushed,    \* the last packet before the last completed flush
    owing           \* the outputs that got a packet and have not consumed it

management == <<server, outputs, finish, shuttingDown>>
tracks == <<track, trackLinks, links>>
link == <<queue, flushed>>
mixing == <<mixer, filter>>
packets == <<result, cleanup, scheduled, rel, dying>>
client == <<arrived, flushes, answered, lastFlushed, owing>>
vars == <<management, tracks, main, link, mixing, packets, client>>

None == 0
Packets == 1 .. MaxPackets
Threads == Outputs \cup {"main"}
NoOutput == "none"
Busy(at, todo, p) == [at |-> at, todo |-> todo, out |-> NoOutput, pkt |-> p]
Idle == Busy("idle", {}, None)

TypeOK ==
    /\ server \in {"running", "stopping", "stopped"}
    /\ outputs \subseteq Outputs /\ finish \subseteq Outputs
    /\ track \in {"new", "configured", "shut"}
    /\ trackLinks \subseteq links /\ links \subseteq outputs
    /\ main \in [at : {"idle", "configure", "receive", "flush", "shutdown"},
                 todo : SUBSET Outputs, out : Outputs \cup {NoOutput}, pkt : Packets \cup {None}]
    /\ shuttingDown \in [Outputs -> BOOLEAN]
    /\ mixer \in [Outputs -> [at : {"idle", "lock", "mix", "unlock", "erase"},
                              pkt : Packets \cup {None}]]
    /\ filter \in [Outputs -> Packets \cup {None}]
    /\ queue \in [Outputs -> Seq(Packets)] /\ flushed \in [Outputs -> BOOLEAN]
    /\ result \in [Packets -> {"CONSUMED", "FLUSHED"}]
    /\ cleanup \in Seq(Packets) /\ scheduled \in BOOLEAN
    /\ rel \in [Threads -> Seq(Packets)]
    /\ dying \in [Threads -> Packets \cup {None}]
    /\ arrived \in 0 .. MaxPackets /\ flushes \in 0 .. MaxFlushes
    /\ answered \in Seq(Packets) /\ lastFlushed \in 0 .. MaxPackets
    /\ owing \in [Packets -> SUBSET Outputs]

\* The outputs whose Init failed are not in the manager's set.
Init ==
    /\ server = "running" /\ outputs \in SUBSET Outputs /\ finish = {}
    /\ track = "new" /\ trackLinks = {} /\ links = {}
    /\ main = Idle
    /\ shuttingDown = [o \in Outputs |-> FALSE]
    /\ mixer = [o \in Outputs |-> [at |-> "idle", pkt |-> None]]
    /\ filter = [o \in Outputs |-> None]
    /\ queue = [o \in Outputs |-> <<>>] /\ flushed = [o \in Outputs |-> TRUE]
    /\ result = [p \in Packets |-> "CONSUMED"]
    /\ cleanup = <<>> /\ scheduled = FALSE
    /\ rel = [t \in Threads |-> <<>>] /\ dying = [t \in Threads |-> None]
    /\ arrived = 0 /\ flushes = 0 /\ answered = <<>> /\ lastFlushed = 0
    /\ owing = [p \in Packets |-> {}]

-----------------------------------------------------------------------------
(* References to packets and their cleanup *)

\* Nothing but the reference now dropped keeps p alive, given the queues and
\* the references the threads still hold.
LastReference(p, queues, dropping, holder) ==
    /\ holder # p
    /\ \A o \in Outputs : p \notin Range(queues[o])
    /\ \A t \in Threads : p \notin Range(dropping[t])

Dropped(t) == rel[t] = <<>> /\ dying[t] = None

SetResult(p) == [result EXCEPT ![p] = "FLUSHED"]

\* One round of the loop of ReleaseQueue.
ReleaseQueue(t) ==
    LET p == Head(rel[t])
        dropping == [rel EXCEPT ![t] = Tail(@)]
    IN /\ rel[t] # <<>> /\ dying[t] = None
       /\ result' = SetResult(p)
       /\ rel' = dropping
       /\ dying' = IF LastReference(p, queue, dropping, main.pkt)
                   THEN [dying EXCEPT ![t] = p] ELSE dying
       /\ UNCHANGED <<management, tracks, main, link, mixing, cleanup, scheduled,
                      client>>

\* Mutant of PostsCleanup: the main loop does not post a task to itself.
PostsCleanupElsewhere(t) == server = "running" /\ t # "main"

PostsCleanup(t) == server = "running"

\* ~AudioPacketRef calls SchedulePacketCleanup, on any thread.
SchedulePacketCleanup(t) ==
    /\ dying[t] # None
    /\ cleanup' = Append(cleanup, dying[t])
    /\ scheduled' = (scheduled \/ PostsCleanup(t))
    /\ dying' = [dying EXCEPT ![t] = None]
    /\ mixer' = IF t # "main" /\ mixer[t].at = "unlock"
                THEN [mixer EXCEPT ![t].at = "lock"] ELSE mixer
    /\ UNCHANGED <<management, tracks, main, link, filter, result, rel, client>>

MainFree == main.at = "idle" /\ Dropped("main") /\ server = "running"

\* Every packet in the cleanup queue is answered, ...
AnswerPackets ==
    answered' = answered \o cleanup /\ cleanup' = <<>> /\ scheduled' = FALSE

\* ... by the posted task.
DoPacketCleanup ==
    /\ MainFree /\ scheduled
    /\ AnswerPackets
    /\ UNCHANGED <<management, tracks, main, link, mixing, result, rel, dying,
                   arrived, flushes, lastFlushed, owing>>

-----------------------------------------------------------------------------
(* The track, on the main loop *)

\* Configure selects the outputs of the track one by one.
Configure ==
    /\ MainFree /\ track = "new"
    /\ track' = "configured"
    /\ main' = IF outputs = {} THEN Idle
               ELSE Busy("configure", outputs, None)
    /\ UNCHANGED <<management, trackLinks, links, link, mixing, packets, client>>

Remaining(o) ==
    IF main.todo = {o} THEN Idle ELSE [main EXCEPT !.todo = @ \ {o}]

\* A link may be refused: the output has no mixer for the track's format.
AddTrackLink(o) == ~shuttingDown[o] /\ links' = links \cup {o}

AddOutput(o) == trackLinks' = trackLinks \cup {o}

\* AddTrackLink waits for the output's processing lock.
SelectOutput(o) ==
    /\ main.at = "configure" /\ o \in main.todo /\ mixer[o].at = "idle"
    /\ \/ AddTrackLink(o) /\ AddOutput(o)
       \/ UNCHANGED <<links, trackLinks>>
    /\ main' = Remaining(o)
    /\ UNCHANGED <<management, track, link, mixing, packets, client>>

\* AudioPipe::OnPacketReceived up to the loop of AudioTrackImpl's.  For a packet that is
\* not made of whole frames, is too long or whose pts overflows it closes the pipe
\* instead; the packet reaches no queue, and from then on the client sends and flushes
\* nothing.  A client that stops does the same to the state kept here.
OnPacketReceived ==
    /\ MainFree /\ track = "configured" /\ arrived < MaxPackets
    /\ arrived' = arrived + 1
    /\ main' = Busy("receive", trackLinks, arrived + 1)
    /\ UNCHANGED <<management, tracks, link, mixing, packets, flushes, answered,
                   lastFlushed, owing>>

PushToPendingQueue(o) ==
    /\ main.at = "receive" /\ o \in main.todo
    /\ mixer[o].at # "unlock"
    /\ queue' = [queue EXCEPT ![o] = Append(@, main.pkt)]
    /\ owing' = [owing EXCEPT ![main.pkt] = @ \cup {o}]
    /\ main' = [main EXCEPT !.todo = @ \ {o}]
    /\ UNCHANGED <<management, tracks, flushed, mixing, packets, arrived, flushes,
                   answered, lastFlushed>>

\* The loop is over and the main loop's own reference goes.
PacketPushed ==
    /\ main.at = "receive" /\ main.todo = {}
    /\ dying' = IF LastReference(main.pkt, queue, rel, None)
                THEN [dying EXCEPT !["main"] = main.pkt] ELSE dying
    /\ main' = Idle
    /\ UNCHANGED <<management, tracks, link, mixing, result, cleanup, scheduled,
                   rel, client>>

OnFlushRequested ==
    /\ MainFree /\ track = "configured" /\ flushes < MaxFlushes
    /\ flushes' = flushes + 1
    /\ main' = Busy("flush", trackLinks, None)
    /\ UNCHANGED <<management, tracks, link, mixing, packets, arrived, answered,
                   lastFlushed, owing>>

\* A mix holds the link's flush lock.
FlushLockFree(o) == mixer[o].at \notin {"mix", "unlock"}

FlushPendingQueue(o) ==
    /\ main.at = "flush" /\ o \in main.todo /\ Dropped("main")
    /\ FlushLockFree(o)
    /\ rel' = [rel EXCEPT !["main"] = queue[o]]
    /\ queue' = [queue EXCEPT ![o] = <<>>]
    /\ flushed' = [flushed EXCEPT ![o] = TRUE]
    /\ main' = [main EXCEPT !.todo = @ \ {o}]
    /\ UNCHANGED <<management, tracks, mixing, result, cleanup, scheduled, dying,
                   client>>

\* Every link is flushed and the callback of the request is run.
FlushDone ==
    /\ main.at = "flush" /\ main.todo = {} /\ Dropped("main")
    /\ lastFlushed' = arrived
    /\ main' = Idle
    /\ UNCHANGED <<management, tracks, link, mixing, packets, arrived, flushes,
                   answered, owing>>

\* AudioTrackImpl::Shutdown: the connection to the client is lost.
TrackShutdown ==
    /\ MainFree /\ track # "shut"
    /\ track' = "shut" /\ trackLinks' = {}
    /\ UNCHANGED <<management, links, main, link, mixing, packets, client>>

-----------------------------------------------------------------------------
(* Shutting down outputs and the server, on the main loop *)

FinishShutdownSelf(o) ==
    /\ MainFree /\ o \in finish
    /\ finish' = finish \ {o}
    /\ main' = IF o \in outputs
               THEN Busy("shutdown", {o}, None) ELSE main
    /\ UNCHANGED <<server, outputs, shuttingDown, tracks, link, mixing, packets,
                   client>>

ServerShutdown ==
    /\ MainFree
    /\ server' = "stopping"
    /\ track' = "shut" /\ trackLinks' = {}
    /\ main' = Busy("shutdown", outputs, None)
    /\ UNCHANGED <<outputs, finish, shuttingDown, links, link, mixing, packets,
                   client>>

\* AudioOutput::Shutdown sets the flag, ...
BeginShutdown(o) ==
    /\ main.at = "shutdown" /\ main.out = NoOutput /\ o \in main.todo
    /\ Dropped("main")
    /\ shuttingDown' = [shuttingDown EXCEPT ![o] = TRUE]
    /\ main' = [main EXCEPT !.out = o, !.todo = @ \ {o}]
    /\ UNCHANGED <<server, outputs, finish, tracks, link, mixing, packets, client>>

RemoveOutput(o) == trackLinks' = trackLinks \ {o}

\* ... waits for the processing lock and unlinks the track; the link's queue
\* is released with it.
UnlinkTrack(o) ==
    /\ main.out = o /\ mixer[o].at = "idle"
    /\ links' = links \ {o} /\ RemoveOutput(o)
    /\ rel' = [rel EXCEPT !["main"] = queue[o]]
    /\ queue' = [queue EXCEPT ![o] = <<>>]
    /\ outputs' = outputs \ {o}
    /\ main' = [main EXCEPT !.out = NoOutput]
    /\ UNCHANGED <<server, finish, shuttingDown, track, flushed, mixing, result,
                   cleanup, scheduled, dying, client>>

\* The outputs are shut down; the server's last step is a cleanup of its own.
ShutdownDone ==
    /\ main.at = "shutdown" /\ main.out = NoOutput /\ main.todo = {}
    /\ Dropped("main")
    /\ main' = Idle
    /\ \/ /\ server = "stopping"
          /\ server' = "stopped"
          /\ AnswerPackets
       \/ /\ server = "running"
          /\ UNCHANGED <<server, answered, cleanup, scheduled>>
    /\ UNCHANGED <<outputs, finish, shuttingDown, tracks, link, mixing, result,
                   rel, dying, arrived, flushes, lastFlushed, owing>>

-----------------------------------------------------------------------------
(* An output, on its thread *)

HoldsTrack(o) == mixer[o].at \in {"lock", "mix", "unlock"}

\* AudioTrackToOutputLink::GetTrack: the server or a mixer keeps it alive.
TrackLives == track # "shut" \/ \E o \in Outputs : HoldsTrack(o)

\* ProcessThunk takes the processing lock; ForeachTrack takes a reference to
\* the track, or erases the link of a track that is gone.
ProcessThunk(o) ==
    /\ mixer[o].at = "idle" /\ o \in links /\ ~shuttingDown[o]
    /\ \/ /\ TrackLives
          /\ mixer' = [mixer EXCEPT ![o].at = "lock"]
          /\ UNCHANGED <<links, queue, rel>>
       \/ /\ ~TrackLives
          /\ mixer' = [mixer EXCEPT ![o].at = "erase"]
          /\ links' = links \ {o}
          /\ rel' = [rel EXCEPT ![o] = queue[o]]
          /\ queue' = [queue EXCEPT ![o] = <<>>]
    /\ UNCHANGED <<management, track, trackLinks, main, flushed, filter, result,
                   cleanup, scheduled, dying, client>>

LinkErased(o) ==
    /\ mixer[o].at = "erase" /\ Dropped(o)
    /\ mixer' = [mixer EXCEPT ![o].at = "idle"]
    /\ UNCHANGED <<management, tracks, main, link, filter, packets, client>>

\* Mutant of ResetFilter: was_flushed is ignored.
ResetFilterNever(o) == filter

\* The mixer's filter is reset when the link was flushed since the last time.
ResetFilter(o) == IF flushed[o] THEN [filter EXCEPT ![o] = None] ELSE filter

LockPendingQueueFront(o) ==
    /\ mixer[o].at = "lock"
    /\ flushed' = [flushed EXCEPT ![o] = FALSE]
    /\ filter' = ResetFilter(o)
    /\ mixer' = [mixer EXCEPT ![o] =
                    [at |-> "mix",
                     pkt |-> IF queue[o] = <<>> THEN None ELSE Head(queue[o])]]
    /\ UNCHANGED <<management, tracks, main, queue, packets, client>>

\* The mix needs no more of the packet: UnlockPendingQueueFront(&pkt, true).
ConsumeFront(o) ==
    LET p == mixer[o].pkt
        queues == [queue EXCEPT ![o] = Tail(@)]
        last == LastReference(p, queues, rel, main.pkt)
    IN /\ mixer[o].at = "mix" /\ p # None
       /\ queue' = queues
       /\ filter' = [filter EXCEPT ![o] = p]
       /\ owing' = [owing EXCEPT ![p] = @ \ {o}]
       /\ dying' = IF last THEN [dying EXCEPT ![o] = p] ELSE dying
       /\ mixer' = [mixer EXCEPT ![o] = [at |-> IF last THEN "unlock" ELSE "lock",
                                         pkt |-> None]]
       /\ UNCHANGED <<management, tracks, main, flushed, result, cleanup,
                      scheduled, rel, arrived, flushes, answered, lastFlushed>>

\* The mix is full, or there is nothing to mix: UnlockPendingQueueFront(&pkt,
\* false), and the end of Process.
KeepFront(o) ==
    /\ mixer[o].at = "mix"
    /\ \/ UNCHANGED filter
       \/ mixer[o].pkt # None /\ filter' = [filter EXCEPT ![o] = mixer[o].pkt]
    /\ mixer' = [mixer EXCEPT ![o] = [at |-> "idle", pkt |-> None]]
    /\ UNCHANGED <<management, tracks, main, link, packets, client>>

\* A Process that does not schedule the next one.
ShutdownSelf(o) ==
    /\ mixer[o].at = "idle" /\ o \in outputs /\ ~shuttingDown[o]
    /\ shuttingDown' = [shuttingDown EXCEPT ![o] = TRUE]
    /\ finish' = finish \cup {o}
    /\ UNCHANGED <<server, outputs, tracks, main, link, mixing, packets, client>>

-----------------------------------------------------------------------------
\* What the client does, by a message or by going away, and the end of the
\* server's message loop.
ClientNext ==
    Configure \/ OnPacketReceived \/ OnFlushRequested \/ TrackShutdown \/ ServerShutdown

\* Posted tasks, and the steps of a handler that wait for nothing.
MainNext ==
    \/ DoPacketCleanup \/ PacketPushed \/ FlushDone \/ ShutdownDone
    \/ ReleaseQueue("main") \/ SchedulePacketCleanup("main")
    \/ \E o \in Outputs : FinishShutdownSelf(o) \/ BeginShutdown(o)

\* The steps of a handler that need a lock an output may hold.
MainLocks ==
    \E o \in Outputs :
        SelectOutput(o) \/ PushToPendingQueue(o) \/ FlushPendingQueue(o) \/ UnlinkTrack(o)

OutputNext(o) ==
    \/ ProcessThunk(o) \/ LinkErased(o) \/ LockPendingQueueFront(o)
    \/ ConsumeFront(o) \/ KeepFront(o)
    \/ ReleaseQueue(o) \/ SchedulePacketCleanup(o)

Next ==
    \/ ClientNext \/ MainNext \/ MainLocks
    \/ \E o \in Outputs : OutputNext(o) \/ ShutdownSelf(o)

\* The main loop and the outputs' threads run on.  A lock that is free again and
\* again is taken: an output sleeps between two mixes.
Fairness ==
    /\ WF_vars(MainNext) /\ SF_vars(MainLocks)
    /\ \A o \in Outputs : WF_vars(OutputNext(o))

Spec == Init /\ [][Next]_vars /\ Fairness

-----------------------------------------------------------------------------
(* Properties *)

\* Packets come back once each and in the order in which they arrived, though
\* two mixers and the main loop drop the references to them: what the comment
\* at FlushPendingQueue's flush lock promises the client.
ReturnedInOrder ==
    \A i \in DOMAIN (answered \o cleanup) : (answered \o cleanup)[i] = i

\* A packet comes back CONSUMED exactly when every output it was queued for has
\* consumed it, whichever of a mix and a flush let go of it last (SetResult).
ConsumedByAll ==
    \A p \in Range(answered \o cleanup) :
        result[p] = "CONSUMED" <=> owing[p] = {}

\* The packet a mix works on stays at the front of its queue until the mix lets
\* go of it: the two DCHECKs of UnlockPendingQueueFront.
FrontIsKept ==
    \A o \in Outputs : mixer[o].pkt # None =>
        queue[o] # <<>> /\ Head(queue[o]) = mixer[o].pkt

\* Once a flush is answered, no mix uses a packet from before it, nor a filter
\* that still holds a trace of one (LockPendingQueueFront's was_flushed).
FlushSeparates ==
    \A o \in Outputs :
        mixer[o].at = "mix" /\ mixer[o].pkt # None /\ main.at # "flush" =>
            /\ mixer[o].pkt > lastFlushed
            /\ filter[o] = None \/ filter[o] > lastFlushed

\* A server that has shut down has answered every packet it was sent: no mixer
\* has kept one, and the cleanup queue is empty as ~AudioServerImpl asserts.
NothingLeftBehind ==
    server = "stopped" => Len(answered) = arrived /\ cleanup = <<>>

\* A flush gets every packet sent before it answered, whatever the mixers hold
\* and whatever the outputs do: it gets every link's lock, and no packet stays
\* in the cleanup queue without a task to empty it.
FlushedAreAnswered ==
    flushes > 0 ~> main.at # "flush" /\ Len(answered) >= lastFlushed

\* Packets come back in order and with a truthful result (AudioServerImpl's cleanup
\* queue, AudioPacketRef), no mix loses or reuses the front of its queue or mixes
\* across a flush (AudioTrackToOutputLink, StandardOutputBase), and after a shutdown
\* nothing is left behind.
PacketsAreAccountedFor ==
    /\ TypeOK /\ ReturnedInOrder /\ ConsumedByAll
    /\ FrontIsKept /\ FlushSeparates
    /\ NothingLeftBehind
=============================================================================
