---------------------------- MODULE MediaSource ----------------------------
(***************************************************************************)
(* The services that open an asset: MediaSourceImpl and MediaDemuxImpl,     *)
(* each a product of MediaFactoryService with a Graph of its own, and the   *)
(* FfmpegDemuxImpl they drive, whose Worker has a thread to itself.         *)
(*                                                                         *)
(* The mojo thread runs the client's calls and the tasks posted to it, one  *)
(* at a time; the worker needs it for every read of the asset.  The two     *)
(* threads meet in FfmpegDemuxImpl's mutex, in ActiveMultistreamSourceStage *)
(* (where the graph asks for packets) and in two Incidents.  An Incident    *)
(* has no lock: a When on one thread and an Occur on the other are modelled *)
(* by their separate reads and writes.                                      *)
(*                                                                         *)
(* FFmpeg, the consumers of the streams and the reader are external.        *)
(***************************************************************************)
EXTENDS Integers, Sequences, FiniteSets

CONSTANTS
    Kinds,      \* which services: "source" (MediaSourceImpl), "demux" (MediaDemuxImpl)
    Streams,    \* 1 .. n, the streams of the asset
    MaxCalls,   \* the calls the client makes
    MaxPackets, \* the packets before the end of the asset
    MaxFlushes, \* the calls of Flush among them
    MaxPushes   \* max_pushes_outstanding_ of a primed producer

ASSUME StreamsAreNumbered ==
    /\ Kinds \subseteq {"source", "demux"}
    /\ Streams = 1 .. Cardinality(Streams) /\ Streams # {}
    /\ MaxCalls \in Nat /\ MaxPackets \in Nat /\ MaxFlushes \in Nat
    /\ MaxPushes \in Nat \ {0}

VARIABLES
    kind,
    loop,       \* the mojo thread: "idle", or where it is
    tasks,      \* posted to the mojo thread
    described,  \* the Incident of the reader's Describe
    initDone,   \* FfmpegDemuxImpl::init_complete_
    complete,   \* init_complete_ of the service has occurred
    worker,     \* FfmpegDemuxImpl's thread, and what only it uses
    shared,     \* what FfmpegDemuxImpl's mutex protects
    sinks,      \* the sink of each stream; <<>> until OnDemuxInitialized
    prepared,   \* graph_.Prepare() has been called
    demand,     \* of each stream's sink, as its output knows it
    producers,  \* the MojoProducer of each stream
    signal,     \* the demand the mojo thread has computed and not yet signalled
    stage,      \* ActiveMultistreamSourceStage
    publisher,  \* MojoPublisher
    calls,      \* the client's calls
    \* history, since the last seek
    unsought,   \* there was a Flush, or a Prime after the end
    late        \* a positive demand was signalled for a stream that had ended

vars == <<kind, loop, tasks, described, initDone, complete, worker, shared, sinks,
          prepared, demand, producers, signal, stage, publisher, calls, unsought, late>>
service == <<complete, sinks, prepared, demand, producers, signal, publisher>>
history == <<unsought, late>>
demux == <<described, initDone, worker, shared, stage, history>>

n == Cardinality(Streams)
kNotSeeking == 0    \* seek_position_; otherwise the number of the call that seeks
NoSignal == [stream |-> 0, demand |-> "negative"]
DontEnd == -1       \* next_stream_to_end_: don't end; n: all streams have ended

\* The constructor of the service, up to WhenInitialized.
InitService ==
    /\ kind \in Kinds
    /\ loop = "constructing"
    /\ tasks = <<>>
    /\ complete = FALSE
    /\ sinks = <<>>
    /\ prepared = FALSE
    /\ publisher = [version |-> 1, pending |-> {}]

\* FfmpegDemuxImpl and its new thread.
InitDemux ==
    /\ initDone = [occurred |-> FALSE, waiting |-> FALSE]
    /\ worker = [at |-> "create", back |-> "create", read |-> FALSE, next |-> DontEnd,
                 made |-> 0, seek |-> kNotSeeking, pull |-> FALSE, streams |-> {}, packet |-> 0]
    /\ shared = [seek |-> kNotSeeking, requested |-> FALSE, terminating |-> FALSE]

Init ==
    /\ InitService /\ InitDemux
    /\ described = [occurred |-> FALSE, waiting |-> FALSE]
    /\ demand = [s \in Streams |-> "negative"]
    /\ producers = [s \in Streams |-> [pushes |-> 0, max |-> 0, ended |-> FALSE]]
    /\ signal = NoSignal
    /\ stage = [outstanding |-> FALSE, cached |-> 0]
    /\ calls = <<>>
    /\ unsought = FALSE /\ late = FALSE

Answer(c) == [calls EXCEPT ![c].status = "answered"]

AnswerAll(cs) == [c \in DOMAIN calls |->
    IF c \in cs THEN [calls[c] EXCEPT !.status = "answered"] ELSE calls[c]]

-----------------------------------------------------------------------------
(* The mojo thread: construction *)

\* demux_->WhenInitialized: Incident::When reads occurred_, and adds the callback later.
WhenInitialized ==
    /\ loop = "constructing"
    /\ IF initDone.occurred
       THEN tasks' = Append(tasks, [do |-> "init", call |-> 0]) /\ loop' = "idle"
       ELSE loop' = "registering" /\ UNCHANGED tasks
    /\ UNCHANGED <<kind, demux, service, calls>>

HoldConsequence ==
    /\ loop = "registering"
    /\ initDone' = [initDone EXCEPT !.waiting = TRUE]
    /\ loop' = "idle"
    /\ UNCHANGED <<kind, tasks, described, worker, shared, stage, history, service, calls>>

\* The seeking reader has answered Describe.  ReaderCache, which MediaDemuxImpl has
\* before the MojoReader, has a ThreadsafeIncident; MojoReader has an Incident.
OnReaderDescribed ==
    /\ loop = "idle" /\ ~described.occurred
    /\ IF kind = "demux"
       THEN /\ described' = [occurred |-> TRUE, waiting |-> FALSE]
            /\ worker' = IF described.waiting THEN [worker EXCEPT !.at = "opening"] ELSE worker
            /\ UNCHANGED loop
       ELSE /\ described' = [described EXCEPT !.occurred = TRUE]
            /\ loop' = "occurring"
            /\ UNCHANGED worker
    /\ UNCHANGED <<kind, tasks, initDone, shared, stage, history, service, calls>>

\* Incident::Occur takes the consequences after it has set occurred_, and runs them.
RunConsequences ==
    /\ loop = "occurring"
    /\ described' = [described EXCEPT !.waiting = FALSE]
    /\ worker' = IF described.waiting THEN [worker EXCEPT !.at = "opening"] ELSE worker
    /\ loop' = "idle"
    /\ UNCHANGED <<kind, tasks, initDone, shared, stage, history, service, calls>>

-----------------------------------------------------------------------------
(* The mojo thread: tasks *)

\* SendUpdates.
Updated(p) == [version |-> p.version + 1, pending |-> {}]

Described == {c \in DOMAIN calls : calls[c].op = "Describe"}

\* result is not looked at: without streams the service is initialised all the same.
\* MediaDemuxImpl's streams have a producer each, and its graph is prepared at once.
OnDemuxInitialized ==
    /\ sinks' = [s \in 1 .. Cardinality(worker.streams) |-> "producer"]
    /\ prepared' = TRUE
    /\ publisher' = Updated(publisher)
    /\ complete' = TRUE
    /\ calls' = AnswerAll(publisher.pending \cup Described)
    /\ UNCHANGED <<loop, worker, demand, producers, signal>>

\* MediaSourceImpl's wait for a sink, unless BuildConversionPipeline fails: abort().
OnSourceInitialized ==
    \/ /\ sinks' = [s \in 1 .. Cardinality(worker.streams) |-> "none"]
       /\ complete' = TRUE
       /\ calls' = AnswerAll(Described)
       /\ UNCHANGED <<loop, worker, prepared, publisher, demand, producers, signal>>
    \/ /\ worker.streams # {}
       /\ loop' = "crashed" /\ UNCHANGED <<worker, service, calls>>

\* MojoReader::ContinueReadAt: the read that the worker waits for ends.
ContinueReadAt ==
    /\ worker' = [worker EXCEPT !.at = worker.back]
    /\ UNCHANGED <<loop, service, calls>>

RunSeekCallback(c) ==
    /\ calls' = Answer(c)
    /\ UNCHANGED <<loop, worker, service>>

RunTask ==
    /\ loop = "idle" /\ tasks # <<>>
    /\ tasks' = Tail(tasks)
    /\ \/ Head(tasks).do = "init" /\ kind = "demux" /\ OnDemuxInitialized
       \/ Head(tasks).do = "init" /\ kind = "source" /\ OnSourceInitialized
       \/ Head(tasks).do = "read" /\ ContinueReadAt
       \/ Head(tasks).do = "seek" /\ RunSeekCallback(Head(tasks).call)
    /\ UNCHANGED <<kind, described, initDone, shared, stage, history>>

-----------------------------------------------------------------------------
(* The mojo thread: the client's calls *)

\* The product is released: its graph and FfmpegDemuxImpl go, whose destructor sets
\* terminating_ and joins the worker.
ReleaseFromOwner ==
    /\ loop' = "joining"
    /\ shared' = [shared EXCEPT !.terminating = TRUE]
    /\ UNCHANGED <<kind, tasks, described, initDone, worker, stage, history, service>>

\* The client makes a call; status is "ignored" when the call has no answer.
Call(op, status) ==
    /\ loop = "idle" /\ Len(calls) < MaxCalls
    /\ calls' = Append(calls, [op |-> op, status |-> status, left |-> 0])

\* RCHECK(init_complete_.occurred()) fails.
FailPrecondition(op) ==
    /\ ~complete
    /\ Call(op, "ignored")
    /\ ReleaseFromOwner

ConnectionError == loop = "idle" /\ ReleaseFromOwner /\ UNCHANGED calls

Joined ==
    /\ loop = "joining" /\ worker.at = "done"
    /\ loop' = "gone"
    /\ UNCHANGED <<kind, tasks, demux, service, calls>>

\* Describe and GetStreams.
Describe ==
    /\ Call("Describe", IF complete THEN "answered" ELSE "pending")
    /\ UNCHANGED <<kind, loop, tasks, demux, service>>

\* Graph::Connect: what the output was connected to is disconnected first, unless it is
\* prepared, which CHECK(false) punishes.
Connect(s, sink) ==
    IF prepared /\ sinks[s] # "none"
    THEN loop' = "crashed" /\ UNCHANGED sinks
    ELSE sinks' = [sinks EXCEPT ![s] = sink] /\ UNCHANGED loop

\* A stream of MediaDemuxImpl has its producer; the client connects it to a consumer.
GetDemuxProducer(s) ==
    /\ complete /\ kind = "demux"
    /\ Call("GetProducer", "ignored")
    /\ sinks' = [t \in DOMAIN sinks |-> IF t = s THEN "bound" ELSE sinks[t]]
    /\ UNCHANGED <<kind, loop, tasks, demux, complete, prepared, demand, producers, signal,
                   publisher>>

NoSuchStream(s) == s \notin DOMAIN sinks

GetProducer(s) ==
    /\ complete /\ kind = "source"
    /\ Call("GetProducer", "ignored")
    /\ CASE NoSuchStream(s) \/ sinks[s] = "pull" -> UNCHANGED <<sinks, loop>>
         [] ~NoSuchStream(s) /\ sinks[s] = "bound" -> UNCHANGED <<sinks, loop>>
         [] OTHER -> Connect(s, "bound")
    /\ UNCHANGED <<kind, tasks, demux, complete, prepared, demand, producers, signal, publisher>>

GetPullModeProducer(s) ==
    /\ complete /\ kind = "source"
    /\ Call("GetPullModeProducer", "ignored")
    /\ IF NoSuchStream(s) \/ sinks[s] \in {"bound", "pull"}
       THEN UNCHANGED <<sinks, loop>>
       ELSE Connect(s, "pull")
    /\ UNCHANGED <<kind, tasks, demux, complete, prepared, demand, producers, signal, publisher>>

\* A stream without a producer gets a NullSink; Graph::Connect finds the one it has.
EnsureSink(sink) == IF sink = "none" THEN "null" ELSE sink

Prepare ==
    /\ complete /\ kind = "source"
    /\ IF prepared /\ \E s \in DOMAIN sinks : sinks[s] = "null"
       THEN Call("Prepare", "ignored") /\ loop' = "crashed" /\ UNCHANGED service
       ELSE /\ loop = "idle" /\ Len(calls) < MaxCalls
            /\ calls' = Append(AnswerAll(publisher.pending),
                               [op |-> "Prepare", status |-> "answered", left |-> 0])
            /\ sinks' = [s \in DOMAIN sinks |-> EnsureSink(sinks[s])]
            /\ prepared' = TRUE
            /\ publisher' = Updated(publisher)
            /\ UNCHANGED <<loop, complete, demand, producers, signal>>
    /\ UNCHANGED <<kind, tasks, demux>>

GetStatus(version) ==
    /\ Call("GetStatus", IF version < publisher.version THEN "answered" ELSE "pending")
    /\ publisher' = IF version < publisher.version THEN publisher
                    ELSE [publisher EXCEPT !.pending = @ \cup {Len(calls) + 1}]
    /\ UNCHANGED <<kind, loop, tasks, demux, complete, sinks, prepared, demand, producers, signal>>

Bound == {s \in DOMAIN sinks : sinks[s] = "bound"}
Producers == {s \in DOMAIN sinks : sinks[s] \in {"bound", "producer"}}

\* CallbackJoiner: a child for each stream; those without a consumer complete at once.
\* WhenJoined answers the call when no child is left.
Join(op, children) ==
    /\ loop = "idle" /\ Len(calls) < MaxCalls
    /\ calls' = Append(calls, [op |-> op, left |-> Cardinality(children),
                   status |-> IF children = {} THEN "answered" ELSE "pending"])

Complete(c) ==
    /\ loop = "idle" /\ calls[c].left > 0
    /\ calls' = [calls EXCEPT ![c].left = @ - 1,
                              ![c].status = IF calls[c].left = 1 THEN "answered" ELSE @]
    /\ UNCHANGED <<kind, loop, tasks, demux, service>>

\* Demand by the pushes outstanding and their maximum.
DemandOf(p) == IF p.pushes < p.max THEN "positive" ELSE "negative"

Primed(p) == [p EXCEPT !.max = MaxPushes]

\* MojoProducer::PrimeConnection.
Prime ==
    /\ complete
    /\ Join("Prime", Bound)
    /\ producers' = [s \in Streams |-> IF s \in Bound THEN Primed(producers[s]) ELSE producers[s]]
    /\ demand' = [s \in Streams |-> IF s \in Bound THEN DemandOf(Primed(producers[s]))
                                    ELSE IF s \in Producers THEN "neutral" ELSE demand[s]]
    /\ unsought' = (unsought \/ worker.next # DontEnd)
    /\ UNCHANGED <<kind, loop, tasks, described, initDone, worker, shared, stage, complete,
                   sinks, prepared, publisher, signal, late>>

\* Graph::FlushAllOutputs, then MojoProducer::FlushConnection.
Flush ==
    /\ complete
    /\ Cardinality({c \in DOMAIN calls : calls[c].op = "Flush"}) < MaxFlushes
    /\ Join("Flush", Bound)
    /\ demand' = [s \in Streams |-> "negative"]
    /\ producers' = [s \in Streams |-> IF s \in Producers
                                       THEN [producers[s] EXCEPT !.max = 0, !.ended = FALSE]
                                       ELSE producers[s]]
    /\ stage' = IF \E s \in DOMAIN sinks : sinks[s] # "none"
                THEN [outstanding |-> FALSE, cached |-> 0] ELSE stage
    /\ unsought' = TRUE
    /\ UNCHANGED <<kind, loop, tasks, described, initDone, worker, shared, complete, sinks,
                   prepared, publisher, signal, late>>

\* The consumer of stream s has answered a packet: MojoProducer's callback computes the
\* demand under its lock, and signals it after it has released the lock.
AnswerPacket(s) ==
    LET p == [producers[s] EXCEPT !.pushes = @ - 1]
    IN /\ loop = "idle" /\ producers[s].pushes > 0
       /\ producers' = [producers EXCEPT ![s] = p]
       /\ signal' = [stream |-> s, demand |-> DemandOf(p)]
       /\ loop' = "signalling"
       /\ UNCHANGED <<kind, tasks, demux, complete, sinks, prepared, demand, publisher, calls>>

SignalDemand ==
    /\ loop = "signalling"
    /\ demand' = [demand EXCEPT ![signal.stream] = signal.demand]
    /\ late' = (late \/ (signal.demand = "positive" /\ producers[signal.stream].ended))
    /\ signal' = NoSignal
    /\ loop' = "idle"
    /\ UNCHANGED <<kind, tasks, described, initDone, worker, shared, stage, unsought, complete,
                   sinks, prepared, producers, publisher, calls>>

\* FfmpegDemuxImpl::Seek: the callback of a seek that the worker has not taken is lost.
Seek ==
    /\ complete
    /\ Call("Seek", "pending")
    /\ shared' = [shared EXCEPT !.seek = Len(calls) + 1]
    /\ UNCHANGED <<kind, loop, tasks, described, initDone, worker, stage, history, service>>

-----------------------------------------------------------------------------
(* The graph: ActiveMultistreamSourceStage and the sinks *)

\* MojoPullModeProducer's GetBuffer and PullPacket signal demand, whatever has ended.
PullClientAsks(s) ==
    /\ loop = "idle" /\ s \in DOMAIN sinks /\ sinks[s] = "pull" /\ demand[s] # "positive"
    /\ demand' = [demand EXCEPT ![s] = "positive"]
    /\ UNCHANGED <<kind, loop, tasks, demux, complete, sinks, prepared, producers, signal,
                   publisher, calls>>

Running == loop \notin {"joining", "gone", "crashed"}


\* ActiveMultistreamSourceStage::Update asks for a packet when it has none and has
\* not asked; FfmpegDemuxImpl::RequestPacket.
RequestPacket ==
    /\ Running /\ ~stage.outstanding /\ stage.cached = 0
    /\ \E s \in DOMAIN sinks : demand[s] = "positive"
    /\ stage' = [stage EXCEPT !.outstanding = TRUE]
    /\ shared' = [shared EXCEPT !.requested = TRUE]
    /\ UNCHANGED <<kind, loop, tasks, described, initDone, worker, history, service, calls>>

\* ...and supplies the packet that it has: s is the stream, -s an end-of-stream packet.
StreamOf(packet) == IF packet < 0 THEN -packet ELSE packet

\* MojoProducer::SupplyPacket with a consumer, and the demand that it returns.  Its
\* DCHECKs fail for a packet that is pushed beyond the maximum or after the end.  What
\* falls between the demand's computation and its return is in Connection.
Pushed(p, eos) ==
    [p EXCEPT !.pushes = @ + 1, !.max = IF eos THEN 0 ELSE @, !.ended = @ \/ eos]

PushPacket(s, eos) ==
    IF producers[s].pushes < producers[s].max /\ ~producers[s].ended
    THEN /\ producers' = [producers EXCEPT ![s] = Pushed(@, eos)]
         /\ demand' = [demand EXCEPT ![s] = DemandOf(Pushed(producers[s], eos))]
         /\ UNCHANGED loop
    ELSE loop' = "crashed" /\ UNCHANGED <<producers, demand>>

\* Without a consumer MojoProducer throws the packet away.
DropPacket(s, eos) ==
    /\ producers' = [producers EXCEPT ![s].ended = @ \/ eos]
    /\ demand' = [demand EXCEPT ![s] = IF eos THEN "negative" ELSE "neutral"]
    /\ UNCHANGED loop

\* A pull client is given the packet, and has to ask for the next.
GivePacket(s) ==
    /\ demand' = [demand EXCEPT ![s] = "negative"]
    /\ UNCHANGED <<loop, producers>>

SupplyPacket ==
    LET s == StreamOf(stage.cached)
        eos == stage.cached < 0
    IN /\ Running /\ stage.cached # 0 /\ demand[s] # "negative"
       /\ \/ sinks[s] = "bound" /\ PushPacket(s, eos)
          \/ sinks[s] = "producer" /\ DropPacket(s, eos)
          \/ sinks[s] = "pull" /\ GivePacket(s)
       /\ stage' = [stage EXCEPT !.cached = 0]
       /\ UNCHANGED <<kind, tasks, described, initDone, worker, shared, history, signal,
                      complete, sinks, prepared, publisher, calls>>

-----------------------------------------------------------------------------
(* FfmpegDemuxImpl's thread *)

Post(task) == tasks' = Append(tasks, task)
Go(at) == worker' = [worker EXCEPT !.at = at]
OnlyWorker == UNCHANGED <<kind, loop, service, calls>>

\* AvIoContext::Create waits for the reader's Describe, whose When is ReaderCache's (under
\* a lock) or MojoReader's (a read of occurred_, then a push_back).
Create ==
    /\ worker.at = "create"
    /\ CASE described.occurred -> Go("opening") /\ UNCHANGED described
         [] ~described.occurred /\ kind = "demux" ->
              Go("describing") /\ described' = [described EXCEPT !.waiting = TRUE]
         [] OTHER -> Go("when") /\ UNCHANGED described
    /\ UNCHANGED <<tasks, initDone, shared, stage, history>> /\ OnlyWorker

AwaitDescribe ==
    /\ worker.at = "when"
    /\ Go("describing") /\ described' = [described EXCEPT !.waiting = TRUE]
    /\ UNCHANGED <<tasks, initDone, shared, stage, history>> /\ OnlyWorker

\* FFmpeg reads the asset while it opens it, seeks or reads a frame.
ReadAt ==
    /\ worker.at \in {"opening", "seek", "pull"} /\ ~worker.read
    /\ worker' = [worker EXCEPT !.at = "reading", !.back = worker.at, !.read = TRUE]
    /\ Post([do |-> "read", call |-> 0])
    /\ UNCHANGED <<described, initDone, shared, stage, history>> /\ OnlyWorker

\* OpenInput and avformat_find_stream_info, after a read or more, or without success.
Open ==
    /\ worker.at = "opening"
    /\ \/ worker.read /\ worker' = [worker EXCEPT !.at = "occur", !.streams = Streams]
       \/ Go("occur")
    /\ UNCHANGED <<tasks, described, initDone, shared, stage, history>> /\ OnlyWorker

\* Mutant of Swap: the consequences are cleared before they are taken.
SwapCleared ==
    /\ worker.at = "swap"
    /\ initDone' = [initDone EXCEPT !.waiting = FALSE]
    /\ Go(IF worker.streams = {} THEN "done" ELSE "idle")
    /\ UNCHANGED <<tasks, described, shared, stage, history>> /\ OnlyWorker

\* init_complete_.Occur(): occurred_ is set, then the consequences are taken and run;
\* the worker ends if it has failed.
Occur ==
    /\ worker.at = "occur"
    /\ initDone' = [initDone EXCEPT !.occurred = TRUE]
    /\ Go("swap")
    /\ UNCHANGED <<tasks, described, shared, stage, history>> /\ OnlyWorker

Swap ==
    /\ worker.at = "swap"
    /\ IF initDone.waiting THEN Post([do |-> "init", call |-> 0]) ELSE UNCHANGED tasks
    /\ initDone' = [initDone EXCEPT !.waiting = FALSE]
    /\ Go(IF worker.streams = {} THEN "done" ELSE "idle")
    /\ UNCHANGED <<described, shared, stage, history>> /\ OnlyWorker

\* The worker waits for something to do, and takes it.
Take ==
    /\ worker.at = "idle"
    /\ shared.terminating \/ shared.requested \/ shared.seek # kNotSeeking
    /\ IF shared.terminating
       THEN Go("done") /\ UNCHANGED shared
       ELSE /\ worker' = [worker EXCEPT !.seek = shared.seek, !.pull = shared.requested,
                  !.at = IF shared.seek # kNotSeeking THEN "seek" ELSE "pull", !.read = FALSE]
            /\ shared' = [shared EXCEPT !.seek = kNotSeeking, !.requested = FALSE]
    /\ UNCHANGED <<tasks, described, initDone, stage, history>> /\ OnlyWorker

SeekFrame ==
    /\ worker.at = "seek"
    /\ worker' = [worker EXCEPT !.next = DontEnd, !.made = 0, !.read = FALSE,
                     !.at = IF worker.pull THEN "pull" ELSE "idle"]
    /\ Post([do |-> "seek", call |-> worker.seek])
    /\ unsought' = FALSE /\ late' = FALSE
    /\ UNCHANGED <<described, initDone, shared, stage>> /\ OnlyWorker

\* PullPacket.  After the last stream has ended there is no packet to return.
PullPacket ==
    /\ worker.at = "pull" /\ worker.next < n
    /\ \/ /\ worker.next = DontEnd /\ worker.made < MaxPackets
          /\ \E s \in Streams : worker' = [worker EXCEPT !.at = "supply", !.packet = s,
                                              !.made = @ + 1]
       \/ LET next == IF worker.next = DontEnd THEN 0 ELSE worker.next
          IN worker' = [worker EXCEPT !.at = "supply", !.packet = -(next + 1),
                                      !.next = next + 1]
    /\ UNCHANGED <<tasks, described, initDone, shared, stage, history>> /\ OnlyWorker

PullPastEnd ==
    /\ worker.at = "pull" /\ worker.next = n
    /\ loop' = "crashed"
    /\ UNCHANGED <<kind, tasks, demux, service, calls>>

\* ActiveMultistreamSourceStage's supply callback.
Supply ==
    /\ worker.at = "supply"
    /\ stage' = [outstanding |-> FALSE, cached |-> worker.packet]
    /\ worker' = [worker EXCEPT !.at = "idle", !.packet = 0]
    /\ UNCHANGED <<tasks, described, initDone, shared, history>> /\ OnlyWorker

-----------------------------------------------------------------------------
MojoThread == WhenInitialized \/ HoldConsequence \/ OnReaderDescribed \/ RunConsequences
              \/ RunTask \/ SignalDemand

Client ==
    \/ Describe \/ ConnectionError \/ Prepare \/ Prime \/ Flush \/ Seek
    \/ \E s \in 1 .. n + 1 : GetDemuxProducer(s) \/ GetProducer(s) \/ GetPullModeProducer(s)
    \/ \E version \in {0, publisher.version} : GetStatus(version)
    \/ \E op \in {"Seek", "Prime"} : FailPrecondition(op)

Consumers == (\E c \in DOMAIN calls : Complete(c))
             \/ (\E s \in Streams : PullClientAsks(s) \/ AnswerPacket(s))

Worker == Create \/ AwaitDescribe \/ ReadAt \/ Open \/ Occur \/ Swap \/ Take \/ SeekFrame
          \/ PullPacket \/ PullPastEnd \/ Supply

Next == \/ MojoThread \/ Client \/ Consumers \/ Joined \/ RequestPacket \/ SupplyPacket
        \/ (loop \notin {"gone", "crashed"} /\ Worker)

\* Both threads run, and consumers answer Prime and Flush.
Fairness ==
    /\ WF_vars(MojoThread) /\ WF_vars(Joined)
    /\ WF_vars(loop \notin {"gone", "crashed"} /\ Worker)
    /\ \A c \in 1 .. MaxCalls : WF_vars(c \in DOMAIN calls /\ Complete(c))

Spec == Init /\ [][Next]_vars /\ Fairness

-----------------------------------------------------------------------------
\* A call that the service owes an answer: not a seek that a later one has replaced, or
\* that comes when the worker has failed to open the asset; and not the description of a
\* source, whose initialisation may get lost (Incident has no lock, and nothing keeps
\* MojoReader's When and Occur apart).
Owed(c) ==
    /\ c \in DOMAIN calls /\ calls[c].status = "pending"
    /\ calls[c].op \in {"Prime", "Flush", "Seek", "Describe"}
    /\ calls[c].op = "Describe" => kind = "demux"
    /\ calls[c].op = "Seek" => /\ worker.at # "done"
                               /\ \A d \in DOMAIN calls : d > c => calls[d].op # "Seek"

\* Describe, Prime, Flush and Seek are answered, as long as the service exists: the
\* initialisation that the worker reports from its own thread is not lost, joined
\* callbacks come together, and a seek reaches the worker whatever else it is doing.
CallsAnswered == \A c \in 1 .. MaxCalls : Owed(c) ~> ~(Owed(c) /\ Running)


\* ~FfmpegDemuxImpl joins the worker, unless the worker is about to read the asset, for
\* which it needs the very thread that waits for it.
ReleaseEnds ==
    loop = "joining" /\ worker.at \in {"idle", "occur", "swap", "supply", "done"} ~> loop = "gone"

\* Every call of the client is answered, and a product that is released lets its
\* worker end (MediaSourceImpl, MediaDemuxImpl, ~FfmpegDemuxImpl).
CallsAndReleasesEnd == CallsAnswered /\ ReleaseEnds
=============================================================================
