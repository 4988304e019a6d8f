------------------------------- MODULE Player -------------------------------
(***************************************************************************)
(* The media player: MediaPlayerImpl, the media sinks it drives            *)
(* (MediaSinkImpl, one per enabled stream) and the demux it calls, each a  *)
(* service of its own reached over message pipes.                          *)
(*                                                                         *)
(* The player is a state machine run by Update(), which every handler      *)
(* calls last.  Its loop is modelled one iteration per step: while         *)
(* handler is not NoHandler no other handler of the player runs, but the   *)
(* sinks and the demux, which live elsewhere, do.                          *)
(*                                                                         *)
(* A message pipe delivers in order: toSink[s] holds the Play, Pause and   *)
(* GetStatus requests on their way to the sink of stream s.  Different     *)
(* pipes are not ordered with respect to each other: a reply of the demux  *)
(* may overtake a status a sink sent before.                               *)
(***************************************************************************)
EXTENDS Naturals, Sequences, FiniteSets

CONSTANTS
    Streams,        \* the enabled streams
    RateControlled, \* those sent to the audio server; the others go "nowhere"
    Faulty,         \* those whose sink may fail to build a conversion pipeline
    Positions,      \* the positions the client seeks to
    Patient,        \* whether the client waits until everything settles
    MaxCommands,    \* bound on the number of client commands
    NotSeeking,     \* kNotSeeking
    NoStatus,       \* no status is on its way
    NoHandler       \* the player's thread is idle

ASSUME StreamsAssumption ==
    /\ Streams # {} /\ Streams \cap {NoHandler, "call"} = {} /\ NoHandler # "call"
    /\ NoStatus \notin {"FAULT", "UNPREPARED", "PAUSED", "PLAYING", "ENDED"}
    /\ RateControlled \subseteq Streams /\ Faulty \subseteq RateControlled
    /\ NotSeeking \notin Positions
    /\ MaxCommands \in Nat /\ Patient \in BOOLEAN

VARIABLES
    \* MediaPlayerImpl
    state, flushed, reported, targetState, targetPosition,
    streamState,    \* stream->state_: the last status received from the sink
    handler,        \* the handler that is running Update()
    \* the demux
    calls,          \* requests it has not answered
    served,         \* the sinks that have answered the oldest of them
    demuxAt,        \* the position it last sought to
    \* the sinks
    toSink,
    pendingGet,     \* status_publisher_.pending_callbacks_ is not empty
    unseen,         \* version_ is greater than the version last sent
    statusReply,    \* the status on its way to the player
    ready, producerState, rate, targetRate,
    sinkFlushed,    \* MediaSinkImpl::flushed_
    flowing,        \* the connection is primed and has not been flushed
    \* the client
    wanted,         \* the position it asked for last
    commands        \* how many commands it gave

player == <<state, flushed, reported, targetState, targetPosition, streamState>>
demux == <<calls, served, demuxAt>>
publisher == <<pendingGet, unseen, statusReply>>
sink == <<ready, producerState, rate, targetRate, sinkFlushed, flowing>>
client == <<wanted, commands>>
vars == <<player, handler, demux, toSink, publisher, sink, client>>

MediaStates == {"FAULT", "UNPREPARED", "PAUSED", "PLAYING", "ENDED"}
PlayerStates == {"kPaused", "kWaitingForSinksToPlay", "kPlaying",
                 "kWaitingForSinksToPause", "kWaiting"}
Prepared(mediaState) == mediaState \in {"PAUSED", "PLAYING", "ENDED"}

TypeOK ==
    /\ state \in PlayerStates
    /\ flushed \in BOOLEAN
    /\ reported \in MediaStates /\ targetState \in MediaStates
    /\ targetPosition \in Positions \cup {NotSeeking}
    /\ streamState \in [Streams -> MediaStates]
    /\ handler \in Streams \cup {NoHandler, "call"}
    /\ calls \in Seq({"Prime", "Flush", "Seek"})
    /\ served \subseteq Streams
    /\ demuxAt \in Positions \cup {NotSeeking}
    /\ toSink \in [Streams -> Seq({"Play", "Pause", "Get"})]
    /\ pendingGet \in [Streams -> BOOLEAN] /\ unseen \in [Streams -> BOOLEAN]
    /\ statusReply \in [Streams -> MediaStates \cup {NoStatus}]
    /\ ready \in [Streams -> BOOLEAN]
    /\ producerState \in [Streams -> MediaStates]
    /\ rate \in [Streams -> {0, 1}] /\ targetRate \in [Streams -> {0, 1}]
    /\ sinkFlushed \in [Streams -> BOOLEAN] /\ flowing \in [Streams -> BOOLEAN]
    /\ wanted \in Positions \cup {NotSeeking}
    /\ commands \in 0 .. MaxCommands

Init ==
    /\ state = "kWaiting" /\ flushed = TRUE /\ reported = "UNPREPARED"
    /\ targetState = "PAUSED" /\ targetPosition = NotSeeking
    /\ streamState = [s \in Streams |-> "UNPREPARED"]
    /\ handler = NoHandler
    /\ calls = <<>> /\ served = {} /\ demuxAt = NotSeeking
    /\ toSink = [s \in Streams |-> <<>>]
    /\ pendingGet = [s \in Streams |-> FALSE]
    /\ unseen = [s \in Streams |-> TRUE]
    /\ statusReply = [s \in Streams |-> NoStatus]
    /\ ready = [s \in Streams |-> s \notin RateControlled]
    /\ producerState = [s \in Streams |-> "UNPREPARED"]
    /\ rate = [s \in Streams |-> 0] /\ targetRate = [s \in Streams |-> 0]
    /\ sinkFlushed = [s \in Streams |-> TRUE]
    /\ flowing = [s \in Streams |-> FALSE]
    /\ wanted = NotSeeking /\ commands = 0

-----------------------------------------------------------------------------
(* MojoPublisher and the sink's side of the status pipe *)

\* The state a sink puts in a status: playing is paused with a rate.
Status(mediaState, r) ==
    IF mediaState = "PAUSED" /\ r # 0 THEN "PLAYING" ELSE mediaState

\* n calls of SendUpdates in one handler of the sink of s, whose status is st:
\* the first answers the pending GetStatus, the others find none.
SendUpdates(s, n, st) ==
    IF n > 0 /\ pendingGet[s]
    THEN /\ statusReply' = [statusReply EXCEPT ![s] = st]
         /\ pendingGet' = [pendingGet EXCEPT ![s] = FALSE]
         /\ unseen' = [unseen EXCEPT ![s] = n > 1]
    ELSE /\ unseen' = [unseen EXCEPT ![s] = @ \/ n > 0]
         /\ UNCHANGED <<pendingGet, statusReply>>

GetAnswersAlways(s) ==
    /\ statusReply' =
           [statusReply EXCEPT ![s] = Status(producerState[s], rate[s])]
    /\ unseen' = [unseen EXCEPT ![s] = FALSE]
    /\ UNCHANGED pendingGet

\* MojoPublisher::Get, for the request at the head of the sink's pipe.
Get(s) ==
    IF unseen[s]
    THEN /\ statusReply' =
                [statusReply EXCEPT ![s] = Status(producerState[s], rate[s])]
         /\ unseen' = [unseen EXCEPT ![s] = FALSE]
         /\ UNCHANGED pendingGet
    ELSE /\ pendingGet' = [pendingGet EXCEPT ![s] = TRUE]
         /\ UNCHANGED <<unseen, statusReply>>

-----------------------------------------------------------------------------
(* MediaSinkImpl *)

\* MaybeSetRate with producer_state_ = st and target_rate_ = r, in a handler
\* that has called SendUpdates n times before.
MaybeSetRate(s, st, r, n) ==
    LET sets == Prepared(st) /\ rate[s] # r
    IN /\ targetRate' = [targetRate EXCEPT ![s] = r]
       /\ rate' = [rate EXCEPT ![s] = IF sets THEN r ELSE @]
       /\ sinkFlushed' =
              [sinkFlushed EXCEPT ![s] = @ /\ ~(sets /\ s \in RateControlled)]
       /\ SendUpdates(s, IF sets THEN n + 1 ELSE n, Status(st, r))

\* The audio track is configured and connected: ready_ occurs.
SinkReady(s) ==
    /\ ~ready[s] /\ producerState[s] # "FAULT"
    /\ ready' = [ready EXCEPT ![s] = TRUE]
    /\ MaybeSetRate(s, producerState[s], targetRate[s], 0)
    /\ UNCHANGED <<player, handler, demux, toSink, client, producerState, flowing>>

\* No conversion pipeline can be built: ready_ never occurs.
SinkFaults(s) ==
    /\ ~ready[s] /\ s \in Faulty /\ producerState[s] # "FAULT"
    /\ producerState' = [producerState EXCEPT ![s] = "FAULT"]
    /\ SendUpdates(s, 1, "FAULT")
    /\ UNCHANGED <<player, handler, demux, toSink, client,
                   ready, rate, targetRate, sinkFlushed, flowing>>

\* The sink handles Play, Pause or GetStatus.
SinkReceives(s) ==
    /\ toSink[s] # <<>>
    /\ toSink' = [toSink EXCEPT ![s] = Tail(@)]
    /\ \/ /\ Head(toSink[s]) = "Play"
          /\ MaybeSetRate(s, producerState[s], 1, 0)
       \/ /\ Head(toSink[s]) = "Pause"
          /\ MaybeSetRate(s, producerState[s], 0, 0)
       \/ /\ Head(toSink[s]) = "Get"
          /\ Get(s)
          /\ UNCHANGED <<rate, targetRate, sinkFlushed>>
    /\ UNCHANGED <<player, handler, demux, client, ready, producerState, flowing>>

\* The producer's end-of-stream packet completes: the producer's status becomes
\* ENDED and the sink pauses itself.  An audio track completes no packet before
\* it was given a rate.
SinkEnds(s) ==
    /\ flowing[s] /\ producerState[s] = "PAUSED"
    /\ s \in RateControlled => ~sinkFlushed[s]
    /\ producerState' = [producerState EXCEPT ![s] = "ENDED"]
    /\ MaybeSetRate(s, "ENDED", 0, 1)
    /\ UNCHANGED <<player, handler, demux, toSink, client, ready, flowing>>

-----------------------------------------------------------------------------
(* The demux, with the decoders behind it: it primes or flushes the sink of *)
(* every stream before it answers.                                          *)

\* PrimeConnection in the sink's producer: its status becomes PAUSED.
SinkPrimed(s) ==
    /\ calls # <<>> /\ Head(calls) = "Prime" /\ s \notin served /\ ready[s]
    /\ served' = served \cup {s}
    /\ flowing' = [flowing EXCEPT ![s] = TRUE]
    /\ producerState' = [producerState EXCEPT ![s] = "PAUSED"]
    /\ SendUpdates(s, IF producerState[s] = "PAUSED" THEN 0 ELSE 1,
                   Status("PAUSED", rate[s]))
    /\ UNCHANGED <<player, handler, calls, demuxAt, toSink, client,
                   ready, rate, targetRate, sinkFlushed>>

\* The flush reaches the sink's consumer.
SinkFlushed(s) ==
    /\ calls # <<>> /\ Head(calls) = "Flush" /\ s \notin served /\ ready[s]
    /\ served' = served \cup {s}
    /\ flowing' = [flowing EXCEPT ![s] = FALSE]
    /\ sinkFlushed' = [sinkFlushed EXCEPT ![s] = TRUE]
    /\ UNCHANGED <<player, handler, calls, demuxAt, toSink, publisher, client,
                   ready, producerState, rate, targetRate>>

\* The demux answers the oldest call, and the player's thread is free.
Answered(call) ==
    /\ calls # <<>> /\ Head(calls) = call
    /\ call = "Seek" \/ served = Streams
    /\ handler = NoHandler
    /\ served' = {}

-----------------------------------------------------------------------------
(* MediaPlayerImpl *)

AllSinksAre(mediaStates) == \A s \in Streams : streamState[s] \in mediaStates

ChangeSinkStates(request) ==
    toSink' = [s \in Streams |-> Append(toSink[s], request)]

\* The return from Update to the handler that called it: a status handler then
\* asks for the next status.
Return ==
    /\ handler' = NoHandler
    /\ toSink' = [s \in Streams |-> IF s = handler THEN Append(toSink[s], "Get")
                                                   ELSE toSink[s]]

\* WhenFlushedAndSeeking, when the demux has these calls to answer.
WhenFlushedAndSeeking(unanswered) ==
    /\ state' = "kWaiting"
    /\ calls' = Append(unanswered, "Seek")
    /\ demuxAt' = targetPosition

\* WhenPausedAndSeeking
WhenPausedAndSeeking ==
    /\ targetPosition # NotSeeking
    /\ IF flushed
       THEN WhenFlushedAndSeeking(calls)
       ELSE /\ state' = "kWaiting"
            /\ calls' = Append(calls, "Flush")
            /\ UNCHANGED demuxAt
    /\ UNCHANGED <<flushed, reported, targetState, handler, toSink>>

StartPlayingStillFlushed ==
    /\ targetPosition = NotSeeking /\ targetState = "PLAYING"
    /\ state' = "kWaiting"
    /\ calls' = Append(calls, "Prime")
    /\ Return
    /\ UNCHANGED <<flushed, reported, targetState, demuxAt>>

\* Paused, not seeking, told to play.
StartPlaying ==
    /\ targetPosition = NotSeeking /\ targetState = "PLAYING"
    /\ IF flushed
       THEN /\ flushed' = FALSE /\ state' = "kWaiting"
            /\ calls' = Append(calls, "Prime")
            /\ Return
       ELSE /\ ChangeSinkStates("Play")
            /\ state' = "kWaitingForSinksToPlay"
            /\ UNCHANGED <<flushed, calls, handler>>
    /\ UNCHANGED <<reported, targetState, demuxAt>>

StayPaused ==
    /\ targetPosition = NotSeeking /\ targetState # "PLAYING"
    /\ Return
    /\ UNCHANGED <<state, flushed, reported, targetState, calls, demuxAt>>

WhenPaused ==
    /\ state = "kPaused"
    /\ WhenPausedAndSeeking \/ StartPlaying \/ StayPaused

WhenWaitingForSinksToPlay ==
    /\ state = "kWaitingForSinksToPlay"
    /\ IF AllSinksAre({"PLAYING", "ENDED"})
       THEN /\ state' = "kPlaying"
            /\ reported' = IF targetState = "PLAYING" THEN "PLAYING" ELSE reported
       ELSE UNCHANGED <<state, reported>>
    /\ Return
    /\ UNCHANGED <<flushed, targetState, calls, demuxAt>>

WhenPlaying ==
    /\ state = "kPlaying"
    /\ \/ /\ targetPosition # NotSeeking \/ targetState = "PAUSED"
          /\ ChangeSinkStates("Pause")
          /\ state' = "kWaitingForSinksToPause"
          /\ UNCHANGED <<reported, targetState, handler>>
       \/ /\ targetPosition = NotSeeking /\ targetState # "PAUSED"
          /\ AllSinksAre({"ENDED"})
          /\ targetState' = "ENDED" /\ reported' = "ENDED" /\ state' = "kPaused"
          /\ UNCHANGED <<toSink, handler>>
       \/ /\ targetPosition = NotSeeking /\ targetState # "PAUSED"
          /\ ~AllSinksAre({"ENDED"})
          /\ Return
          /\ UNCHANGED <<state, reported, targetState>>
    /\ UNCHANGED <<flushed, calls, demuxAt>>

WhenWaitingForSinksToPause ==
    /\ state = "kWaitingForSinksToPause"
    /\ IF AllSinksAre({"PAUSED", "ENDED"})
       THEN /\ reported' = IF targetState # "PAUSED" THEN reported
                           ELSE IF AllSinksAre({"ENDED"}) THEN "ENDED" ELSE "PAUSED"
            /\ state' = "kPaused"
            /\ UNCHANGED <<handler, toSink>>
       ELSE /\ Return
            /\ UNCHANGED <<state, reported>>
    /\ UNCHANGED <<flushed, targetState, calls, demuxAt>>

WhenWaiting ==
    /\ state = "kWaiting"
    /\ Return
    /\ UNCHANGED <<state, flushed, reported, targetState, calls, demuxAt>>

\* One iteration of the loop of Update.
Update ==
    /\ handler # NoHandler
    /\ \/ WhenPaused \/ WhenWaitingForSinksToPlay \/ WhenPlaying
       \/ WhenWaitingForSinksToPause \/ WhenWaiting
    /\ UNCHANGED <<targetPosition, streamState, served, publisher, sink, client>>

\* The callback of Connect in CreateSink: the sink's status is asked for, and
\* the last stream to be prepared joins the others and starts the machine.
StreamPrepared(s) ==
    LET joined == \A t \in Streams \ {s} : streamState[t] # "UNPREPARED"
    IN /\ handler = NoHandler /\ streamState[s] = "UNPREPARED"
       /\ streamState' = [streamState EXCEPT ![s] = "PAUSED"]
       /\ toSink' = [toSink EXCEPT ![s] = Append(@, "Get")]
       /\ IF joined
          THEN reported' = "PAUSED" /\ state' = "kPaused" /\ handler' = "call"
          ELSE UNCHANGED <<reported, state, handler>>
       /\ UNCHANGED <<flushed, targetState, targetPosition, demux, publisher,
                      sink, client>>

\* HandleSinkStatusUpdates
HandleSinkStatusUpdates(s) ==
    LET st == statusReply[s]
    IN /\ handler = NoHandler /\ st # NoStatus
       /\ statusReply' = [statusReply EXCEPT ![s] = NoStatus]
       /\ IF Prepared(st)
          THEN /\ streamState' = [streamState EXCEPT ![s] = st]
               /\ handler' = s
               /\ UNCHANGED toSink
          ELSE /\ toSink' = [toSink EXCEPT ![s] = Append(@, "Get")]
               /\ UNCHANGED <<streamState, handler>>
       /\ UNCHANGED <<state, flushed, reported, targetState, targetPosition,
                      demux, pendingGet, unseen, sink, client>>

\* The callback of Prime.
PrimeAnswered ==
    /\ Answered("Prime")
    /\ calls' = Tail(calls)
    /\ ChangeSinkStates("Play")
    /\ state' = "kWaitingForSinksToPlay"
    /\ handler' = "call"
    /\ UNCHANGED <<flushed, reported, targetState, targetPosition, streamState,
                   demuxAt, publisher, sink, client>>

\* Mutant of FlushAnswered: the flush is taken for the whole seek.
FlushAnsweredOnly ==
    /\ Answered("Flush")
    /\ calls' = Tail(calls)
    /\ flushed' = TRUE /\ state' = "kPaused" /\ targetPosition' = NotSeeking
    /\ UNCHANGED <<reported, targetState, streamState, handler, demuxAt,
                   toSink, publisher, sink, client>>

\* The callback of Flush, which goes on to seek without calling Update.
FlushAnswered ==
    /\ Answered("Flush")
    /\ flushed' = TRUE
    /\ WhenFlushedAndSeeking(Tail(calls))
    /\ UNCHANGED <<reported, targetState, targetPosition, streamState, handler,
                   toSink, publisher, sink, client>>

\* The callback of Seek.
SeekAnswered ==
    /\ Answered("Seek")
    /\ calls' = Tail(calls)
    /\ targetPosition' = NotSeeking
    /\ state' = "kPaused"
    /\ handler' = "call"
    /\ UNCHANGED <<flushed, reported, targetState, streamState, demuxAt, toSink,
                   publisher, sink, client>>

-----------------------------------------------------------------------------
(* The client *)

\* The player's parts have nothing left to do until the client speaks or a
\* stream ends.
Quiet ==
    /\ handler = NoHandler /\ calls = <<>>
    /\ \A s \in Streams : /\ streamState[s] # "UNPREPARED"
                          /\ ready[s]
                          /\ toSink[s] = <<>> /\ statusReply[s] = NoStatus

Command ==
    /\ handler = NoHandler /\ commands < MaxCommands
    /\ Patient => Quiet
    /\ commands' = commands + 1
    /\ handler' = "call"
    /\ UNCHANGED <<state, flushed, reported, streamState, demux, toSink,
                   publisher, sink>>

Play ==
    /\ Command
    /\ targetState' = "PLAYING"
    /\ UNCHANGED <<targetPosition, wanted>>

Pause ==
    /\ Command
    /\ targetState' = "PAUSED"
    /\ UNCHANGED <<targetPosition, wanted>>

Seek(position) ==
    /\ Command
    /\ targetPosition' = position
    /\ wanted' = position
    /\ UNCHANGED targetState

-----------------------------------------------------------------------------
PlayerReacts ==
    \/ Update \/ PrimeAnswered \/ FlushAnswered \/ SeekAnswered
    \/ \E s \in Streams : StreamPrepared(s) \/ HandleSinkStatusUpdates(s)

SinkReacts(s) ==
    \/ SinkReady(s) \/ SinkFaults(s) \/ SinkReceives(s)
    \/ SinkPrimed(s) \/ SinkFlushed(s)

Next ==
    \/ PlayerReacts
    \/ \E s \in Streams : SinkReacts(s) \/ SinkEnds(s)
    \/ Play \/ Pause \/ \E position \in Positions : Seek(position)

\* Every message in flight is delivered and every handler runs to its end.  The
\* client may stop giving commands, and a stream need never end.
Fairness ==
    /\ WF_vars(PlayerReacts)
    /\ \A s \in Streams : WF_vars(SinkReacts(s))

Spec == Init /\ [][Next]_vars /\ Fairness

-----------------------------------------------------------------------------
(* Properties *)

\* The state kWaiting has no exit in Update: only the demux's answer leaves it.
\* So the player waits exactly while it has one call unanswered, and every
\* answer finds the machine in the state that made the call.  The answer to a
\* flush finds a position to seek to: DCHECK(target_position_ != kNotSeeking).
WaitingIsAnswered ==
    (\A s \in Streams : streamState[s] # "UNPREPARED") =>
        /\ Len(calls) <= 1
        /\ state = "kWaiting" <=> calls # <<>>
        /\ calls # <<>> /\ Head(calls) # "Prime" => targetPosition # NotSeeking

\* The player's flushed_ shadows what the sinks went through: when it is set no
\* sink holds packets, and the demux is repositioned only then, so packets from
\* before a seek never meet packets from after it.
SeeksWhenFlushed ==
    /\ flushed => \A s \in Streams : ~flowing[s]
    /\ calls # <<>> /\ Head(calls) = "Seek" => \A s \in Streams : ~flowing[s]

\* A stream has one status request outstanding from its preparation on: on its
\* way to the sink, parked there, on its way back, or being handled.  Otherwise
\* the player would stop following the sink, or follow it twice.
OneStatusRequest ==
    \A s \in Streams : streamState[s] # "UNPREPARED" =>
        Cardinality({i \in 1 .. Len(toSink[s]) : toSink[s][i] = "Get"})
          + (IF pendingGet[s] THEN 1 ELSE 0)
          + (IF statusReply[s] # NoStatus THEN 1 ELSE 0)
          + (IF handler = s THEN 1 ELSE 0) = 1

\* At rest, what the player believes of a prepared sink is true: no status was
\* lost between two requests, whatever order the pipes delivered in.
BeliefsAreTrue ==
    Quiet => \A s \in Streams : Prepared(producerState[s]) =>
                 streamState[s] = Status(producerState[s], rate[s])

\* The player and its parts stay in step: it waits for exactly one answer of the
\* demux, seeks only what is flushed, has one status request with every sink, and
\* what it believes of a sink at rest is true (MediaPlayerImpl::Update, MojoPublisher).
PartsAreInStep ==
    TypeOK /\ WaitingIsAnswered /\ SeeksWhenFlushed /\ OneStatusRequest /\ BeliefsAreTrue

\* Whatever the client and the streams do, the exchange between the player, its
\* sinks and the demux comes to rest when the commands do.
Settles == <>[]Quiet

\* A player told to play reports PLAYING or ENDED, unless it is told otherwise
\* first.
PlayIsReported ==
    targetState = "PLAYING" ~>
        (reported \in {"PLAYING", "ENDED"} \/ targetState # "PLAYING")

\* At rest, the demux is where the client last asked the player to be
\* (media_player.mojom: "Seeks to the specified position").
SeekIsPerformed ==
    Quiet => demuxAt = wanted

\* At rest, a player told to pause is paused (media_player.mojom: "Pauses
\* playback."), and it reports PLAYING just when it is playing.
PauseIsObeyed ==
    Quiet => /\ targetState = "PAUSED" => state = "kPaused"
             /\ reported = "PLAYING" <=> state = "kPlaying"

\* At rest, a patient client's last seek and pause were carried out
\* (media_player.mojom).
CommandsAreObeyed == SeekIsPerformed /\ PauseIsObeyed

\* The exchange comes to rest, and Play is reported (MediaPlayerImpl::Update).
CommandsTakeEffect == Settles /\ PlayIsReported
=============================================================================
