---------------------------- MODULE PlayerProofs ----------------------------
(***************************************************************************)
(* The media player and its parts stay in step, for any set of streams and *)
(* any number of commands, patient or not.                                 *)
(***************************************************************************)
EXTENDS Player, FiniteSetTheorems, TLAPS

\* Most leaves are first-order reasoning; the others name the solver.
USE Zenon

AllPrepared == \A s \in Streams : streamState[s] # "UNPREPARED"

\* The machine waits for the one call it has made, and each call was made in a
\* phase of its own: before its answer neither the phase nor the call changes.
WaitInv ==
    /\ ~AllPrepared => state = "kWaiting" /\ calls = <<>>
    /\ AllPrepared =>
           \/ state # "kWaiting" /\ calls = <<>>
           \/ state = "kWaiting" /\ calls = <<"Prime">> /\ flushed = FALSE
           \/ /\ state = "kWaiting" /\ calls = <<"Flush">> /\ flushed = FALSE
              /\ targetPosition # NotSeeking
           \/ /\ state = "kWaiting" /\ calls = <<"Seek">> /\ flushed = TRUE
              /\ targetPosition # NotSeeking

\* A flush has stopped the sinks it has reached, and the player takes its sinks
\* for flushed only when it has reached them all.
FlowInv ==
    /\ flushed = TRUE => \A s \in Streams : flowing[s] = FALSE
    /\ calls = <<"Flush">> => \A s \in served : flowing[s] = FALSE
    /\ calls \in {<<>>, <<"Seek">>} => served = {}

\* Where the status request of a stream can be.
HasGet(q) == \E i \in 1 .. Len(q) : q[i] = "Get"
OneGet(q) == \A i, j \in 1 .. Len(q) : q[i] = "Get" /\ q[j] = "Get" => i = j
Sent(s) == HasGet(toSink[s])
Parked(s) == pendingGet[s] = TRUE
Replied(s) == statusReply[s] # NoStatus
Handled(s) == handler = s

RequestInv ==
    \A s \in Streams :
        /\ OneGet(toSink[s])
        /\ Sent(s) \/ Parked(s) \/ Replied(s) \/ Handled(s)
               <=> streamState[s] # "UNPREPARED"
        /\ Sent(s) => ~Parked(s) /\ ~Replied(s) /\ ~Handled(s)
        /\ Parked(s) => ~Replied(s) /\ ~Handled(s)
        /\ Replied(s) => ~Handled(s)

\* What the player believes of a sink once the status on its way has arrived.
Believed(s) == IF statusReply[s] # NoStatus THEN statusReply[s] ELSE streamState[s]

\* A request is parked only when there is nothing new to tell, and then the
\* player knows, or is about to know, the state of a prepared sink.
BeliefInv ==
    \A s \in Streams :
        /\ streamState[s] = "UNPREPARED" => unseen[s] = TRUE
        /\ pendingGet[s] = TRUE => unseen[s] = FALSE
        /\ unseen[s] = FALSE /\ Prepared(producerState[s]) =>
               Believed(s) = Status(producerState[s], rate[s])

IInv == TypeOK /\ WaitInv /\ FlowInv /\ RequestInv /\ BeliefInv

-----------------------------------------------------------------------------
\* Queues with at most one call.
LEMMA OneCall ==
    \A c : /\ <<c>> # <<>> /\ Head(<<c>>) = c /\ Tail(<<c>>) = <<>>
          /\ Append(<<>>, c) = <<c>> /\ Append(Tail(<<c>>), "Seek") = <<"Seek">>
          /\ \A d : <<c>> = <<d>> => c = d
  BY SMT

\* The player starts idle, with nothing asked of any sink.
LEMMA InitIInv == Init => IInv
<1> SUFFICES ASSUME Init PROVE IInv
  OBVIOUS
<1> USE StreamsAssumption
<1>1. TypeOK
  BY SMT DEF Init, TypeOK, PlayerStates, MediaStates
<1>2. WaitInv
  BY DEF Init, WaitInv, AllPrepared
<1>3. FlowInv
  BY DEF Init, FlowInv
<1>4. RequestInv
  BY SMT DEF Init, RequestInv, HasGet, OneGet, Sent, Parked, Replied, Handled
<1>5. BeliefInv
  BY DEF Init, BeliefInv, Prepared
<1> QED
  BY <1>1, <1>2, <1>3, <1>4, <1>5 DEF IInv

-----------------------------------------------------------------------------
(* The types.  *)
PublisherOK ==
    /\ pendingGet \in [Streams -> BOOLEAN] /\ unseen \in [Streams -> BOOLEAN]
    /\ statusReply \in [Streams -> MediaStates \cup {NoStatus}]

\* SendUpdates (mojo_publisher.h) keeps the types of the publisher's state.
LEMMA SendUpdatesTypes ==
    ASSUME PublisherOK, NEW s \in Streams, NEW n \in Nat, NEW st \in MediaStates,
           SendUpdates(s, n, st)
    PROVE  PublisherOK'
<1>1. (n > 0) \in BOOLEAN /\ (n > 1) \in BOOLEAN
  BY SMT
<1>2. CASE n > 0 /\ pendingGet[s]
  BY <1>1, <1>2 DEF PublisherOK, SendUpdates
<1>3. CASE ~(n > 0 /\ pendingGet[s])
  <2>1. (unseen[s] \/ n > 0) \in BOOLEAN
    BY DEF PublisherOK
  <2> QED
    BY <2>1, <1>3 DEF PublisherOK, SendUpdates
<1> QED
  BY <1>2, <1>3

\* So does Get, which parks or answers a status request.
LEMMA GetTypes ==
    ASSUME PublisherOK, NEW s \in Streams, Get(s),
           Status(producerState[s], rate[s]) \in MediaStates
    PROVE  PublisherOK'
  BY DEF PublisherOK, Get

\* And so does MaybeSetRate, which changes the rate and reports it.
LEMMA MaybeSetRateTypes ==
    ASSUME PublisherOK, NEW s \in Streams, NEW st \in MediaStates, NEW r \in {0, 1},
           NEW n \in Nat, MaybeSetRate(s, st, r, n),
           rate \in [Streams -> {0, 1}], targetRate \in [Streams -> {0, 1}],
           sinkFlushed \in [Streams -> BOOLEAN]
    PROVE  /\ PublisherOK'
           /\ rate' \in [Streams -> {0, 1}] /\ targetRate' \in [Streams -> {0, 1}]
           /\ sinkFlushed' \in [Streams -> BOOLEAN]
<1> DEFINE sets == Prepared(st) /\ rate[s] # r
           k == IF sets THEN n + 1 ELSE n
<1>1. k \in Nat
  BY SMT
<1>2. Status(st, r) \in MediaStates
  BY DEF Status, MediaStates
<1>3. SendUpdates(s, k, Status(st, r))
  BY DEF MaybeSetRate
<1>4. PublisherOK'
  <2> HIDE DEF k
  <2> QED   BY <1>1, <1>2, <1>3, SendUpdatesTypes
<1>5. rate' \in [Streams -> {0, 1}] /\ targetRate' \in [Streams -> {0, 1}]
  BY DEF MaybeSetRate
<1>6. sinkFlushed' \in [Streams -> BOOLEAN]
  BY DEF MaybeSetRate
<1> QED
  BY <1>4, <1>5, <1>6

\* The types of what the player and the demux own, and of what a sink does.
PlayerOK ==
    /\ state \in PlayerStates /\ flushed \in BOOLEAN
    /\ reported \in MediaStates /\ targetState \in MediaStates
    /\ targetPosition \in Positions \cup {NotSeeking}
    /\ streamState \in [Streams -> MediaStates]
    /\ handler \in Streams \cup {NoHandler, "call"}
    /\ calls \in Seq({"Prime", "Flush", "Seek"}) /\ served \subseteq Streams
    /\ demuxAt \in Positions \cup {NotSeeking}
    /\ toSink \in [Streams -> Seq({"Play", "Pause", "Get"})]
    /\ wanted \in Positions \cup {NotSeeking}
    /\ commands \in 0 .. MaxCommands

SinkOK ==
    /\ ready \in [Streams -> BOOLEAN]
    /\ producerState \in [Streams -> MediaStates]
    /\ rate \in [Streams -> {0, 1}] /\ targetRate \in [Streams -> {0, 1}]
    /\ sinkFlushed \in [Streams -> BOOLEAN] /\ flowing \in [Streams -> BOOLEAN]

\* The type invariant, by the part that owns the state.
LEMMA TypeSplit == TypeOK <=> PlayerOK /\ PublisherOK /\ SinkOK
  BY DEF TypeOK, PlayerOK, PublisherOK, SinkOK

\* What a sink does is well typed.
LEMMA SinkTypes ==
    ASSUME TypeOK, NEW s \in Streams, SinkReacts(s) \/ SinkEnds(s)
    PROVE  TypeOK'
<1>0. PlayerOK /\ PublisherOK /\ SinkOK
  BY TypeSplit
<1>a. producerState[s] \in MediaStates /\ targetRate[s] \in {0, 1} /\ rate[s] \in {0, 1}
  BY <1>0 DEF SinkOK
<1>b. "FAULT" \in MediaStates /\ "ENDED" \in MediaStates /\ "PAUSED" \in MediaStates
  BY DEF MediaStates
<1>1. CASE SinkReady(s)
  <2>1. PlayerOK'
    BY <1>0, <1>1 DEF SinkReady, player, demux, client, PlayerOK
  <2>2. MaybeSetRate(s, producerState[s], targetRate[s], 0)
    BY <1>1 DEF SinkReady
  <2>3. /\ PublisherOK' /\ sinkFlushed' \in [Streams -> BOOLEAN]
        /\ rate' \in [Streams -> {0, 1}] /\ targetRate' \in [Streams -> {0, 1}]
    BY <1>0, <1>a, <2>2, MaybeSetRateTypes DEF SinkOK
  <2>4. SinkOK'
    BY <1>0, <1>1, <2>3 DEF SinkReady, SinkOK
  <2> QED   BY <2>1, <2>3, <2>4, TypeSplit, PTL
<1>2. CASE SinkFaults(s)
  <2>1. PlayerOK'
    BY <1>0, <1>2 DEF SinkFaults, player, demux, client, PlayerOK
  <2>2. SendUpdates(s, 1, "FAULT")
    BY <1>2 DEF SinkFaults
  <2>3. PublisherOK'
    BY <1>0, <1>b, <2>2, SendUpdatesTypes
  <2>4. SinkOK'
    BY <1>0, <1>2, <1>b DEF SinkFaults, SinkOK
  <2> QED   BY <2>1, <2>3, <2>4, TypeSplit, PTL
<1>3. CASE SinkReceives(s)
  <2>1. PlayerOK'
    BY SMT, <1>0, <1>3 DEF SinkReceives, player, demux, client, PlayerOK
  <2>2. \/ MaybeSetRate(s, producerState[s], 1, 0) \/ MaybeSetRate(s, producerState[s], 0, 0)
        \/ Get(s) /\ UNCHANGED <<rate, targetRate, sinkFlushed>>
    BY <1>3 DEF SinkReceives
  <2>3. Status(producerState[s], rate[s]) \in MediaStates
    BY <1>a DEF Status, MediaStates
  <2>4. /\ PublisherOK' /\ sinkFlushed' \in [Streams -> BOOLEAN]
        /\ rate' \in [Streams -> {0, 1}] /\ targetRate' \in [Streams -> {0, 1}]
    BY <1>0, <1>a, <2>2, <2>3, MaybeSetRateTypes, GetTypes DEF SinkOK
  <2>5. SinkOK'
    BY <1>0, <1>3, <2>4 DEF SinkReceives, SinkOK
  <2> QED   BY <2>1, <2>4, <2>5, TypeSplit, PTL
<1>4. CASE SinkEnds(s)
  <2>1. PlayerOK'
    BY <1>0, <1>4 DEF SinkEnds, player, demux, client, PlayerOK
  <2>2. MaybeSetRate(s, "ENDED", 0, 1)
    BY <1>4 DEF SinkEnds
  <2>3. /\ PublisherOK' /\ sinkFlushed' \in [Streams -> BOOLEAN]
        /\ rate' \in [Streams -> {0, 1}] /\ targetRate' \in [Streams -> {0, 1}]
    BY <1>0, <1>b, <2>2, MaybeSetRateTypes DEF SinkOK
  <2>4. SinkOK'
    BY <1>0, <1>4, <1>b, <2>3 DEF SinkEnds, SinkOK
  <2> QED   BY <2>1, <2>3, <2>4, TypeSplit, PTL
<1>5. CASE SinkPrimed(s)
  <2>1. PlayerOK'
    BY <1>0, <1>5 DEF SinkPrimed, player, client, PlayerOK
  <2>2. \E n \in {0, 1} : SendUpdates(s, n, Status("PAUSED", rate[s]))
    BY <1>5 DEF SinkPrimed
  <2>3. Status("PAUSED", rate[s]) \in MediaStates
    BY DEF Status, MediaStates
  <2>4. PublisherOK'
    BY <1>0, <2>2, <2>3, SendUpdatesTypes
  <2>5. SinkOK'
    BY <1>0, <1>5, <1>b DEF SinkPrimed, SinkOK
  <2> QED   BY <2>1, <2>4, <2>5, TypeSplit, PTL
<1>6. CASE SinkFlushed(s)
  <2>1. PlayerOK'
    BY <1>0, <1>6 DEF SinkFlushed, player, client, PlayerOK
  <2>2. PublisherOK'
    BY <1>0, <1>6 DEF SinkFlushed, publisher, PublisherOK
  <2>3. SinkOK'
    BY <1>0, <1>6 DEF SinkFlushed, SinkOK
  <2> QED   BY <2>1, <2>2, <2>3, TypeSplit, PTL
<1> QED
  BY <1>1, <1>2, <1>3, <1>4, <1>5, <1>6 DEF SinkReacts

\* What MediaPlayerImpl::Update does is well typed.
LEMMA UpdateTypes ==
    ASSUME TypeOK, Update
    PROVE  TypeOK'
<1>0. PlayerOK /\ PublisherOK /\ SinkOK
  BY TypeSplit
<1>1. PublisherOK' /\ SinkOK'
  BY <1>0 DEF Update, publisher, sink, PublisherOK, SinkOK
<1>2. UNCHANGED <<targetPosition, streamState, served, wanted, commands>>
  BY DEF Update, client
<1>3. ASSUME Return PROVE /\ handler' \in Streams \cup {NoHandler, "call"}
                          /\ toSink' \in [Streams -> Seq({"Play", "Pause", "Get"})]
  BY SMT, <1>0, <1>3 DEF Return, PlayerOK
<1>4. ASSUME NEW m \in {"Play", "Pause"}, ChangeSinkStates(m)
      PROVE  toSink' \in [Streams -> Seq({"Play", "Pause", "Get"})]
  BY SMT, <1>0, <1>4 DEF ChangeSinkStates, PlayerOK
<1>5. \A m \in {"Prime", "Flush", "Seek"} : Append(calls, m) \in Seq({"Prime", "Flush", "Seek"})
  BY SMT, <1>0 DEF PlayerOK
<1>6. PlayerOK'
  <2> USE <1>0, <1>2, <1>3, <1>4, <1>5 DEF PlayerOK, PlayerStates, MediaStates
  <2>1. CASE WhenPausedAndSeeking
    BY <2>1 DEF WhenPausedAndSeeking, WhenFlushedAndSeeking, WhenPaused, Update
  <2>2. CASE StartPlaying
    BY <2>2 DEF StartPlaying
  <2>3. CASE StayPaused
    BY <2>3 DEF StayPaused
  <2>4. CASE WhenWaitingForSinksToPlay
    BY <2>4 DEF WhenWaitingForSinksToPlay
  <2>5. CASE WhenPlaying
    BY ZenonT(30), <2>5 DEF WhenPlaying
  <2>6. CASE WhenWaitingForSinksToPause
    BY <2>6 DEF WhenWaitingForSinksToPause
  <2>7. CASE WhenWaiting
    BY <2>7 DEF WhenWaiting
  <2> QED
    BY <2>1, <2>2, <2>3, <2>4, <2>5, <2>6, <2>7 DEF Update, WhenPaused
<1> QED
  BY <1>1, <1>6, TypeSplit, PTL

\* What HandleSinkStatusUpdates does is well typed.
LEMMA HandleTypes ==
    ASSUME TypeOK, NEW s \in Streams, HandleSinkStatusUpdates(s)
    PROVE  TypeOK'
<1>0. PlayerOK /\ PublisherOK /\ SinkOK
  BY TypeSplit
<1>1. SinkOK'
  BY <1>0 DEF HandleSinkStatusUpdates, sink, SinkOK
<1>2. PublisherOK'
  BY <1>0 DEF HandleSinkStatusUpdates, PublisherOK
<1>3. streamState' \in [Streams -> MediaStates]
  BY <1>0 DEF HandleSinkStatusUpdates, Prepared, MediaStates, PlayerOK
<1>4. toSink' \in [Streams -> Seq({"Play", "Pause", "Get"})]
  <2>1. toSink' = toSink \/ toSink' = [toSink EXCEPT ![s] = Append(toSink[s], "Get")]
    BY DEF HandleSinkStatusUpdates
  <2>2. toSink \in [Streams -> Seq({"Play", "Pause", "Get"})]
    BY <1>0 DEF PlayerOK
  <2>3. Append(toSink[s], "Get") \in Seq({"Play", "Pause", "Get"})
    BY SMT, <2>2
  <2> QED   BY <2>1, <2>2, <2>3
<1>5. handler' \in Streams \cup {NoHandler, "call"}
  BY <1>0 DEF HandleSinkStatusUpdates, PlayerOK
<1>6. PlayerOK'
  BY <1>0, <1>3, <1>4, <1>5 DEF HandleSinkStatusUpdates, PlayerOK, demux, client
<1> QED
  BY <1>1, <1>2, <1>6, TypeSplit, PTL

\* Every step is well typed.
LEMMA TypeStep ==
    ASSUME TypeOK, [Next]_vars
    PROVE  TypeOK'
<1> USE StreamsAssumption DEF TypeOK, player, demux, publisher, sink, client,
        MediaStates, PlayerStates
<1>1. ASSUME NEW s \in Streams, SinkReacts(s) \/ SinkEnds(s) PROVE TypeOK'
  BY <1>1, SinkTypes
<1>2. CASE Update
  BY <1>2, UpdateTypes
<1>3. ASSUME NEW s \in Streams, StreamPrepared(s) PROVE TypeOK'
  BY SMT, <1>3 DEF StreamPrepared
<1>4. ASSUME NEW s \in Streams, HandleSinkStatusUpdates(s) PROVE TypeOK'
  BY <1>4, HandleTypes
<1>5. CASE PrimeAnswered
  BY SMT, <1>5 DEF PrimeAnswered, Answered, ChangeSinkStates
<1>6. CASE FlushAnswered
  BY SMT, <1>6 DEF FlushAnswered, Answered, WhenFlushedAndSeeking
<1>7. CASE SeekAnswered
  BY SMT, <1>7 DEF SeekAnswered, Answered
<1>8. CASE Play
  BY SMT, <1>8 DEF Play, Command
<1>9. CASE Pause
  BY SMT, <1>9 DEF Pause, Command
<1>10. ASSUME NEW position \in Positions, Seek(position) PROVE TypeOK'
  BY SMT, <1>10 DEF Seek, Command
<1>11. CASE UNCHANGED vars
  BY SMT, <1>11 DEF vars
<1> QED
  BY <1>1, <1>2, <1>3, <1>4, <1>5, <1>6, <1>7, <1>8, <1>9, <1>10, <1>11
  DEF Next, PlayerReacts

-----------------------------------------------------------------------------
(* The calls to the demux. *)
\* The player's waiting states and the calls to the demux stay in step.
LEMMA WaitStep ==
    ASSUME TypeOK, WaitInv, RequestInv, [Next]_vars
    PROVE  WaitInv'
<1> USE StreamsAssumption DEF WaitInv, AllPrepared, player, demux
<1>1. ASSUME NEW s \in Streams, SinkReacts(s) \/ SinkEnds(s) PROVE WaitInv'
  BY <1>1 DEF SinkReacts, SinkReady, SinkFaults, SinkReceives, SinkPrimed,
     SinkFlushed, SinkEnds
<1>2. CASE Update
  <2>1. UNCHANGED <<targetPosition, streamState>> /\ flushed \in BOOLEAN
    BY <1>2 DEF Update, TypeOK
  <2>2. CASE state # "kPaused" \/ StayPaused
    BY <1>2, <2>1, <2>2 DEF Update, WhenPaused, StayPaused, WhenWaitingForSinksToPlay,
       WhenPlaying, WhenWaitingForSinksToPause, WhenWaiting
  <2>3. CASE state = "kPaused" /\ WhenPausedAndSeeking
    BY <2>1, <2>3, OneCall DEF WhenPausedAndSeeking, WhenFlushedAndSeeking
  <2>4. CASE state = "kPaused" /\ StartPlaying
    BY <2>1, <2>4, OneCall DEF StartPlaying
  <2> QED
    BY <1>2, <2>2, <2>3, <2>4 DEF Update, WhenPaused, WhenWaitingForSinksToPlay,
       WhenPlaying, WhenWaitingForSinksToPause, WhenWaiting
<1>3. ASSUME NEW s \in Streams, StreamPrepared(s) PROVE WaitInv'
  BY <1>3 DEF StreamPrepared, TypeOK
<1>4. ASSUME NEW s \in Streams, HandleSinkStatusUpdates(s) PROVE WaitInv'
  <2>1. streamState[s] # "UNPREPARED"
    BY <1>4 DEF HandleSinkStatusUpdates, RequestInv, Replied
  <2>2. AllPrepared' <=> AllPrepared
    BY <1>4, <2>1 DEF HandleSinkStatusUpdates, Prepared, TypeOK
  <2> QED
    BY <1>4, <2>2 DEF HandleSinkStatusUpdates
<1>5. CASE PrimeAnswered
  BY <1>5, OneCall DEF PrimeAnswered, Answered
<1>6. CASE FlushAnswered
  BY <1>6, OneCall DEF FlushAnswered, Answered, WhenFlushedAndSeeking
<1>7. CASE SeekAnswered
  BY <1>7, OneCall DEF SeekAnswered, Answered
<1>8. CASE Play
  BY <1>8 DEF Play, Command
<1>9. CASE Pause
  BY <1>9 DEF Pause, Command
<1>10. ASSUME NEW position \in Positions, Seek(position) PROVE WaitInv'
  BY <1>10 DEF Seek, Command
<1>11. CASE UNCHANGED vars
  BY <1>11 DEF vars
<1> QED
  BY <1>1, <1>2, <1>3, <1>4, <1>5, <1>6, <1>7, <1>8, <1>9, <1>10, <1>11
  DEF Next, PlayerReacts

\* A stream flows only between its preparation and its flush.
LEMMA FlowStep ==
    ASSUME TypeOK, WaitInv, FlowInv, [Next]_vars
    PROVE  FlowInv'
<1> USE StreamsAssumption DEF WaitInv, FlowInv, AllPrepared, player, demux, sink, TypeOK
<1>1. ASSUME NEW s \in Streams, SinkReady(s) \/ SinkFaults(s) \/ SinkReceives(s) \/ SinkEnds(s)
      PROVE FlowInv'
  BY <1>1 DEF SinkReady, SinkFaults, SinkReceives, SinkEnds
<1>2. ASSUME NEW s \in Streams, SinkPrimed(s) PROVE FlowInv'
  BY SMT, <1>2 DEF SinkPrimed
<1>3. ASSUME NEW s \in Streams, SinkFlushed(s) PROVE FlowInv'
  BY SMT, <1>3 DEF SinkFlushed
<1>4. CASE Update
  BY <1>4 DEF Update, WhenPaused, WhenPausedAndSeeking, WhenFlushedAndSeeking,
     StartPlaying, StayPaused, WhenWaitingForSinksToPlay, WhenPlaying,
     WhenWaitingForSinksToPause, WhenWaiting
<1>5. ASSUME NEW s \in Streams, StreamPrepared(s) \/ HandleSinkStatusUpdates(s) PROVE FlowInv'
  BY <1>5 DEF StreamPrepared, HandleSinkStatusUpdates
<1>6. CASE PrimeAnswered
  BY <1>6 DEF PrimeAnswered, Answered
<1>7. CASE FlushAnswered
  BY SMT, <1>7 DEF FlushAnswered, Answered, WhenFlushedAndSeeking
<1>8. CASE SeekAnswered
  BY <1>8 DEF SeekAnswered, Answered
<1>9. CASE Play \/ Pause \/ \E position \in Positions : Seek(position)
  BY <1>9 DEF Play, Pause, Seek, Command
<1>10. CASE UNCHANGED vars
  BY <1>10 DEF vars
<1> QED
  BY <1>1, <1>2, <1>3, <1>4, <1>5, <1>6, <1>7, <1>8, <1>9, <1>10
  DEF Next, PlayerReacts, SinkReacts

-----------------------------------------------------------------------------
(* The status requests. *)
Requests == {"Play", "Pause", "Get"}

\* Queueing a call to a sink adds a status request just when it is one.
LEMMA AppendRequest ==
    ASSUME NEW q \in Seq(Requests), NEW m \in Requests
    PROVE  /\ HasGet(Append(q, m)) <=> HasGet(q) \/ m = "Get"
           /\ OneGet(q) /\ (m = "Get" => ~HasGet(q)) => OneGet(Append(q, m))
  BY SMT DEF HasGet, OneGet, Requests

\* Taking a call from the queue removes a status request just when it was one.
LEMMA TailRequest ==
    ASSUME NEW q \in Seq(Requests), q # <<>>, OneGet(q)
    PROVE  /\ OneGet(Tail(q))
           /\ Head(q) = "Get" => HasGet(q) /\ ~HasGet(Tail(q))
           /\ Head(q) # "Get" => (HasGet(Tail(q)) <=> HasGet(q))
<1>1. /\ Len(q) \in Nat \ {0} /\ Len(Tail(q)) = Len(q) - 1 /\ Head(q) = q[1]
      /\ \A i \in 1 .. Len(q) - 1 : Tail(q)[i] = q[i + 1]
  BY SMT
<1>2. \A i \in 2 .. Len(q) : i - 1 \in 1 .. Len(q) - 1 /\ Tail(q)[i - 1] = q[i]
  BY SMT, <1>1
<1> QED
  BY SMT, <1>1, <1>2 DEF HasGet, OneGet

\* A sink that answers a parked request, or has none.
LEMMA SendKeepsRequests ==
    ASSUME TypeOK, RequestInv, NEW s \in Streams, NEW n, NEW st \in MediaStates,
           SendUpdates(s, n, st), UNCHANGED <<streamState, handler>>,
           \A t \in Streams : OneGet(toSink'[t]) /\ (HasGet(toSink'[t]) <=> HasGet(toSink[t]))
    PROVE  RequestInv'
<1>1. \A t \in Streams : Sent(t)' <=> Sent(t)
  BY DEF Sent
<1>2. CASE UNCHANGED <<pendingGet, statusReply>>
  BY <1>1, <1>2 DEF RequestInv, Parked, Replied, Handled
<1>3. CASE ~UNCHANGED <<pendingGet, statusReply>>
  <2>1. /\ Parked(s)
        /\ pendingGet' = [pendingGet EXCEPT ![s] = FALSE]
        /\ statusReply' = [statusReply EXCEPT ![s] = st]
    BY <1>3 DEF SendUpdates, TypeOK, Parked
  <2>2. st # NoStatus
    BY StreamsAssumption DEF MediaStates
  <2>3. /\ ~Parked(s)' /\ Replied(s)'
        /\ \A t \in Streams \ {s} : (Parked(t)' <=> Parked(t)) /\ (Replied(t)' <=> Replied(t))
    BY <2>1, <2>2 DEF TypeOK, Parked, Replied
  <2>4. \A t \in Streams : Handled(t)' <=> Handled(t)
    BY DEF Handled
  <2> QED
    BY <1>1, <2>1, <2>3, <2>4 DEF RequestInv
<1> QED
  BY <1>2, <1>3

\* The sinks' steps keep each stream's status request in one place.
LEMMA SinkKeepsRequests ==
    ASSUME TypeOK, RequestInv, NEW s \in Streams, SinkReacts(s) \/ SinkEnds(s)
    PROVE  RequestInv'
<1>1. UNCHANGED <<streamState, handler>>
  BY DEF SinkReacts, SinkReady, SinkFaults, SinkReceives, SinkPrimed, SinkFlushed,
     SinkEnds, player
<1>a. producerState[s] \in MediaStates /\ toSink[s] \in Seq(Requests) /\ toSink \in [Streams -> Seq(Requests)]
  BY DEF TypeOK, Requests
<1>b. \A st \in MediaStates : \A r : Status(st, r) \in MediaStates
  BY DEF Status, MediaStates
<1>c. {"FAULT", "ENDED", "PAUSED"} \subseteq MediaStates
  BY DEF MediaStates
<1>2. CASE SinkReady(s) \/ SinkFaults(s) \/ SinkEnds(s) \/ SinkPrimed(s)
  <2>1. UNCHANGED toSink
    BY <1>2 DEF SinkReady, SinkFaults, SinkPrimed, SinkEnds
  <2>2. \E st \in MediaStates : \E n : SendUpdates(s, n, st)
    BY <1>2, <1>a, <1>b, <1>c DEF SinkReady, SinkFaults, SinkPrimed, SinkEnds, MaybeSetRate
  <2> QED
    BY <1>1, <2>1, <2>2, SendKeepsRequests DEF RequestInv
<1>3. CASE SinkFlushed(s)
  BY <1>1, <1>3 DEF SinkFlushed, publisher, RequestInv, Sent, Parked, Replied, Handled
<1>4. CASE SinkReceives(s)
  <2>1. /\ toSink[s] # <<>> /\ toSink' = [toSink EXCEPT ![s] = Tail(toSink[s])]
        /\ OneGet(toSink[s])
    BY <1>4 DEF SinkReceives, RequestInv
  <2>2. /\ OneGet(toSink'[s])
        /\ Head(toSink[s]) = "Get" => HasGet(toSink[s]) /\ ~HasGet(toSink'[s])
        /\ Head(toSink[s]) # "Get" => (HasGet(toSink'[s]) <=> HasGet(toSink[s]))
        /\ \A t \in Streams \ {s} : toSink'[t] = toSink[t]
    BY <1>a, <2>1, TailRequest
  <2>3. CASE Head(toSink[s]) # "Get"
    <3>1. \A t \in Streams : OneGet(toSink'[t]) /\ (HasGet(toSink'[t]) <=> HasGet(toSink[t]))
      BY <2>2, <2>3 DEF RequestInv
    <3>2. \E st \in MediaStates : \E n : SendUpdates(s, n, st)
      BY <1>4, <2>3, <1>a, <1>b DEF SinkReceives, MaybeSetRate
    <3> QED
      BY <1>1, <3>1, <3>2, SendKeepsRequests
  <2>4. CASE Head(toSink[s]) = "Get"
    <3>1. Get(s)
      BY <1>4, <2>4 DEF SinkReceives
    <3>2. Status(producerState[s], rate[s]) # NoStatus
      BY <1>a, <1>b, StreamsAssumption DEF MediaStates
    <3>3. /\ ~Parked(s) /\ ~Replied(s) /\ ~Handled(s) /\ streamState[s] # "UNPREPARED"
      BY <2>2, <2>4 DEF RequestInv, Sent
    <3>4. /\ (Parked(s)' /\ ~Replied(s)') \/ (~Parked(s)' /\ Replied(s)')
          /\ \A t \in Streams \ {s} : (Parked(t)' <=> Parked(t)) /\ (Replied(t)' <=> Replied(t))
      BY SMT, <3>1, <3>2, <3>3 DEF Get, TypeOK, Parked, Replied
    <3>5. /\ ~Sent(s)' /\ \A t \in Streams \ {s} : Sent(t)' <=> Sent(t)
      BY <2>2, <2>4 DEF Sent
    <3>6. \A t \in Streams : Handled(t)' <=> Handled(t)
      BY <1>1 DEF Handled
    <3>7. \A t \in Streams : OneGet(toSink[t])'
      BY <2>2 DEF RequestInv
    <3> QED
      BY <1>1, <3>3, <3>4, <3>5, <3>6, <3>7 DEF RequestInv
  <2> QED   BY <2>3, <2>4
<1> QED
  BY <1>2, <1>3, <1>4 DEF SinkReacts

\* The player's own steps: each stream's request moves on or stays where it is.
LEMMA PlayerKeepsRequests ==
    ASSUME TypeOK, RequestInv, Next, ~\E s \in Streams : SinkReacts(s) \/ SinkEnds(s)
    PROVE  RequestInv'
<1> USE StreamsAssumption
<1>0. UNCHANGED pendingGet
  BY DEF Next, PlayerReacts, Update, PrimeAnswered, FlushAnswered, SeekAnswered,
     StreamPrepared, HandleSinkStatusUpdates, Play, Pause, Seek, Command, publisher
<1>a. /\ \A t \in Streams : toSink[t] \in Seq(Requests) /\ OneGet(toSink[t])
      /\ toSink \in [Streams -> Seq(Requests)]
  BY DEF TypeOK, Requests, RequestInv
<1>b. \A t \in Streams : /\ t # NoHandler /\ t # "call"
                         /\ Parked(t)' <=> Parked(t)
  BY <1>0 DEF Parked
<1>1. ASSUME UNCHANGED <<streamState, statusReply>>,
             \/ Return
             \/ \E m \in {"Play", "Pause"} : ChangeSinkStates(m) /\ handler' = handler
             \/ \E m \in {"Play", "Pause"} :
                   ChangeSinkStates(m) /\ handler = NoHandler /\ handler' = "call"
             \/ UNCHANGED <<toSink, handler>>
             \/ toSink' = toSink /\ handler = NoHandler /\ handler' = "call"
      PROVE  RequestInv'
  <2>1. \A t \in Streams : Replied(t)' <=> Replied(t)
    BY <1>1 DEF Replied
  <2> DEFINE Called == handler' = handler \/ (handler = NoHandler /\ handler' = "call")
  <2>2. CASE UNCHANGED toSink /\ Called
    BY <1>1, <1>b, <2>1, <2>2 DEF RequestInv, Sent, Handled
  <2>3. CASE Called /\ \E m \in {"Play", "Pause"} : ChangeSinkStates(m)
    <3>1. \A t \in Streams : OneGet(toSink'[t]) /\ (HasGet(toSink'[t]) <=> HasGet(toSink[t]))
      BY SMT, <1>a, <2>3, AppendRequest DEF ChangeSinkStates, Requests
    <3>2. \A t \in Streams : Handled(t)' <=> Handled(t)
      BY <1>b, <2>3 DEF Handled
    <3> QED   BY <1>1, <1>b, <2>1, <3>1, <3>2 DEF RequestInv, Sent
  <2>4. CASE Return
    <3>1. \A t \in Streams : ~Handled(t)'
      BY <1>b, <2>4 DEF Return, Handled
    <3>2. \A t \in Streams : ~Handled(t) => toSink'[t] = toSink[t]
      BY <2>4 DEF Return, Handled
    <3>3. \A t \in Streams : Handled(t) => toSink'[t] = Append(toSink[t], "Get")
      BY <2>4 DEF Return, Handled
    <3>4. \A t \in Streams : Handled(t) => ~HasGet(toSink[t])
      BY DEF RequestInv, Sent
    <3>5. ASSUME NEW t \in Streams, Handled(t)
          PROVE  OneGet(toSink'[t]) /\ HasGet(toSink'[t])
      <4>1. "Get" \in Requests
        BY DEF Requests
      <4>2. OneGet(Append(toSink[t], "Get")) /\ HasGet(Append(toSink[t], "Get"))
        BY <1>a, <3>4, <3>5, <4>1, AppendRequest
      <4> QED   BY <3>3, <3>5, <4>2
    <3> QED   BY <1>1, <1>a, <1>b, <2>1, <3>1, <3>2, <3>5 DEF RequestInv, Sent
  <2> QED   BY <1>1, <2>2, <2>3, <2>4
<1>2. CASE Update
  BY <1>1, <1>2 DEF Update, WhenPaused, WhenPausedAndSeeking, StartPlaying, StayPaused,
     WhenWaitingForSinksToPlay, WhenPlaying, WhenWaitingForSinksToPause, WhenWaiting, publisher
<1>3. CASE PrimeAnswered
  BY <1>1, <1>3 DEF PrimeAnswered, Answered, publisher
<1>4. CASE FlushAnswered
  BY <1>1, <1>4 DEF FlushAnswered, publisher
<1>5. CASE SeekAnswered
  BY <1>1, <1>5 DEF SeekAnswered, Answered, publisher
<1>6. CASE Play \/ Pause \/ \E position \in Positions : Seek(position)
  BY <1>1, <1>6 DEF Play, Pause, Seek, Command, publisher
<1>7. ASSUME NEW s \in Streams, StreamPrepared(s) PROVE RequestInv'
  <2>1. /\ ~Sent(s) /\ ~Parked(s) /\ ~Replied(s) /\ handler = NoHandler
    BY <1>7 DEF StreamPrepared, RequestInv
  <2>2. \A t \in Streams : ~Handled(t) /\ ~Handled(t)' /\ (Replied(t)' <=> Replied(t))
    BY <1>7, <1>b DEF StreamPrepared, Handled, Replied, publisher
  <2>3. /\ toSink'[s] = Append(toSink[s], "Get") /\ streamState'[s] # "UNPREPARED"
        /\ \A t \in Streams \ {s} : toSink'[t] = toSink[t] /\ streamState'[t] = streamState[t]
    BY <1>7 DEF StreamPrepared, TypeOK
  <2>4. OneGet(toSink'[s]) /\ HasGet(toSink'[s])
    BY SMT, <1>a, <2>1, <2>3, AppendRequest DEF Requests, Sent
  <2> QED   BY <1>b, <2>1, <2>2, <2>3, <2>4 DEF RequestInv, Sent
<1>8. ASSUME NEW s \in Streams, HandleSinkStatusUpdates(s) PROVE RequestInv'
  <2>1. /\ ~Sent(s) /\ ~Parked(s) /\ Replied(s) /\ handler = NoHandler
        /\ streamState[s] # "UNPREPARED"
    BY <1>8 DEF HandleSinkStatusUpdates, RequestInv, Replied
  <2>2. /\ ~Replied(s)'
        /\ \A t \in Streams \ {s} : (Replied(t)' <=> Replied(t)) /\ streamState'[t] = streamState[t]
    BY <1>8 DEF HandleSinkStatusUpdates, TypeOK, Replied
  <2>3. streamState'[s] # "UNPREPARED"
    BY <1>8, <2>1 DEF HandleSinkStatusUpdates, TypeOK, Prepared
  <2>4. CASE handler' = s /\ UNCHANGED toSink
    BY <1>b, <2>1, <2>2, <2>3, <2>4 DEF RequestInv, Sent, Handled
  <2>5. CASE handler' = handler /\ toSink' = [toSink EXCEPT ![s] = Append(toSink[s], "Get")]
    <3>1. toSink'[s] = Append(toSink[s], "Get") /\ \A t \in Streams \ {s} : toSink'[t] = toSink[t]
      BY <1>a, <2>5
    <3>2. OneGet(toSink'[s]) /\ HasGet(toSink'[s])
      BY SMT, <1>a, <2>1, <3>1, AppendRequest DEF Requests, Sent
    <3> QED   BY <1>b, <2>1, <2>2, <2>3, <2>5, <3>1, <3>2 DEF RequestInv, Sent, Handled
  <2> QED
    BY <1>8, <2>4, <2>5 DEF HandleSinkStatusUpdates
<1> QED
  BY <1>2, <1>3, <1>4, <1>5, <1>6, <1>7, <1>8 DEF Next, PlayerReacts

\* Every step keeps each stream's status request in one place.
LEMMA RequestStep ==
    ASSUME TypeOK, RequestInv, [Next]_vars
    PROVE  RequestInv'
<1>1. CASE UNCHANGED vars
  BY <1>1 DEF vars, player, publisher, RequestInv, Sent, Parked, Replied, Handled
<1> QED
  BY <1>1, SinkKeepsRequests, PlayerKeepsRequests

-----------------------------------------------------------------------------
(* The beliefs. *)

\* A handler of the sink of s that reports its new status, or has nothing new.
LEMMA SendKeepsBeliefs ==
    ASSUME TypeOK, RequestInv, BeliefInv, NEW s \in Streams, NEW n \in Nat, NEW st,
           SendUpdates(s, n, st), UNCHANGED streamState, st \in MediaStates,
           n > 0 => st = Status(producerState[s], rate[s])',
           n = 0 => UNCHANGED <<producerState[s], rate[s]>>,
           \A t \in Streams \ {s} : UNCHANGED <<producerState[t], rate[t]>>
    PROVE  BeliefInv'
<1>1. st # NoStatus
  BY StreamsAssumption DEF MediaStates
<1>a. streamState[s] = "UNPREPARED" => ~pendingGet[s]
  BY DEF RequestInv, Parked, TypeOK
<1>2. ASSUME NEW t \in Streams \ {s} PROVE
        UNCHANGED <<pendingGet[t], unseen[t], statusReply[t]>>
  BY <1>2 DEF SendUpdates, TypeOK
<1>3. CASE n > 0 /\ pendingGet[s]
  <2>1. statusReply'[s] = st /\ pendingGet'[s] = FALSE
    BY <1>3 DEF SendUpdates, TypeOK
  <2> QED
    BY SMT, <1>a, <1>1, <1>2, <1>3, <2>1 DEF BeliefInv, Believed
<1>4. CASE n > 0 /\ ~pendingGet[s]
  <2>1. unseen'[s] = TRUE /\ pendingGet'[s] = FALSE
    <3>1. (unseen[s] \/ n > 0) = TRUE
      BY <1>4
    <3>2. unseen' = [unseen EXCEPT ![s] = TRUE] /\ pendingGet' = pendingGet
      BY <1>4, <3>1 DEF SendUpdates
    <3> QED   BY <1>4, <3>2 DEF TypeOK
  <2> QED
    BY ZenonT(30), <1>2, <2>1 DEF BeliefInv, Believed
<1>5. CASE n = 0
  <2>1. unseen'[s] = unseen[s] /\ UNCHANGED <<pendingGet, statusReply>>
    BY SMT, <1>5 DEF SendUpdates, TypeOK
  <2> QED
    BY ZenonT(30), <1>2, <1>5, <2>1 DEF BeliefInv, Believed
<1> QED
  BY SMT, <1>3, <1>4, <1>5

\* MaybeSetRate tells the player of the state it leaves the sink in.
LEMMA MaybeSetRateKeepsBeliefs ==
    ASSUME TypeOK, RequestInv, BeliefInv, NEW s \in Streams, NEW st \in MediaStates,
           NEW r \in {0, 1}, NEW n \in Nat, MaybeSetRate(s, st, r, n), UNCHANGED streamState,
           producerState'[s] = st, n = 0 => producerState[s] = st,
           n > 0 => Prepared(st),
           \A t \in Streams \ {s} : producerState'[t] = producerState[t]
    PROVE  BeliefInv'
<1> DEFINE sets == Prepared(st) /\ rate[s] # r
           k == IF sets THEN n + 1 ELSE n
<1>1. k \in Nat /\ (k > 0 => n > 0 \/ sets) /\ (k = 0 => n = 0 /\ ~sets)
  BY SMT
<1>2. SendUpdates(s, k, Status(st, r)) /\ rate' = [rate EXCEPT ![s] = IF sets THEN r ELSE rate[s]]
  BY DEF MaybeSetRate
<1>3. Status(st, r) \in MediaStates
  BY DEF Status, MediaStates
<1>4. /\ rate'[s] = (IF sets THEN r ELSE rate[s])
      /\ \A t \in Streams \ {s} : rate'[t] = rate[t]
  BY <1>2 DEF TypeOK
<1>5. k > 0 => Status(st, r) = Status(producerState[s], rate[s])'
  BY <1>1, <1>4 DEF Status
<1>6. k = 0 => UNCHANGED <<producerState[s], rate[s]>>
  BY <1>1, <1>4
<1> HIDE DEF k, sets
<1> QED
  BY <1>1, <1>2, <1>3, <1>4, <1>5, <1>6, SendKeepsBeliefs

\* What the player believes of a sink is its state, or the news is on its way.
LEMMA BeliefStep ==
    ASSUME TypeOK, RequestInv, BeliefInv, [Next]_vars
    PROVE  BeliefInv'
<1>a. \A s \in Streams : producerState[s] \in MediaStates /\ targetRate[s] \in {0, 1} /\ rate[s] \in {0, 1}
  BY DEF TypeOK
<1>b. {"FAULT", "ENDED", "PAUSED"} \subseteq MediaStates
  BY DEF MediaStates
<1>c. \A st \in MediaStates : \A r : Status(st, r) \in MediaStates
  BY DEF Status, MediaStates
<1>1. ASSUME NEW s \in Streams, SinkReady(s) PROVE BeliefInv'
  <2>1. /\ MaybeSetRate(s, producerState[s], targetRate[s], 0)
        /\ UNCHANGED <<streamState, producerState>>
    BY <1>1 DEF SinkReady, player
  <2> QED
    BY SMT, <1>a, <2>1, MaybeSetRateKeepsBeliefs
<1>2. ASSUME NEW s \in Streams, SinkFaults(s) PROVE BeliefInv'
  <2>1. /\ SendUpdates(s, 1, "FAULT") /\ UNCHANGED <<streamState, rate>>
        /\ producerState' = [producerState EXCEPT ![s] = "FAULT"]
    BY <1>2 DEF SinkFaults, player
  <2>2. /\ producerState'[s] = "FAULT"
        /\ \A t \in Streams \ {s} : producerState'[t] = producerState[t]
    BY <2>1 DEF TypeOK
  <2>3. "FAULT" = Status(producerState[s], rate[s])'
    BY <2>2 DEF Status
  <2> QED
    BY SMT, <1>b, <2>1, <2>2, <2>3, SendKeepsBeliefs
<1>3. ASSUME NEW s \in Streams, SinkReceives(s) PROVE BeliefInv'
  <2>1. UNCHANGED <<streamState, producerState>>
    BY <1>3 DEF SinkReceives, player
  <2>2. CASE \E r \in {0, 1} : MaybeSetRate(s, producerState[s], r, 0)
    BY SMT, <1>a, <2>1, <2>2, MaybeSetRateKeepsBeliefs
  <2>3. CASE Head(toSink[s]) = "Get" /\ Get(s) /\ UNCHANGED <<rate, targetRate, sinkFlushed>>
    <3>1. Status(producerState[s], rate[s]) # NoStatus
      BY SMT, <1>a, <1>c, StreamsAssumption DEF MediaStates
    <3>a. streamState[s] # "UNPREPARED"
      <4>1. toSink[s] \in Seq(Requests) /\ toSink[s] # <<>>
        BY <1>3 DEF SinkReceives, TypeOK, Requests
      <4>2. HasGet(toSink[s])
        BY <2>3, <4>1, TailRequest DEF RequestInv
      <4> QED   BY <4>2 DEF RequestInv, Sent
    <3>2. CASE unseen[s]
      <4>1. /\ statusReply'[s] = Status(producerState[s], rate[s])
            /\ \A t \in Streams \ {s} : UNCHANGED <<statusReply[t], unseen[t], pendingGet[t]>>
            /\ pendingGet'[s] = FALSE
        BY SMT, <2>3, <3>2 DEF Get, TypeOK, BeliefInv
      <4> QED   BY <2>1, <2>3, <3>a, <3>1, <4>1 DEF BeliefInv, Believed
    <3>3. CASE ~unseen[s]
      <4>1. unseen[s] = FALSE /\ UNCHANGED <<unseen, statusReply>>
        BY <2>3, <3>3 DEF Get, TypeOK
      <4>2. \A t \in Streams \ {s} : UNCHANGED pendingGet[t]
        BY <2>3, <3>3 DEF Get, TypeOK
      <4> QED   BY <2>1, <2>3, <4>1, <4>2 DEF BeliefInv, Believed
    <3> QED   BY <3>2, <3>3
  <2> QED
    BY <1>3, <2>2, <2>3 DEF SinkReceives
<1>4. ASSUME NEW s \in Streams, SinkEnds(s) PROVE BeliefInv'
  <2>1. /\ MaybeSetRate(s, "ENDED", 0, 1) /\ UNCHANGED streamState
        /\ producerState' = [producerState EXCEPT ![s] = "ENDED"]
    BY <1>4 DEF SinkEnds, player
  <2>2. producerState'[s] = "ENDED" /\ \A t \in Streams \ {s} : producerState'[t] = producerState[t]
    BY <2>1 DEF TypeOK
  <2>3. Prepared("ENDED")
    BY DEF Prepared
  <2> QED
    BY SMT, <1>b, <2>1, <2>2, <2>3, MaybeSetRateKeepsBeliefs
<1>5. ASSUME NEW s \in Streams, SinkPrimed(s) PROVE BeliefInv'
  <2> DEFINE k == IF producerState[s] = "PAUSED" THEN 0 ELSE 1
  <2>1. /\ SendUpdates(s, k, Status("PAUSED", rate[s])) /\ UNCHANGED <<streamState, rate>>
        /\ producerState' = [producerState EXCEPT ![s] = "PAUSED"]
    BY <1>5 DEF SinkPrimed, player
  <2>2. producerState'[s] = "PAUSED" /\ \A t \in Streams \ {s} : producerState'[t] = producerState[t]
    BY <2>1 DEF TypeOK
  <2>3. Status("PAUSED", rate[s]) = Status(producerState[s], rate[s])'
    BY <2>1, <2>2
  <2>4. k \in Nat /\ (k = 0 => UNCHANGED <<producerState[s], rate[s]>>)
    BY SMT, <2>1, <2>2
  <2> HIDE DEF k
  <2> QED
    BY <1>b, <1>c, <2>1, <2>2, <2>3, <2>4, SendKeepsBeliefs
<1>6. CASE UNCHANGED <<publisher, streamState, producerState, rate>>
  BY <1>6 DEF publisher, BeliefInv, Believed
<1>7. ASSUME NEW s \in Streams, StreamPrepared(s) PROVE BeliefInv'
  <2>1. /\ UNCHANGED <<publisher, producerState, rate>> /\ streamState[s] = "UNPREPARED"
        /\ streamState'[s] = "PAUSED" /\ \A t \in Streams \ {s} : UNCHANGED streamState[t]
    BY <1>7 DEF StreamPrepared, TypeOK, sink
  <2> QED   BY <2>1 DEF BeliefInv, Believed, publisher
<1>8. ASSUME NEW s \in Streams, HandleSinkStatusUpdates(s) PROVE BeliefInv'
  <2>1. /\ UNCHANGED <<pendingGet, unseen, producerState, rate>> /\ statusReply[s] # NoStatus
        /\ \A t \in Streams \ {s} : UNCHANGED <<statusReply[t], streamState[t]>>
        /\ statusReply'[s] = NoStatus
    BY <1>8 DEF HandleSinkStatusUpdates, TypeOK, sink
  <2>a. streamState[s] # "UNPREPARED"
    BY <2>1 DEF RequestInv, Replied
  <2>2. Prepared(statusReply[s]) => streamState'[s] = statusReply[s]
    BY <1>8 DEF HandleSinkStatusUpdates, TypeOK
  <2>3. Prepared(producerState[s]) => Prepared(Status(producerState[s], rate[s]))
    BY DEF Prepared, Status
  <2>4. streamState'[s] # "UNPREPARED"
    BY <1>8, <2>a DEF HandleSinkStatusUpdates, TypeOK, Prepared
  <2> QED   BY <2>1, <2>2, <2>3, <2>4 DEF BeliefInv, Believed
<1>9. CASE ~\E s \in Streams : \/ SinkReady(s) \/ SinkFaults(s) \/ SinkReceives(s) \/ SinkEnds(s)
                              \/ SinkPrimed(s) \/ StreamPrepared(s) \/ HandleSinkStatusUpdates(s)
  BY <1>6, <1>9 DEF Next, PlayerReacts, SinkReacts, Update, PrimeAnswered, FlushAnswered,
     SeekAnswered, SinkFlushed, Play, Pause, Seek, Command, vars, player, publisher, sink
<1> QED
  BY <1>1, <1>2, <1>3, <1>4, <1>5, <1>7, <1>8, <1>9

-----------------------------------------------------------------------------
\* The inductive invariant implies the property.
LEMMA IInvImplies == IInv => PartsAreInStep
<1> SUFFICES ASSUME IInv PROVE PartsAreInStep
  OBVIOUS
<1> USE DEF IInv
<1>1. WaitingIsAnswered
  <2>1. \A c : Len(<<c>>) = 1
    OBVIOUS
  <2>2. ASSUME AllPrepared
        PROVE  /\ Len(calls) <= 1
               /\ state = "kWaiting" <=> calls # <<>>
               /\ calls # <<>> /\ Head(calls) # "Prime" => targetPosition # NotSeeking
    <3>1. /\ state = "kWaiting" <=> calls # <<>>
          /\ calls # <<>> /\ Head(calls) # "Prime" => targetPosition # NotSeeking
          /\ calls = <<>> \/ \E c : calls = <<c>>
      BY <2>2, OneCall DEF WaitInv
    <3> QED   BY SMT, <2>1, <3>1
  <2> QED
    BY <2>2 DEF WaitingIsAnswered, AllPrepared
<1>2. SeeksWhenFlushed
  <2>1. flushed => \A s \in Streams : ~flowing[s]
    BY DEF FlowInv, TypeOK
  <2>2. calls # <<>> /\ Head(calls) = "Seek" => flushed = TRUE
    BY OneCall DEF WaitInv
  <2> QED   BY <2>1, <2>2 DEF SeeksWhenFlushed
<1>3. OneStatusRequest
  <2> SUFFICES ASSUME NEW s \in Streams, streamState[s] # "UNPREPARED"
               PROVE  Cardinality({i \in 1 .. Len(toSink[s]) : toSink[s][i] = "Get"})
                        + (IF pendingGet[s] THEN 1 ELSE 0)
                        + (IF statusReply[s] # NoStatus THEN 1 ELSE 0)
                        + (IF handler = s THEN 1 ELSE 0) = 1
    BY DEF OneStatusRequest
  <2> DEFINE gets == {i \in 1 .. Len(toSink[s]) : toSink[s][i] = "Get"}
  <2>1. pendingGet[s] \in BOOLEAN
    BY DEF TypeOK
  <2>2. CASE Sent(s)
    <3>1. PICK i \in 1 .. Len(toSink[s]) : toSink[s][i] = "Get"
      BY <2>2 DEF Sent, HasGet
    <3>2. gets = {i}
      BY <3>1 DEF RequestInv, OneGet
    <3>3. Cardinality(gets) = 1
      BY <3>2, FS_Singleton
    <3>4. ~Parked(s) /\ ~Replied(s) /\ ~Handled(s)
      BY <2>2 DEF RequestInv
    <3> HIDE DEF gets
    <3> QED   BY SMT, <2>1, <3>3, <3>4 DEF Parked, Replied, Handled, gets
  <2>3. CASE ~Sent(s)
    <3>1. gets = {}
      BY <2>3 DEF Sent, HasGet
    <3>2. Cardinality(gets) = 0
      BY <3>1, FS_EmptySet
    <3>3. \/ Parked(s) /\ ~Replied(s) /\ ~Handled(s)
          \/ ~Parked(s) /\ Replied(s) /\ ~Handled(s)
          \/ ~Parked(s) /\ ~Replied(s) /\ Handled(s)
      BY <2>3 DEF RequestInv
    <3> HIDE DEF gets
    <3> QED   BY SMT, <2>1, <3>2, <3>3 DEF Parked, Replied, Handled, gets
  <2> QED   BY <2>2, <2>3
<1>4. BeliefsAreTrue
  <2> SUFFICES ASSUME Quiet, NEW s \in Streams, Prepared(producerState[s])
               PROVE  streamState[s] = Status(producerState[s], rate[s])
    BY DEF BeliefsAreTrue
  <2>1. /\ streamState[s] # "UNPREPARED" /\ toSink[s] = <<>> /\ handler = NoHandler
        /\ statusReply[s] = NoStatus
    BY DEF Quiet
  <2>2. ~Sent(s) /\ ~Replied(s) /\ ~Handled(s)
    BY SMT, <2>1, StreamsAssumption DEF Sent, HasGet, Replied, Handled
  <2>3. Parked(s)
    BY <2>1, <2>2 DEF RequestInv
  <2> QED   BY <2>1, <2>3 DEF Parked, BeliefInv, Believed
<1> QED
  BY <1>1, <1>2, <1>3, <1>4 DEF PartsAreInStep

\* MediaPlayerImpl and its parts stay in step whatever the client does, for any set
\* of streams and any number of commands: the player waits for exactly one answer of
\* the demux, the demux is repositioned only while no sink holds packets, every
\* stream has one status request outstanding, and at rest the player's picture of
\* a prepared sink is the sink's state.
THEOREM PartsAreInStepHolds == Spec => []PartsAreInStep
<1>1. IInv /\ [Next]_vars => IInv'
  BY TypeStep, WaitStep, FlowStep, RequestStep, BeliefStep DEF IInv
<1> QED
  BY InitIInv, <1>1, IInvImplies, PTL DEF Spec

-----------------------------------------------------------------------------
(* A patient client is obeyed.  What the sinks were told, and what they did. *)

\* A sink that was primed and has been ready for a rate since.
Primed(s) == ready[s] = TRUE /\ producerState[s] \in {"PAUSED", "ENDED"}

\* The requests on their way to a sink: none sets its rate, or m is the last
\* that does.
NoControl(q) == \A i \in 1 .. Len(q) : q[i] = "Get"
LastIs(q, m) == \E i \in 1 .. Len(q) : q[i] = m /\ \A j \in i + 1 .. Len(q) : q[j] = "Get"
HasPlay(q) == \E i \in 1 .. Len(q) : q[i] = "Play"

\* Only a primed sink is told to play, and the rate it was told is the rate it has.
RateInv ==
    \A s \in Streams :
        /\ producerState[s] \in {"PAUSED", "ENDED"} => ready[s] = TRUE
        /\ HasPlay(toSink[s]) => Primed(s)
        /\ rate[s] = targetRate[s]
        /\ ~Primed(s) => rate[s] = 0

PrimedInv ==
    /\ flushed = FALSE /\ calls # <<"Prime">> => \A s \in Streams : Primed(s)
    /\ calls = <<"Prime">> => \A s \in served : Primed(s)
    /\ state \in {"kWaitingForSinksToPlay", "kPlaying", "kWaitingForSinksToPause"} =>
           flushed = FALSE

\* While the player waits for its sinks to play or to pause, every sink does or
\* is about to.
OrderInv ==
    /\ state = "kWaitingForSinksToPlay" =>
           \A s \in Streams :
               \/ LastIs(toSink[s], "Play")
               \/ NoControl(toSink[s]) /\ (rate[s] = 1 \/ producerState[s] = "ENDED")
    /\ state = "kWaitingForSinksToPause" =>
           \A s \in Streams :
               \/ LastIs(toSink[s], "Pause")
               \/ NoControl(toSink[s]) /\ rate[s] = 0

\* Between two handlers Update has nothing left to do.
RestInv ==
    handler = NoHandler =>
        /\ state = "kPaused" => targetPosition = NotSeeking /\ targetState # "PLAYING"
        /\ state = "kWaitingForSinksToPlay" => ~AllSinksAre({"PLAYING", "ENDED"})
        /\ state = "kWaitingForSinksToPause" => ~AllSinksAre({"PAUSED", "ENDED"})

\* No command comes between a command and its effect.
TargetInv ==
    /\ state = "kWaitingForSinksToPlay" \/ calls = <<"Prime">> =>
           targetState = "PLAYING" /\ targetPosition = NotSeeking
    /\ state = "kPlaying" => reported = "PLAYING"
    /\ state \in {"kPlaying", "kWaitingForSinksToPause"} => targetState \in {"PLAYING", "PAUSED"}
    /\ reported = "PLAYING" /\ state \notin {"kPlaying", "kWaitingForSinksToPause"} =>
           targetState = "PLAYING"
    /\ handler = NoHandler /\ state = "kPlaying" =>
           targetPosition = NotSeeking /\ targetState = "PLAYING"

SeekInv ==
    /\ targetPosition = NotSeeking => demuxAt = wanted
    /\ targetPosition # NotSeeking => targetPosition = wanted
    /\ calls = <<"Seek">> => demuxAt = targetPosition

PatientInv == IInv /\ RateInv /\ PrimedInv /\ OrderInv /\ RestInv /\ TargetInv /\ SeekInv

\* The patient client's invariant holds at the start.
LEMMA InitPatientInv == Init => PatientInv
<1> SUFFICES ASSUME Init PROVE PatientInv
  OBVIOUS
<1>1. RateInv
  BY SMT DEF Init, RateInv, HasPlay, Primed
<1>2. PrimedInv /\ OrderInv /\ RestInv /\ TargetInv /\ SeekInv
  BY OneCall DEF Init, PrimedInv, OrderInv, RestInv, TargetInv, SeekInv
<1> QED
  BY <1>1, <1>2, InitIInv DEF PatientInv

\* An empty queue has no last order.
LEMMA NoOrderIsLast == \A c : ~LastIs(<<>>, c)
  BY SMT DEF LastIs

\* What queueing a call does to the last order in a sink's queue.
LEMMA AppendControl ==
    ASSUME NEW q \in Seq(Requests), NEW m \in Requests
    PROVE  /\ m = "Get" /\ NoControl(q) => NoControl(Append(q, m))
           /\ m = "Get" => \A c \in {"Play", "Pause"} : LastIs(q, c) => LastIs(Append(q, m), c)
           /\ LastIs(Append(q, m), m)
           /\ HasPlay(Append(q, m)) <=> HasPlay(q) \/ m = "Play"
  BY SMT DEF NoControl, LastIs, HasPlay, Requests

\* What taking a call does to the last order in a sink's queue.
LEMMA TailControl ==
    ASSUME NEW q \in Seq(Requests), q # <<>>
    PROVE  /\ NoControl(q) => NoControl(Tail(q)) /\ Head(q) = "Get"
           /\ \A c \in {"Play", "Pause"} :
                 LastIs(q, c) => LastIs(Tail(q), c) \/ (Head(q) = c /\ NoControl(Tail(q)))
           /\ HasPlay(Tail(q)) => HasPlay(q)
           /\ Head(q) = "Play" => HasPlay(q)
<1>1. /\ Len(q) \in Nat \ {0} /\ Len(Tail(q)) = Len(q) - 1 /\ Head(q) = q[1]
      /\ \A i \in 1 .. Len(q) - 1 : Tail(q)[i] = q[i + 1]
  BY SMT
<1>2. \A i \in 2 .. Len(q) : i - 1 \in 1 .. Len(q) - 1 /\ Tail(q)[i - 1] = q[i]
  BY SMT, <1>1
<1>3. ASSUME NEW c \in {"Play", "Pause"}, LastIs(q, c)
      PROVE  LastIs(Tail(q), c) \/ (Head(q) = c /\ NoControl(Tail(q)))
  <2>1. PICK i \in 1 .. Len(q) : q[i] = c /\ \A j \in i + 1 .. Len(q) : q[j] = "Get"
    BY <1>3 DEF LastIs
  <2>2. CASE i = 1
    BY SMT, <1>1, <2>1, <2>2 DEF NoControl
  <2>3. CASE i # 1
    <3>1. i - 1 \in 1 .. Len(q) - 1 /\ Tail(q)[i - 1] = c
      BY SMT, <1>2, <2>1, <2>3
    <3>2. \A j \in (i - 1) + 1 .. Len(q) - 1 : Tail(q)[j] = "Get"
      BY SMT, <1>1, <2>1, <2>3
    <3> QED   BY <1>1, <3>1, <3>2 DEF LastIs
  <2> QED   BY <2>2, <2>3
<1> QED
  BY SMT, <1>1, <1>3 DEF NoControl, HasPlay

\* MaybeSetRate, by its effect on the rate and on what is reported.
LEMMA SetsRate ==
    ASSUME TypeOK, NEW s \in Streams, NEW st, NEW r \in {0, 1}, NEW n,
           MaybeSetRate(s, st, r, n), Prepared(st) \/ rate[s] = r
    PROVE  /\ rate'[s] = r /\ targetRate'[s] = r
           /\ \A t \in Streams \ {s} : rate'[t] = rate[t] /\ targetRate'[t] = targetRate[t]
<1>1. /\ targetRate' = [targetRate EXCEPT ![s] = r]
      /\ rate' = [rate EXCEPT ![s] = IF Prepared(st) /\ rate[s] # r THEN r ELSE rate[s]]
  BY DEF MaybeSetRate
<1> QED
  BY <1>1 DEF TypeOK

\* What a step of the sink of s does to its rate, its priming and its requests.
SinkEffect(s) ==
    /\ \A t \in Streams \ {s} :
           UNCHANGED <<rate[t], targetRate[t], ready[t], producerState[t], toSink[t]>>
    /\ \/ UNCHANGED <<rate[s], targetRate[s], toSink[s]>>
       \/ /\ UNCHANGED toSink[s] /\ rate'[s] = 0 /\ targetRate'[s] = 0
          /\ producerState'[s] = "ENDED" /\ producerState[s] = "PAUSED" /\ ready'[s] = ready[s]
       \/ /\ toSink[s] # <<>> /\ toSink'[s] = Tail(toSink[s])
          /\ UNCHANGED <<ready[s], producerState[s]>>
          /\ \/ Head(toSink[s]) = "Play" /\ rate'[s] = 1 /\ targetRate'[s] = 1
             \/ Head(toSink[s]) = "Pause" /\ rate'[s] = 0 /\ targetRate'[s] = 0
             \/ Head(toSink[s]) = "Get" /\ UNCHANGED <<rate[s], targetRate[s]>>
    /\ \/ UNCHANGED <<producerState[s], ready[s]>>
       \/ ready[s] = FALSE /\ ready'[s] = TRUE /\ UNCHANGED producerState[s]
       \/ ready[s] = FALSE /\ ready'[s] = FALSE /\ producerState'[s] = "FAULT"
       \/ /\ ready[s] = TRUE /\ ready'[s] = TRUE /\ producerState'[s] = "PAUSED"
          /\ calls = <<"Prime">>
       \/ ready'[s] = ready[s] /\ producerState[s] = "PAUSED" /\ producerState'[s] = "ENDED"

\* Every step of a sink has one of the effects above.
LEMMA SinkHasEffect ==
    ASSUME TypeOK, WaitInv, RateInv, NEW s \in Streams, SinkReacts(s) \/ SinkEnds(s)
    PROVE  SinkEffect(s)
<1>a. /\ producerState[s] \in MediaStates /\ targetRate[s] \in {0, 1} /\ rate[s] \in {0, 1}
      /\ toSink[s] \in Seq(Requests)
  BY DEF TypeOK, Requests
<1>b. Prepared("ENDED") /\ \A st \in {"PAUSED", "ENDED"} : Prepared(st)
  BY DEF Prepared
<1>1. CASE SinkReady(s)
  <2>1. MaybeSetRate(s, producerState[s], rate[s], 0)
    BY <1>1 DEF SinkReady, RateInv
  <2>2. /\ UNCHANGED <<rate[s], targetRate[s], toSink, producerState>>
        /\ \A t \in Streams \ {s} : rate'[t] = rate[t] /\ targetRate'[t] = targetRate[t]
    BY <1>1, <1>a, <2>1, SetsRate DEF SinkReady, RateInv
  <2>3. ready[s] = FALSE /\ ready'[s] = TRUE /\ \A t \in Streams \ {s} : ready'[t] = ready[t]
    BY <1>1 DEF SinkReady, TypeOK
  <2> QED   BY <2>2, <2>3 DEF SinkEffect
<1>2. CASE SinkFaults(s)
  <2>1. UNCHANGED <<rate, targetRate, toSink, ready>> /\ ready[s] = FALSE
    BY <1>2 DEF SinkFaults, TypeOK
  <2>2. producerState'[s] = "FAULT" /\ \A t \in Streams \ {s} : producerState'[t] = producerState[t]
    BY <1>2 DEF SinkFaults, TypeOK
  <2> QED   BY <2>1, <2>2 DEF SinkEffect
<1>3. CASE SinkReceives(s)
  <2>1. /\ toSink[s] # <<>> /\ UNCHANGED <<ready, producerState>>
        /\ toSink'[s] = Tail(toSink[s]) /\ \A t \in Streams \ {s} : toSink'[t] = toSink[t]
    BY <1>3 DEF SinkReceives, TypeOK
  <2>2. CASE Head(toSink[s]) = "Play" /\ MaybeSetRate(s, producerState[s], 1, 0)
    <3>1. Prepared(producerState[s])
      BY <1>a, <1>b, <2>1, <2>2, TailControl DEF RateInv, Primed
    <3>2. /\ rate'[s] = 1 /\ targetRate'[s] = 1
          /\ \A t \in Streams \ {s} : rate'[t] = rate[t] /\ targetRate'[t] = targetRate[t]
      BY <2>2, <3>1, SetsRate
    <3> QED   BY <2>1, <2>2, <3>2 DEF SinkEffect
  <2>3. CASE Head(toSink[s]) = "Pause" /\ MaybeSetRate(s, producerState[s], 0, 0)
    <3>1. Prepared(producerState[s]) \/ rate[s] = 0
      BY <1>b DEF RateInv, Primed
    <3>2. /\ rate'[s] = 0 /\ targetRate'[s] = 0
          /\ \A t \in Streams \ {s} : rate'[t] = rate[t] /\ targetRate'[t] = targetRate[t]
      BY <2>3, <3>1, SetsRate
    <3> QED   BY <2>1, <2>3, <3>2 DEF SinkEffect
  <2>4. CASE Head(toSink[s]) = "Get" /\ UNCHANGED <<rate, targetRate, sinkFlushed>>
    BY <2>1, <2>4 DEF SinkEffect
  <2> QED   BY <1>3, <2>2, <2>3, <2>4 DEF SinkReceives
<1>4. CASE SinkEnds(s)
  <2>1. /\ rate'[s] = 0 /\ targetRate'[s] = 0
        /\ \A t \in Streams \ {s} : rate'[t] = rate[t] /\ targetRate'[t] = targetRate[t]
    BY <1>4, <1>b, SetsRate DEF SinkEnds
  <2>2. /\ producerState'[s] = "ENDED" /\ producerState[s] = "PAUSED"
        /\ \A t \in Streams \ {s} : producerState'[t] = producerState[t]
        /\ UNCHANGED <<toSink, ready>>
    BY <1>4 DEF SinkEnds, TypeOK
  <2> QED   BY <2>1, <2>2 DEF SinkEffect
<1>5. CASE SinkPrimed(s)
  <2>1. ready[s] = TRUE /\ UNCHANGED <<rate, targetRate, toSink, ready>>
    BY <1>5 DEF SinkPrimed, TypeOK
  <2>2. /\ producerState'[s] = "PAUSED"
        /\ \A t \in Streams \ {s} : producerState'[t] = producerState[t]
    BY <1>5 DEF SinkPrimed, TypeOK
  <2>3. calls = <<"Prime">>
    BY <1>5, OneCall DEF SinkPrimed, WaitInv
  <2> QED   BY <2>1, <2>2, <2>3 DEF SinkEffect
<1>6. CASE SinkFlushed(s)
  BY <1>6 DEF SinkFlushed, SinkEffect
<1> QED
  BY <1>1, <1>2, <1>3, <1>4, <1>5, <1>6 DEF SinkReacts

\* The sinks' steps keep the invariant: they leave the player alone.
LEMMA SinkKeepsRates ==
    ASSUME TypeOK, RateInv, NEW s \in Streams, SinkEffect(s)
    PROVE  RateInv' /\ \A t \in Streams : Primed(t) => Primed(t)'
<1>a. toSink[s] \in Seq(Requests)
  BY DEF TypeOK, Requests
<1>1. \A t \in Streams \ {s} : UNCHANGED <<rate[t], targetRate[t], Primed(t), toSink[t], producerState[t], ready[t]>>
  BY DEF SinkEffect, Primed
<1>2. Primed(s) => Primed(s)'
  BY DEF SinkEffect, Primed
<1>3. HasPlay(toSink[s])' => HasPlay(toSink[s])
  BY <1>a, TailControl DEF SinkEffect
<1>4. producerState'[s] \in {"PAUSED", "ENDED"} => ready'[s] = TRUE
  BY DEF SinkEffect, RateInv
<1>5. rate'[s] = targetRate'[s]
  BY DEF SinkEffect, RateInv
<1>6. ~Primed(s)' => rate'[s] = 0
  BY <1>a, <1>2, TailControl DEF SinkEffect, RateInv
<1> QED
  BY <1>1, <1>2, <1>3, <1>4, <1>5, <1>6 DEF RateInv

\* A sink that carries out an order does what the player last told it.
LEMMA SinkKeepsOrders ==
    ASSUME TypeOK, WaitInv, RateInv, OrderInv, NEW s \in Streams, SinkEffect(s),
           UNCHANGED state
    PROVE  OrderInv'
<1>a. toSink[s] \in Seq(Requests)
  BY DEF TypeOK, Requests
<1>1. \A t \in Streams \ {s} : UNCHANGED <<rate[t], toSink[t], producerState[t]>>
  BY DEF SinkEffect
<1> DEFINE told == toSink'[s] = Tail(toSink[s]) /\ toSink[s] # <<>>
<1>b. ASSUME told
      PROVE  /\ NoControl(toSink[s]) => NoControl(toSink'[s]) /\ Head(toSink[s]) = "Get"
             /\ \A c \in {"Play", "Pause"} :
                   LastIs(toSink[s], c) => LastIs(toSink'[s], c) \/ (Head(toSink[s]) = c /\ NoControl(toSink'[s]))
  BY <1>a, <1>b, TailControl
<1>c. \/ told /\ UNCHANGED <<ready[s], producerState[s]>>
            /\ \/ Head(toSink[s]) = "Play" /\ rate'[s] = 1
               \/ Head(toSink[s]) = "Pause" /\ rate'[s] = 0
               \/ Head(toSink[s]) = "Get" /\ UNCHANGED rate[s]
      \/ UNCHANGED toSink[s] /\ (rate'[s] = rate[s] \/ (rate'[s] = 0 /\ producerState'[s] = "ENDED"))
  BY DEF SinkEffect
<1> HIDE DEF told
<1>2. CASE state = "kWaitingForSinksToPlay"
  <2>1. producerState[s] = "ENDED" => producerState'[s] = "ENDED"
    <3>1. calls # <<"Prime">>
      BY <1>2, OneCall DEF WaitInv
    <3> QED   BY <3>1 DEF SinkEffect, RateInv
  <2> DEFINE Plays == \/ LastIs(toSink'[s], "Play")
                      \/ NoControl(toSink'[s]) /\ (rate'[s] = 1 \/ producerState'[s] = "ENDED")
  <2>2. ASSUME LastIs(toSink[s], "Play") PROVE Plays
    BY <1>b, <1>c, <2>2
  <2>3. ASSUME NoControl(toSink[s]), rate[s] = 1 \/ producerState[s] = "ENDED" PROVE Plays
    BY <1>b, <1>c, <2>1, <2>3
  <2>4. Plays
    BY <1>2, <2>2, <2>3 DEF OrderInv
  <2> QED   BY <1>1, <1>2, <2>4 DEF OrderInv
<1>3. CASE state = "kWaitingForSinksToPause"
  <2> DEFINE Pauses == LastIs(toSink'[s], "Pause") \/ (NoControl(toSink'[s]) /\ rate'[s] = 0)
  <2>1. ASSUME LastIs(toSink[s], "Pause") PROVE Pauses
    BY <1>b, <1>c, <2>1
  <2>2. ASSUME NoControl(toSink[s]), rate[s] = 0 PROVE Pauses
    BY <1>b, <1>c, <2>2
  <2>3. Pauses
    BY <1>3, <2>1, <2>2 DEF OrderInv
  <2> QED   BY SMT, <1>1, <1>3, <2>3 DEF OrderInv
<1> QED
  BY <1>2, <1>3 DEF OrderInv

\* The sinks' steps keep the patient client's invariant.
LEMMA SinkKeepsPatientInv ==
    ASSUME PatientInv, NEW s \in Streams, SinkReacts(s) \/ SinkEnds(s)
    PROVE  (RateInv /\ PrimedInv /\ OrderInv /\ RestInv /\ TargetInv /\ SeekInv)'
<1> USE DEF PatientInv, IInv
<1>1. UNCHANGED <<player, handler, calls, demuxAt, client>>
  BY DEF SinkReacts, SinkReady, SinkFaults, SinkReceives, SinkPrimed, SinkFlushed,
     SinkEnds, demux
<1>2. SinkEffect(s)
  BY SinkHasEffect
<1>3. RateInv' /\ \A t \in Streams : Primed(t) => Primed(t)'
  BY <1>2, SinkKeepsRates
<1>4. OrderInv'
  BY <1>1, <1>2, SinkKeepsOrders DEF player
<1>5. PrimedInv'
  <2>1. calls = <<"Prime">> => \A t \in served' : Primed(t)'
    <3>1. UNCHANGED served \/ SinkPrimed(s) \/ SinkFlushed(s)
      BY DEF SinkReacts, SinkReady, SinkFaults, SinkReceives, SinkEnds, demux
    <3>2. SinkPrimed(s) => served' = served \cup {s} /\ Primed(s)'
      BY DEF SinkPrimed, TypeOK, Primed
    <3>3. SinkFlushed(s) => calls # <<"Prime">>
      BY OneCall DEF SinkFlushed
    <3> QED   BY <1>3, <3>1, <3>2, <3>3 DEF PrimedInv, TypeOK
  <2> QED   BY <1>1, <1>3, <2>1 DEF PrimedInv, player
<1>6. RestInv' /\ TargetInv' /\ SeekInv'
  BY <1>1 DEF RestInv, TargetInv, SeekInv, AllSinksAre, player, client
<1> QED
  BY <1>3, <1>4, <1>5, <1>6

\* At rest the player is not waiting for its sinks: they do what they were told,
\* it believes so, and Update would have moved on.
LEMMA QuietIsSettled ==
    ASSUME PatientInv, Quiet
    PROVE  /\ state \in {"kPaused", "kPlaying"} /\ calls = <<>> /\ handler = NoHandler
           /\ targetPosition = NotSeeking
           /\ state = "kPaused" => targetState # "PLAYING"
           /\ state = "kPlaying" => targetState = "PLAYING"
<1> USE DEF PatientInv, IInv
<1>1. /\ calls = <<>> /\ handler = NoHandler /\ AllPrepared
      /\ \A s \in Streams : toSink[s] = <<>>
  BY DEF Quiet, AllPrepared
<1>2. state \in PlayerStates \ {"kWaiting"}
  BY <1>1, OneCall DEF WaitInv, TypeOK
<1>3. \A s \in Streams : \A c : ~LastIs(toSink[s], c)
  BY <1>1, NoOrderIsLast
<1>4. ASSUME state \in {"kWaitingForSinksToPlay", "kWaitingForSinksToPause"}, NEW s \in Streams
      PROVE  /\ producerState[s] \in {"PAUSED", "ENDED"}
             /\ streamState[s] = Status(producerState[s], rate[s])
  <2>1. Primed(s)
    BY <1>1, <1>4, OneCall DEF PrimedInv
  <2>2. BeliefsAreTrue
    BY IInvImplies DEF PartsAreInStep
  <2> QED   BY <2>1, <2>2 DEF Primed, Prepared, BeliefsAreTrue
<1>5. state # "kWaitingForSinksToPlay"
  <2> SUFFICES ASSUME state = "kWaitingForSinksToPlay" PROVE FALSE
    OBVIOUS
  <2>1. \A s \in Streams : streamState[s] \in {"PLAYING", "ENDED"}
    BY SMT, <1>3, <1>4 DEF OrderInv, Status
  <2> QED   BY <1>1, <2>1 DEF RestInv, AllSinksAre
<1>6. state # "kWaitingForSinksToPause"
  <2> SUFFICES ASSUME state = "kWaitingForSinksToPause" PROVE FALSE
    OBVIOUS
  <2>1. \A s \in Streams : streamState[s] \in {"PAUSED", "ENDED"}
    BY <1>3, <1>4 DEF OrderInv, Status
  <2> QED   BY <1>1, <2>1 DEF RestInv, AllSinksAre
<1>7. state \in {"kPaused", "kPlaying"}
  BY <1>2, <1>5, <1>6 DEF PlayerStates
<1> QED
  BY <1>1, <1>7 DEF RestInv, TargetInv

\* The player's steps, and what they tell the sinks.
GetsOnly == \A t \in Streams : toSink'[t] = toSink[t] \/ toSink'[t] = Append(toSink[t], "Get")

\* A step of the player that leaves the rates alone keeps what is known of them.
LEMMA PlayerKeepsRates ==
    ASSUME TypeOK, RateInv, UNCHANGED <<ready, producerState, rate, targetRate>>,
           \/ GetsOnly
           \/ ChangeSinkStates("Pause")
           \/ ChangeSinkStates("Play") /\ \A t \in Streams : Primed(t)
    PROVE  RateInv' /\ \A t \in Streams : Primed(t)' <=> Primed(t)
<1>1. \A t \in Streams : Primed(t)' <=> Primed(t)
  BY DEF Primed
<1>2. ASSUME NEW t \in Streams PROVE HasPlay(toSink'[t]) => HasPlay(toSink[t]) \/ Primed(t)
  <2>1. toSink[t] \in Seq(Requests) /\ {"Play", "Pause", "Get"} = Requests
    BY DEF TypeOK, Requests
  <2>2. CASE GetsOnly
    BY ZenonT(30), <2>1, <2>2, AppendControl DEF GetsOnly
  <2>3. CASE ChangeSinkStates("Pause")
    <3>1. toSink'[t] = Append(toSink[t], "Pause")
      BY <2>3 DEF ChangeSinkStates
    <3> QED   BY SMT, <2>1, <3>1, AppendControl
  <2> QED   BY <2>2, <2>3
<1> QED
  BY <1>1, <1>2 DEF RateInv

\* A step of the player that only asks for statuses keeps the orders.
LEMMA PlayerKeepsOrders ==
    ASSUME TypeOK, OrderInv, UNCHANGED <<producerState, rate>>,
           \/ /\ GetsOnly
              /\ \/ UNCHANGED state
                 \/ state' \notin {"kWaitingForSinksToPlay", "kWaitingForSinksToPause"}
           \/ ChangeSinkStates("Pause") /\ state' = "kWaitingForSinksToPause"
           \/ ChangeSinkStates("Play") /\ state' = "kWaitingForSinksToPlay"
    PROVE  OrderInv'
<1>1. \A t \in Streams : toSink[t] \in Seq(Requests)
  BY DEF TypeOK, Requests
<1>2. {"Play", "Pause", "Get"} = Requests
  BY DEF Requests
<1>3. CASE GetsOnly /\ UNCHANGED state
  <2>1. \A t \in Streams : NoControl(toSink[t]) => NoControl(toSink'[t])
    BY <1>1, <1>2, <1>3, AppendControl DEF GetsOnly
  <2>2. \A t \in Streams : \A c \in {"Play", "Pause"} : LastIs(toSink[t], c) => LastIs(toSink'[t], c)
    BY <1>1, <1>2, <1>3, AppendControl DEF GetsOnly
  <2> QED   BY <1>3, <2>1, <2>2 DEF OrderInv
<1>4. CASE GetsOnly /\ state' \notin {"kWaitingForSinksToPlay", "kWaitingForSinksToPause"}
  BY <1>4 DEF OrderInv
<1>5. ASSUME NEW m \in {"Play", "Pause"}, ChangeSinkStates(m)
      PROVE  \A t \in Streams : LastIs(toSink'[t], m)
  BY <1>1, <1>2, <1>5, AppendControl DEF ChangeSinkStates
<1>6. CASE ChangeSinkStates("Pause") /\ state' = "kWaitingForSinksToPause"
  BY <1>5, <1>6 DEF OrderInv
<1>7. CASE ChangeSinkStates("Play") /\ state' = "kWaitingForSinksToPlay"
  BY <1>5, <1>7 DEF OrderInv
<1> QED
  BY <1>3, <1>4, <1>6, <1>7

\* MediaPlayerImpl::Update keeps the patient client's invariant.
LEMMA UpdateKeepsPatientInv ==
    ASSUME PatientInv, Update
    PROVE  (RateInv /\ PrimedInv /\ OrderInv /\ RestInv /\ TargetInv /\ SeekInv)'
<1> USE DEF PatientInv, IInv
<1>1. /\ UNCHANGED <<targetPosition, streamState, served, wanted>>
      /\ UNCHANGED <<ready, producerState, rate, targetRate>> /\ handler # NoHandler
  BY DEF Update, sink, client
<1>2. Return => GetsOnly
  BY DEF Return, GetsOnly, TypeOK
<1>3. UNCHANGED toSink => GetsOnly
  BY DEF GetsOnly
<1>4. \A X : AllSinksAre(X)' <=> AllSinksAre(X)
  BY <1>1 DEF AllSinksAre
<1>a. /\ state \in {"kWaitingForSinksToPlay", "kPlaying", "kWaitingForSinksToPause", "kPaused"} => calls = <<>>
      /\ <<>> # <<"Prime">> /\ <<>> # <<"Seek">> /\ flushed \in BOOLEAN
  BY OneCall DEF WaitInv, TypeOK
<1>b. \A c : Append(<<>>, c) = <<c>> /\ (\A d : <<c>> = <<d>> => c = d)
  BY OneCall
<1> USE DEF PrimedInv, RestInv, TargetInv, SeekInv
<1> DEFINE Goal == (PrimedInv /\ RestInv /\ TargetInv /\ SeekInv)'
<1>c. ASSUME GetsOnly, UNCHANGED state \/ state' \notin {"kWaitingForSinksToPlay", "kWaitingForSinksToPause"}
      PROVE  RateInv' /\ OrderInv' /\ \A t \in Streams : Primed(t)' <=> Primed(t)
  BY <1>1, <1>c, PlayerKeepsRates, PlayerKeepsOrders
<1>5. CASE state = "kPaused" /\ WhenPausedAndSeeking
  <2>1. RateInv' /\ OrderInv' /\ \A t \in Streams : Primed(t)' <=> Primed(t)
    BY <1>3, <1>5, <1>c DEF WhenPausedAndSeeking, WhenFlushedAndSeeking
  <2>2. Goal
    BY SMT, <1>1, <1>a, <1>b, <1>5, <2>1 DEF WhenPausedAndSeeking, WhenFlushedAndSeeking
  <2> QED   BY <2>1, <2>2
<1>6. CASE state = "kPaused" /\ StartPlaying
  <2>1. CASE flushed
    <3>1. RateInv' /\ OrderInv' /\ \A t \in Streams : Primed(t)' <=> Primed(t)
      BY <1>2, <1>6, <1>c, <2>1 DEF StartPlaying
    <3>2. served = {}
      BY <1>a, <1>6 DEF FlowInv
    <3>3. Goal
      BY <1>1, <1>a, <1>b, <1>6, <2>1, <3>1, <3>2 DEF StartPlaying
    <3> QED   BY <3>1, <3>3
  <2>2. CASE ~flushed
    <3>1. \A t \in Streams : Primed(t)
      BY <1>a, <1>6, <2>2
    <3>2. ChangeSinkStates("Play") /\ state' = "kWaitingForSinksToPlay"
      BY <1>6, <2>2 DEF StartPlaying
    <3>3. RateInv' /\ OrderInv' /\ \A t \in Streams : Primed(t)' <=> Primed(t)
      BY <1>1, <3>1, <3>2, PlayerKeepsRates, PlayerKeepsOrders
    <3>4. Goal
      BY <1>1, <1>a, <1>6, <2>2, <3>1, <3>3 DEF StartPlaying
    <3> QED   BY <3>3, <3>4
  <2> QED   BY <2>1, <2>2
<1>7. CASE state = "kPaused" /\ StayPaused
  <2>1. RateInv' /\ OrderInv' /\ \A t \in Streams : Primed(t)' <=> Primed(t)
    BY <1>2, <1>7, <1>c DEF StayPaused
  <2>2. Goal
    BY <1>1, <1>a, <1>7, <2>1 DEF StayPaused
  <2> QED   BY <2>1, <2>2
<1>8. CASE WhenWaitingForSinksToPlay
  <2>1. RateInv' /\ OrderInv' /\ \A t \in Streams : Primed(t)' <=> Primed(t)
    BY <1>2, <1>8, <1>c DEF WhenWaitingForSinksToPlay
  <2>2. Goal
    BY <1>1, <1>4, <1>a, <1>8, <2>1 DEF WhenWaitingForSinksToPlay
  <2> QED   BY <2>1, <2>2
<1>9. CASE WhenPlaying
  <2>1. CASE ChangeSinkStates("Pause") /\ state' = "kWaitingForSinksToPause" /\ UNCHANGED handler
             /\ UNCHANGED <<reported, targetState>>
    <3>1. RateInv' /\ OrderInv' /\ \A t \in Streams : Primed(t)' <=> Primed(t)
      BY <1>1, <2>1, PlayerKeepsRates, PlayerKeepsOrders
    <3>2. Goal
      BY <1>1, <1>a, <1>9, <2>1, <3>1 DEF WhenPlaying
    <3> QED   BY <3>1, <3>2
  <2>2. CASE /\ targetPosition = NotSeeking /\ targetState # "PAUSED" /\ targetState' = "ENDED"
             /\ reported' = "ENDED" /\ state' = "kPaused" /\ UNCHANGED <<toSink, handler>>
    <3>1. RateInv' /\ OrderInv' /\ \A t \in Streams : Primed(t)' <=> Primed(t)
      BY <1>3, <1>c, <2>2
    <3>2. Goal
      BY <1>1, <1>a, <1>9, <2>2, <3>1 DEF WhenPlaying
    <3> QED   BY <3>1, <3>2
  <2>3. CASE /\ targetPosition = NotSeeking /\ targetState # "PAUSED"
             /\ Return /\ UNCHANGED <<state, reported, targetState>>
    <3>1. RateInv' /\ OrderInv' /\ \A t \in Streams : Primed(t)' <=> Primed(t)
      BY <1>2, <1>c, <2>3
    <3>2. Goal
      BY <1>1, <1>a, <1>9, <2>3, <3>1 DEF WhenPlaying
    <3> QED   BY <3>1, <3>2
  <2> QED   BY <1>9, <2>1, <2>2, <2>3 DEF WhenPlaying
<1>10. CASE WhenWaitingForSinksToPause
  <2>1. RateInv' /\ OrderInv' /\ \A t \in Streams : Primed(t)' <=> Primed(t)
    BY <1>2, <1>3, <1>10, <1>c DEF WhenWaitingForSinksToPause
  <2>2. CASE AllSinksAre({"PAUSED", "ENDED"})
    <3>1. /\ state = "kWaitingForSinksToPause" /\ state' = "kPaused"
          /\ UNCHANGED <<handler, flushed, targetState, calls, demuxAt>>
          /\ reported' # "PLAYING" \/ (reported' = reported /\ targetState # "PAUSED")
      BY <1>10, <2>2 DEF WhenWaitingForSinksToPause
    <3> QED   BY <1>1, <1>a, <2>1, <3>1
  <2>3. CASE ~AllSinksAre({"PAUSED", "ENDED"})
    <3>1. /\ state = "kWaitingForSinksToPause"
          /\ UNCHANGED <<state, reported, flushed, targetState, calls, demuxAt>>
      BY <1>10, <2>3 DEF WhenWaitingForSinksToPause
    <3> QED   BY <1>1, <1>4, <1>a, <2>1, <2>3, <3>1
  <2> QED   BY <2>2, <2>3
<1>11. CASE WhenWaiting
  <2>1. RateInv' /\ OrderInv' /\ \A t \in Streams : Primed(t)' <=> Primed(t)
    BY <1>2, <1>11, <1>c DEF WhenWaiting
  <2>2. state = "kWaiting" /\ UNCHANGED <<state, flushed, reported, targetState, calls, demuxAt>>
    BY <1>11 DEF WhenWaiting
  <2>a. served \subseteq Streams
    BY DEF TypeOK
  <2>3. PrimedInv' /\ RestInv'
    BY <1>1, <2>a, <2>1, <2>2
  <2>4. TargetInv' /\ SeekInv'
    BY <1>1, <2>2
  <2> QED   BY <2>1, <2>3, <2>4
<1> QED
  BY <1>5, <1>6, <1>7, <1>8, <1>9, <1>10, <1>11 DEF Update, WhenPaused

\* So do the player's other steps and the client's commands.
LEMMA PlayerKeepsPatientInv ==
    ASSUME Patient = TRUE, PatientInv, Next,
           ~Update, ~\E s \in Streams : SinkReacts(s) \/ SinkEnds(s)
    PROVE  (RateInv /\ PrimedInv /\ OrderInv /\ RestInv /\ TargetInv /\ SeekInv)'
<1> USE DEF PatientInv, IInv
<1>0. StreamsAssumption
  BY StreamsAssumption
<1>1. UNCHANGED <<ready, producerState, rate, targetRate>>
  BY DEF Next, PlayerReacts, PrimeAnswered, FlushAnswered, SeekAnswered, StreamPrepared,
     HandleSinkStatusUpdates, Play, Pause, Seek, Command, sink
<1>a. UNCHANGED toSink => GetsOnly
  BY DEF GetsOnly
<1>b. ASSUME GetsOnly, UNCHANGED state \/ state' \notin {"kWaitingForSinksToPlay", "kWaitingForSinksToPause"}
      PROVE  RateInv' /\ OrderInv' /\ \A t \in Streams : Primed(t)' <=> Primed(t)
  BY <1>1, <1>b, PlayerKeepsRates, PlayerKeepsOrders
<1>c. <<>> # <<"Prime">> /\ <<>> # <<"Seek">>
  BY OneCall
<1>d. \A c : Tail(<<c>>) = <<>> /\ Head(<<c>>) = c
  BY OneCall
<1> DEFINE Goal == (PrimedInv /\ RestInv /\ TargetInv /\ SeekInv)'
<1> USE DEF PrimedInv, RestInv, TargetInv, SeekInv
<1>2. CASE PrimeAnswered
  <2>1. calls = <<"Prime">> /\ calls' = <<>>
    BY <1>2, OneCall DEF PrimeAnswered, Answered, WaitInv
  <2>2. \A t \in Streams : Primed(t)
    BY <1>2, <2>1 DEF PrimeAnswered, Answered
  <2>3. RateInv' /\ OrderInv' /\ \A t \in Streams : Primed(t)' <=> Primed(t)
    BY <1>1, <1>2, <2>2, PlayerKeepsRates, PlayerKeepsOrders DEF PrimeAnswered
  <2>4. flushed = FALSE /\ state = "kWaiting"
    BY <2>1, OneCall DEF WaitInv
  <2>5. Goal
    BY <1>0, <1>2, <1>c, <2>1, <2>2, <2>3, <2>4 DEF PrimeAnswered, client
  <2> QED   BY <2>3, <2>5
<1>3. CASE FlushAnswered
  <2>1. calls' = <<"Seek">> /\ state = "kWaiting" /\ state' = "kWaiting" /\ demuxAt' = targetPosition
        /\ targetPosition # NotSeeking /\ flushed' = TRUE
    BY <1>3, OneCall DEF FlushAnswered, Answered, WaitInv, WhenFlushedAndSeeking
  <2>2. UNCHANGED <<reported, targetState, targetPosition, handler, toSink, wanted>>
    BY <1>3 DEF FlushAnswered, client
  <2>3. RateInv' /\ OrderInv'
    BY <1>a, <1>b, <2>1, <2>2
  <2>4. <<"Seek">> # <<"Prime">>
    BY OneCall
  <2>5. Goal
    BY <2>1, <2>2, <2>4
  <2> QED   BY <2>3, <2>5
<1>4. CASE SeekAnswered
  <2>1. calls = <<"Seek">> /\ calls' = <<>> /\ state = "kWaiting" /\ state' = "kPaused"
        /\ targetPosition # NotSeeking /\ flushed = TRUE
    BY <1>4, OneCall DEF SeekAnswered, Answered, WaitInv
  <2>2. /\ UNCHANGED <<reported, flushed, targetState, toSink, demuxAt, wanted>>
        /\ handler' = "call" /\ targetPosition' = NotSeeking
    BY <1>4 DEF SeekAnswered, client
  <2>3. RateInv' /\ OrderInv'
    BY <1>a, <1>b, <2>1, <2>2
  <2>4. Goal
    BY <1>0, <1>c, <2>1, <2>2
  <2> QED   BY <2>3, <2>4
<1>5. ASSUME NEW s \in Streams, StreamPrepared(s)
      PROVE  (RateInv /\ PrimedInv /\ OrderInv /\ RestInv /\ TargetInv /\ SeekInv)'
  <2>1. calls = <<>> /\ state = "kWaiting"
    BY <1>5 DEF StreamPrepared, WaitInv, AllPrepared
  <2>2. GetsOnly
    BY <1>5 DEF StreamPrepared, GetsOnly, TypeOK
  <2>3. /\ UNCHANGED <<flushed, targetState, targetPosition, calls, served, demuxAt, wanted>>
        /\ \/ UNCHANGED <<reported, state, handler>>
           \/ reported' = "PAUSED" /\ state' = "kPaused" /\ handler' = "call"
    BY <1>5 DEF StreamPrepared, demux, client
  <2>4. RateInv' /\ OrderInv' /\ \A t \in Streams : Primed(t)' <=> Primed(t)
    BY <1>b, <2>1, <2>2, <2>3
  <2>5. Goal
    BY <1>0, <1>c, <2>1, <2>3, <2>4
  <2> QED   BY <2>4, <2>5
<1>6. ASSUME NEW s \in Streams, HandleSinkStatusUpdates(s)
      PROVE  (RateInv /\ PrimedInv /\ OrderInv /\ RestInv /\ TargetInv /\ SeekInv)'
  <2>1. /\ UNCHANGED <<state, flushed, reported, targetState, targetPosition, calls, served,
                       demuxAt, wanted>>
        /\ handler = NoHandler
        /\ handler' = s \/ (handler' = handler /\ streamState' = streamState)
    BY <1>6 DEF HandleSinkStatusUpdates, demux, client
  <2>2. GetsOnly
    BY ZenonT(30), <1>6 DEF HandleSinkStatusUpdates, GetsOnly, TypeOK
  <2>3. RateInv' /\ OrderInv' /\ \A t \in Streams : Primed(t)' <=> Primed(t)
    BY <1>b, <2>1, <2>2
  <2>4. handler' = NoHandler => \A X : AllSinksAre(X)' <=> AllSinksAre(X)
    BY <1>0, <2>1 DEF AllSinksAre
  <2>5. s # NoHandler
    BY <1>0
  <2>6. RestInv'
    <3> DEFINE toPlay == {"PLAYING", "ENDED"}   toPause == {"PAUSED", "ENDED"}
    <3>1. handler' = NoHandler => (AllSinksAre(toPlay)' <=> AllSinksAre(toPlay))
                                  /\ (AllSinksAre(toPause)' <=> AllSinksAre(toPause))
      BY <2>4
    <3> QED   BY <2>1, <3>1
  <2>a. served \subseteq Streams
    BY DEF TypeOK
  <2>7. PrimedInv' /\ SeekInv'
    BY <2>a, <2>1, <2>3
  <2>8. TargetInv'
    BY <2>1, <2>5
  <2> QED   BY <2>3, <2>6, <2>7, <2>8
<1>7. CASE Play \/ Pause \/ \E position \in Positions : Seek(position)
  <2>1. Command
    BY <1>7 DEF Play, Pause, Seek
  <2>2. /\ state \in {"kPaused", "kPlaying"} /\ calls = <<>> /\ handler = NoHandler
        /\ targetPosition = NotSeeking
        /\ state = "kPaused" => targetState # "PLAYING"
        /\ state = "kPlaying" => targetState = "PLAYING"
    <3>1. Quiet
      BY <2>1 DEF Command
    <3> QED   BY <3>1, QuietIsSettled
  <2>3. /\ UNCHANGED <<state, flushed, reported, streamState, calls, served, demuxAt, toSink>>
        /\ handler' = "call"
    BY <2>1 DEF Command, demux
  <2>4. \/ targetState' \in {"PLAYING", "PAUSED"} /\ UNCHANGED <<targetPosition, wanted>>
        \/ UNCHANGED targetState /\ targetPosition' = wanted' /\ targetPosition' # NotSeeking
    BY <1>7, <1>0 DEF Play, Pause, Seek
  <2>5. RateInv' /\ OrderInv' /\ \A t \in Streams : Primed(t)' <=> Primed(t)
    BY <1>a, <1>b, <2>3
  <2>6. Goal
    BY <1>0, <1>c, <2>2, <2>3, <2>4, <2>5
  <2> QED   BY <2>5, <2>6
<1> QED
  BY <1>2, <1>3, <1>4, <1>5, <1>6, <1>7 DEF Next, PlayerReacts

\* A client that waits for the player to come to rest is obeyed, for any set of
\* streams and any number of commands: at rest the demux is where the client last
\* sought to, a player told to pause is paused, and it reports PLAYING just when it
\* plays (media_player.mojom).  An impatient client's seek may be lost.
THEOREM CommandsAreObeyedHolds ==
    ASSUME Patient = TRUE
    PROVE  Spec => []CommandsAreObeyed
<1>1. PatientInv /\ [Next]_vars => PatientInv'
  <2> SUFFICES ASSUME PatientInv, [Next]_vars PROVE PatientInv'
    OBVIOUS
  <2>1. IInv'
    BY TypeStep, WaitStep, FlowStep, RequestStep, BeliefStep DEF IInv, PatientInv
  <2>2. CASE UNCHANGED vars
    <3>1. (RateInv /\ PrimedInv /\ OrderInv /\ RestInv /\ TargetInv /\ SeekInv)'
      BY <2>2 DEF vars, player, demux, sink, client, PatientInv, RateInv, PrimedInv, OrderInv,
         RestInv, TargetInv, SeekInv, AllSinksAre, Primed
    <3> QED   BY <2>1, <3>1 DEF PatientInv
  <2> QED
    BY <2>1, <2>2, SinkKeepsPatientInv, UpdateKeepsPatientInv, PlayerKeepsPatientInv
    DEF PatientInv
<1>2. PatientInv => CommandsAreObeyed
  <2> SUFFICES ASSUME PatientInv, Quiet
               PROVE  /\ demuxAt = wanted
                      /\ targetState = "PAUSED" => state = "kPaused"
                      /\ reported = "PLAYING" <=> state = "kPlaying"
    BY DEF CommandsAreObeyed, SeekIsPerformed, PauseIsObeyed
  <2> QED   BY QuietIsSettled DEF PatientInv, SeekInv, TargetInv
<1> QED
  BY InitPatientInv, <1>1, <1>2, PTL DEF Spec
=============================================================================
