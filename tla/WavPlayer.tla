----------------------------- MODULE WavPlayer -----------------------------
(***************************************************************************)
(* The WAV player of examples/audio_play_test (class PlayWAVApp): it reads *)
(* a file from a data pipe and feeds it, a chunk at a time, to an audio    *)
(* track through a CircularBufferMediaPipeAdapter.  Everything it does     *)
(* runs on one thread, as a callback or as a posted task.                  *)
(*                                                                         *)
(* The adapter is modelled by what the player sees of it; its positions    *)
(* rd and wr are counted from the start of the stream, not modulo the size *)
(* of the buffer (module MediaPipe models the buffer itself).              *)
(***************************************************************************)
EXTENDS Integers, Sequences

CONSTANTS Files,               \* what the network service may answer
          SECOND,              \* units of time in a second (1000000 in the code)
          BUF_DEPTH_USEC, BUF_HI_WATER_USEC, BUF_LO_WATER_USEC, CHUNK_SIZE_USEC

VARIABLES file,                \* the answer: headers and a body
          app,                 \* "loading", "playing" or "quit"
          payload_len_,        \* bytes of the data chunk still to be read
          taken,               \* bytes of the body read so far
          packet,              \* bytes of audio_packet_, 0 if it holds no packet
          pipe,                \* audio_pipe_
          clock_started_,
          posted,              \* a Shutdown is posted
          server,              \* "up", "lost", or "reported" lost
          failed,              \* an error was met: the player gave up
          played               \* bytes the server has played

wavVars == <<file, app, payload_len_, taken, packet, pipe, clock_started_, posted, server, failed,
          played>>

NoPipe == [exists |-> FALSE, rd |-> 0, wr |-> 0, in_flight |-> <<>>,
           signalled |-> FALSE, scheduled |-> FALSE, handler |-> FALSE]

VALID_FRAME_RATES == {8000, 16000, 24000, 32000, 48000, 11025, 22050, 44100}
VALID_BITS_PER_SAMPLES == {8, 16}

\* A file has up to three headers, "headers" of which arrive; "cc" counts the ones
\* whose four-character codes are right.  "slack" is what the length in the RIFF
\* header differs by, and "available" the part of the data chunk that arrives.
ReadAndValidateRIFFHeader(f) == f.headers >= 1 /\ f.cc >= 1

\* VALID_FRAME_RATES is a set of uint16_t: a rate is looked for modulo 2^16, and a
\* file is then played at its full rate.
ReadAndValidateWAVHeader(f) ==
    /\ f.headers >= 2 /\ f.cc >= 2
    /\ f.format = "LPCM"
    /\ f.channel_count \in {1, 2}
    /\ f.frame_rate % 65536 \in VALID_FRAME_RATES
    /\ f.bits_per_sample \in VALID_BITS_PER_SAMPLES
    /\ f.frame_size = (f.channel_count * f.bits_per_sample) \div 8

ReadAndValidateDATAHeader(f) == f.headers = 3 /\ f.cc = 3 /\ f.slack = 0

Accepted(f) == /\ f.mime_type \in {"audio/x-wav", "audio/wav"}
               /\ ReadAndValidateRIFFHeader(f)
               /\ ReadAndValidateWAVHeader(f)
               /\ ReadAndValidateDATAHeader(f)

\* The data chunk, cut to whole frames.
Payload(f) == f.length - (f.length % f.frame_size)

USecToFrames(f, usec) == (usec * f.frame_rate) \div SECOND
USecToBytes(f, usec) == USecToFrames(f, usec) * f.frame_size

Depth == USecToBytes(file, BUF_DEPTH_USEC)
Hi == USecToBytes(file, BUF_HI_WATER_USEC)
Lo == USecToBytes(file, BUF_LO_WATER_USEC)
Chunk == USecToBytes(file, CHUNK_SIZE_USEC)

\* The constants of the code leave room for a chunk above the high mark.
WellSized ==
    /\ SECOND \in Nat \ {0} /\ BUF_DEPTH_USEC \in Nat /\ CHUNK_SIZE_USEC \in Nat
    /\ BUF_HI_WATER_USEC \in Nat /\ BUF_LO_WATER_USEC \in 0 .. BUF_HI_WATER_USEC
    /\ BUF_HI_WATER_USEC + CHUNK_SIZE_USEC <= BUF_DEPTH_USEC
    /\ \A f \in Files : f.length \in Nat /\ f.available \in Nat /\ f.frame_rate \in Nat

-----------------------------------------------------------------------------
(* The adapter.                                                            *)

Pending(p) == p.wr - p.rd

\* Mutant of UpdateSignalled: signals at the high mark too.
UpdateSignalledAtHi(p) ==
    LET s == IF p.signalled THEN Pending(p) <= Hi ELSE Pending(p) < Lo
    IN  [p EXCEPT !.signalled = s, !.scheduled = p.scheduled \/ s]

\* Signalled from below the low mark up to the high one; while it is signalled, a
\* callback is scheduled.
UpdateSignalled(p) ==
    LET s == IF p.signalled THEN Pending(p) < Hi ELSE Pending(p) < Lo
    IN  [p EXCEPT !.signalled = s, !.scheduled = p.scheduled \/ s]

NewPipe == UpdateSignalled([NoPipe EXCEPT !.exists = TRUE, !.handler = TRUE])

\* CreateMediaPacket has no room.  Its own test, on positions modulo the size of the
\* buffer, lets some of these requests through (NoRoom of MediaPipe); the player never
\* makes one (IntactNeverFails).
NoRoom(p, bytes) == Pending(p) + bytes > Depth - 1

Created(p, bytes) == UpdateSignalled([p EXCEPT !.wr = p.wr + bytes])

Sent(p, last) ==
    [p EXCEPT !.in_flight = Append(p.in_flight, [post_consume_rd |-> p.wr, last |-> last])]

-----------------------------------------------------------------------------
WavInit ==
    /\ file \in Files
    /\ app = "loading" /\ payload_len_ = 0 /\ taken = 0 /\ packet = 0 /\ pipe = NoPipe
    /\ clock_started_ = FALSE /\ posted = FALSE /\ server = "up" /\ failed = FALSE
    /\ played = 0

\* Shutdown: a packet that was not sent is cancelled, which needs the pipe, every
\* connection is closed and the run loop ends.
Quit == app' = "quit" /\ packet' = 0 /\ pipe' = NoPipe /\ posted' = FALSE

\* The posted Shutdown runs.
Shutdown ==
    /\ app # "quit" /\ posted
    /\ Quit
    /\ UNCHANGED <<file, payload_len_, taken, clock_started_, server, failed, played>>

\* No more signals, and Shutdown is posted.
PostShutdown(p) == pipe' = [p EXCEPT !.handler = FALSE] /\ posted' = TRUE

\* The response arrives: the headers are read and checked, the track is made and the
\* pipe begins to signal.
ProcessHTTPResponse ==
    /\ app = "loading"
    /\ IF Accepted(file)
       THEN /\ app' = "playing" /\ payload_len_' = Payload(file) /\ pipe' = NewPipe
            /\ UNCHANGED <<packet, posted, failed>>
       ELSE /\ Quit /\ failed' = TRUE
            /\ UNCHANGED payload_len_
    /\ UNCHANGED <<file, taken, clock_started_, server, played>>

\* The packet is created and filled, and the body ends first: the part in front of
\* the end of the buffer may have been read.
SourceEnds(p, bytes) ==
    /\ file.available - taken < bytes
    /\ \E n \in 0 .. (bytes - 1) :
          /\ n <= file.available - taken
          /\ payload_len_' = payload_len_ - n /\ taken' = taken + n
    /\ packet' = bytes /\ failed' = TRUE
    /\ PostShutdown(Created(p, bytes))
    /\ UNCHANGED clock_started_

\* The packet is created, filled and sent, the last one with a callback.  The clock
\* starts when enough is in the pipe.
SendChunk(p, bytes) ==
    LET q == Sent(Created(p, bytes), payload_len_ = bytes)
    IN  /\ file.available - taken >= bytes
        /\ payload_len_' = payload_len_ - bytes /\ taken' = taken + bytes
        /\ pipe' = q
        /\ clock_started_' = (clock_started_ \/ Pending(q) >= Hi \/ payload_len_ = bytes)
        /\ UNCHANGED <<packet, failed, posted>>

OnNeedsData(p) ==
    LET bytes == IF Chunk > payload_len_ THEN payload_len_ ELSE Chunk
    IN  \/ /\ payload_len_ = 0
           /\ pipe' = p
           /\ UNCHANGED <<payload_len_, taken, packet, clock_started_, posted, failed>>
        \/ /\ payload_len_ > 0 /\ NoRoom(p, bytes)
           /\ failed' = TRUE /\ PostShutdown(p)
           /\ UNCHANGED <<payload_len_, taken, packet, clock_started_>>
        \/ payload_len_ > 0 /\ ~NoRoom(p, bytes) /\ SourceEnds(p, bytes)
        \/ payload_len_ > 0 /\ ~NoRoom(p, bytes) /\ SendChunk(p, bytes)

\* The scheduled callback of the adapter runs, and calls the player if the adapter is
\* still signalled and has a callback.
HandleSignalCallback ==
    /\ app = "playing" /\ pipe.scheduled
    /\ LET p == [pipe EXCEPT !.scheduled = FALSE]
       IN  IF p.signalled /\ p.handler
           THEN OnNeedsData(p)
           ELSE /\ pipe' = p
                /\ UNCHANGED <<payload_len_, taken, packet, clock_started_, posted, failed>>
    /\ UNCHANGED <<file, app, server, played>>

\* The server has played a packet, which it does once the clock runs.  After the last
\* one the pipe is dropped and the player ends (OnPlayoutComplete).
HandleSendPacket ==
    /\ app = "playing" /\ server = "up" /\ clock_started_ /\ pipe.in_flight # <<>>
    /\ LET answered == Head(pipe.in_flight)
       IN  /\ IF answered.last
              THEN pipe' = NoPipe /\ posted' = TRUE
              ELSE /\ pipe' = UpdateSignalled([pipe EXCEPT !.rd = answered.post_consume_rd,
                                                           !.in_flight = Tail(@)])
                   /\ UNCHANGED posted
           /\ played' = answered.post_consume_rd
    /\ UNCHANGED <<file, app, payload_len_, taken, packet, clock_started_, server, failed>>

\* The server goes away.
ServerDies ==
    /\ app # "quit" /\ server = "up" /\ server' = "lost"
    /\ UNCHANGED <<file, app, payload_len_, taken, packet, pipe, clock_started_, posted, failed,
                   played>>

\* The adapter notices: it drops its buffer and its callback, without a call.
AdapterFaults ==
    /\ app = "playing" /\ server # "up" /\ pipe.exists
    /\ LET faulted == [NoPipe EXCEPT !.exists = TRUE, !.signalled = TRUE,
                                     !.scheduled = pipe.scheduled]
       IN  pipe # faulted /\ pipe' = faulted
    /\ UNCHANGED <<file, app, payload_len_, taken, packet, clock_started_, posted, server, failed,
                   played>>

\* The handlers of the other connections notice, and the player ends.
OnConnectionError ==
    /\ app # "quit" /\ server = "lost" /\ server' = "reported"
    /\ PostShutdown(pipe)
    /\ UNCHANGED <<file, app, payload_len_, taken, packet, clock_started_, failed, played>>

\* What the run loop of the player does.
LoopNext == \/ ProcessHTTPResponse \/ HandleSignalCallback \/ Shutdown
            \/ AdapterFaults \/ OnConnectionError

WavNext == LoopNext \/ HandleSendPacket \/ ServerDies

\* The run loop runs what is due, and a living server plays what it was sent.
WavSpec == WavInit /\ [][WavNext]_wavVars /\ WF_wavVars(LoopNext) /\ WF_wavVars(HandleSendPacket)
-----------------------------------------------------------------------------
\* A file the player can play to its end.
Intact(f) == Accepted(f) /\ f.available >= Payload(f)

WavTypeOK ==
    /\ file \in Files /\ app \in {"loading", "playing", "quit"}
    /\ payload_len_ \in Nat /\ taken \in Nat /\ packet \in Nat /\ played \in Nat
    /\ pipe \in [exists : BOOLEAN, rd : Nat, wr : Nat,
                 in_flight : Seq([post_consume_rd : Nat, last : BOOLEAN]),
                 signalled : BOOLEAN, scheduled : BOOLEAN, handler : BOOLEAN]
    /\ clock_started_ \in BOOLEAN /\ posted \in BOOLEAN /\ failed \in BOOLEAN
    /\ server \in {"up", "lost", "reported"}

\* A file with nothing wrong never fails: OnNeedsData always finds room in the buffer
\* for its chunk, and reads no byte behind the data chunk.
IntactNeverFails == failed => ~Intact(file)

\* While its server lives, the player ends only after an error, or when the server has
\* played every frame of the data chunk (OnPlayoutComplete).
EndsWhenPlayed ==
    (app = "quit" /\ server = "up" /\ ~failed) =>
        played = Payload(file) /\ taken = Payload(file) /\ clock_started_

\* What the checks of the code say: OnPlayoutComplete finds nothing pending, and Quit
\* finds a pipe to cancel a packet with.
ChecksHold ==
    /\ (pipe.in_flight # <<>> /\ Head(pipe.in_flight).last)
          => Head(pipe.in_flight).post_consume_rd = pipe.wr
    /\ packet # 0 => pipe.exists

\* PlayWAVApp plays a file whole or says that it could not.
PlaysWhole == WavTypeOK /\ IntactNeverFails /\ EndsWhenPlayed /\ ChecksHold

Playable == app = "playing" /\ Payload(file) > 0
Ended == app = "quit"

\* A player with something to play ends: it is asked for data until the clock runs, and
\* asked again whenever the pipe runs low.
PlayerEnds == Playable ~> Ended
=============================================================================
