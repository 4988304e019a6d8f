---------------------------- MODULE MCConnection ----------------------------
(* The ways a payload crosses from one service to another, for TLC: the        *)
(* connection of a MojoProducer and a MojoConsumer, which moves while which is *)
(* "connection"; the WAV player, which feeds the adapter of a media pipe and   *)
(* moves while it is "wav"; and a MediaPipe with that adapter, which moves     *)
(* while it is "pipe" and whose variables are v1, v2, ...                      *)
EXTENDS Connection, WavPlayer

VARIABLES which, v1, v2, v3, v4, v5, v6, v7, v8, v9, v10, v11, v12

part == <<v1, v2, v3, v4, v5, v6, v7, v8, v9, v10, v11, v12>>

\* A buffer of six bytes and packets of up to half of it: the write pointer goes
\* round the buffer twice.  There is room for a packet above the high water mark.
Pipe == INSTANCE MediaPipe WITH
            BufferSize <- 6, Hi <- 3, Lo <- 2, Sizes <- {1, 2, 3}, Unset <- {0},
            MaxPackets <- 4, MaxHeld <- 2, MaxCancels <- 1, MaxFlushes <- 1,
            adapter <- v1, held <- v2, writing <- v3, sent <- v4, cancels <- v5,
            flushes <- v6, acked <- v7, undefined <- v8, toConsumer <- v9,
            toAdapter <- v10, connected <- v11, consumer <- v12

\* Files of up to thirteen frames, whole or cut short; files whose headers are missing
\* or wrong; and files of other formats, with a rate that is valid modulo 2^16 only.
\* The buffer holds five frames of a file with 8000 frames in a second and six of one
\* with 11025; a chunk is one frame.
WavFiles ==
    [mime_type : {"audio/wav"}, headers : {3}, cc : {3}, format : {"LPCM"},
     channel_count : {1, 2}, frame_rate : {8000, 11025}, bits_per_sample : {8},
     frame_size : {1, 2}, slack : {0}, length : 0 .. 13, available : {0, 3, 8, 13}]
    \cup
    [mime_type : {"audio/x-wav", "text/html"}, headers : 0 .. 3, cc : 0 .. 3, format : {"LPCM"},
     channel_count : {1}, frame_rate : {8000}, bits_per_sample : {8},
     frame_size : {1}, slack : {-1, 0}, length : {4}, available : {4}]
    \cup
    [mime_type : {"audio/wav"}, headers : {3}, cc : {3}, format : {"LPCM", "ALAW"},
     channel_count : 0 .. 3, frame_rate : {8000, 9000, 73536}, bits_per_sample : {8, 16, 24},
     frame_size : 1 .. 3, slack : {0}, length : {4}, available : {4}]

\* The hypotheses of the theorems about the two modules hold for these sizes.
ASSUME SizesAssumption == Pipe!Disciplined /\ WellSized

all == <<vars, wavVars, part, which>>

OfWav(A) == which = "wav" /\ A /\ UNCHANGED <<vars, part, which>>
OfPipe(A) == which = "pipe" /\ A /\ UNCHANGED <<vars, wavVars, which>>

\* Parts that do not move are in one initial state.
MCInit == /\ which \in {"connection", "pipe", "wav"} /\ Init /\ WavInit
          /\ which # "connection" => supplier = "main"
          /\ which # "wav" => file = CHOOSE f \in WavFiles : Accepted(f)
          /\ \/ which = "pipe" /\ Pipe!Init
             \/ /\ which # "pipe"
                /\ v1 = 0 /\ v2 = 0 /\ v3 = 0 /\ v4 = 0 /\ v5 = 0 /\ v6 = 0
                /\ v7 = 0 /\ v8 = 0 /\ v9 = 0 /\ v10 = 0 /\ v11 = 0 /\ v12 = 0

MCNext == \/ which = "connection" /\ Next /\ UNCHANGED <<wavVars, part, which>>
          \/ OfWav(WavNext)
          \/ OfPipe(Pipe!Next)

\* The fairness of the modules.  The fair actions of a connection that has not begun
\* are not enabled.  The player's loop runs its callbacks and tasks, and its server
\* plays what it was sent.
MCSpec ==
    /\ MCInit /\ [][MCNext]_all /\ Fairness
    /\ WF_all(OfPipe(Pipe!SetWatermarks \/ Pipe!SetSignalCallback))
    /\ WF_all(OfPipe(Pipe!Produce \/ Pipe!StopWriting))
    /\ WF_all(OfPipe(Pipe!SendMediaPacket))
    /\ WF_all(OfPipe(Pipe!AdapterNext)) /\ WF_all(OfPipe(Pipe!ConsumerNext))
    /\ WF_all(OfWav(LoopNext)) /\ WF_all(OfWav(HandleSendPacket))

\* The client of the pipe is asked for packets until all are sent
\* (CircularBufferMediaPipeAdapter::UpdateSignalled and HandleSignalCallback), and a
\* player with something to play ends.
EverythingIsSent ==
    /\ <>(which = "pipe" => Pipe!AllSent)
    /\ (which = "wav" /\ Playable) ~> (which = "wav" /\ Ended)
=============================================================================
