-------------------------- MODULE PullModeProducer --------------------------
(***************************************************************************)
(* MojoPullModeProducer: the sink that hands the packets of a stream to a  *)
(* client that pulls them.  The client's calls run on the mojo thread; the *)
(* engine supplies packets on whatever thread produced them.  A call takes *)
(* lock_ and signals the demand after it has let go of it, so the engine   *)
(* may run in between.                                                     *)
(***************************************************************************)
EXTENDS Naturals, Sequences, SequencesExt

CONSTANTS Packets,   \* packets upstream supplies: 1 .. Packets, the last ends
          Pulls      \* bound on the pulls of the client

VARIABLES state_, demand_, pending_pulls_, unreleased_packets_, cached_packet_,
          sink_demand_,   \* the demand ActiveSinkStage has for this sink
          bound,          \* whether a client is bound
          supplied,       \* packets supplied so far
          pulls,          \* pulls made so far
          answers,        \* <<pull, packet>> in the order of the callbacks
          signal,         \* demand a call on the mojo thread has yet to signal
          forsaken        \* packets supplied without a client, or cached when
                          \* positive demand was signalled

vars == <<state_, demand_, pending_pulls_, unreleased_packets_, cached_packet_,
          sink_demand_, bound, supplied, pulls, answers, signal, forsaken>>
queues == <<pending_pulls_, unreleased_packets_, cached_packet_, answers>>

NoPacket == 0
NoSignal == "none"

Init == /\ state_ = "UNPREPARED" /\ demand_ = "negative"
        /\ pending_pulls_ = <<>> /\ unreleased_packets_ = <<>>
        /\ cached_packet_ = NoPacket
        /\ sink_demand_ = "negative"
        /\ bound = TRUE
        /\ supplied = 0 /\ pulls = 0
        /\ answers = <<>>
        /\ signal = NoSignal
        /\ forsaken = {}

(* The mojo thread makes one call at a time.                               *)
Idle == bound /\ signal = NoSignal

(* The client asks for the buffer once.                                    *)
GetBuffer ==
  /\ Idle /\ state_ = "UNPREPARED"
  /\ state_' = "PAUSED"
  /\ signal' = "positive"
  /\ UNCHANGED <<demand_, queues, sink_demand_, bound, supplied, pulls,
                 forsaken>>

(* The pull that goes before the ones that wait.                           *)
HandlePullsLast(ps, packet) ==
  IF ps # <<>> /\ packet # NoPacket
  THEN /\ answers' = Append(answers, <<Last(ps), packet>>)
       /\ unreleased_packets_' = Append(unreleased_packets_, packet)
       /\ pending_pulls_' = Front(ps)
       /\ cached_packet_' = NoPacket
  ELSE /\ pending_pulls_' = ps
       /\ cached_packet_' = packet
       /\ UNCHANGED <<answers, unreleased_packets_>>

(* What is left of pulls, cached packet and answers once as many of the    *)
(* pulls as possible have been handled.  state_ is never ENDED, so a pull  *)
(* is handled by the cached packet alone.                                  *)
HandlePulls(ps, packet) ==
  IF ps # <<>> /\ packet # NoPacket
  THEN /\ answers' = Append(answers, <<Head(ps), packet>>)
       /\ unreleased_packets_' = Append(unreleased_packets_, packet)
       /\ pending_pulls_' = Tail(ps)
       /\ cached_packet_' = NoPacket
  ELSE /\ pending_pulls_' = ps
       /\ cached_packet_' = packet
       /\ UNCHANGED <<answers, unreleased_packets_>>

PullPacket ==
  /\ Idle /\ pulls < Pulls
  /\ pulls' = pulls + 1
  /\ IF state_ = "UNPREPARED"
     THEN /\ pending_pulls_' = Append(pending_pulls_, pulls + 1)
          /\ UNCHANGED <<unreleased_packets_, cached_packet_, answers, signal>>
     ELSE /\ IF pending_pulls_ = <<>>
             THEN HandlePulls(<<pulls + 1>>, cached_packet_)
             ELSE /\ pending_pulls_' = Append(pending_pulls_, pulls + 1)
                  /\ UNCHANGED <<unreleased_packets_, cached_packet_, answers>>
          /\ signal' = "positive"
  /\ UNCHANGED <<state_, demand_, sink_demand_, bound, supplied, forsaken>>

(* ReleasePacket finds the packet by its payload and size.                 *)
ReleasePacket(p) ==
  /\ Idle
  /\ p \in Range(unreleased_packets_)
  /\ unreleased_packets_' = Remove(unreleased_packets_, p)
  /\ signal' = "cached"
  /\ UNCHANGED <<state_, demand_, pending_pulls_, cached_packet_, answers,
                 sink_demand_, bound, supplied, pulls, forsaken>>

(* ReleasePacket reads cached_packet_ again, without lock_.                *)
ReadCached ==
  /\ signal = "cached"
  /\ signal' = IF cached_packet_ = NoPacket THEN "positive" ELSE "negative"
  /\ UNCHANGED <<state_, demand_, queues, sink_demand_, bound, supplied, pulls,
                 forsaken>>

SignalDemand ==
  /\ signal \in {"positive", "negative"}
  /\ sink_demand_' = signal
  /\ signal' = NoSignal
  /\ forsaken' = IF signal = "positive" THEN forsaken \cup ({cached_packet_} \ {NoPacket})
                 ELSE forsaken
  /\ UNCHANGED <<state_, demand_, queues, bound, supplied, pulls>>

(* The engine, when the stage demands.  The stage keeps what SupplyPacket  *)
(* returns.  A packet that is still cached is overwritten where the DCHECK *)
(* that there is none is compiled out.                                     *)
SupplyPacket ==
  /\ sink_demand_ # "negative" /\ supplied < Packets
  /\ supplied' = supplied + 1
  /\ IF ~bound
     THEN /\ demand_' = "negative"
          /\ state_' = "UNPREPARED"
          /\ forsaken' = forsaken \cup {supplied + 1}
          /\ UNCHANGED queues
     ELSE /\ HandlePulls(pending_pulls_, supplied + 1)
          /\ demand_' = IF cached_packet_' # NoPacket THEN "negative"
                        ELSE "positive"
          /\ UNCHANGED <<state_, forsaken>>
  /\ sink_demand_' = demand_'
  /\ UNCHANGED <<bound, pulls, signal>>

(* The client goes away; its unanswered callbacks lead nowhere.            *)
Disconnect == /\ Idle
              /\ bound' = FALSE
              /\ UNCHANGED <<state_, demand_, queues, sink_demand_, supplied,
                             pulls, signal, forsaken>>

Next == \/ GetBuffer \/ PullPacket \/ Disconnect
        \/ \E p \in 1 .. Packets : ReleasePacket(p)
        \/ ReadCached \/ SignalDemand \/ SupplyPacket

Spec == Init /\ [][Next]_vars

-----------------------------------------------------------------------------
(* Pulls are answered in the order they were made, each once, by packets   *)
(* in the order of the stream, and a packet is kept until the client       *)
(* releases it; "If cached_packet_ isn't nullptr, pending_pulls_ should be *)
(* empty" (mojo_pull_mode_producer.h:83).  A packet that was supplied is   *)
(* cached or has been the answer to a pull, unless there was no client, or *)
(* a call signalled positive demand while the packet was cached: the next  *)
(* packet then takes its place, against DCHECK(!cached_packet_).           *)
PullsAreAnsweredInOrder ==
  LET answered == {answers[a][2] : a \in 1 .. Len(answers)}
  IN  /\ \A a, b \in 1 .. Len(answers) : a < b =>
           answers[a][1] < answers[b][1] /\ answers[a][2] < answers[b][2]
      /\ cached_packet_ # NoPacket => pending_pulls_ = <<>>
      /\ Range(unreleased_packets_) \subseteq answered
      /\ 1 .. supplied \subseteq answered \cup {cached_packet_} \cup forsaken

=============================================================================
