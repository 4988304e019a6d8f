------------------------------ MODULE MCEngine ------------------------------
(* Two small graphs for TLC, the two trees of one forest, of which one runs. *)
EXTENDS Engine

VARIABLES
  which,      \* the tree that runs: "chain" or "demux"
  left,       \* the outputs that Graph::FlushAllOutputs has still to flush
  forgotten   \* history: a flush has made the demux's stage forget a request

(* Consumer, decoder, producer, as MediaDecoderImpl builds it, on one thread; *)
(* and a demux with a thread of its own and two streams, one of them decoded. *)
ChainStages == {"src", "dec", "snk"}
DemuxStages == {"dmx", "dec1", "s1", "s2"}
Stages == ChainStages \cup DemuxStages
Kinds == [src |-> "ActiveSource", dec |-> "Transform", snk |-> "ActiveSink",
          dmx |-> "ActiveMultistreamSource", dec1 |-> "Transform", s1 |-> "ActiveSink",
          s2 |-> "ActiveSink"]
Links == {"a", "b", "c", "d", "e"}
Ups == [a |-> "src", b |-> "dec", c |-> "dmx", d |-> "dec1", e |-> "dmx"]
Downs == [a |-> "dec", b |-> "snk", c |-> "dec1", d |-> "s1", e |-> "s2"]
Aboves == [src |-> {}, dec |-> {"src"}, snk |-> {"src", "dec"},
           dmx |-> {}, dec1 |-> {"dmx"}, s1 |-> {"dmx", "dec1"}, s2 |-> {"dmx"}]
Threads == {"main", "worker"}
ThreadsOf == [s \in Stages |-> IF s = "dmx" THEN "worker" ELSE "main"]
ProductiveResults == {<<TRUE, TRUE>>, <<TRUE, FALSE>>, <<FALSE, TRUE>>}
NoLinks == {}

Running == IF which = "chain" THEN ChainStages ELSE DemuxStages

MCInit == Init /\ which \in {"chain", "demux"} /\ left = {} /\ forgotten = FALSE

\* The parts of the other tree stay silent, and so do those whose thread flushes.
MCStep ==
  /\ \/ EngineStep
     \/ \E s \in Running : (left = {} \/ ThreadOf[s] # App) /\ PartStep(s)
     \/ Prepare
  /\ UNCHANGED <<left, forgotten>>

\* Graph::FlushAllOutputs: the engine's lock is taken for each output.
FlushAllOutputs ==
  \E l \in Link :
    /\ Upstream[l] \in Running /\ (left = {} \/ l \in left)
    /\ FlushOutput(l)
    /\ left' = (IF left = {} THEN Outputs(Upstream[l]) ELSE left) \ {l}
    /\ forgotten' = (forgotten \/ outstanding[Upstream[l]])

MCNext == (MCStep \/ FlushAllOutputs) /\ UNCHANGED which

\* In the chain the owner of the lock runs, a thread that waits for the lock gets it, the
\* application prepares the graph, and the sink keeps coming back for more, as
\* MojoProducer does when its consumer gives packets back.
MCSpec ==
  /\ MCInit /\ [][MCNext]_<<vars, which, left, forgotten>>
  /\ WF_vars(which = "chain" /\ (Prepare \/ Enter("main") \/ \E s \in ChainStages : Update(s)))
  /\ SF_vars(which = "chain" /\ DemandFromSink("snk", "positive"))

(* The demux is asked when an output needs a packet, also after a flush, and *)
(* supplies none that nobody asked for (ActiveMultistreamSourceStage::Update,  *)
(* and the supply callback's DCHECK(packet_request_outstanding_)), unless a    *)
(* flush has come while a request was outstanding: FlushOutput sets            *)
(* packet_request_outstanding_ to false and does not tell the demux, which     *)
(* serves the request all the same.                                            *)
DemuxIsServed ==
  /\ left = {} => DemuxIsAsked
  /\ forgotten \/ SuppliedOnRequest

(* In the chain every packet moves on (Engine::RequestUpdate and Update).     *)
(* Behind a demux it need not: when the demux's thread hands a packet to a    *)
(* sink, the demand that the sink signals meanwhile on its own thread may be  *)
(* overwritten by the one that SupplyPacket returns.                          *)
PacketsMoveOn == MoveOn({"src"}, {"a", "b"})
=============================================================================
