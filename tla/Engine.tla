------------------------------- MODULE Engine -------------------------------
(* The media framework's graph while it runs: Engine's work-list algorithm   *)
(* over the stages that Graph::Connect has joined, the Output/Input pairs    *)
(* that carry demand upstream and packets downstream, and the callbacks the  *)
(* hosted parts make from their own threads.                                 *)
(*                                                                           *)
(* An Output and the Input it is connected to ("mates") are one link: the    *)
(* link's demand is Output::demand_, its packet Input::packet_from_upstream_.*)
(* The graph is a forest: a transform or a sink has exactly one input.       *)
EXTENDS Naturals, Sequences

CONSTANTS
  Stage,        \* the stages of the graph
  Link,         \* the connected Output/Input pairs
  Thread,       \* the threads that may enter the engine
  App,          \* the thread that prepares and flushes the graph
  Kind,         \* what each stage hosts
  Upstream,     \* the stage that owns a link's Output
  Downstream,   \* the stage that owns a link's Input
  Above,        \* the stages a stage is fed from, directly or not
  ThreadOf,     \* the thread on which an active part makes its callbacks
  Results,      \* what TransformPacket may answer: <<done, output produced>>
  CopyLinks,    \* links whose Output copies with an allocator that may starve
  MaxPackets,   \* bound: packets a source makes
  MaxPieces,    \* bound: outputs a transform makes from one packet
  MaxFlushes,   \* bound: flushes
  None

StageKind == {"ActiveSource", "ActiveMultistreamSource", "Transform", "ActiveSink"}
Demand == {"negative", "neutral", "positive"}

Sources == {s \in Stage : Kind[s] \in {"ActiveSource", "ActiveMultistreamSource"}}
Transforms == {s \in Stage : Kind[s] = "Transform"}
Sinks == {s \in Stage : Kind[s] = "ActiveSink"}

ASSUME GraphAssumption ==
  /\ Kind \in [Stage -> StageKind]
  /\ Upstream \in [Link -> Stage]
  /\ Downstream \in [Link -> Stage]
  /\ Above \in [Stage -> SUBSET Stage]
  /\ ThreadOf \in [Stage -> Thread]
  /\ App \in Thread
  /\ Results \subseteq BOOLEAN \X BOOLEAN
  /\ CopyLinks \subseteq Link
  /\ MaxPackets \in Nat /\ MaxPieces \in Nat /\ MaxFlushes \in Nat
  /\ None \notin Stage /\ None \notin Thread /\ None \notin Nat /\ None \notin Demand
  /\ None \notin [link : Link, number : Nat]

(* Every stage kind has at most one input; a source has none; the stages     *)
(* above a stage are the one that feeds it and those above that one.         *)
ASSUME ForestAssumption ==
  /\ \A l \in Link : Downstream[l] \notin Sources /\ Upstream[l] \notin Sinks
  /\ \A k, l \in Link : Downstream[k] = Downstream[l] => k = l
  /\ \A k, l \in Link : Upstream[k] = Upstream[l] =>
        k = l \/ Kind[Upstream[l]] = "ActiveMultistreamSource"
  /\ \A l \in Link : Above[Downstream[l]] = Above[Upstream[l]] \cup {Upstream[l]}
  /\ \A s \in Stage : s \notin Above[s]
  /\ \A s \in Sources : Above[s] = {}

VARIABLES
  demand,           \* Output::demand_ of each link
  packet,           \* Input::packet_from_upstream_ of each link, or None
  supplyBacklog, demandBacklog,       \* Engine: a queue and a stack of stages
  inSupplyBacklog, inDemandBacklog,   \* Stage::in_supply_backlog_, in_demand_backlog_
  owner,            \* the thread that holds Engine::lock_, or None
  current,          \* the stage whose Update the owner runs next, or None
  pc,               \* the stage a thread has called RequestUpdate for, or None
  prepared,         \* ActiveSourceStage::prepared_
  packets,          \* ActiveSourceStage::packets_
  cached,           \* ActiveMultistreamSourceStage::cached_packet_ and its output
  outstanding,      \* ActiveMultistreamSourceStage::packet_request_outstanding_
  isNew,            \* TransformStage::input_packet_is_new_
  pieces,           \* outputs a transform has made from its present packet
  sinkDemand,       \* ActiveSinkStage::sink_demand_
  returned,         \* what SupplyPacket returned and is not yet assigned, or None
  want,             \* the demand the hosted sink itself signalled last
  asked, pulling,   \* the hosted demux: a request it has, one it is serving
  made,             \* packets each source has made
  accepted,         \* the last packet each sink accepted
  flushedTo,        \* packets each source had made when it was last flushed
  flushes

linkVars == <<demand, packet>>
backlogVars == <<supplyBacklog, demandBacklog, inSupplyBacklog, inDemandBacklog>>
sourceVars == <<packets, cached, outstanding, asked, pulling, made>>
transformVars == <<isNew, pieces>>
sinkVars == <<sinkDemand, returned, want, accepted>>
flushVars == <<prepared, flushedTo, flushes>>
vars == <<linkVars, backlogVars, owner, current, pc, sourceVars, transformVars,
          sinkVars, flushVars>>

(* What Output::demand() answers: an input that still holds a packet takes   *)
(* no other.                                                                 *)
OutputDemand(l) == IF packet[l] # None THEN "negative" ELSE demand[l]

Outputs(s) == {l \in Link : Upstream[l] = s}

(* Packets are numbered in the order their source makes them.                *)
PacketNumber == Nat

TypeOK ==
  /\ demand \in [Link -> Demand]
  /\ packet \in [Link -> PacketNumber \cup {None}]
  /\ supplyBacklog \in Seq(Stage) /\ demandBacklog \in Seq(Stage)
  /\ inSupplyBacklog \in [Stage -> BOOLEAN] /\ inDemandBacklog \in [Stage -> BOOLEAN]
  /\ owner \in Thread \cup {None} /\ current \in Stage \cup {None}
  /\ pc \in [Thread -> Stage \cup {None}]
  /\ prepared \in BOOLEAN
  /\ packets \in [Stage -> Seq(PacketNumber)]
  /\ cached \in [Stage -> [link : Link, number : PacketNumber] \cup {None}]
  /\ outstanding \in [Stage -> BOOLEAN]
  /\ isNew \in [Stage -> BOOLEAN] /\ pieces \in [Stage -> Nat]
  /\ sinkDemand \in [Stage -> Demand] /\ returned \in Demand \cup {None}
  /\ want \in [Stage -> Demand]
  /\ asked \in [Stage -> BOOLEAN] /\ pulling \in [Stage -> BOOLEAN]
  /\ made \in [Stage -> PacketNumber] /\ accepted \in [Stage -> PacketNumber]
  /\ flushedTo \in [Stage -> PacketNumber] /\ flushes \in Nat

Init ==
  /\ demand = [l \in Link |-> "negative"]
  /\ packet = [l \in Link |-> None]
  /\ supplyBacklog = <<>> /\ demandBacklog = <<>>
  /\ inSupplyBacklog = [s \in Stage |-> FALSE]
  /\ inDemandBacklog = [s \in Stage |-> FALSE]
  /\ owner = None /\ current = None /\ pc = [t \in Thread |-> None]
  /\ prepared = FALSE
  /\ packets = [s \in Stage |-> <<>>]
  /\ cached = [s \in Stage |-> None]
  /\ outstanding = [s \in Stage |-> FALSE]
  /\ isNew = [s \in Stage |-> TRUE] /\ pieces = [s \in Stage |-> 0]
  /\ sinkDemand = [s \in Stage |-> "negative"] /\ returned = None
  /\ want = [s \in Stage |-> "negative"]
  /\ asked = [s \in Stage |-> FALSE] /\ pulling = [s \in Stage |-> FALSE]
  /\ made = [s \in Stage |-> 0] /\ accepted = [s \in Stage |-> 0]
  /\ flushedTo = [s \in Stage |-> 0] /\ flushes = 0

-----------------------------------------------------------------------------
(* The work list. *)

(* Engine::PushToSupplyBacklog and PushToDemandBacklog: a stage that is      *)
(* already there is not added again. s may be None: nothing to push.         *)
Push(backlog, isIn, s) == IF s = None \/ isIn[s] THEN backlog ELSE Append(backlog, s)
Flagged(isIn, s) == IF s = None THEN isIn ELSE [isIn EXCEPT ![s] = TRUE]

(* Engine::Update(stage): a stage that supplied a packet is pushed to the    *)
(* demand backlog, because its output may take another once the packet has   *)
(* been dealt with. "given" is the stage supplied, or None.                  *)
ReconsideredNever(s, given) == None
Reconsidered(s, given) == IF given = None THEN None ELSE s

(* Input::SetDemand: the stage to push when link i's demand becomes d.       *)
Signalled(i, d) == IF demand[i] = d THEN None ELSE Upstream[i]

(* Engine::Update(): the owner of the lock goes on with the oldest stage of  *)
(* the supply backlog, then with the newest of the demand backlog, and lets  *)
(* go of the lock when both are empty. The arguments are the backlogs as     *)
(* they stand at the end of the update of one stage.                         *)
Proceed(supply, inSupply, dmnd, inDmnd) ==
  \/ /\ supply # <<>>
     /\ current' = Head(supply)
     /\ supplyBacklog' = Tail(supply)
     /\ inSupplyBacklog' = [inSupply EXCEPT ![Head(supply)] = FALSE]
     /\ demandBacklog' = dmnd /\ inDemandBacklog' = inDmnd
     /\ UNCHANGED <<owner, pc>>
  \/ /\ supply = <<>> /\ dmnd # <<>>
     /\ current' = dmnd[Len(dmnd)]
     /\ demandBacklog' = SubSeq(dmnd, 1, Len(dmnd) - 1)
     /\ inDemandBacklog' = [inDmnd EXCEPT ![dmnd[Len(dmnd)]] = FALSE]
     /\ supplyBacklog' = supply /\ inSupplyBacklog' = inSupply
     /\ UNCHANGED <<owner, pc>>
  \/ /\ supply = <<>> /\ dmnd = <<>>
     /\ current' = None /\ owner' = None
     /\ pc' = [pc EXCEPT ![owner] = None]
     /\ supplyBacklog' = supply /\ inSupplyBacklog' = inSupply
     /\ demandBacklog' = dmnd /\ inDemandBacklog' = inDmnd

(* The end of one stage's update, in the order the code pushes: the stage    *)
(* that was supplied, the stage upstream whose demand changed, and the       *)
(* updated stage itself.                                                     *)
EndUpdate(s, given, signalled) ==
  LET again == Reconsidered(s, given)
      dmnd == Push(demandBacklog, inDemandBacklog, signalled)
      inDmnd == Flagged(inDemandBacklog, signalled)
  IN Proceed(Push(supplyBacklog, inSupplyBacklog, given), Flagged(inSupplyBacklog, given),
             Push(dmnd, inDmnd, again), Flagged(inDmnd, again))

(* Engine::RequestUpdate: thread t, which has called it for stage pc[t],     *)
(* gets the lock and starts with that stage.                                 *)
Enter(t) ==
  /\ owner = None /\ pc[t] # None
  /\ owner' = t /\ current' = pc[t]
  /\ UNCHANGED <<linkVars, backlogVars, pc, sourceVars, transformVars, sinkVars, flushVars>>

-----------------------------------------------------------------------------
(* Stage::Update, kind by kind. *)

(* Output::SupplyPacket may find its copy allocator starved: the packet is   *)
(* dropped and nobody is told.                                               *)
Starves(l) == IF l \in CopyLinks THEN BOOLEAN ELSE {FALSE}

UpdateActiveSource(s) ==
  /\ current = s /\ Kind[s] = "ActiveSource"
  /\ \E l \in Outputs(s) :
       IF OutputDemand(l) # "negative" /\ packets[s] # <<>>
       THEN /\ packets' = [packets EXCEPT ![s] = Tail(@)]
            /\ \E starved \in Starves(l) :
                 /\ packet' = IF starved THEN packet
                              ELSE [packet EXCEPT ![l] = Head(packets[s])]
                 /\ EndUpdate(s, IF starved THEN None ELSE Downstream[l], None)
       ELSE /\ UNCHANGED <<packets, packet>>
            /\ EndUpdate(s, None, None)
  /\ UNCHANGED <<demand, cached, outstanding, asked, pulling, made, transformVars,
                 sinkVars, flushVars>>

(* ActiveMultistreamSourceStage::Update: pass the cached packet on if its    *)
(* output takes it, then ask the source for one if any output needs one.     *)
AsksForAll(s, cachedAfter, packetAfter) ==
  /\ cachedAfter = None /\ ~outstanding[s]
  /\ \A l \in Outputs(s) : packetAfter[l] = None /\ demand[l] = "positive"
Asks(s, cachedAfter, packetAfter) ==
  /\ cachedAfter = None /\ ~outstanding[s]
  /\ \E l \in Outputs(s) : packetAfter[l] = None /\ demand[l] = "positive"

UpdateActiveMultistreamSource(s) ==
  /\ current = s /\ Kind[s] = "ActiveMultistreamSource"
  /\ LET c == cached[s]
         pass == c # None /\ OutputDemand(c.link) # "negative"
     IN \E starved \in IF pass THEN Starves(c.link) ELSE {FALSE} :
          LET supplied == pass /\ ~starved
              cachedAfter == IF pass THEN None ELSE c
              packetAfter == IF supplied THEN [packet EXCEPT ![c.link] = c.number]
                             ELSE packet
              asks == Asks(s, cachedAfter, packetAfter)
          IN /\ cached' = [cached EXCEPT ![s] = cachedAfter]
             /\ packet' = packetAfter
             /\ outstanding' = [outstanding EXCEPT ![s] = @ \/ asks]
             /\ asked' = [asked EXCEPT ![s] = @ \/ asks]
             /\ EndUpdate(s, IF supplied THEN Downstream[c.link] ELSE None, None)
  /\ UNCHANGED <<demand, packets, pulling, made, transformVars, sinkVars, flushVars>>

(* TransformStage::Update when there is a packet and the output takes one.   *)
(* The output made from packet n is numbered n.                              *)
TransformPacket(s, i, o) ==
  \E r \in Results :
    LET done == r[1]
        produced == r[2]
        taken == IF done THEN [packet EXCEPT ![i] = None] ELSE packet
        demandAfter == IF produced THEN "negative" ELSE OutputDemand(o)
    IN /\ done \/ pieces[s] < MaxPieces
       /\ packet' = IF produced THEN [taken EXCEPT ![o] = packet[i]] ELSE taken
       /\ demand' = [demand EXCEPT ![i] = demandAfter]
       /\ isNew' = [isNew EXCEPT ![s] = done]
       /\ pieces' = [pieces EXCEPT ![s] = IF done THEN 0 ELSE @ + 1]
       /\ EndUpdate(s, IF produced THEN Downstream[o] ELSE None, Signalled(i, demandAfter))

UpdateTransform(s) ==
  /\ current = s /\ Kind[s] = "Transform"
  /\ \E i, o \in Link :
       /\ Downstream[i] = s /\ Upstream[o] = s
       /\ IF packet[i] # None /\ OutputDemand(o) # "negative"
          THEN TransformPacket(s, i, o)
          ELSE /\ demand' = [demand EXCEPT ![i] = OutputDemand(o)]
               /\ EndUpdate(s, None, Signalled(i, OutputDemand(o)))
               /\ UNCHANGED <<packet, isNew, pieces>>
  /\ UNCHANGED <<sourceVars, sinkVars, flushVars>>

(* ActiveSinkStage::Update hands the packet to the sink; the demand the sink *)
(* returns is assigned to sink_demand_ afterwards, and no lock keeps the     *)
(* sink's demand callback out in between.                                    *)
SinkTakes(s) ==
  /\ current = s /\ Kind[s] = "ActiveSink"
  /\ \E i \in Link, d \in Demand :
       /\ Downstream[i] = s /\ packet[i] # None
       /\ packet' = [packet EXCEPT ![i] = None]
       /\ accepted' = [accepted EXCEPT ![s] = packet[i]]
       /\ returned' = d /\ want' = [want EXCEPT ![s] = d]
  /\ UNCHANGED <<demand, backlogVars, owner, current, pc, sourceVars, transformVars,
                 sinkDemand, flushVars>>

SinkSignals(s) ==
  /\ current = s /\ Kind[s] = "ActiveSink"
  /\ \E i \in Link :
       LET d == IF returned = None THEN sinkDemand[s] ELSE returned
       IN /\ Downstream[i] = s /\ packet[i] = None
          /\ sinkDemand' = [sinkDemand EXCEPT ![s] = d]
          /\ demand' = [demand EXCEPT ![i] = d]
          /\ EndUpdate(s, None, Signalled(i, d))
  /\ returned' = None
  /\ UNCHANGED <<packet, sourceVars, transformVars, want, accepted, flushVars>>

Update(s) ==
  \/ UpdateActiveSource(s)
  \/ UpdateActiveMultistreamSource(s)
  \/ UpdateTransform(s)
  \/ SinkTakes(s)
  \/ SinkSignals(s)

-----------------------------------------------------------------------------
(* Callbacks of the hosted parts. A part's thread makes one only outside     *)
(* the engine (engine.h, constraint 1), that is while pc of it is None.      *)

Requested(t, s) == pc' = [pc EXCEPT ![t] = s]

(* ActiveSourceStage's supply callback: an update is requested only when the *)
(* queue was empty.                                                          *)
WakesNever(s) == FALSE
WakesOnSupply(s) == packets[s] = <<>> /\ prepared

SupplyFromActiveSource(s) ==
  LET t == ThreadOf[s]
  IN /\ Kind[s] = "ActiveSource" /\ pc[t] = None /\ made[s] < MaxPackets
     /\ made' = [made EXCEPT ![s] = @ + 1]
     /\ packets' = [packets EXCEPT ![s] = Append(@, made[s] + 1)]
     /\ IF WakesOnSupply(s) THEN Requested(t, s) ELSE UNCHANGED pc
     /\ UNCHANGED <<linkVars, backlogVars, owner, current, cached, outstanding, asked,
                    pulling, transformVars, sinkVars, flushVars>>

(* FfmpegDemuxImpl::Worker wakes for a request and pulls a packet...         *)
Pull(s) ==
  /\ Kind[s] = "ActiveMultistreamSource" /\ pc[ThreadOf[s]] = None
  /\ asked[s] /\ ~pulling[s] /\ made[s] < MaxPackets
  /\ asked' = [asked EXCEPT ![s] = FALSE]
  /\ pulling' = [pulling EXCEPT ![s] = TRUE]
  /\ made' = [made EXCEPT ![s] = @ + 1]
  /\ UNCHANGED <<linkVars, backlogVars, owner, current, pc, packets, cached, outstanding,
                 transformVars, sinkVars, flushVars>>

(* ...and hands it to ActiveMultistreamSourceStage's supply callback, which  *)
(* reads the output's demand under the stage's lock, not the engine's.       *)
SupplyFromMultistream(s) ==
  LET t == ThreadOf[s]
  IN /\ Kind[s] = "ActiveMultistreamSource" /\ pc[t] = None /\ pulling[s]
     /\ pulling' = [pulling EXCEPT ![s] = FALSE]
     /\ outstanding' = [outstanding EXCEPT ![s] = FALSE]
     /\ \E l \in Outputs(s) :
          /\ cached' = [cached EXCEPT ![s] = [link |-> l, number |-> made[s]]]
          /\ IF OutputDemand(l) # "negative" THEN Requested(t, s) ELSE UNCHANGED pc
     /\ UNCHANGED <<linkVars, backlogVars, owner, current, packets, asked, made,
                    transformVars, sinkVars, flushVars>>

(* ActiveSinkStage's demand callback. *)
DemandFromSink(s, d) ==
  LET t == ThreadOf[s]
  IN /\ Kind[s] = "ActiveSink" /\ prepared /\ pc[t] = None /\ want[s] # d
     /\ want' = [want EXCEPT ![s] = d]
     /\ IF sinkDemand[s] # d
        THEN /\ sinkDemand' = [sinkDemand EXCEPT ![s] = d]
             /\ Requested(t, s)
        ELSE UNCHANGED <<sinkDemand, pc>>
     /\ UNCHANGED <<linkVars, backlogVars, owner, current, sourceVars, transformVars,
                    returned, accepted, flushVars>>

-----------------------------------------------------------------------------
(* Graph::Prepare and Graph::FlushOutput, called by the application. *)

Prepare ==
  /\ ~prepared /\ owner = None /\ pc[App] = None
  /\ prepared' = TRUE
  /\ UNCHANGED <<linkVars, backlogVars, owner, current, pc, sourceVars, transformVars,
                 sinkVars, flushedTo, flushes>>

(* Mutant of Subgraph: the visit starts behind the first link.               *)
SubgraphBehind(l) ==
  {k \in Link : Upstream[k] = Downstream[l] \/ Downstream[l] \in Above[Upstream[k]]}

(* The links Engine::VisitDownstream reaches from link l.                    *)
Subgraph(l) ==
  {k \in Link : k = l \/ Upstream[k] = Downstream[l] \/ Downstream[l] \in Above[Upstream[k]]}

FlushedStages(l) == {Downstream[k] : k \in Subgraph(l)}

(* Input::Flush and Output::Flush. *)
FlushLinks(ls) ==
  /\ demand' = [k \in Link |-> IF k \in ls THEN "negative" ELSE demand[k]]
  /\ packet' = [k \in Link |-> IF k \in ls THEN None ELSE packet[k]]

Cleared(f, ss, value) == [s \in Stage |-> IF s \in ss THEN value ELSE f[s]]

(* FlushOutput of the source the flush starts at. The demux is not told that *)
(* its request is forgotten.                                                 *)
FlushActiveSource(s) == packets' = [packets EXCEPT ![s] = <<>>]

FlushActiveMultistreamSource(s) ==
  /\ cached' = [cached EXCEPT ![s] = None]
  /\ outstanding' = [outstanding EXCEPT ![s] = FALSE]

(* FlushInput, and a transform's FlushOutput, of the stages downstream. *)
FlushTransforms(ss) == isNew' = Cleared(isNew, ss, TRUE) /\ pieces' = Cleared(pieces, ss, 0)

FlushSinks(ss) ==
  /\ sinkDemand' = Cleared(sinkDemand, ss, "negative")
  /\ want' = Cleared(want, ss, "negative")

(* Engine::FlushOutput. The repository flushes from the outputs of sources   *)
(* only.                                                                     *)
FlushOutput(l) ==
  LET src == Upstream[l]
  IN /\ prepared /\ owner = None /\ pc[App] = None /\ flushes < MaxFlushes
     /\ src \in Sources
     /\ FlushLinks(Subgraph(l))
     /\ FlushActiveSource(src) /\ FlushActiveMultistreamSource(src)
     /\ FlushTransforms(FlushedStages(l)) /\ FlushSinks(FlushedStages(l))
     /\ flushedTo' = [flushedTo EXCEPT ![src] = made[src]]
     /\ flushes' = flushes + 1
     /\ UNCHANGED <<backlogVars, owner, current, pc, asked, pulling, made, returned,
                    accepted, prepared>>

-----------------------------------------------------------------------------
EngineStep == \/ \E t \in Thread : Enter(t)
              \/ \E s \in Stage : Update(s)

PartStep(s) ==
  \/ SupplyFromActiveSource(s)
  \/ Pull(s)
  \/ SupplyFromMultistream(s)
  \/ \E d \in Demand : DemandFromSink(s, d)

Next ==
  \/ EngineStep
  \/ \E s \in Stage : PartStep(s)
  \/ Prepare
  \/ \E l \in Link : FlushOutput(l)

Spec == Init /\ [][Next]_vars

-----------------------------------------------------------------------------
Members(backlog) == {backlog[k] : k \in 1..Len(backlog)}
Pending == {pc[t] : t \in Thread} \ {None}

(* The engine is at rest: nobody is in it and nobody waits for it. *)
AtRest == owner = None /\ Pending = {}

(* engine.h: the backlogs hold each stage at most once, the flags in Stage   *)
(* say which, and the lock is not let go of while a backlog holds a stage.   *)
BacklogsConsistent ==
  /\ \A s \in Stage : inSupplyBacklog[s] <=> s \in Members(supplyBacklog)
  /\ \A s \in Stage : inDemandBacklog[s] <=> s \in Members(demandBacklog)
  /\ \A j, k \in 1..Len(supplyBacklog) : supplyBacklog[j] = supplyBacklog[k] => j = k
  /\ \A j, k \in 1..Len(demandBacklog) : demandBacklog[j] = demandBacklog[k] => j = k
  /\ owner = None => supplyBacklog = <<>> /\ demandBacklog = <<>> /\ current = None

(* Stage s has no work left: its Update would move no packet and change no   *)
(* demand.                                                                   *)
Settled(s) ==
  /\ Kind[s] = "ActiveSource" =>
       packets[s] = <<>> \/ \A l \in Outputs(s) : OutputDemand(l) = "negative"
  /\ Kind[s] = "ActiveMultistreamSource" =>
       cached[s] = None \/ OutputDemand(cached[s].link) = "negative"
  /\ Kind[s] = "Transform" =>
       \A i, o \in Link : Downstream[i] = s /\ Upstream[o] = s =>
         /\ demand[i] = OutputDemand(o)
         /\ packet[i] # None => OutputDemand(o) = "negative"
  /\ Kind[s] = "ActiveSink" =>
       \A i \in Link : Downstream[i] = s => packet[i] = None /\ demand[i] = sinkDemand[s]

(* engine.h: "all the work that can be done synchronously as a result of the *)
(* external event is completed". No wake-up is lost: whenever the engine is  *)
(* at rest no stage has work left.                                           *)
AllWorkDone == AtRest => \A s \in Stage : Settled(s)

(* At rest, a demux with an output that needs a packet has been asked for    *)
(* one, unless it holds one for another output that takes none.              *)
DemuxIsAsked ==
  AtRest => \A s \in Stage :
    Kind[s] = "ActiveMultistreamSource" /\ cached[s] = None
      /\ (\E l \in Outputs(s) : OutputDemand(l) = "positive")
        => outstanding[s] /\ (asked[s] \/ pulling[s])

(* ActiveMultistreamSourceStage's supply callback asserts that it holds no   *)
(* packet and that a request is outstanding: "source supplied unrequested    *)
(* packet".                                                                  *)
SuppliedOnRequest ==
  \A s \in Stage : pulling[s] => outstanding[s] /\ cached[s] = None

(* What a sink accepts comes in the order the source made it, and after a    *)
(* flush of an ActiveSource nothing made before the flush is accepted.  Of an *)
(* ActiveMultistreamSource this is not said: a packet it was pulling when the *)
(* flush came is supplied after the flush.                                    *)
AcceptedInOrder ==
  [][\A l \in Link : LET s == Downstream[l]
                      root == CHOOSE r \in Sources : r \in Above[s]
       IN accepted'[s] # accepted[s] =>
            /\ accepted'[s] > accepted[s]
            /\ Kind[root] = "ActiveSource" => accepted'[s] > flushedTo[root]]_vars

(* Every packet that a source of S holds, and every packet that an input of  *)
(* L holds, moves on.                                                        *)
MoveOn(S, L) ==
  /\ \A s \in S : (packets[s] # <<>>) ~> (packets[s] = <<>>)
  /\ \A l \in L : (packet[l] # None) ~> (packet[l] = None)
=============================================================================
