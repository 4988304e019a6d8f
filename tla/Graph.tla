------------------------------- MODULE Graph -------------------------------
(***************************************************************************)
(* The graph of services/media/framework: parts hosted by stages, outputs  *)
(* joined to inputs, and the preparation that fixes where the packets of   *)
(* every connection are allocated.  The movement of packets over a         *)
(* prepared graph is in Engine.                                            *)
(*                                                                         *)
(* A connector is the reference the code passes around (InputRef,          *)
(* OutputRef): a direction, a stage and an index.                          *)
(***************************************************************************)
EXTENDS Naturals, FiniteSets, FiniteSetsExt

CONSTANTS Parts,      \* the parts an application may add
          Model       \* the model each of them implements

VARIABLES stages_,    \* the stages of the graph
          deleted,    \* stages that were deleted
          mate,       \* the connector each connector is joined to
          prepared_,  \* the inputs that are prepared
          allocator_, \* the allocator each output's packets come from
          copy,       \* the allocator an output copies its packets into
          end         \* how the program ended: "check", "wild", or "no"

vars == <<stages_, deleted, mate, prepared_, allocator_, copy, end>>

NoMate == <<>>
NoAllocator == "null"
DefaultAllocator == "default"
OwnAllocator == "own"

InputCount(p) == IF Model[p] \in {"transform", "sink", "pickySink"} THEN 1 ELSE 0
OutputCount(p) == CASE Model[p] \in {"source", "pickySource", "transform"} -> 1
                    [] Model[p] = "multistream" -> 2
                    [] OTHER -> 0

InputsOf(p) == {<<"in", p, k>> : k \in 0 .. InputCount(p) - 1}
OutputsOf(p) == {<<"out", p, k>> : k \in 0 .. OutputCount(p) - 1}
Inputs == UNION {InputsOf(p) : p \in Parts}
Outputs == UNION {OutputsOf(p) : p \in Parts}
ConnectorsOf(p) == InputsOf(p) \cup OutputsOf(p)
PartOf(c) == c[2]
Live(c) == PartOf(c) \in stages_

Init == /\ stages_ = {}
        /\ deleted = {}
        /\ mate = [c \in Inputs \cup Outputs |-> NoMate]
        /\ prepared_ = {}
        /\ allocator_ = [o \in Outputs |-> OwnAllocator]
        /\ copy = [o \in Outputs |-> NoAllocator]
        /\ end = "no"

Sinks == {p \in stages_ : OutputCount(p) = 0}

Add(p) == /\ p \notin stages_ \cup deleted
          /\ stages_' = stages_ \cup {p}
          /\ UNCHANGED <<deleted, mate, prepared_, allocator_, copy, end>>

(***************************************************************************)
(* Joining and parting.  A connector is parted with its mate; a prepared   *)
(* pair is not parted, the program is stopped instead.                     *)
(***************************************************************************)
Parted(m, cs) ==
  [c \in DOMAIN m |-> IF c \in cs \/ m[c] \in cs THEN NoMate ELSE m[c]]

(* The check for preparation without the mate's side.                      *)
PreparedHere(c) == c \in prepared_

Prepared(c) == c \in prepared_ \/ mate[c] \in prepared_

Check == /\ end' = "check"
         /\ UNCHANGED <<stages_, deleted, mate, prepared_, allocator_, copy>>

PartAll(cs, m) ==
  IF \E c \in cs : mate[c] # NoMate /\ Prepared(c)
  THEN Check
  ELSE /\ mate' = m
       /\ UNCHANGED <<stages_, deleted, prepared_, allocator_, copy, end>>

DisconnectOutput(o) == Live(o) /\ PartAll({o}, Parted(mate, {o}))

DisconnectInput(i) == Live(i) /\ PartAll({i}, Parted(mate, {i}))

Connect(o, i) ==
  /\ Live(o) /\ Live(i)
  /\ PartAll({o, i}, [Parted(mate, {o, i}) EXCEPT ![o] = i, ![i] = o])

ConnectParts(p, q) == /\ OutputCount(p) = 1 /\ InputCount(q) = 1
                      /\ Connect(<<"out", p, 0>>, <<"in", q, 0>>)

ConnectOutputToPart(o, q) == InputCount(q) = 1 /\ Connect(o, <<"in", q, 0>>)

ConnectPartToInput(p, i) == OutputCount(p) = 1 /\ Connect(<<"out", p, 0>>, i)

(***************************************************************************)
(* Removal.  Deleting the stage leaves nothing that refers to it.          *)
(***************************************************************************)
Removed(p) == /\ mate' = Parted(mate, ConnectorsOf(p))
              /\ stages_' = stages_ \ {p}
              /\ deleted' = deleted \cup {p}

MayRemove(p) == \A c \in ConnectorsOf(p) : mate[c] # NoMate => ~Prepared(c)

RemovePart(p) ==
  /\ p \in stages_
  /\ IF MayRemove(p)
     THEN Removed(p) /\ UNCHANGED <<prepared_, allocator_, copy, end>>
     ELSE Check

(***************************************************************************)
(* The work list of RemovePartsConnectedToPart is filled with the part's   *)
(* own references, InputRef::part() and OutputRef::part() being the part   *)
(* that has the connector and not the one it is joined to: once the part   *)
(* is removed the loop goes on with a stage that is deleted.               *)
(***************************************************************************)
ToRemove(p) == {PartOf(c) : c \in ConnectorsOf(p)}

RemovePartsConnectedToPart(p) ==
  /\ p \in stages_
  /\ IF MayRemove(p)
     THEN /\ Removed(p)
          /\ end' = IF ToRemove(p) \subseteq stages_' THEN "no" ELSE "wild"
          /\ UNCHANGED <<prepared_, allocator_, copy>>
     ELSE Check

RemovePartsConnectedToOutput(o) ==
  Live(o) /\ mate[o] # NoMate /\ RemovePartsConnectedToPart(PartOf(mate[o]))

RemovePartsConnectedToInput(i) ==
  Live(i) /\ mate[i] # NoMate /\ RemovePartsConnectedToPart(PartOf(mate[i]))

Reset == /\ stages_' = {}
         /\ deleted' = deleted \cup stages_
         /\ prepared_' = {}
         /\ mate' = [c \in DOMAIN mate |-> NoMate]
         /\ UNCHANGED <<allocator_, copy, end>>

(***************************************************************************)
(* Preparation.  The engine goes upstream from an input, as far as the     *)
(* stages it meets ask it to, that is through transforms to a source.      *)
(***************************************************************************)
UpstreamOf(is) ==
  is \cup UNION {InputsOf(PartOf(mate[i])) : i \in {j \in is : mate[j] # NoMate}}

Visited(is) ==
  LET V[n \in 0 .. Cardinality(Inputs)] ==
        IF n = 0 THEN is ELSE UpstreamOf(V[n - 1])
  IN  V[Cardinality(Inputs)]

(* What Stage::PrepareInput returns: only a sink may ask for its own.      *)
PrepareInputOf(p) == IF Model[p] = "pickySink" THEN p ELSE NoAllocator

OrDefault(a) == IF a = NoAllocator THEN DefaultAllocator ELSE a

(* Stage::PrepareOutput of the stage that has the output: a source that    *)
(* takes an allocator, and a transform, allocate from it; for the others   *)
(* the output copies.                                                      *)
Takes(o) == Model[PartOf(o)] \in {"pickySource", "transform"}

PreparedOutputs(is) ==
  LET wanted(o) == PrepareInputOf(PartOf(mate[o]))
      os == {mate[i] : i \in is}
  IN  /\ allocator_' = [o \in Outputs |-> IF o \in os /\ Takes(o)
                                          THEN OrDefault(wanted(o))
                                          ELSE allocator_[o]]
      /\ copy' = [o \in Outputs |-> IF o \in os /\ ~Takes(o)
                                    THEN wanted(o) ELSE copy[o]]

(* An input that is met unconnected or prepared fails a DCHECK.            *)
PrepareInputs(is) ==
  IF \E i \in Visited(is) : mate[i] = NoMate \/ i \in prepared_
  THEN Check
  ELSE /\ prepared_' = prepared_ \cup Visited(is)
       /\ PreparedOutputs(Visited(is))
       /\ UNCHANGED <<stages_, deleted, mate, end>>

PrepareInput(i) == Live(i) /\ PrepareInputs({i})

Prepare == Sinks # {} /\ PrepareInputs(UNION {InputsOf(p) : p \in Sinks})

Next == /\ end = "no"
        /\ \/ \E p \in Parts : \/ Add(p)
                               \/ RemovePart(p)
                               \/ RemovePartsConnectedToPart(p)
           \/ \E p, q \in Parts : ConnectParts(p, q)
           \/ \E o \in Outputs : \/ DisconnectOutput(o)
                                 \/ RemovePartsConnectedToOutput(o)
                                 \/ \E i \in Inputs : Connect(o, i)
                                 \/ \E q \in Parts : ConnectOutputToPart(o, q)
           \/ \E i \in Inputs : \/ DisconnectInput(i)
                                \/ RemovePartsConnectedToInput(i)
                                \/ PrepareInput(i)
                                \/ \E p \in Parts : ConnectPartToInput(p, i)
           \/ Prepare
           \/ Reset

Spec == Init /\ [][Next]_vars

-----------------------------------------------------------------------------
(* Joined connectors name each other, one an output and one an input, and  *)
(* both belong to stages of the graph: whatever order parts are joined,    *)
(* rejoined and removed in, no connector refers to a stage that Graph      *)
(* deleted (graph.cc RemovePart, Connect, Reset).                          *)
MatesAgree ==
  \A c \in Inputs \cup Outputs : mate[c] # NoMate =>
    /\ mate[mate[c]] = c
    /\ c \in Inputs <=> mate[c] \in Outputs
    /\ Live(c) /\ Live(mate[c])

(* "This allows the engine to operate freely over prepared portions of the *)
(* graph": from a prepared input everything upstream, to a source, is      *)
(* joined, prepared and in the graph, and what reaches a part that asked   *)
(* for its own allocator was allocated from it or copied into it.          *)
PreparedPortions ==
  \A i \in prepared_ :
    /\ mate[i] # NoMate
    /\ InputsOf(PartOf(mate[i])) \subseteq prepared_
    /\ PrepareInputOf(PartOf(i)) # NoAllocator =>
         PartOf(i) \in {allocator_[mate[i]], copy[mate[i]]}

=============================================================================
