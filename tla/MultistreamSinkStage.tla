------------------------ MODULE MultistreamSinkStage ------------------------
(***************************************************************************)
(* ActiveMultistreamSinkStage: the stage of a sink that allocates and      *)
(* releases inputs while it runs.  The sink calls AllocateInput,           *)
(* ReleaseInput and UpdateDemand from its own threads; the engine calls    *)
(* Update and FlushInput.  Inputs are numbered from 0; input k is          *)
(* inputs_[k + 1].                                                         *)
(***************************************************************************)
EXTENDS Naturals, FiniteSets, FiniteSetsExt, Sequences, SequencesExt

CONSTANTS MaxInputs,   \* bound on the inputs the sink holds at a time
          MaxPending   \* bound on the entries of pending_inputs_

VARIABLES inputs_, unallocated_inputs_, pending_inputs_,
          updates,     \* whether an update was requested and not yet made
          early        \* inputs at which the sink asked before they were prepared

vars == <<inputs_, unallocated_inputs_, pending_inputs_, updates, early>>

(* A StageInput; "asked" is the demand its upstream output last saw, and   *)
(* "packet" whether packet_from_upstream_ is set.                          *)
NewInput == [allocated |-> TRUE, connected |-> FALSE, prepared |-> FALSE,
             demand |-> "negative", asked |-> "negative", packet |-> FALSE]

Size == Len(inputs_)
Indices == 0 .. Size - 1

(* The constructor allocates and releases one input.                       *)
Init == /\ inputs_ = <<[NewInput EXCEPT !.allocated = FALSE]>>
        /\ unallocated_inputs_ = {0}
        /\ pending_inputs_ = <<>>
        /\ updates = FALSE
        /\ early = {}

AllocateInput ==
  /\ IF unallocated_inputs_ = {}
     THEN /\ Size < MaxInputs
          /\ inputs_' = Append(inputs_, NewInput)
          /\ UNCHANGED unallocated_inputs_
     ELSE LET k == Min(unallocated_inputs_)
          IN  /\ inputs_' = [inputs_ EXCEPT ![k + 1].allocated = TRUE]
              /\ unallocated_inputs_' = unallocated_inputs_ \ {k}
  /\ UNCHANGED <<pending_inputs_, updates, early>>

(* How many inputs are left when the unallocated ones at the end, the      *)
(* first excepted, are popped.                                             *)
Kept(ins) == Max({1} \cup {n \in 1 .. Len(ins) : ins[n].allocated})

ReleaseInput(k) ==
  /\ k \in Indices
  /\ inputs_[k + 1].allocated /\ ~inputs_[k + 1].connected
  /\ LET ins == [inputs_ EXCEPT ![k + 1].allocated = FALSE]
     IN  IF k # 0 /\ k = Size - 1
         THEN /\ inputs_' = SubSeq(ins, 1, Kept(ins))
              /\ unallocated_inputs_' =
                   unallocated_inputs_ \ (Kept(ins) .. Len(ins) - 1)
         ELSE /\ inputs_' = ins
              /\ unallocated_inputs_' = unallocated_inputs_ \cup {k}
  /\ UNCHANGED <<pending_inputs_, updates, early>>

(* The application joins an allocated input to an output: the one it was   *)
(* joined to before, which remembers the demand it saw, or another.        *)
Join(k) ==
  /\ k \in Indices
  /\ inputs_[k + 1].allocated /\ ~inputs_[k + 1].connected
  /\ \E asked \in {inputs_[k + 1].asked, "negative"} :
       inputs_' = [inputs_ EXCEPT ![k + 1] = [@ EXCEPT !.connected = TRUE, !.asked = asked]]
  /\ UNCHANGED <<unallocated_inputs_, pending_inputs_, updates, early>>

Prepare(k) ==
  /\ k \in Indices
  /\ inputs_[k + 1].connected /\ ~inputs_[k + 1].prepared
  /\ inputs_' = [inputs_ EXCEPT ![k + 1].prepared = TRUE]
  /\ early' = early \ {k}
  /\ UNCHANGED <<unallocated_inputs_, pending_inputs_, updates>>

(* Graph::DisconnectInput and DisconnectOutput, which refuse a prepared    *)
(* input; nothing makes a prepared one unprepared.                         *)
Disconnect(k) ==
  /\ k \in Indices
  /\ inputs_[k + 1].connected /\ ~inputs_[k + 1].prepared
  /\ inputs_' = [inputs_ EXCEPT ![k + 1].connected = FALSE]
  /\ UNCHANGED <<unallocated_inputs_, pending_inputs_, updates, early>>

(* The upstream output supplies a packet.                                  *)
Supply(k) ==
  /\ k \in Indices
  /\ inputs_[k + 1].connected
  /\ inputs_[k + 1].asked # "negative" /\ ~inputs_[k + 1].packet
  /\ inputs_' = [inputs_ EXCEPT ![k + 1].packet = TRUE]
  /\ updates' = TRUE
  /\ UNCHANGED <<unallocated_inputs_, pending_inputs_, early>>

UpdateDemand(k, d) ==
  /\ k \in Indices /\ inputs_[k + 1].connected
  /\ Len(pending_inputs_) < MaxPending
  /\ inputs_' = [inputs_ EXCEPT ![k + 1].demand = d]
  /\ pending_inputs_' = Append(pending_inputs_, k)
  /\ updates' = TRUE
  /\ early' = IF inputs_[k + 1].prepared THEN early ELSE early \cup {k}
  /\ UNCHANGED unallocated_inputs_

(* The loop of Update that drops an entry once its packet is supplied.     *)
VisitOnce(st, k, answer) ==
  LET in == st.ins[k + 1]
      d == IF in.packet THEN answer[k] ELSE in.demand
  IN  [ins |-> [st.ins EXCEPT ![k + 1] =
                  [in EXCEPT !.packet = FALSE, !.demand = d, !.asked = d]],
       kept |-> IF in.packet THEN st.kept ELSE Append(st.kept, k)]

(* One visit of Update's loop to an entry of pending_inputs_, as it is     *)
(* left: st is the inputs and the entries that stay.  answer is what the   *)
(* sink says to the packet, if there is one.                               *)
Visit(st, k, answer) ==
  LET in == st.ins[k + 1]
      d == IF in.packet THEN answer[k] ELSE in.demand
  IN  [ins |-> [st.ins EXCEPT ![k + 1] =
                  [in EXCEPT !.packet = FALSE, !.demand = d, !.asked = d]],
       kept |-> IF in.packet /\ d = "negative" THEN st.kept
                ELSE Append(st.kept, k)]

(* kNeutral is like kPositive to this stage.                               *)
Demands == {"negative", "positive"}

(* An update that meets an entry without a joined input fails the DCHECK   *)
(* of the loop, or that of Input::SetDemand.  The model ends there.        *)
Joined(k) == k \in Indices /\ inputs_[k + 1].connected

Update(answer) ==
  /\ updates /\ \A k \in Range(pending_inputs_) : Joined(k)
  /\ updates' = FALSE
  /\ LET st == FoldLeft(LAMBDA s, k : Visit(s, k, answer),
                        [ins |-> inputs_, kept |-> <<>>], pending_inputs_)
     IN  inputs_' = st.ins /\ pending_inputs_' = st.kept
  /\ UNCHANGED <<unallocated_inputs_, early>>

FlushInput(k) ==
  /\ k \in Indices /\ inputs_[k + 1].prepared
  /\ inputs_' = [inputs_ EXCEPT ![k + 1] =
                   [@ EXCEPT !.demand = "negative", !.asked = "negative",
                             !.packet = FALSE]]
  /\ pending_inputs_' = SelectSeq(pending_inputs_, LAMBDA j : j # k)
  /\ UNCHANGED <<unallocated_inputs_, updates, early>>

Next == \/ AllocateInput
        \/ \E k \in 0 .. MaxInputs - 1 :
             \/ ReleaseInput(k)
             \/ Join(k)
             \/ Prepare(k)
             \/ Disconnect(k)
             \/ Supply(k)
             \/ FlushInput(k)
             \/ UpdateDemand(k, "positive")
        \/ \E answer \in [{k \in Indices : inputs_[k + 1].packet} -> Demands] : Update(answer)

Spec == Init /\ [][Next]_vars

-----------------------------------------------------------------------------
(* "Allocate lowest indices first", "We never pop the last input": however *)
(* inputs are allocated and released, the free ones are exactly the ones   *)
(* that will be handed out again, the last one is in use unless it is the  *)
(* only one, and no joined input is popped                                 *)
(* (active_multistream_sink_stage.cc AllocateInput, ReleaseInput).         *)
InputsAreTight ==
  /\ unallocated_inputs_ = {k \in Indices : ~inputs_[k + 1].allocated}
  /\ Size > 1 => inputs_[Size].allocated
  /\ \A k \in Indices : inputs_[k + 1].connected => inputs_[k + 1].allocated

(* A packet that arrives at an input whose sink still wants packets is     *)
(* given to it by the next update: the input is among the pending ones.    *)
(* And the update finds every pending input: it is there and joined,       *)
(* unless the sink asked for packets before the input was prepared.  Such  *)
(* an input may be disconnected and released, and ReleaseInput leaves      *)
(* pending_inputs_ alone (Update, UpdateDemand, FlushInput, ReleaseInput). *)
WantedInputsArePending ==
  /\ \A k \in Range(pending_inputs_) : Joined(k) \/ k \in early
  /\ \A k \in Indices : inputs_[k + 1].demand # "negative" =>
                          k \in Range(pending_inputs_)
=============================================================================
