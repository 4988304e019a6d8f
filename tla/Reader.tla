------------------------------- MODULE Reader -------------------------------
(***************************************************************************)
(* What a Reader promises to the one client that reads from it: a call of   *)
(* ReadAt is answered with the bytes asked for, up to the end of the asset, *)
(* or with an error; once a read has failed, every later one fails.         *)
(* A byte is known by its position in the asset.                            *)
(***************************************************************************)
EXTENDS Integers, Sequences

CONSTANTS Size

VARIABLES call, reply, failed

NoCall == [position |-> 0, count |-> 0]
Reply(result, bytes) == [result |-> result, bytes |-> bytes]

\* The bytes that a call of ReadAt asks for.
Wanted(c) ==
    LET n == IF c.position + c.count > Size THEN Size - c.position ELSE c.count
    IN [i \in 1 .. n |-> c.position + i - 1]

Init == call = NoCall /\ reply = Reply("none", <<>>) /\ failed \in BOOLEAN

ReadAt ==
    /\ call = NoCall /\ call' \in [position : 0 .. Size - 1, count : 1 .. Size]
    /\ reply' = Reply("none", <<>>) /\ UNCHANGED failed

Fail == failed' = TRUE /\ UNCHANGED <<call, reply>>

Deliver ==
    /\ call # NoCall /\ ~failed
    /\ call' = NoCall /\ reply' = Reply("ok", Wanted(call)) /\ UNCHANGED failed

Refuse ==
    /\ call # NoCall
    /\ call' = NoCall /\ reply'.result = "error" /\ failed' = TRUE

Next == ReadAt \/ Fail \/ Deliver \/ Refuse

Spec == Init /\ [][Next]_<<call, reply, failed>>
=============================================================================
