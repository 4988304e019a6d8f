-------------------------------- MODULE Heap --------------------------------
(***************************************************************************)
(* What a caller of FifoAllocator (and of SharedMediaBufferAllocator, and  *)
(* of every PayloadAllocator built on it) relies on: the regions it holds  *)
(* lie inside the buffer and do not overlap, and an allocation is refused  *)
(* only when no gap between the held regions is large enough.              *)
(***************************************************************************)
EXTENDS Integers

CONSTANTS BufferSizes,  \* sizes the buffer may be (re)initialised with
          AllocSizes,   \* sizes that may be asked for
          kNullOffset   \* the offset returned for a refused allocation

VARIABLES size,         \* size of the buffer
          held,         \* regions handed out and not yet released
          result        \* what the last operation returned

vars == <<size, held, result>>

Spans(r, t) == r.offset < t.offset + t.size /\ t.offset < r.offset + r.size

Fits(offset, n) ==
    /\ offset + n <= size
    /\ \A r \in held : ~ Spans(r, [offset |-> offset, size |-> n])

Init == /\ size \in BufferSizes
        /\ held = {}
        /\ result = kNullOffset

Reset == /\ size' \in BufferSizes
         /\ held' = {}
         /\ result' = kNullOffset

Allocate(n) ==
    \/ \E offset \in 0 .. size :
          /\ Fits(offset, n)
          /\ held' = held \cup {[offset |-> offset, size |-> n]}
          /\ result' = offset
          /\ UNCHANGED size
    \/ /\ \A offset \in 0 .. size : ~ Fits(offset, n)
       /\ result' = kNullOffset
       /\ UNCHANGED <<size, held>>

Release(r) == /\ r \in held
              /\ held' = held \ {r}
              /\ result' = kNullOffset
              /\ UNCHANGED size

Next == \/ Reset
        \/ \E n \in AllocSizes : Allocate(n)
        \/ \E r \in held : Release(r)

Spec == Init /\ [][Next]_vars
=============================================================================
