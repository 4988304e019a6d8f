--------------------------- MODULE FifoAllocator ---------------------------
(***************************************************************************)
(* mojo/services/media/common/cpp/fifo_allocator.{h,cc}: heap semantics on *)
(* one contiguous buffer.  The doubly linked list of Region structures is  *)
(* the sequence `regions'; front_ and back_ are its ends; active_ is an    *)
(* index into it.  The lookaside list free_ only recycles structures and   *)
(* is left out.                                                            *)
(***************************************************************************)
EXTENDS Integers, SequencesExt

CONSTANTS BufferSizes,  \* sizes Reset is called with
          AllocSizes,   \* sizes AllocateRegion is called with
          kNullOffset   \* AllocateRegion's failure result

ASSUME SizesAssumption == /\ BufferSizes \subseteq Nat
                          /\ AllocSizes \subseteq Nat \ {0}
                          /\ kNullOffset \in Nat
                          /\ \A n \in BufferSizes : n < kNullOffset

VARIABLES size,     \* size_
          regions,  \* front_ .. back_
          active,   \* active_
          held,     \* what the callers hold: the regions returned to them
          result    \* value returned by the last AllocateRegion

vars == <<size, regions, active, held, result>>

Region == [allocated : BOOLEAN, size : Nat, offset : Nat]

Block(n, offset) == [size |-> n, offset |-> offset]

get_free(allocated, n, offset) ==
    [allocated |-> allocated, size |-> n, offset |-> offset]

(* The list of regions; insert_before takes the place of the region before *)
(* which r goes.                                                           *)
remove(rs, i) == RemoveAt(rs, i)

insert_before(rs, r, i) == InsertAt(rs, i, r)

-----------------------------------------------------------------------------
(* FifoAllocator::Reset; the constructor calls nothing else. *)
Fresh(n) == <<get_free(FALSE, n, 0)>>

Init == /\ size \in BufferSizes
        /\ regions = Fresh(size)
        /\ active = 1
        /\ held = {}
        /\ result = kNullOffset

Reset == /\ size' \in BufferSizes
         /\ regions' = Fresh(size')
         /\ active' = 1
         /\ held' = {}
         /\ result' = kNullOffset

-----------------------------------------------------------------------------

(* Mutant: the search demands room to spare. *)
CandidatesStrict(n) ==
    {i \in DOMAIN regions : ~ regions[i].allocated /\ regions[i].size > n}

(* The free regions that can take n bytes. *)
Candidates(n) ==
    {i \in DOMAIN regions : ~ regions[i].allocated /\ regions[i].size >= n}

(* AdvanceActive(n): the walk goes from the region after active_ to the    *)
(* back, then from the front to active_, and stops at the first candidate. *)
NextCandidate(n, i) ==
    /\ i \in Candidates(n)
    /\ IF i > active
       THEN \A j \in Candidates(n) : j > active => i <= j
       ELSE \A j \in Candidates(n) : j < active /\ i <= j

(* AdvanceActive drops the old active region when it is zero-sized. *)
AdvancedRegions ==
    IF regions[active].size = 0 THEN remove(regions, active) ELSE regions

AdvancedActive(i) ==
    IF regions[active].size = 0 /\ i > active THEN i - 1 ELSE i

(* MakeActivePlaceholder, on a list rs whose region a was just allocated. *)
MakeActivePlaceholder(rs, a) ==
    IF a = Len(rs)
    THEN /\ regions' = insert_before(rs, get_free(FALSE, 0, 0), 1)
         /\ active' = 1
    ELSE /\ regions' = insert_before(rs, get_free(FALSE, 0, rs[a].offset + rs[a].size),
                                     a + 1)
         /\ active' = a + 1

(* What is left of free region r when its first n bytes are allocated. *)
Remainder(r, n) == get_free(FALSE, r.size - n, r.offset + n)

(* AllocateRegion once region a of rs, the active one, is large enough. *)
TakeFromActive(rs, a, n) ==
    /\ IF rs[a].size = n
       THEN LET taken == ReplaceAt(rs, a, get_free(TRUE, n, rs[a].offset)) IN
            IF a = Len(rs) /\ ~ taken[1].allocated
            THEN regions' = taken /\ active' = 1
            ELSE MakeActivePlaceholder(taken, a)
       ELSE /\ regions' = insert_before(ReplaceAt(rs, a, Remainder(rs[a], n)),
                                        get_free(TRUE, n, rs[a].offset), a)
            /\ active' = a + 1
    /\ held' = held \cup {Block(n, rs[a].offset)}
    /\ result' = rs[a].offset
    /\ UNCHANGED size

AllocateRegion(n) ==
    \/ /\ regions[active].size >= n
       /\ TakeFromActive(regions, active, n)
    \/ /\ regions[active].size < n
       /\ \E i \in DOMAIN regions :
             /\ NextCandidate(n, i)
             /\ TakeFromActive(AdvancedRegions, AdvancedActive(i), n)
    \/ /\ Candidates(n) = {}
       /\ result' = kNullOffset
       /\ UNCHANGED <<size, regions, active, held>>

-----------------------------------------------------------------------------
(* ReleaseRegion walks from after active_ to the back, then from the front *)
(* to before active_, and takes the first region that starts at offset.    *)
Starting(offset) ==
    {i \in DOMAIN regions \ {active} : regions[i].offset = offset}

FoundFor(offset, i) ==
    /\ i \in Starting(offset)
    /\ IF i > active
       THEN \A j \in Starting(offset) : j > active => i <= j
       ELSE \A j \in Starting(offset) : j < active /\ i <= j

(* Release: region i becomes free, absorbed by the free region before it   *)
(* if there is one, and then by the free region after it if there is one.  *)
FreeBefore(i) == i > 1 /\ ~ regions[i - 1].allocated
(* Mutant: the region after is never looked at. *)
FreeAfterNever(i) == FALSE

FreeAfter(i) == i < Len(regions) /\ ~ regions[i + 1].allocated

Joined(r, t) == get_free(FALSE, r.size + t.size, r.offset)

Freed(i) ==
    ReplaceAt(regions, i, get_free(FALSE, regions[i].size, regions[i].offset))

MergedBack(i) ==
    remove(ReplaceAt(regions, i - 1, Joined(regions[i - 1], regions[i])), i)

MergeForward(rs, i) ==
    remove(ReplaceAt(rs, i + 1, Joined(rs[i], rs[i + 1])), i)

ReleaseRegion(n, offset) ==
    \E i \in DOMAIN regions :
      /\ FoundFor(offset, i)
      /\ \/ /\ ~ FreeBefore(i) /\ ~ FreeAfter(i)
            /\ regions' = Freed(i)
            /\ UNCHANGED active
         \/ /\ FreeBefore(i) /\ ~ FreeAfter(i)
            /\ regions' = MergedBack(i)
            /\ active' = IF active > i THEN active - 1 ELSE active
         \/ /\ ~ FreeBefore(i) /\ FreeAfter(i)
            /\ regions' = MergeForward(Freed(i), i)
            /\ active' = IF active > i THEN active - 1 ELSE active
         \/ /\ FreeBefore(i) /\ FreeAfter(i)
            /\ regions' = MergeForward(MergedBack(i), i - 1)
            /\ active' = IF active > i THEN active - 2
                         ELSE active
      /\ held' = held \ {Block(n, offset)}
      /\ result' = kNullOffset
      /\ UNCHANGED size

Next == \/ Reset
        \/ \E n \in AllocSizes : AllocateRegion(n)
        \/ \E b \in held : ReleaseRegion(b.size, b.offset)

Spec == Init /\ [][Next]_vars

-----------------------------------------------------------------------------
TypeOK == /\ size \in BufferSizes
          /\ regions \in Seq(Region)
          /\ active \in DOMAIN regions
          /\ held \subseteq [size : AllocSizes, offset : Nat]
          /\ result \in Nat

End(r) == r.offset + r.size

(* The predicates below are about a list rs of m regions. *)

(* The list is in offset order and partitions the buffer of n bytes. *)
Partitions(rs, m, n) ==
    /\ rs[1].offset = 0
    /\ End(rs[m]) = n
    /\ \A i \in 1 .. m - 1 : rs[i + 1].offset = End(rs[i])

(* No two adjacent regions are free. *)
IsCoalesced(rs, m) ==
    \A i \in 1 .. m - 1 : rs[i].allocated \/ rs[i + 1].allocated

(* The active region is free, and only it may be zero-sized. *)
ActiveIsFree(rs, m, a) ==
    /\ ~ rs[a].allocated
    /\ \A i \in 1 .. m : rs[i].size = 0 => i = a

(* "FifoAllocator maintains an ordered list of regions that partition the  *)
(* buffer.  [...] Free regions are always coalesced, so there are no two   *)
(* adjacent free regions.  [...] One free region is distinguished as the   *)
(* 'active' region." (fifo_allocator.h, DESIGN).  Every split, merge and   *)
(* placeholder has to keep all of it.                                      *)
Design == /\ Partitions(regions, Len(regions), size)
          /\ IsCoalesced(regions, Len(regions))
          /\ ActiveIsFree(regions, Len(regions), active)

(* Two consequences of Partitions that would need an induction over the    *)
(* list, carried along instead: regions further on start later, and every  *)
(* byte of the buffer belongs to some region.                              *)
IsOrdered(rs, m) ==
    \A i, j \in 1 .. m : i < j => End(rs[i]) <= rs[j].offset

Covers(rs, m, n) ==
    \A byte \in 0 .. n - 1 : \E i \in 1 .. m :
        rs[i].offset <= byte /\ byte < End(rs[i])

AllocatedBlocks(rs, m) ==
    {Block(rs[i].size, rs[i].offset) : i \in {k \in 1 .. m : rs[k].allocated}}

Tiles(rs, m, n) ==
    /\ \A i \in 1 .. m : rs[i] \in Region
    /\ Partitions(rs, m, n)
    /\ IsOrdered(rs, m)
    /\ Covers(rs, m, n)

WellFormed(rs, m, a, n) ==
    /\ Tiles(rs, m, n)
    /\ a \in 1 .. m
    /\ IsCoalesced(rs, m)
    /\ ActiveIsFree(rs, m, a)

(* What the callers hold is exactly what the list marks as allocated, for  *)
(* every interleaving of AllocateRegion, ReleaseRegion and Reset: nothing  *)
(* leaks, nothing is handed out twice.  (Inductive.)                       *)
NoLeak == /\ WellFormed(regions, Len(regions), active, size)
          /\ held = AllocatedBlocks(regions, Len(regions))

(* ReleaseRegion, given what a caller holds, stops at the very region that *)
(* was allocated for it (its two DCHECKs hold and `released' is true),     *)
(* although a zero-sized placeholder may start at the same offset.         *)
ReleaseFindsRegion ==
    \A b \in held : \E i \in DOMAIN regions :
        /\ FoundFor(b.offset, i)
        /\ regions[i] = get_free(TRUE, b.size, b.offset)

(* FifoAllocator keeps the promise of a heap: callers' regions are inside  *)
(* the buffer and disjoint, and AllocateRegion returns kNullOffset only    *)
(* when no gap between them could take the request.                        *)
H == INSTANCE Heap
HeapSpec == H!Spec
=============================================================================
