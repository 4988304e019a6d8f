-------------------------- MODULE SparseByteBuffer --------------------------
(***************************************************************************)
(* SparseByteBuffer: the bytes of an asset read so far, as regions, and     *)
(* the holes between them.  Both maps go from a position: regions to the    *)
(* bytes, holes to a size.  An iterator is the position it points to, or    *)
(* End; it stays valid as long as its entry is in the map.                  *)
(***************************************************************************)
EXTENDS Integers, Sequences, FiniteSets, FiniteSetsExt

End == -1

First(m) == IF DOMAIN m = {} THEN End ELSE Min(DOMAIN m)

\* lower_bound(p), or the first entry when there is none.
Following(m, p) ==
    LET after == {q \in DOMAIN m : q >= p}
    IN IF after = {} THEN First(m) ELSE Min(after)

Initialize(size) ==
    [size |-> size, holes |-> [p \in {0} |-> size], regions |-> [p \in {} |-> <<>>]]

-----------------------------------------------------------------------------
Covers(b, r, p) == r \in DOMAIN b.regions /\ r <= p /\ p < r + Len(b.regions[r])

RegionAfter(b, r) ==
    LET after == {q \in DOMAIN b.regions : q > r} IN IF after = {} THEN End ELSE Min(after)

\* The hint and its successor are tried first.  A search for a position before every
\* region ends at the first region, which does not contain it.
FindRegionContaining(b, p, hint) ==
    LET before == {r \in DOMAIN b.regions : r <= p}
    IN CASE Covers(b, hint, p)                  -> hint
         [] /\ hint # End /\ hint <= p /\ ~Covers(b, hint, p)
            /\ Covers(b, RegionAfter(b, hint), p)     -> RegionAfter(b, hint)
         [] OTHER ->
              IF before = {} THEN First(b.regions)
              ELSE IF Covers(b, Max(before), p) THEN Max(before) ELSE End

\* A hole that ends at p is taken to contain it.
FindHoleContaining(b, p) ==
    LET before == {h \in DOMAIN b.holes : h <= p}
    IN IF before = {} THEN First(b.holes)
       ELSE IF Max(before) + b.holes[Max(before)] < p THEN End ELSE Max(before)

HoleFor(b, p, hint) ==
    LET h == IF hint = End THEN First(b.holes) ELSE hint
    IN IF h <= p /\ p < h + b.holes[h] THEN h ELSE FindHoleContaining(b, p)

Split(holes, h, p) ==
    [q \in DOMAIN holes \cup {p} |->
        IF q = p THEN holes[h] - (p - h) ELSE IF q = h THEN p - h ELSE holes[q]]

\* The buffer in which a hole begins at p.
FindOrCreateHole(b, p, hint) ==
    LET h == HoleFor(b, p, hint)
    IN IF h = p THEN b ELSE [b EXCEPT !.holes = Split(@, h, p)]

-----------------------------------------------------------------------------

\* The holes that begin in the n bytes at p are erased; what is left of the last one
\* becomes a hole.
HolesAfter(holes, p, n) ==
    LET filled == {q \in DOMAIN holes : p <= q /\ q < p + n}
        rest == {q \in filled : q + holes[q] > p + n}
    IN [q \in (DOMAIN holes \ filled) \cup {p + n : r \in rest} |->
           IF q = p + n /\ rest # {} THEN Max(rest) + holes[Max(rest)] - q ELSE holes[q]]

Fill(b, hole, bytes) ==
    [b EXCEPT !.regions = [q \in DOMAIN @ \cup {hole} |->
                              IF q \in DOMAIN @ THEN @[q] ELSE bytes],
              !.holes = HolesAfter(@, hole, Len(bytes))]

\* What Fill returns: the hole that follows the new region, around the end.
HoleAfter(b, hole, bytes) == Following(Fill(b, hole, bytes).holes, hole + Len(bytes))
=============================================================================
