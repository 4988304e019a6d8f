----------------------------- MODULE ListShapes -----------------------------
(***************************************************************************)
(* What an edit of a list does, position by position: the vocabulary in    *)
(* which the proofs about FifoAllocator speak of its region list.          *)
(***************************************************************************)
EXTENDS Naturals

(* List g made from the m regions of f, position by position: region i     *)
(* replaced by x, by x and y, left out, or replaced together with the next *)
(* one by x.                                                               *)
Replaced(g, f, m, i, x) ==
    \A j \in 1 .. m : g[j] = IF j = i THEN x ELSE f[j]

Doubled(g, f, m, i, x, y) ==
    \A j \in 1 .. m + 1 : g[j] = IF j < i THEN f[j] ELSE IF j = i THEN x
                                 ELSE IF j = i + 1 THEN y ELSE f[j - 1]

Prepended(g, f, m, x) ==
    \A j \in 1 .. m + 1 : g[j] = IF j = 1 THEN x ELSE f[j - 1]

Dropped(g, f, m, i) ==
    \A j \in 1 .. m - 1 : g[j] = IF j < i THEN f[j] ELSE f[j + 1]

Merged(g, f, m, i, x) ==
    \A j \in 1 .. m - 1 : g[j] = IF j < i THEN f[j]
                                 ELSE IF j = i THEN x ELSE f[j + 1]

(* x put in before region i. *)
InsertedAt(g, f, m, i, x) ==
    \A j \in 1 .. m + 1 : g[j] = IF j < i THEN f[j]
                                 ELSE IF j = i THEN x ELSE f[j - 1]
=============================================================================
