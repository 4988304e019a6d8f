------------------------ MODULE FifoAllocatorLemmas ------------------------
(***************************************************************************)
(* Lemmas for the proofs about FifoAllocator, for every buffer size.       *)
(* First what the list operations do to a list of regions: each edit the   *)
(* allocator makes has one of the shapes of ListShapes.  Then what an edit *)
(* of such a shape means: a split, a placeholder or a merge turns a        *)
(* well-formed list into a well-formed list and changes the set of         *)
(* allocated blocks in a known way.                                        *)
(***************************************************************************)
EXTENDS FifoAllocator, ListShapes, SequenceTheorems, TLAPS

\* How long the solver may work on a leaf, in seconds.
USE SMTT(30)

(* Inserting an element shifts the elements behind it by one. *)
LEMMA InsertAtProperties ==
    ASSUME NEW s \in Seq(Region), NEW e \in Region, NEW i \in 1 .. Len(s) + 1
    PROVE  /\ InsertAt(s, i, e) \in Seq(Region)
           /\ Len(InsertAt(s, i, e)) = Len(s) + 1
           /\ \A j \in 1 .. Len(s) + 1 :
                 InsertAt(s, i, e)[j] = IF j < i THEN s[j]
                                        ELSE IF j = i THEN e ELSE s[j - 1]
<1> DEFINE front == SubSeq(s, 1, i - 1)
           back  == SubSeq(s, i, Len(s))
           head  == front \o <<e>>
           whole == head \o back
<1>1. /\ front \in Seq(Region)
      /\ Len(front) = i - 1
      /\ \A j \in 1 .. i - 1 : front[j] = s[j]
  OBVIOUS
<1>2. /\ back \in Seq(Region)
      /\ Len(back) = Len(s) + 1 - i
      /\ \A j \in 1 .. Len(s) + 1 - i : back[j] = s[i + j - 1]
  OBVIOUS
<1> HIDE DEF front, back
<1>3. /\ head \in Seq(Region)
      /\ Len(head) = i
      /\ \A j \in 1 .. i - 1 : head[j] = s[j]
      /\ head[i] = e
  BY <1>1
<1>4. InsertAt(s, i, e) = whole
  BY Zenon DEF InsertAt, front, back
<1> HIDE DEF head
<1>5. /\ whole \in Seq(Region)
      /\ Len(whole) = Len(s) + 1
      /\ \A j \in 1 .. Len(s) + 1 :
            whole[j] = IF j <= i THEN head[j] ELSE back[j - i]
  <2>1. /\ whole \in Seq(Region)
        /\ Len(whole) = Len(head) + Len(back)
        /\ \A j \in 1 .. Len(head) + Len(back) :
              whole[j] = IF j <= Len(head) THEN head[j]
                         ELSE back[j - Len(head)]
    BY <1>2, <1>3, ConcatProperties, Zenon
  <2> HIDE DEF whole
  <2> QED   BY <2>1, <1>2, <1>3
<1> HIDE DEF whole
<1>6. ASSUME NEW j \in 1 .. Len(s) + 1
      PROVE  InsertAt(s, i, e)[j] = IF j < i THEN s[j]
                                    ELSE IF j = i THEN e ELSE s[j - 1]
  <2>1. CASE j < i   BY <2>1, <1>3, <1>4, <1>5
  <2>2. CASE j = i   BY <2>2, <1>3, <1>4, <1>5
  <2>3. CASE j > i
    <3>1. back[j - i] = s[i + (j - i) - 1]   BY <2>3, <1>2
    <3> QED   BY <3>1, <2>3, <1>4, <1>5
  <2> QED   BY <2>1, <2>2, <2>3
<1> QED
  BY <1>4, <1>5, <1>6, Zenon

(* Removing an element closes the gap it leaves. *)
LEMMA RemoveAtProperties ==
    ASSUME NEW s \in Seq(Region), NEW i \in 1 .. Len(s)
    PROVE  /\ RemoveAt(s, i) \in Seq(Region)
           /\ Len(RemoveAt(s, i)) = Len(s) - 1
           /\ \A j \in 1 .. Len(s) - 1 :
                 RemoveAt(s, i)[j] = IF j < i THEN s[j] ELSE s[j + 1]
<1> DEFINE front == SubSeq(s, 1, i - 1)
           back  == SubSeq(s, i + 1, Len(s))
           whole == front \o back
<1>1. /\ front \in Seq(Region)
      /\ Len(front) = i - 1
      /\ \A j \in 1 .. i - 1 : front[j] = s[j]
  OBVIOUS
<1>2. /\ back \in Seq(Region)
      /\ Len(back) = Len(s) - i
      /\ \A j \in 1 .. Len(s) - i : back[j] = s[i + j]
  OBVIOUS
<1>3. RemoveAt(s, i) = whole
  BY Zenon DEF RemoveAt
<1> HIDE DEF front, back
<1>4. /\ whole \in Seq(Region)
      /\ Len(whole) = Len(s) - 1
      /\ \A j \in 1 .. Len(s) - 1 :
            whole[j] = IF j <= i - 1 THEN front[j] ELSE back[j - (i - 1)]
  <2>1. /\ whole \in Seq(Region)
        /\ Len(whole) = Len(front) + Len(back)
        /\ \A j \in 1 .. Len(front) + Len(back) :
              whole[j] = IF j <= Len(front) THEN front[j]
                         ELSE back[j - Len(front)]
    BY <1>1, <1>2, ConcatProperties, Zenon
  <2> HIDE DEF whole
  <2> QED   BY <2>1, <1>1, <1>2
<1> HIDE DEF whole
<1>5. ASSUME NEW j \in 1 .. Len(s) - 1
      PROVE  RemoveAt(s, i)[j] = IF j < i THEN s[j] ELSE s[j + 1]
  <2>1. CASE j < i   BY <2>1, <1>1, <1>3, <1>4
  <2>2. CASE j >= i
    <3>1. back[j - (i - 1)] = s[i + (j - (i - 1))]   BY <2>2, <1>2
    <3> QED   BY <3>1, <2>2, <1>3, <1>4
  <2> QED   BY <2>1, <2>2
<1> QED
  BY <1>3, <1>4, <1>5, Zenon
-----------------------------------------------------------------------------
(* What membership in Region means for the elements of a list. *)
LEMMA RegionFields ==
    ASSUME NEW rs \in Seq(Region), NEW i \in 1 .. Len(rs)
    PROVE  /\ rs[i] \in Region
           /\ rs[i].size \in Nat
           /\ rs[i].offset \in Nat
           /\ rs[i].allocated \in BOOLEAN
<1>1. rs[i] \in Region
  BY ElementOfSeq, Zenon
<1> QED
  BY <1>1, Zenon DEF Region

(* Replacing an element leaves the others and the length alone. *)
LEMMA ReplaceAtProperties ==
    ASSUME NEW s \in Seq(Region), NEW e \in Region, NEW i \in 1 .. Len(s)
    PROVE  /\ ReplaceAt(s, i, e) \in Seq(Region)
           /\ Len(ReplaceAt(s, i, e)) = Len(s)
           /\ \A j \in 1 .. Len(s) :
                 ReplaceAt(s, i, e)[j] = IF j = i THEN e ELSE s[j]
  BY DEF ReplaceAt


-----------------------------------------------------------------------------
(* The list operations of the model make these shapes. *)
LEMMA ReplaceAtShape ==
    ASSUME NEW s \in Seq(Region), NEW x \in Region, NEW i \in 1 .. Len(s)
    PROVE  /\ ReplaceAt(s, i, x) \in Seq(Region)
           /\ Len(ReplaceAt(s, i, x)) = Len(s)
           /\ Replaced(ReplaceAt(s, i, x), s, Len(s), i, x)
  BY ReplaceAtProperties DEF Replaced

(* InsertAt has the shape InsertedAt. *)
LEMMA InsertAtShape ==
    ASSUME NEW s \in Seq(Region), NEW x \in Region, NEW i \in 1 .. Len(s) + 1
    PROVE  /\ InsertAt(s, i, x) \in Seq(Region)
           /\ Len(InsertAt(s, i, x)) = Len(s) + 1
           /\ InsertedAt(InsertAt(s, i, x), s, Len(s), i, x)
<1> DEFINE g == InsertAt(s, i, x)
<1>1. /\ g \in Seq(Region) /\ Len(g) = Len(s) + 1
      /\ \A j \in 1 .. Len(s) + 1 :
            g[j] = IF j < i THEN s[j] ELSE IF j = i THEN x ELSE s[j - 1]
  BY InsertAtProperties, ZenonT(60)
<1> HIDE DEF g
<1>2. InsertedAt(g, s, Len(s), i, x)
  <2>1. SUFFICES ASSUME NEW j \in 1 .. Len(s) + 1
                 PROVE  g[j] = IF j < i THEN s[j] ELSE IF j = i THEN x ELSE s[j - 1]
    BY ZenonT(30) DEF InsertedAt
  <2> QED   BY Zenon, <1>1, ZenonT(30)
<1> QED   BY <1>1, <1>2 DEF g

(* Inserting at the front of the list prepends. *)
LEMMA InsertFirstShape ==
    ASSUME NEW s \in Seq(Region), NEW x \in Region
    PROVE  /\ InsertAt(s, 1, x) \in Seq(Region)
           /\ Len(InsertAt(s, 1, x)) = Len(s) + 1
           /\ Prepended(InsertAt(s, 1, x), s, Len(s), x)
<1> DEFINE g == InsertAt(s, 1, x)
<1>1. Len(s) \in Nat /\ 1 \in 1 .. Len(s) + 1
  BY LenProperties
<1>2. /\ g \in Seq(Region) /\ Len(g) = Len(s) + 1
      /\ InsertedAt(g, s, Len(s), 1, x)
  BY <1>1, InsertAtShape, Zenon
<1> HIDE DEF g
<1>3. Prepended(g, s, Len(s), x)
  BY <1>1, <1>2 DEF Prepended, InsertedAt
<1> QED   BY <1>2, <1>3 DEF g

(* Replacing a region by y and inserting x before it puts x, y in its place. *)
LEMMA InsertBeforeShape ==
    ASSUME NEW s \in Seq(Region), NEW x \in Region, NEW y \in Region,
           NEW i \in 1 .. Len(s)
    PROVE  LET g == InsertAt(ReplaceAt(s, i, y), i, x)
           IN  /\ g \in Seq(Region)
               /\ Len(g) = Len(s) + 1
               /\ Doubled(g, s, Len(s), i, x, y)
<1> DEFINE h == ReplaceAt(s, i, y)
           g == InsertAt(h, i, x)
<1>1. /\ h \in Seq(Region) /\ Len(h) = Len(s)
      /\ Replaced(h, s, Len(s), i, y)
  BY ReplaceAtShape, Zenon
<1>2. Len(s) \in Nat
  BY LenProperties, Zenon
<1> HIDE DEF h
<1>3. h \in Seq(Region) /\ i \in 1 .. Len(h) + 1
  BY <1>1, <1>2
<1>4. /\ g \in Seq(Region) /\ Len(g) = Len(h) + 1
      /\ InsertedAt(g, h, Len(h), i, x)
  BY <1>3, InsertAtShape, Zenon
<1> HIDE DEF g
<1>5. Doubled(g, s, Len(s), i, x, y)
  <2>1. SUFFICES ASSUME NEW j \in 1 .. Len(s) + 1
                 PROVE  g[j] = IF j < i THEN s[j] ELSE IF j = i THEN x
                               ELSE IF j = i + 1 THEN y ELSE s[j - 1]
    BY Zenon DEF Doubled
  <2>2. g[j] = IF j < i THEN h[j] ELSE IF j = i THEN x ELSE h[j - 1]
    BY <1>1, <1>4, Zenon DEF InsertedAt
  <2> QED   BY <1>1, <1>2, <2>2 DEF Replaced
<1> QED   BY <1>1, <1>4, <1>5 DEF g, h

(* Replacing a region by x and inserting y behind it puts x, y in its place. *)
LEMMA InsertBehindShape ==
    ASSUME NEW s \in Seq(Region), NEW x \in Region, NEW y \in Region,
           NEW i \in 1 .. Len(s)
    PROVE  LET g == InsertAt(ReplaceAt(s, i, x), i + 1, y)
           IN  /\ g \in Seq(Region)
               /\ Len(g) = Len(s) + 1
               /\ Doubled(g, s, Len(s), i, x, y)
<1> DEFINE h == ReplaceAt(s, i, x)
           g == InsertAt(h, i + 1, y)
<1>1. /\ h \in Seq(Region) /\ Len(h) = Len(s)
      /\ Replaced(h, s, Len(s), i, x)
  BY ReplaceAtShape, Zenon
<1>2. Len(s) \in Nat
  BY LenProperties, Zenon
<1> HIDE DEF h
<1>3. h \in Seq(Region) /\ i + 1 \in 1 .. Len(h) + 1
  BY <1>1, <1>2
<1>4. /\ g \in Seq(Region) /\ Len(g) = Len(h) + 1
      /\ InsertedAt(g, h, Len(h), i + 1, y)
  BY <1>3, InsertAtShape, Zenon
<1> HIDE DEF g
<1>5. Doubled(g, s, Len(s), i, x, y)
  <2>1. SUFFICES ASSUME NEW j \in 1 .. Len(s) + 1
                 PROVE  g[j] = IF j < i THEN s[j] ELSE IF j = i THEN x
                               ELSE IF j = i + 1 THEN y ELSE s[j - 1]
    BY Zenon DEF Doubled
  <2>2. g[j] = IF j < i + 1 THEN h[j] ELSE IF j = i + 1 THEN y ELSE h[j - 1]
    BY <1>1, <1>4, Zenon DEF InsertedAt
  <2> QED   BY <1>1, <1>2, <2>2 DEF Replaced
<1> QED   BY <1>1, <1>4, <1>5 DEF g, h

(* RemoveAt has the shape Dropped. *)
LEMMA RemoveAtShape ==
    ASSUME NEW s \in Seq(Region), NEW i \in 1 .. Len(s)
    PROVE  /\ RemoveAt(s, i) \in Seq(Region)
           /\ Len(RemoveAt(s, i)) = Len(s) - 1
           /\ Dropped(RemoveAt(s, i), s, Len(s), i)
  BY RemoveAtProperties, Zenon DEF Dropped

(* Replacing a region and removing the next one merges the two. *)
LEMMA RemoveNextShape ==
    ASSUME NEW s \in Seq(Region), NEW x \in Region, NEW i \in 1 .. Len(s) - 1
    PROVE  LET g == RemoveAt(ReplaceAt(s, i, x), i + 1)
           IN  /\ g \in Seq(Region)
               /\ Len(g) = Len(s) - 1
               /\ Merged(g, s, Len(s), i, x)
<1> DEFINE h == ReplaceAt(s, i, x)
           g == RemoveAt(h, i + 1)
<1>1. Len(s) \in Nat /\ i \in 1 .. Len(s)
  BY LenProperties
<1>2. /\ h \in Seq(Region) /\ Len(h) = Len(s)
      /\ Replaced(h, s, Len(s), i, x)
  BY <1>1, ReplaceAtShape, Zenon
<1> HIDE DEF h
<1>3. h \in Seq(Region) /\ i + 1 \in 1 .. Len(h)
  BY <1>1, <1>2
<1>4. /\ g \in Seq(Region) /\ Len(g) = Len(h) - 1
      /\ Dropped(g, h, Len(h), i + 1)
  BY <1>3, RemoveAtShape, Zenon
<1> HIDE DEF g
<1>5. Merged(g, s, Len(s), i, x)
  <2>1. SUFFICES ASSUME NEW j \in 1 .. Len(s) - 1
                 PROVE  g[j] = IF j < i THEN s[j]
                               ELSE IF j = i THEN x ELSE s[j + 1]
    BY Zenon DEF Merged
  <2>2. g[j] = IF j < i + 1 THEN h[j] ELSE h[j + 1]
    BY <1>2, <1>4, Zenon DEF Dropped
  <2> QED   BY <1>1, <1>2, <2>2 DEF Replaced
<1> QED   BY <1>2, <1>4, <1>5 DEF g, h

(* Replacing the next region and removing this one merges the two. *)
LEMMA RemoveThisShape ==
    ASSUME NEW s \in Seq(Region), NEW x \in Region, NEW i \in 1 .. Len(s) - 1
    PROVE  LET g == RemoveAt(ReplaceAt(s, i + 1, x), i)
           IN  /\ g \in Seq(Region)
               /\ Len(g) = Len(s) - 1
               /\ Merged(g, s, Len(s), i, x)
<1> DEFINE h == ReplaceAt(s, i + 1, x)
           g == RemoveAt(h, i)
<1>1. Len(s) \in Nat /\ i + 1 \in 1 .. Len(s)
  BY LenProperties
<1>2. /\ h \in Seq(Region) /\ Len(h) = Len(s)
      /\ Replaced(h, s, Len(s), i + 1, x)
  BY <1>1, ReplaceAtShape, Zenon
<1> HIDE DEF h
<1>3. h \in Seq(Region) /\ i \in 1 .. Len(h)
  BY <1>1, <1>2
<1>4. /\ g \in Seq(Region) /\ Len(g) = Len(h) - 1
      /\ Dropped(g, h, Len(h), i)
  BY <1>3, RemoveAtShape, Zenon
<1> HIDE DEF g
<1>5. Merged(g, s, Len(s), i, x)
  <2>1. SUFFICES ASSUME NEW j \in 1 .. Len(s) - 1
                 PROVE  g[j] = IF j < i THEN s[j]
                               ELSE IF j = i THEN x ELSE s[j + 1]
    BY Zenon DEF Merged
  <2>2. g[j] = IF j < i THEN h[j] ELSE h[j + 1]
    BY <1>2, <1>4, Zenon DEF Dropped
  <2> QED   BY <1>1, <1>2, <2>2 DEF Replaced
<1> QED   BY <1>2, <1>4, <1>5 DEF g, h

----------------------------------------------------------------------------
(* Three elementary surgeries keep a list tiling the buffer.  They do not *)
(* depend on which regions are allocated.                                  *)
SameSpan(r, t) == r.offset = t.offset /\ r.size = t.size

(* The fields of a list of regions. *)
LEMMA TilesFields ==
    ASSUME NEW f, NEW m \in Nat, NEW n, Tiles(f, m, n)
    PROVE  \A i \in 1 .. m : /\ f[i] \in Region
                            /\ f[i].size \in Nat
                            /\ f[i].offset \in Nat
                            /\ f[i].allocated \in BOOLEAN
  BY Zenon DEF Tiles, Region

(* Changing only which regions are allocated. *)
LEMMA Recolour ==
    ASSUME NEW f, NEW g, NEW m \in Nat \ {0}, NEW n \in Nat, Tiles(f, m, n),
           \A i \in 1 .. m : g[i] \in Region /\ SameSpan(g[i], f[i])
    PROVE  Tiles(g, m, n)
<1>1. Partitions(g, m, n)
  BY DEF Tiles, Partitions, SameSpan, End
<1>2. IsOrdered(g, m)
  BY Zenon DEF Tiles, IsOrdered, SameSpan, End
<1>3. Covers(g, m, n)
  BY Zenon DEF Tiles, Covers, SameSpan, End
<1> QED
  BY <1>1, <1>2, <1>3, Zenon DEF Tiles

(* Cutting region a after its first k bytes; either piece may be empty. *)
LEMMA Cut ==
    ASSUME NEW f, NEW g, NEW m \in Nat \ {0}, NEW n \in Nat, Tiles(f, m, n),
           NEW a \in 1 .. m, NEW k \in 0 .. f[a].size,
           \A j \in 1 .. m + 1 : g[j] \in Region,
           \A j \in 1 .. a - 1 : SameSpan(g[j], f[j]),
           g[a].offset = f[a].offset, g[a].size = k,
           g[a + 1].offset = f[a].offset + k, g[a + 1].size = f[a].size - k,
           \A j \in a + 2 .. m + 1 : SameSpan(g[j], f[j - 1])
    PROVE  Tiles(g, m + 1, n)
<1>1. \A i \in 1 .. m : f[i].size \in Nat /\ f[i].offset \in Nat
  BY TilesFields, Zenon
<1>2. Partitions(g, m + 1, n)
  <2>1. g[1].offset = 0
    BY DEF Tiles, Partitions, SameSpan
  <2>2. End(g[m + 1]) = n
    <3>1. CASE a = m
      BY <1>1, <3>1 DEF Tiles, Partitions, End
    <3>2. CASE a < m
      <4>1. SameSpan(g[m + 1], f[(m + 1) - 1])   BY <3>2
      <4> QED   BY <1>1, <4>1 DEF Tiles, Partitions, SameSpan, End
    <3> QED   BY <3>1, <3>2
  <2>3. ASSUME NEW i \in 1 .. m
        PROVE  g[i + 1].offset = End(g[i])
    <3>1. CASE i + 1 < a
      BY <1>1, <3>1 DEF Tiles, Partitions, End, SameSpan
    <3>2. CASE i + 1 = a
      BY <1>1, <3>2 DEF Tiles, Partitions, End, SameSpan
    <3>3. CASE i = a
      BY <1>1, <3>3, Zenon DEF End
    <3>4. CASE i = a + 1
      <4>1. f[a + 1].offset = End(f[a])
        BY <1>1, <3>4 DEF Tiles, Partitions
      <4>2. SameSpan(g[a + 2], f[(a + 2) - 1])
        BY <3>4
      <4> QED   BY <1>1, <3>4, <4>1, <4>2 DEF End, SameSpan
    <3>5. CASE i > a + 1
      <4>1. f[(i - 1) + 1].offset = End(f[i - 1])
        BY <1>1, <3>5 DEF Tiles, Partitions
      <4>2. SameSpan(g[i], f[i - 1]) /\ SameSpan(g[i + 1], f[(i + 1) - 1])
        BY <3>5
      <4> QED   BY <1>1, <3>5, <4>1, <4>2 DEF End, SameSpan
    <3> QED   BY <3>1, <3>2, <3>3, <3>4, <3>5
  <2> QED   BY <2>1, <2>2, <2>3 DEF Partitions
<1>3. \A j \in a + 2 .. m + 1 : j - 1 \in a + 1 .. m /\ SameSpan(g[j], f[j - 1])
  OBVIOUS
<1>4. IsOrdered(g, m + 1)
  <2>1. SUFFICES ASSUME NEW i \in 1 .. m + 1, NEW j \in 1 .. m + 1, i < j
                 PROVE  End(g[i]) <= g[j].offset
    BY Zenon DEF IsOrdered
  <2>2. \A p, q \in 1 .. m : p < q => End(f[p]) <= f[q].offset
    BY Zenon DEF Tiles, IsOrdered
  <2>3. CASE j <= a
    <3>1. SameSpan(g[i], f[i]) /\ g[j].offset = f[j].offset
      BY <2>1, <2>3 DEF SameSpan
    <3> QED   BY <2>1, <2>2, <2>3, <3>1 DEF End, SameSpan
  <2>4. CASE j = a + 1
    BY <1>1, <2>1, <2>2, <2>4 DEF End, SameSpan
  <2>5. CASE j > a + 1 /\ i <= a + 1
    <3>1. j - 1 \in a + 1 .. m /\ SameSpan(g[j], f[j - 1])
      BY <1>3, <2>5
    <3>2. End(f[a]) <= f[j - 1].offset
      BY <2>2, <3>1
    <3> QED   BY <1>1, <2>2, <2>5, <3>1, <3>2 DEF End, SameSpan
  <2>6. CASE i > a + 1
    <3>1. /\ j - 1 \in a + 1 .. m /\ SameSpan(g[j], f[j - 1])
          /\ i - 1 \in a + 1 .. m /\ SameSpan(g[i], f[i - 1])
      BY <1>3, <2>1, <2>6
    <3> QED   BY <1>1, <2>1, <2>2, <3>1 DEF End, SameSpan
  <2> QED   BY <2>1, <2>3, <2>4, <2>5, <2>6
<1>5. Covers(g, m + 1, n)
  <2>1. SUFFICES ASSUME NEW byte \in 0 .. n - 1
                 PROVE  \E i \in 1 .. m + 1 :
                            g[i].offset <= byte /\ byte < End(g[i])
    BY Zenon DEF Covers
  <2>2. PICK i \in 1 .. m : f[i].offset <= byte /\ byte < End(f[i])
    BY Zenon DEF Tiles, Covers
  <2>3. CASE i < a
    BY <1>1, <2>2, <2>3 DEF End, SameSpan
  <2>4. CASE i = a /\ byte < f[a].offset + k
    BY <1>1, <2>2, <2>4 DEF End
  <2>5. CASE i = a /\ byte >= f[a].offset + k
    BY <1>1, <2>2, <2>5 DEF End
  <2>6. CASE i > a
    <3>1. i + 1 \in 1 .. m + 1 /\ SameSpan(g[i + 1], f[(i + 1) - 1])
      BY <2>6
    <3>2. g[i + 1].offset <= byte /\ byte < End(g[i + 1])
      BY <2>2, <3>1 DEF End, SameSpan
    <3> QED   BY <3>1, <3>2
  <2> QED   BY <1>1, <2>3, <2>4, <2>5, <2>6
<1> QED
  BY <1>2, <1>4, <1>5, Zenon DEF Tiles

(* Joining region a and the one after it. *)
LEMMA Join ==
    ASSUME NEW f, NEW g, NEW m \in Nat \ {0}, NEW n \in Nat, Tiles(f, m, n),
           NEW a \in 1 .. m - 1,
           \A j \in 1 .. m - 1 : g[j] \in Region,
           \A j \in 1 .. a - 1 : SameSpan(g[j], f[j]),
           g[a].offset = f[a].offset, g[a].size = f[a].size + f[a + 1].size,
           \A j \in a + 1 .. m - 1 : SameSpan(g[j], f[j + 1])
    PROVE  Tiles(g, m - 1, n)
<1>1. \A i \in 1 .. m : f[i].size \in Nat /\ f[i].offset \in Nat
  BY TilesFields, Zenon
<1>2. f[a + 1].offset = End(f[a])
  BY Zenon DEF Tiles, Partitions
<1>3. Partitions(g, m - 1, n)
  <2>1. g[1].offset = 0
    BY DEF Tiles, Partitions, SameSpan
  <2>2. End(g[m - 1]) = n
    BY <1>1 DEF Tiles, Partitions, SameSpan, End
  <2>3. ASSUME NEW i \in 1 .. m - 2
        PROVE  g[i + 1].offset = End(g[i])
    <3>1. CASE i + 1 <= a
      BY <1>1, <3>1 DEF Tiles, Partitions, End, SameSpan
    <3>2. CASE i >= a
      <4>1. f[(i + 1) + 1].offset = End(f[i + 1])
        BY <1>1, <3>2 DEF Tiles, Partitions
      <4> QED   BY <1>1, <1>2, <3>2, <4>1 DEF End, SameSpan
    <3> QED   BY <3>1, <3>2
  <2> QED   BY <2>1, <2>2, <2>3 DEF Partitions
<1>4. IsOrdered(g, m - 1)
  BY <1>1 DEF Tiles, IsOrdered, End, SameSpan
<1>5. Covers(g, m - 1, n)
  <2>1. SUFFICES ASSUME NEW byte \in 0 .. n - 1
                 PROVE  \E i \in 1 .. m - 1 :
                            g[i].offset <= byte /\ byte < End(g[i])
    BY Zenon DEF Covers
  <2>2. PICK i \in 1 .. m : f[i].offset <= byte /\ byte < End(f[i])
    BY Zenon DEF Tiles, Covers
  <2>3. CASE i < a
    BY <1>1, <2>2, <2>3 DEF End, SameSpan
  <2>4. CASE i = a \/ i = a + 1
    BY <1>1, <1>2, <2>2, <2>4 DEF End
  <2>5. CASE i > a + 1
    <3>1. i - 1 \in a + 1 .. m - 1
      BY <2>5
    <3>2. SameSpan(g[i - 1], f[(i - 1) + 1])
      BY <3>1, Zenon
    <3> QED   BY <1>1, <2>2, <3>1, <3>2 DEF End, SameSpan
  <2> QED   BY <2>3, <2>4, <2>5
<1> QED
  BY <1>3, <1>4, <1>5, Zenon DEF Tiles

-----------------------------------------------------------------------------
(* Two allocated regions never make the same block. *)
LEMMA BlocksDistinct ==
    ASSUME NEW f, NEW m \in Nat, NEW n, NEW a, WellFormed(f, m, a, n),
           NEW x \in 1 .. m, f[x].allocated
    PROVE  \A i \in 1 .. m : f[i].allocated /\ i # x =>
              Block(f[i].size, f[i].offset) # Block(f[x].size, f[x].offset)
<1>1. \A i \in 1 .. m : f[i].size \in Nat /\ f[i].offset \in Nat
  BY TilesFields, Zenon DEF WellFormed
<1>2. \A i \in 1 .. m : f[i].allocated => f[i].size > 0
  BY <1>1 DEF WellFormed, ActiveIsFree
<1>3. \A i \in 1 .. m : f[i].allocated /\ i # x => f[i].offset # f[x].offset
  BY <1>1, <1>2 DEF WellFormed, Tiles, IsOrdered, End
<1> QED
  BY <1>3, Zenon DEF Block

-----------------------------------------------------------------------------
(* What a surgery puts in: a taken or a free region of n bytes. *)
IsTaken(r, n, offset) ==
    r \in Region /\ r.allocated = TRUE /\ r.size = n /\ r.offset = offset

IsFree(r, n, offset) ==
    r \in Region /\ r.allocated = FALSE /\ r.size = n /\ r.offset = offset

(* A surgery keeps the set T of allocated blocks, adds block b to it, or   *)
(* removes b from it.                                                      *)
Keeps(S, T) == S = T
Gains(S, T, b) == S = T \cup {b}
Loses(S, T, b) == S = T \ {b}

(* AllocateRegion, room left over: the request is cut off the front of the *)
(* active region.                                                          *)
LEMMA SplitShape ==
    ASSUME NEW f, NEW g, NEW m \in Nat \ {0}, NEW a \in 1 .. m, NEW n \in Nat,
           WellFormed(f, m, a, n),
           NEW k \in Nat \ {0}, k < f[a].size,
           NEW cut, IsTaken(cut, k, f[a].offset),
           NEW rest, IsFree(rest, f[a].size - k, f[a].offset + k),
           Doubled(g, f, m, a, cut, rest)
    PROVE  /\ WellFormed(g, m + 1, a + 1, n)
           /\ Gains(AllocatedBlocks(g, m + 1),
                    AllocatedBlocks(f, m),
                    Block(k, f[a].offset))
<1> USE DEF IsTaken, IsFree, Doubled
<1>1. /\ Tiles(f, m, n)
      /\ f[a].allocated = FALSE
      /\ \A i \in 1 .. m : /\ f[i] \in Region
                           /\ f[i].size \in Nat
                           /\ f[i].offset \in Nat
                           /\ f[i].allocated \in BOOLEAN
  BY TilesFields, Zenon DEF WellFormed, ActiveIsFree
<1>2. g[a] = cut /\ g[a + 1] = rest
  OBVIOUS
<1>4. \A j \in 1 .. m + 1 : g[j] \in Region
  BY <1>1
<1>5. Tiles(g, m + 1, n)
  <2>1. k \in 0 .. f[a].size   BY <1>1
  <2>2. \A j \in 1 .. a - 1 : SameSpan(g[j], f[j])
    BY DEF SameSpan
  <2>3. \A j \in a + 2 .. m + 1 : SameSpan(g[j], f[j - 1])
    BY DEF SameSpan
  <2> QED   BY Zenon, <1>1, <1>2, <1>4, <2>1, <2>2, <2>3, Cut
<1>6. IsCoalesced(g, m + 1)
  BY <1>1 DEF WellFormed, IsCoalesced
<1>7. ActiveIsFree(g, m + 1, a + 1)
  BY <1>1 DEF WellFormed, ActiveIsFree
<1>8. AllocatedBlocks(g, m + 1)
        = AllocatedBlocks(f, m) \cup {Block(cut.size, cut.offset)}
  <2>1. ASSUME NEW i \in 1 .. m, f[i].allocated
        PROVE  \E j \in 1 .. m + 1 : g[j] = f[i]
    <3>1. CASE i < a   BY <3>1
    <3>2. CASE i > a
      <4>1. i + 1 \in 1 .. m + 1 /\ g[i + 1] = f[i]   BY <3>2
      <4> QED   BY <4>1
    <3> QED   BY <1>1, <2>1, <3>1, <3>2
  <2>2. ASSUME NEW j \in 1 .. m + 1, g[j].allocated
        PROVE  g[j] = cut \/ \E i \in 1 .. m : g[j] = f[i]
    <3>1. CASE j < a   BY <3>1
    <3>2. CASE j > a + 1
      <4>1. j - 1 \in 1 .. m /\ g[j] = f[j - 1]   BY <3>2
      <4> QED   BY <4>1
    <3> QED   BY <1>2, <2>2, <3>1, <3>2
  <2> QED   BY <1>2, <2>1, <2>2 DEF AllocatedBlocks
<1> QED
  BY <1>1, <1>5, <1>6, <1>7, <1>8 DEF WellFormed, Gains

(* AllocateRegion, exact fit at the back while the front is free: the      *)
(* region is taken and the front becomes active.                           *)
LEMMA WrapShape ==
    ASSUME NEW f, NEW g, NEW m \in Nat \ {0}, NEW a \in 1 .. m, NEW n \in Nat,
           WellFormed(f, m, a, n), a = m, f[a].size > 0,
           NEW cut, IsTaken(cut, f[a].size, f[a].offset),
           Replaced(g, f, m, a, cut), g[1].allocated = FALSE
    PROVE  /\ WellFormed(g, m, 1, n)
           /\ Gains(AllocatedBlocks(g, m),
                    AllocatedBlocks(f, m),
                    Block(f[a].size, f[a].offset))
<1> USE DEF IsTaken, Replaced
<1>1. /\ Tiles(f, m, n)
      /\ f[a].allocated = FALSE
      /\ \A i \in 1 .. m : /\ f[i] \in Region
                           /\ f[i].size \in Nat
                           /\ f[i].size > 0
                           /\ f[i].allocated \in BOOLEAN
  BY TilesFields DEF WellFormed, ActiveIsFree
<1>2. Tiles(g, m, n)
  BY <1>1, Recolour, Zenon DEF SameSpan
<1>3. IsCoalesced(g, m)
  BY <1>1 DEF WellFormed, IsCoalesced
<1>4. ActiveIsFree(g, m, 1)
  BY <1>1 DEF ActiveIsFree
<1>5. AllocatedBlocks(g, m)
        = AllocatedBlocks(f, m) \cup {Block(cut.size, cut.offset)}
  <2>1. \A i \in 1 .. m : f[i].allocated => \E j \in 1 .. m : g[j] = f[i]
    BY <1>1, Zenon
  <2>2. \A j \in 1 .. m :
           g[j].allocated => g[j] = cut \/ \E i \in 1 .. m : g[j] = f[i]
    BY Zenon
  <2>3. \E j \in 1 .. m : g[j] = cut
    BY Zenon
  <2>4. cut.allocated /\ m \in Nat /\ m + 1 \in Nat
    OBVIOUS
  <2> QED   BY <2>1, <2>2, <2>3, <2>4 DEF AllocatedBlocks
<1> QED
  BY <1>2, <1>3, <1>4, <1>5 DEF WellFormed, Gains

(* AllocateRegion, exact fit anywhere else: the region is taken and        *)
(* MakeActivePlaceholder inserts an empty one, at the front ...            *)
LEMMA PlaceholderFrontShape ==
    ASSUME NEW f, NEW g, NEW m \in Nat \ {0}, NEW a \in 1 .. m, NEW n \in Nat,
           WellFormed(f, m, a, n), a = m, f[a].size > 0,
           NEW cut, IsTaken(cut, f[a].size, f[a].offset),
           NEW empty, IsFree(empty, 0, 0),
           NEW h, Replaced(h, f, m, a, cut), h[1].allocated = TRUE,
           Prepended(g, h, m, empty)
    PROVE  /\ WellFormed(g, m + 1, 1, n)
           /\ Gains(AllocatedBlocks(g, m + 1),
                    AllocatedBlocks(f, m),
                    Block(f[a].size, f[a].offset))
<1> USE DEF IsTaken, IsFree, Replaced, Prepended
<1>1. /\ Tiles(f, m, n)
      /\ f[a].allocated = FALSE
      /\ \A i \in 1 .. m : /\ f[i] \in Region
                           /\ f[i].size \in Nat
                           /\ f[i].size > 0
                           /\ f[i].allocated \in BOOLEAN
  BY TilesFields DEF WellFormed, ActiveIsFree
<1>2. \A j \in 1 .. m : h[j] \in Region /\ h[j].size \in Nat /\ h[j].size > 0
  BY <1>1, Zenon
<1>3. Tiles(h, m, n)
  BY <1>1, <1>2, Recolour, ZenonT(30) DEF SameSpan
<1>4. g[1] = empty /\ g[2] = h[1]
  OBVIOUS
<1>5. \A j \in 1 .. m + 1 : g[j] \in Region
  BY <1>2
<1>6. Tiles(g, m + 1, n)
  <2>1. 0 \in 0 .. h[1].size /\ h[1].offset = 0 /\ 1 \in 1 .. m
    BY <1>2, <1>3 DEF Tiles, Partitions
  <2>2. \A j \in 1 .. 1 - 1 : SameSpan(g[j], h[j])
    OBVIOUS
  <2>3. \A j \in 1 + 2 .. m + 1 : SameSpan(g[j], h[j - 1])
    BY DEF SameSpan
  <2>4. g[1].offset = h[1].offset /\ g[1].size = 0
        /\ g[1 + 1].offset = h[1].offset + 0 /\ g[1 + 1].size = h[1].size - 0
    BY <1>2, <1>4, <2>1
  <2> QED   BY <1>3, <1>4, <1>5, <2>1, <2>2, <2>3, <2>4, Cut, Zenon
<1>7. IsCoalesced(g, m + 1)
  BY <1>1 DEF WellFormed, IsCoalesced
<1>8. ActiveIsFree(g, m + 1, 1)
  BY <1>2, <1>4 DEF ActiveIsFree
<1>9. AllocatedBlocks(g, m + 1)
        = AllocatedBlocks(f, m) \cup {Block(cut.size, cut.offset)}
  <2>1. ASSUME NEW i \in 1 .. m, f[i].allocated
        PROVE  \E j \in 1 .. m + 1 : g[j] = f[i]
    <3>1. i + 1 \in 1 .. m + 1 /\ g[i + 1] = f[i]
      BY <1>1, <2>1
    <3> QED   BY <3>1
  <2>2. ASSUME NEW j \in 1 .. m + 1, g[j].allocated
        PROVE  g[j] = cut \/ \E i \in 1 .. m : g[j] = f[i]
    <3>1. j - 1 \in 1 .. m /\ (g[j] = cut \/ g[j] = f[j - 1])
      BY <1>4, <2>2
    <3> QED   BY <3>1
  <2>3. \E j \in 1 .. m + 1 : g[j] = cut
    <3>1. m + 1 \in 1 .. m + 1 /\ g[m + 1] = cut
      OBVIOUS
    <3> QED   BY <3>1
  <2>4. cut.allocated /\ m \in Nat /\ m + 1 \in Nat
    OBVIOUS
  <2> QED   BY <2>1, <2>2, <2>3, <2>4 DEF AllocatedBlocks
<1> QED
  BY <1>6, <1>7, <1>8, <1>9 DEF WellFormed, Gains

(* ... or just after the region taken. *)
LEMMA PlaceholderAfterShape ==
    ASSUME NEW f, NEW g, NEW m \in Nat \ {0}, NEW a \in 1 .. m, NEW n \in Nat,
           WellFormed(f, m, a, n), a < m, f[a].size > 0,
           NEW cut, IsTaken(cut, f[a].size, f[a].offset),
           NEW empty, IsFree(empty, 0, f[a].offset + f[a].size),
           Doubled(g, f, m, a, cut, empty)
    PROVE  /\ WellFormed(g, m + 1, a + 1, n)
           /\ Gains(AllocatedBlocks(g, m + 1),
                    AllocatedBlocks(f, m),
                    Block(f[a].size, f[a].offset))
<1> USE DEF IsTaken, IsFree, Doubled
<1>1. /\ Tiles(f, m, n)
      /\ f[a].allocated = FALSE
      /\ \A i \in 1 .. m : /\ f[i] \in Region
                           /\ f[i].size \in Nat
                           /\ f[i].size > 0
                           /\ f[i].offset \in Nat
                           /\ f[i].allocated \in BOOLEAN
  BY TilesFields DEF WellFormed, ActiveIsFree
<1>2. g[a] = cut /\ g[a + 1] = empty
  OBVIOUS
<1>3. \A j \in 1 .. m + 1 : g[j] \in Region
  BY <1>1
<1>4. Tiles(g, m + 1, n)
  <2>1. f[a].size \in 0 .. f[a].size   BY <1>1
  <2>2. \A j \in 1 .. a - 1 : SameSpan(g[j], f[j])
    BY DEF SameSpan
  <2>3. \A j \in a + 2 .. m + 1 : SameSpan(g[j], f[j - 1])
    BY DEF SameSpan
  <2>4. /\ g[a].offset = f[a].offset /\ g[a].size = f[a].size
        /\ g[a + 1].offset = f[a].offset + f[a].size
        /\ g[a + 1].size = f[a].size - f[a].size
    BY <1>1, <1>2
  <2> QED   BY <1>1, <1>3, <2>1, <2>2, <2>3, <2>4, Cut, Zenon
<1>5. IsCoalesced(g, m + 1)
  <2>1. f[a + 1].allocated
    BY <1>1 DEF WellFormed, IsCoalesced
  <2> QED   BY <1>1, <2>1 DEF WellFormed, IsCoalesced
<1>6. ActiveIsFree(g, m + 1, a + 1)
  BY <1>1 DEF ActiveIsFree
<1>7. AllocatedBlocks(g, m + 1)
        = AllocatedBlocks(f, m) \cup {Block(cut.size, cut.offset)}
  <2>1. ASSUME NEW i \in 1 .. m, f[i].allocated
        PROVE  \E j \in 1 .. m + 1 : g[j] = f[i]
    <3>1. CASE i < a   BY <3>1
    <3>2. CASE i > a
      <4>1. i + 1 \in 1 .. m + 1 /\ g[i + 1] = f[i]   BY <3>2
      <4> QED   BY <4>1
    <3> QED   BY <1>1, <2>1, <3>1, <3>2
  <2>2. ASSUME NEW j \in 1 .. m + 1, g[j].allocated
        PROVE  g[j] = cut \/ \E i \in 1 .. m : g[j] = f[i]
    <3>1. CASE j < a   BY <3>1
    <3>2. CASE j > a + 1
      <4>1. j - 1 \in 1 .. m /\ g[j] = f[j - 1]   BY <3>2
      <4> QED   BY <4>1
    <3> QED   BY <1>2, <2>2, <3>1, <3>2
  <2>3. cut.allocated /\ a \in 1 .. m + 1
    OBVIOUS
  <2> QED   BY <1>2, <2>1, <2>2, <2>3 DEF AllocatedBlocks
<1> QED
  BY <1>4, <1>5, <1>6, <1>7 DEF WellFormed, Gains

(* AdvanceActive drops the empty active region on its way to region b. *)
LEMMA DropShape ==
    ASSUME NEW f, NEW g, NEW m \in Nat \ {0}, NEW a \in 1 .. m, NEW n \in Nat,
           WellFormed(f, m, a, n), f[a].size = 0,
           NEW b \in 1 .. m, b # a, f[b].allocated = FALSE,
           Dropped(g, f, m, a),
           NEW c, c = IF b > a THEN b - 1 ELSE b
    PROVE  /\ WellFormed(g, m - 1, c, n)
           /\ Keeps(AllocatedBlocks(g, m - 1), AllocatedBlocks(f, m))
<1> USE DEF Dropped
<1>1. /\ Tiles(f, m, n)
      /\ f[a].allocated = FALSE
      /\ \A i \in 1 .. m : /\ f[i] \in Region
                           /\ f[i].size \in Nat
                           /\ i # a => f[i].size > 0
                           /\ f[i].offset \in Nat
                           /\ f[i].allocated \in BOOLEAN
  BY TilesFields DEF WellFormed, ActiveIsFree
<1>2. \A j \in 1 .. m - 1 : g[j] \in Region /\ g[j].size > 0
  BY <1>1
<1>3. Tiles(g, m - 1, n)
  <2>1. CASE a < m
    <3>1. f[a + 1].offset = f[a].offset
      BY <1>1, <2>1 DEF Tiles, Partitions, End
    <3>2. /\ \A j \in 1 .. a - 1 : SameSpan(g[j], f[j])
          /\ \A j \in a + 1 .. m - 1 : SameSpan(g[j], f[j + 1])
      BY <2>1 DEF SameSpan
    <3>3. /\ g[a].offset = f[a].offset
          /\ g[a].size = f[a].size + f[a + 1].size
          /\ a \in 1 .. m - 1
      BY <1>1, <2>1, <3>1
    <3> QED   BY <1>1, <1>2, <3>2, <3>3, Join, Zenon
  <2>2. CASE a = m
    <3> DEFINE d == a - 1
    <3>1. /\ d \in 1 .. m - 1
          /\ g[d].offset = f[d].offset
          /\ g[d].size = f[d].size + f[d + 1].size
      BY <1>1, <2>2
    <3>2. /\ \A j \in 1 .. d - 1 : SameSpan(g[j], f[j])
          /\ \A j \in d + 1 .. m - 1 : SameSpan(g[j], f[j + 1])
      BY <2>2 DEF SameSpan
    <3> HIDE DEF d
    <3> QED   BY <1>1, <1>2, <3>1, <3>2, Join, Zenon
  <2> QED   BY <2>1, <2>2
<1>4. IsCoalesced(g, m - 1)
  <2>1. /\ a > 1 => f[a - 1].allocated
        /\ a < m => f[a + 1].allocated
    BY <1>1 DEF WellFormed, IsCoalesced
  <2> QED   BY <1>1, <2>1 DEF WellFormed, IsCoalesced
<1>5. c \in 1 .. m - 1 /\ ActiveIsFree(g, m - 1, c)
  BY <1>1, <1>2 DEF ActiveIsFree
<1>6. AllocatedBlocks(g, m - 1) = AllocatedBlocks(f, m)
  <2>1. ASSUME NEW i \in 1 .. m, f[i].allocated
        PROVE  \E j \in 1 .. m - 1 : g[j] = f[i]
    <3>1. CASE i < a   BY <3>1
    <3>2. CASE i > a
      <4>1. i - 1 \in 1 .. m - 1 /\ g[i - 1] = f[i]   BY <3>2
      <4> QED   BY <4>1
    <3> QED   BY <1>1, <2>1, <3>1, <3>2
  <2>2. ASSUME NEW j \in 1 .. m - 1, g[j].allocated
        PROVE  \E i \in 1 .. m : g[j] = f[i]
    OBVIOUS
  <2> QED   BY <2>1, <2>2 DEF AllocatedBlocks
<1> QED
  BY <1>3, <1>4, <1>5, <1>6, ZenonT(30) DEF WellFormed, Keeps

(* ReleaseRegion of region x between allocated neighbours. *)
LEMMA FreedShape ==
    ASSUME NEW f, NEW g, NEW m \in Nat \ {0}, NEW a \in 1 .. m, NEW n \in Nat,
           WellFormed(f, m, a, n),
           NEW x \in 1 .. m, f[x].allocated,
           x > 1 => f[x - 1].allocated, x < m => f[x + 1].allocated,
           NEW freed, IsFree(freed, f[x].size, f[x].offset),
           Replaced(g, f, m, x, freed)
    PROVE  /\ WellFormed(g, m, a, n)
           /\ Loses(AllocatedBlocks(g, m),
                    AllocatedBlocks(f, m),
                    Block(f[x].size, f[x].offset))
<1> USE DEF IsFree, Replaced
<1>1. /\ Tiles(f, m, n)
      /\ f[a].allocated = FALSE
      /\ \A i \in 1 .. m : /\ f[i] \in Region
                           /\ f[i].size \in Nat
                           /\ i # a => f[i].size > 0
                           /\ f[i].offset \in Nat
                           /\ f[i].allocated \in BOOLEAN
  BY TilesFields DEF WellFormed, ActiveIsFree
<1>2. Tiles(g, m, n)
  BY <1>1, Recolour, Zenon DEF SameSpan
<1>3. IsCoalesced(g, m)
  BY <1>1 DEF WellFormed, IsCoalesced
<1>4. ActiveIsFree(g, m, a)
  BY <1>1 DEF ActiveIsFree
<1>5. AllocatedBlocks(g, m)
        = AllocatedBlocks(f, m) \ {Block(f[x].size, f[x].offset)}
  <2>1. ASSUME NEW i \in 1 .. m, f[i].allocated, i # x
        PROVE  \E j \in 1 .. m : g[j] = f[i]
    BY <2>1, Zenon
  <2>2. ASSUME NEW j \in 1 .. m, g[j].allocated
        PROVE  \E i \in 1 .. m : i # x /\ g[j] = f[i]
    BY <2>2, Zenon
  <2>3. \A i \in 1 .. m : f[i].allocated /\ i # x =>
           Block(f[i].size, f[i].offset) # Block(f[x].size, f[x].offset)
    BY BlocksDistinct, Zenon
  <2> QED   BY <2>1, <2>2, <2>3 DEF AllocatedBlocks
<1> QED
  BY <1>2, <1>3, <1>4, <1>5, Zenon DEF WellFormed, Loses

(* ReleaseRegion of region x next to one free region, before it or after   *)
(* it: regions y and y + 1 become one.                                     *)
LEMMA MergedShape ==
    ASSUME NEW f, NEW g, NEW m \in Nat \ {0}, NEW a \in 1 .. m, NEW n \in Nat,
           WellFormed(f, m, a, n),
           NEW x \in 1 .. m, f[x].allocated,
           NEW y \in 1 .. m - 1,
           \/ x = y /\ f[y + 1].allocated = FALSE
           \/ x = y + 1 /\ f[y].allocated = FALSE,
           y > 1 => f[y - 1].allocated, y + 1 < m => f[y + 2].allocated,
           NEW joined, IsFree(joined, f[y].size + f[y + 1].size, f[y].offset),
           Merged(g, f, m, y, joined),
           NEW c, c = IF a > y THEN a - 1 ELSE a
    PROVE  /\ WellFormed(g, m - 1, c, n)
           /\ Loses(AllocatedBlocks(g, m - 1),
                    AllocatedBlocks(f, m),
                    Block(f[x].size, f[x].offset))
<1> USE DEF IsFree, Merged
<1>1. /\ Tiles(f, m, n)
      /\ f[a].allocated = FALSE
      /\ \A i \in 1 .. m : /\ f[i] \in Region
                           /\ f[i].size \in Nat
                           /\ i # a => f[i].size > 0
                           /\ f[i].offset \in Nat
                           /\ f[i].allocated \in BOOLEAN
  BY TilesFields DEF WellFormed, ActiveIsFree
<1>2. \A j \in 1 .. m - 1 : g[j] \in Region
  BY <1>1
<1>3. Tiles(g, m - 1, n)
  <2>1. /\ \A j \in 1 .. y - 1 : SameSpan(g[j], f[j])
        /\ \A j \in y + 1 .. m - 1 : SameSpan(g[j], f[j + 1])
    BY DEF SameSpan
  <2>2. g[y].offset = f[y].offset /\ g[y].size = f[y].size + f[y + 1].size
    OBVIOUS
  <2> QED   BY <1>1, <1>2, <2>1, <2>2, Join, Zenon
<1>4. IsCoalesced(g, m - 1)
  <2>1. SUFFICES ASSUME NEW j \in 1 .. (m - 1) - 1
                 PROVE  g[j].allocated \/ g[j + 1].allocated
    BY Zenon DEF IsCoalesced
  <2>2. CASE j < y
    <3>1. g[j] = f[j] /\ (j + 1 < y => g[j + 1] = f[j + 1])
      BY <2>2
    <3>2. f[j].allocated \/ f[j + 1].allocated
      BY DEF WellFormed, IsCoalesced
    <3>3. j + 1 = y => f[j].allocated
      BY <2>2
    <3> QED   BY <2>2, <3>1, <3>2, <3>3
  <2>3. CASE j >= y
    <3>1. g[j + 1] = f[j + 2] /\ (j > y => g[j] = f[j + 1])
      BY <2>3
    <3>2. f[j + 1].allocated \/ f[(j + 1) + 1].allocated
      BY DEF WellFormed, IsCoalesced
    <3> QED   BY <2>3, <3>1, <3>2
  <2> QED   BY <2>2, <2>3
<1>5. c \in 1 .. m - 1 /\ ActiveIsFree(g, m - 1, c)
  <2>1. CASE x = y
    BY <1>1, <2>1 DEF ActiveIsFree
  <2>2. CASE x = y + 1
    BY <1>1, <2>2 DEF ActiveIsFree
  <2> QED   BY <2>1, <2>2
<1>6. AllocatedBlocks(g, m - 1)
        = AllocatedBlocks(f, m) \ {Block(f[x].size, f[x].offset)}
  <2>1. ASSUME NEW i \in 1 .. m, f[i].allocated, i # x
        PROVE  \E j \in 1 .. m - 1 : g[j] = f[i]
    <3>1. CASE i < y   BY <3>1
    <3>2. CASE i > y + 1
      <4>1. i - 1 \in 1 .. m - 1 /\ g[i - 1] = f[i]   BY <3>2
      <4> QED   BY <4>1
    <3> QED   BY <1>1, <2>1, <3>1, <3>2
  <2>2. ASSUME NEW j \in 1 .. m - 1, g[j].allocated
        PROVE  \E i \in 1 .. m : i # x /\ g[j] = f[i]
    <3>1. CASE j < y   BY <3>1
    <3>2. CASE j > y
      <4>1. j + 1 \in 1 .. m /\ j + 1 # x /\ g[j] = f[j + 1]   BY <3>2
      <4> QED   BY <4>1
    <3> QED   BY <2>2, <3>1, <3>2
  <2>3. \A i \in 1 .. m : f[i].allocated /\ i # x =>
           Block(f[i].size, f[i].offset) # Block(f[x].size, f[x].offset)
    BY BlocksDistinct, ZenonT(30)
  <2> QED   BY <2>1, <2>2, <2>3 DEF AllocatedBlocks
<1> QED
  BY <1>3, <1>4, <1>5, <1>6, Zenon DEF WellFormed, Loses

(* ReleaseRegion of region x between two free regions: the three become    *)
(* one.                                                                    *)
LEMMA MergedBothShape ==
    ASSUME NEW f, NEW g, NEW m \in Nat \ {0}, NEW a \in 1 .. m, NEW n \in Nat,
           WellFormed(f, m, a, n),
           NEW x \in 2 .. m - 1, f[x].allocated,
           f[x - 1].allocated = FALSE, f[x + 1].allocated = FALSE,
           NEW pair, IsFree(pair, f[x - 1].size + f[x].size, f[x - 1].offset),
           NEW joined,
           IsFree(joined, f[x - 1].size + f[x].size + f[x + 1].size,
                  f[x - 1].offset),
           NEW h, Merged(h, f, m, x - 1, pair),
           Merged(g, h, m - 1, x - 1, joined),
           NEW c, c = IF a > x THEN a - 2 ELSE a
    PROVE  /\ WellFormed(g, m - 2, c, n)
           /\ Loses(AllocatedBlocks(g, m - 2),
                    AllocatedBlocks(f, m),
                    Block(f[x].size, f[x].offset))
<1> USE DEF IsFree, Merged
<1>1. /\ Tiles(f, m, n)
      /\ f[a].allocated = FALSE
      /\ \A i \in 1 .. m : /\ f[i] \in Region
                           /\ f[i].size \in Nat
                           /\ i # a => f[i].size > 0
                           /\ f[i].offset \in Nat
                           /\ f[i].allocated \in BOOLEAN
  BY TilesFields DEF WellFormed, ActiveIsFree
<1> DEFINE y == x - 1
<1>2. /\ y \in 1 .. m - 2 /\ x = y + 1 /\ x - 1 = y /\ x + 1 = y + 2
      /\ m - 1 \in Nat \ {0} /\ m - 2 = (m - 1) - 1
  OBVIOUS
<1> HIDE DEF y
<1>3. /\ \A j \in 1 .. m - 1 : h[j] \in Region
      /\ h[y] = pair /\ h[y + 1] = f[x + 1]
  BY <1>1, <1>2
<1>4. Tiles(h, m - 1, n)
  <2>1. /\ \A j \in 1 .. y - 1 : SameSpan(h[j], f[j])
        /\ \A j \in y + 1 .. m - 1 : SameSpan(h[j], f[j + 1])
    BY <1>2 DEF SameSpan
  <2>2. /\ h[y].offset = f[y].offset /\ h[y].size = f[y].size + f[y + 1].size
        /\ y \in 1 .. m - 1
    BY <1>2, <1>3
  <2> QED   BY <1>1, <1>3, <2>1, <2>2, Join, Zenon
<1>5. \A j \in 1 .. m - 2 : g[j] = IF j < y THEN f[j]
                                   ELSE IF j = y THEN joined ELSE f[j + 2]
  BY <1>2
<1>6. \A j \in 1 .. (m - 1) - 1 : g[j] \in Region
  BY <1>1, <1>2, <1>5
<1>7. Tiles(g, (m - 1) - 1, n)
  <2>1. /\ \A j \in 1 .. y - 1 : SameSpan(g[j], h[j])
        /\ \A j \in y + 1 .. (m - 1) - 1 : SameSpan(g[j], h[j + 1])
    BY <1>2 DEF SameSpan
  <2>2. /\ g[y].offset = h[y].offset /\ g[y].size = h[y].size + h[y + 1].size
        /\ y \in 1 .. (m - 1) - 1
    BY <1>2, <1>3
  <2> QED   BY <1>2, <1>4, <1>6, <2>1, <2>2, Join, Zenon
<1>8. IsCoalesced(g, m - 2)
  <2>1. /\ y > 1 => f[y - 1].allocated
        /\ y + 2 < m => f[y + 3].allocated
    BY <1>1, <1>2 DEF WellFormed, IsCoalesced
  <2> QED   BY <1>1, <1>2, <1>5, <2>1 DEF WellFormed, IsCoalesced
<1>9. c \in 1 .. m - 2 /\ ActiveIsFree(g, m - 2, c)
  BY <1>1, <1>2, <1>5 DEF ActiveIsFree
<1>10. AllocatedBlocks(g, m - 2)
        = AllocatedBlocks(f, m) \ {Block(f[x].size, f[x].offset)}
  <2>1. ASSUME NEW i \in 1 .. m, f[i].allocated, i # x
        PROVE  \E j \in 1 .. m - 2 : g[j] = f[i]
    <3>1. CASE i < y   BY <1>2, <1>5, <3>1
    <3>2. CASE i > y + 2
      <4>1. i - 2 \in 1 .. m - 2 /\ g[i - 2] = f[i]   BY <1>2, <1>5, <3>2
      <4> QED   BY <4>1
    <3> QED   BY <1>1, <1>2, <2>1, <3>1, <3>2
  <2>2. ASSUME NEW j \in 1 .. m - 2, g[j].allocated
        PROVE  \E i \in 1 .. m : i # x /\ g[j] = f[i]
    <3>1. CASE j < y   BY <1>2, <1>5, <3>1
    <3>2. CASE j > y
      <4>1. j + 2 \in 1 .. m /\ j + 2 # x /\ g[j] = f[j + 2]
        BY <1>2, <1>5, <3>2
      <4> QED   BY <4>1
    <3> QED   BY <1>2, <1>5, <2>2, <3>1, <3>2
  <2>3. \A i \in 1 .. m : f[i].allocated /\ i # x =>
           Block(f[i].size, f[i].offset) # Block(f[x].size, f[x].offset)
    BY BlocksDistinct
  <2> QED   BY <2>1, <2>2, <2>3 DEF AllocatedBlocks
<1> QED
  BY <1>2, <1>7, <1>8, <1>9, <1>10, Zenon DEF WellFormed, Loses
=============================================================================
