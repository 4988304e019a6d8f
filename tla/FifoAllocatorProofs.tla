------------------------ MODULE FifoAllocatorProofs ------------------------
(***************************************************************************)
(* FifoAllocator keeps its design for every buffer size and every request  *)
(* size.  TypeOK /\ NoLeak is the inductive invariant; one lemma per       *)
(* operation ties the list surgery of the code to the shape lemmas of      *)
(* FifoAllocatorLemmas.                                                    *)
(***************************************************************************)
EXTENDS FifoAllocatorLemmas

\* How long the solver may work on a leaf, in seconds.
USE SMTT(30)

(* AllocateRegion's test on the active region. *)
LargeEnough(r, n) == r.size >= n

(* AllocateRegion from the moment the active region a of rs is large       *)
(* enough: exact fit or split.                                             *)
LEMMA TakeKeeps ==
    ASSUME NEW rs \in Seq(Region), NEW a \in 1 .. Len(rs), NEW n \in AllocSizes,
           size \in Nat, WellFormed(rs, Len(rs), a, size),
           LargeEnough(rs[a], n),
           held = AllocatedBlocks(rs, Len(rs)), TakeFromActive(rs, a, n)
    PROVE  (regions \in Seq(Region) /\ NoLeak)'
<1> DEFINE m    == Len(rs)
           cut  == get_free(TRUE, n, rs[a].offset)
           rest == Remainder(rs[a], n)
<1>1. n \in Nat \ {0} /\ m \in Nat \ {0} /\ a \in 1 .. m /\ size \in Nat
  BY SizesAssumption, LenProperties
<1>2. rs[a] \in Region /\ rs[a].size \in Nat /\ rs[a].offset \in Nat
  BY RegionFields, Zenon
<1>3. IsTaken(cut, n, rs[a].offset) /\ cut \in Region
  BY <1>1, <1>2, Zenon DEF get_free, Region, IsTaken
<1>4. WellFormed(rs, m, a, size) /\ held = AllocatedBlocks(rs, m)
  BY Zenon
<1>5. size' = size /\ Gains(held', held, Block(n, rs[a].offset))
  BY Zenon DEF TakeFromActive, Gains, insert_before
<1>6. n = rs[a].size \/ n < rs[a].size
  BY <1>1, <1>2 DEF LargeEnough
<1>7. CASE n = rs[a].size
  <2> DEFINE taken == ReplaceAt(rs, a, cut)
  <2>1. IF a = m /\ ~ taken[1].allocated
        THEN regions' = taken /\ active' = 1
        ELSE MakeActivePlaceholder(taken, a)
    BY <1>7, Zenon DEF TakeFromActive, insert_before
  <2> HIDE DEF cut
  <2>2. /\ taken \in Seq(Region) /\ Len(taken) = m
        /\ Replaced(taken, rs, m, a, cut)
    BY <1>3, ReplaceAtShape, Zenon
  <2> HIDE DEF taken, m
  <2>3. taken[1].allocated \in BOOLEAN
    BY <1>1, <2>2, RegionFields
  <2>4. IsTaken(cut, rs[a].size, rs[a].offset) /\ rs[a].size > 0
    BY <1>1, <1>3, <1>7
  <2>5. CASE a = m /\ taken[1].allocated = FALSE
    <3>1. /\ WellFormed(taken, m, 1, size)
          /\ Gains(AllocatedBlocks(taken, m), AllocatedBlocks(rs, m),
                   Block(rs[a].size, rs[a].offset))
      BY <1>1, <1>4, <2>2, <2>4, <2>5, WrapShape, Zenon
    <3>2. held' = AllocatedBlocks(taken, m)
      BY <1>4, <1>5, <1>7, <3>1, Zenon DEF Gains
    <3>3. regions' = taken /\ active' = 1
      BY <2>1, <2>5, Zenon
    <3> QED   BY <1>5, <2>2, <3>1, <3>2, <3>3 DEF NoLeak
  <2>6. CASE a = m /\ taken[1].allocated = TRUE
    <3> DEFINE empty == get_free(FALSE, 0, 0)
               g     == InsertAt(taken, 1, empty)
    <3>1. empty \in Region /\ IsFree(empty, 0, 0)
      BY Zenon DEF get_free, Region, IsFree
    <3>2. regions' = g /\ active' = 1
      BY <2>1, <2>2, <2>6, Zenon DEF MakeActivePlaceholder, insert_before
    <3> HIDE DEF empty
    <3>3. /\ g \in Seq(Region) /\ Len(g) = m + 1
          /\ Prepended(g, taken, m, empty)
      BY <2>2, <3>1, InsertFirstShape, Zenon
    <3> HIDE DEF g
    <3>4. /\ WellFormed(g, m + 1, 1, size)
          /\ Gains(AllocatedBlocks(g, m + 1), AllocatedBlocks(rs, m),
                   Block(rs[a].size, rs[a].offset))
      BY <1>1, <1>4, <2>2, <2>4, <2>6, <3>1, <3>3, PlaceholderFrontShape, Zenon
    <3>5. held' = AllocatedBlocks(g, m + 1)
      BY <1>4, <1>5, <1>7, <3>4, Zenon DEF Gains
    <3> QED   BY <1>5, <3>2, <3>3, <3>4, <3>5 DEF NoLeak
  <2>7. CASE a < m
    <3> DEFINE end   == taken[a].offset + taken[a].size
               empty == get_free(FALSE, 0, end)
               g     == InsertAt(taken, a + 1, empty)
    <3>1. end = rs[a].offset + rs[a].size
      BY <1>1, <2>2, <2>4, Zenon DEF Replaced, IsTaken
    <3>2. MakeActivePlaceholder(taken, a) /\ a # Len(taken)
      BY <1>1, <2>1, <2>2, <2>7
    <3>3. regions' = g /\ active' = a + 1
      BY <3>2, Zenon DEF MakeActivePlaceholder, insert_before
    <3> HIDE DEF end
    <3>4. /\ empty \in Region
          /\ IsFree(empty, 0, rs[a].offset + rs[a].size)
      BY <1>2, <3>1 DEF get_free, Region, IsFree
    <3> HIDE DEF empty
    <3>5. /\ g \in Seq(Region) /\ Len(g) = m + 1
          /\ Doubled(g, rs, m, a, cut, empty)
      BY <1>3, <3>4, InsertBehindShape, Zenon DEF taken, m
    <3> HIDE DEF g
    <3>6. /\ WellFormed(g, m + 1, a + 1, size)
          /\ Gains(AllocatedBlocks(g, m + 1), AllocatedBlocks(rs, m),
                   Block(rs[a].size, rs[a].offset))
      BY <1>1, <1>4, <2>4, <2>7, <3>4, <3>5, PlaceholderAfterShape, Zenon
    <3>7. held' = AllocatedBlocks(g, m + 1)
      BY <1>4, <1>5, <1>7, <3>6, Zenon DEF Gains
    <3> QED   BY <1>5, <3>3, <3>5, <3>6, <3>7 DEF NoLeak
  <2>8. a = m \/ a < m
    BY <1>1
  <2> QED   BY <2>3, <2>5, <2>6, <2>7, <2>8, Zenon
<1>8. CASE n < rs[a].size
  <2> DEFINE g == InsertAt(ReplaceAt(rs, a, rest), a, cut)
  <2>1. rs[a].size # n
    BY <1>1, <1>2, <1>8
  <2>2. regions' = g /\ active' = a + 1
    BY <2>1, Zenon DEF TakeFromActive, insert_before
  <2>3. rest \in Region /\ IsFree(rest, rs[a].size - n, rs[a].offset + n)
    <3>1. /\ rs[a].size - n \in Nat /\ rs[a].offset + n \in Nat
          /\ rest = get_free(FALSE, rs[a].size - n, rs[a].offset + n)
      BY <1>1, <1>2, <1>8 DEF Remainder
    <3> HIDE DEF rest
    <3> QED   BY <3>1, Zenon DEF get_free, Region, IsFree
  <2> HIDE DEF rest, cut
  <2>4. /\ g \in Seq(Region) /\ Len(g) = m + 1
        /\ Doubled(g, rs, m, a, cut, rest)
    BY <1>3, <2>3, InsertBeforeShape, Zenon
  <2> HIDE DEF g, m
  <2>5. /\ WellFormed(g, m + 1, a + 1, size)
        /\ Gains(AllocatedBlocks(g, m + 1), AllocatedBlocks(rs, m), Block(n, rs[a].offset))
    BY <1>1, <1>3, <1>4, <1>8, <2>3, <2>4, SplitShape, Zenon
  <2>6. held' = AllocatedBlocks(g, m + 1)
    BY <1>4, <1>5, <2>5, Zenon DEF Gains
  <2> QED   BY <1>5, <2>2, <2>4, <2>5, <2>6 DEF NoLeak
<1> QED
  BY <1>6, <1>7, <1>8, Zenon

(* AllocateRegion: the active region is large enough, or AdvanceActive     *)
(* finds one that is, or nothing changes.                                  *)
LEMMA AllocateKeeps ==
    ASSUME TypeOK, NoLeak, NEW n \in AllocSizes, AllocateRegion(n)
    PROVE  (regions \in Seq(Region) /\ NoLeak)'
<1> DEFINE m == Len(regions)
<1>1. /\ regions \in Seq(Region) /\ active \in 1 .. m /\ size \in Nat
      /\ m \in Nat \ {0} /\ n \in Nat \ {0}
  BY SizesAssumption, LenProperties DEF TypeOK
<1>2. /\ WellFormed(regions, m, active, size)
      /\ held = AllocatedBlocks(regions, m)
  BY Zenon DEF NoLeak
<1>3. \A i \in 1 .. m : /\ regions[i].size \in Nat
                        /\ regions[i].allocated \in BOOLEAN
  BY <1>1, RegionFields, Zenon
<1>4. CASE regions[active].size >= n /\ TakeFromActive(regions, active, n)
  <2>1. LargeEnough(regions[active], n) /\ TakeFromActive(regions, active, n)
    BY <1>4, Zenon DEF LargeEnough
  <2> QED   BY <1>1, <1>2, <2>1, TakeKeeps
<1>5. ASSUME regions[active].size < n, NEW i \in 1 .. m, NextCandidate(n, i),
             TakeFromActive(AdvancedRegions, AdvancedActive(i), n)
      PROVE  (regions \in Seq(Region) /\ NoLeak)'
  <2>1. regions[i].allocated = FALSE /\ regions[i].size >= n /\ i # active
    BY <1>1, <1>3, <1>5 DEF NextCandidate, Candidates
  <2>2. LargeEnough(regions[i], n)
    BY <2>1, Zenon DEF LargeEnough
  <2>3. CASE regions[active].size = 0
    <3> DEFINE rs == RemoveAt(regions, active)
               b  == IF i > active THEN i - 1 ELSE i
    <3>1. AdvancedRegions = rs /\ AdvancedActive(i) = b
      BY <2>3, Zenon DEF AdvancedRegions, AdvancedActive, remove
    <3>2. TakeFromActive(rs, b, n)
      BY <1>5, <3>1, Zenon
    <3>3. /\ rs \in Seq(Region) /\ Len(rs) = m - 1
          /\ Dropped(rs, regions, m, active)
      BY <1>1, RemoveAtShape, Zenon
    <3>8. b = IF i > active THEN i - 1 ELSE i
      BY Zenon
    <3> HIDE DEF rs, m, b
    <3>4. /\ WellFormed(rs, m - 1, b, size)
          /\ Keeps(AllocatedBlocks(rs, m - 1), AllocatedBlocks(regions, m))
      BY <1>1, <1>2, <2>1, <2>3, <3>3, <3>8, DropShape, Zenon
    <3>5. b \in 1 .. m - 1 /\ rs[b] = regions[i]
      BY <1>1, <2>1, <3>3, <3>8 DEF Dropped
    <3>6. LargeEnough(rs[b], n)
      BY <2>2, <3>5, Zenon
    <3>7. /\ b \in 1 .. Len(rs) /\ WellFormed(rs, Len(rs), b, size)
          /\ held = AllocatedBlocks(rs, Len(rs))
      BY <1>2, <3>3, <3>4, <3>5, Zenon DEF Keeps
    <3> QED   BY <1>1, <3>2, <3>3, <3>6, <3>7, TakeKeeps
  <2>4. CASE regions[active].size # 0
    <3>1. AdvancedRegions = regions /\ AdvancedActive(i) = i
      BY <2>4, Zenon DEF AdvancedRegions, AdvancedActive, remove
    <3>2. ActiveIsFree(regions, m, i)
      BY <1>1, <1>2, <2>1, <2>4, Zenon DEF WellFormed, ActiveIsFree
    <3>3. WellFormed(regions, m, i, size)
      BY <1>2, <3>2, Zenon DEF WellFormed
    <3>4. TakeFromActive(regions, i, n)
      BY <1>5, <3>1, Zenon
    <3> QED   BY <1>1, <1>2, <2>2, <3>3, <3>4, TakeKeeps
  <2> QED   BY <2>3, <2>4
<1>6. CASE UNCHANGED <<size, regions, active, held>>
  BY <1>1, <1>2, <1>6, Zenon DEF NoLeak
<1>7. DOMAIN regions = 1 .. m
  BY <1>1, LenProperties, Zenon
<1> QED
  BY <1>4, <1>5, <1>6, <1>7, Zenon DEF AllocateRegion

(* ReleaseRegion stops at the region that was allocated for the caller:    *)
(* regions other than the active one are not empty, so no two of them      *)
(* start at the same offset.                                               *)
LEMMA ReleaseTarget ==
    ASSUME TypeOK, NoLeak, NEW b \in held
    PROVE  /\ \E i \in 1 .. Len(regions) : i \in Starting(b.offset)
           /\ \A i \in Starting(b.offset) :
                 /\ i \in 1 .. Len(regions)
                 /\ regions[i].allocated
                 /\ regions[i].size = b.size
                 /\ regions[i].offset = b.offset
           /\ \A i, j \in Starting(b.offset) : i = j
<1> DEFINE m == Len(regions)
<1>1. /\ regions \in Seq(Region) /\ active \in 1 .. m /\ m \in Nat
      /\ DOMAIN regions = 1 .. m
  BY LenProperties, Zenon DEF TypeOK
<1>2. \A i \in 1 .. m : /\ regions[i].size \in Nat
                        /\ regions[i].offset \in Nat
  BY <1>1, RegionFields, Zenon
<1>3. ~ regions[active].allocated /\ IsOrdered(regions, m)
  BY Zenon DEF NoLeak, WellFormed, ActiveIsFree, Tiles
<1>4. \A i \in 1 .. m : i # active => regions[i].size > 0
  BY <1>2 DEF NoLeak, WellFormed, ActiveIsFree
<1>5. PICK x \in 1 .. m : /\ regions[x].allocated
                         /\ b = Block(regions[x].size, regions[x].offset)
  BY Zenon DEF NoLeak, AllocatedBlocks
<1>6. b.size = regions[x].size /\ b.offset = regions[x].offset /\ x # active
  BY <1>3, <1>5, Zenon DEF Block
<1>7. ASSUME NEW i \in 1 .. m, i # active, regions[i].offset = b.offset
      PROVE  i = x
  <2>1. CASE i < x
    BY <1>1, <1>2, <1>3, <1>4, <1>6, <1>7, <2>1 DEF IsOrdered, End
  <2>2. CASE x < i
    BY <1>1, <1>2, <1>3, <1>4, <1>6, <1>7, <2>2 DEF IsOrdered, End
  <2> QED   BY <1>1, <2>1, <2>2
<1>8. x \in Starting(b.offset)
  BY <1>1, <1>6, Zenon DEF Starting
<1>9. \A i \in Starting(b.offset) : i = x
  BY <1>1, <1>7, Zenon DEF Starting
<1> QED
  BY <1>5, <1>6, <1>8, <1>9, Zenon

(* Absorbing region t into region r. *)
LEMMA JoinedIsFree ==
    ASSUME NEW r \in Region, NEW t \in Region
    PROVE  Joined(r, t) \in Region /\ IsFree(Joined(r, t), r.size + t.size, r.offset)
  BY DEF Joined, get_free, Region, IsFree

(* ReleaseRegion frees region i and absorbs it into its free neighbours.   *)
LEMMA ReleaseKeeps ==
    ASSUME TypeOK, NoLeak, NEW b \in held, ReleaseRegion(b.size, b.offset)
    PROVE  (regions \in Seq(Region) /\ NoLeak)'
<1> DEFINE m == Len(regions)
<1>1. /\ regions \in Seq(Region) /\ active \in 1 .. m /\ size \in Nat
      /\ m \in Nat \ {0}
  BY SizesAssumption, LenProperties DEF TypeOK
<1>2. /\ WellFormed(regions, m, active, size)
      /\ held = AllocatedBlocks(regions, m)
  BY Zenon DEF NoLeak
<1>3. PICK i \in DOMAIN regions :
        /\ FoundFor(b.offset, i)
        /\ \/ /\ ~ FreeBefore(i) /\ ~ FreeAfter(i)
              /\ regions' = Freed(i)
              /\ active' = active
           \/ /\ FreeBefore(i) /\ ~ FreeAfter(i)
              /\ regions' = MergedBack(i)
              /\ active' = IF active > i THEN active - 1 ELSE active
           \/ /\ ~ FreeBefore(i) /\ FreeAfter(i)
              /\ regions' = MergeForward(Freed(i), i)
              /\ active' = IF active > i THEN active - 1 ELSE active
           \/ /\ FreeBefore(i) /\ FreeAfter(i)
              /\ regions' = MergeForward(MergedBack(i), i - 1)
              /\ active' = IF active > i THEN active - 2 ELSE active
  BY Zenon DEF ReleaseRegion
<1>4. size' = size /\ Loses(held', held, Block(b.size, b.offset))
  BY Zenon DEF ReleaseRegion, Loses
<1>5. i \in Starting(b.offset) /\ i # active
  BY <1>3, Zenon DEF FoundFor, Starting
<1>6. /\ i \in 1 .. m /\ regions[i].allocated
      /\ regions[i].size = b.size /\ regions[i].offset = b.offset
  BY <1>5, ReleaseTarget, Zenon
<1>7. /\ Loses(held', held, Block(regions[i].size, regions[i].offset))
      /\ regions[i].allocated = TRUE
  <2>1. regions[i].allocated \in BOOLEAN   BY <1>1, <1>6, RegionFields
  <2> QED   BY <1>4, <1>6, <2>1
<1>8. \A j \in 1 .. m : /\ regions[j] \in Region
                        /\ regions[j].size \in Nat
                        /\ regions[j].offset \in Nat
                        /\ regions[j].allocated \in BOOLEAN
  BY <1>1, RegionFields, Zenon
<1> DEFINE freed == get_free(FALSE, regions[i].size, regions[i].offset)
<1>9. freed \in Region /\ IsFree(freed, regions[i].size, regions[i].offset)
  BY <1>6, <1>8, Zenon DEF get_free, Region, IsFree
<1> HIDE DEF freed
<1>10. /\ Freed(i) \in Seq(Region) /\ Len(Freed(i)) = m
       /\ Replaced(Freed(i), regions, m, i, freed)
  BY <1>1, <1>6, <1>9, ReplaceAtShape, Zenon DEF Freed, freed
<1>11. /\ FreeBefore(i) => i > 1 /\ regions[i - 1].allocated = FALSE
       /\ ~ FreeBefore(i) => (i > 1 => regions[i - 1].allocated)
       /\ FreeAfter(i) => i < m /\ regions[i + 1].allocated = FALSE
       /\ ~ FreeAfter(i) => (i < m => regions[i + 1].allocated)
  BY <1>6, <1>8 DEF FreeBefore, FreeAfter
<1>12. \A j \in 1 .. m : regions[j].allocated = FALSE =>
          /\ j > 1 => regions[j - 1].allocated
          /\ j < m => regions[j + 1].allocated
  BY <1>2, <1>8 DEF WellFormed, IsCoalesced
<1>13. ASSUME NEW g, NEW p, g \in Seq(Region), Len(g) = p, regions' = g,
              WellFormed(g, p, active', size),
              Loses(AllocatedBlocks(g, p), AllocatedBlocks(regions, m),
                    Block(regions[i].size, regions[i].offset))
       PROVE  (regions \in Seq(Region) /\ NoLeak)'
  <2>1. held' = AllocatedBlocks(g, p)
    BY <1>2, <1>7, <1>13, Zenon DEF Loses
  <2> QED   BY <1>4, <1>13, <2>1 DEF NoLeak
<1> HIDE DEF m
<1>14. CASE /\ ~ FreeBefore(i) /\ ~ FreeAfter(i)
            /\ regions' = Freed(i) /\ active' = active
  <2> DEFINE g == Freed(i)
  <2> HIDE DEF g
  <2>1. g \in Seq(Region) /\ Len(g) = m /\ Replaced(g, regions, m, i, freed)
    BY <1>10, Zenon DEF g
  <2>2. /\ WellFormed(g, m, active, size)
        /\ Loses(AllocatedBlocks(g, m), AllocatedBlocks(regions, m),
                 Block(regions[i].size, regions[i].offset))
    BY <1>1, <1>2, <1>6, <1>9, <1>11, <1>14, <2>1, FreedShape, Zenon
  <2> QED   BY <1>13, <1>14, <2>1, <2>2 DEF g
<1>15. CASE /\ FreeBefore(i) /\ ~ FreeAfter(i)
            /\ regions' = MergedBack(i)
            /\ active' = IF active > i THEN active - 1 ELSE active
  <2> DEFINE y == i - 1
             g == MergedBack(i)
             joined == Joined(regions[y], regions[y + 1])
  <2>1. /\ y \in 1 .. m - 1 /\ i = y + 1
        /\ regions[y].allocated = FALSE
    BY <1>1, <1>6, <1>11, <1>15
  <2> HIDE DEF y
  <2>2. /\ joined \in Region
        /\ IsFree(joined, regions[y].size + regions[y + 1].size, regions[y].offset)
    <3>1. regions[y] \in Region /\ regions[y + 1] \in Region
      BY <1>1, <1>8, <2>1
    <3> QED   BY <3>1, JoinedIsFree, Zenon
  <2> HIDE DEF joined
  <2>3. /\ g \in Seq(Region) /\ Len(g) = m - 1
        /\ Merged(g, regions, m, y, joined)
    <3>1. g = RemoveAt(ReplaceAt(regions, y, joined), y + 1)
      BY <2>1, Zenon DEF MergedBack, joined, y, remove
    <3> HIDE DEF g
    <3> QED   BY <1>1, <2>1, <2>2, <3>1, RemoveNextShape, Zenon DEF m
  <2> HIDE DEF g
  <2>4. /\ y > 1 => regions[y - 1].allocated
        /\ y + 1 < m => regions[y + 2].allocated
        /\ active' = IF active > y THEN active - 1 ELSE active
    BY <1>1, <1>5, <1>11, <1>12, <1>15, <2>1
  <2>5. /\ WellFormed(g, m - 1, active', size)
        /\ Loses(AllocatedBlocks(g, m - 1), AllocatedBlocks(regions, m),
                 Block(regions[i].size, regions[i].offset))
    BY <1>1, <1>2, <1>6, <2>1, <2>2, <2>3, <2>4, MergedShape, Zenon
  <2> QED   BY <1>13, <1>15, <2>3, <2>5 DEF g
<1>16. CASE /\ ~ FreeBefore(i) /\ FreeAfter(i)
            /\ regions' = MergeForward(Freed(i), i)
            /\ active' = IF active > i THEN active - 1 ELSE active
  <2> DEFINE h == Freed(i)
             joined == Joined(h[i], h[i + 1])
             g == MergeForward(h, i)
  <2>1. i \in 1 .. m - 1 /\ regions[i + 1].allocated = FALSE
    BY <1>1, <1>6, <1>11, <1>16
  <2>2. g = RemoveAt(ReplaceAt(h, i + 1, joined), i)
    BY Zenon DEF MergeForward, remove
  <2>3. h \in Seq(Region) /\ Len(h) = m /\ Replaced(h, regions, m, i, freed)
    BY <1>10, Zenon
  <2> HIDE DEF h
  <2>4. h[i] = freed /\ h[i + 1] = regions[i + 1] /\ h[i + 1] \in Region
    BY <1>8, <2>1, <2>3 DEF Replaced
  <2>5. /\ joined \in Region
        /\ IsFree(joined, freed.size + regions[i + 1].size, freed.offset)
    BY <1>9, <2>4, JoinedIsFree, Zenon
  <2>6. IsFree(joined, regions[i].size + regions[i + 1].size, regions[i].offset)
    BY <1>9, <2>5, Zenon DEF IsFree
  <2> HIDE DEF joined, g
  <2>7. g \in Seq(Region) /\ Len(g) = m - 1 /\ Merged(g, h, m, i, joined)
    BY <2>1, <2>2, <2>3, <2>5, RemoveThisShape, Zenon
  <2>8. Merged(g, regions, m, i, joined)
    <3>1. SUFFICES ASSUME NEW j \in 1 .. m - 1
                   PROVE  g[j] = IF j < i THEN regions[j]
                                 ELSE IF j = i THEN joined ELSE regions[j + 1]
      BY Zenon DEF Merged
    <3>2. g[j] = IF j < i THEN h[j] ELSE IF j = i THEN joined ELSE h[j + 1]
      BY <2>7, Zenon DEF Merged
    <3> QED   BY <1>1, <2>1, <2>3, <3>2 DEF Replaced
  <2>9. /\ i > 1 => regions[i - 1].allocated
        /\ i + 1 < m => regions[i + 2].allocated
    BY <1>1, <1>11, <1>12, <1>16, <2>1
  <2>10. /\ WellFormed(g, m - 1, active', size)
         /\ Loses(AllocatedBlocks(g, m - 1), AllocatedBlocks(regions, m),
                  Block(regions[i].size, regions[i].offset))
    BY <1>1, <1>2, <1>6, <1>16, <2>1, <2>6, <2>8, <2>9, MergedShape, Zenon
  <2>11. regions' = g
    BY <1>16, Zenon DEF g, h
  <2> QED   BY <1>13, <2>7, <2>10, <2>11
<1>17. CASE /\ FreeBefore(i) /\ FreeAfter(i)
            /\ regions' = MergeForward(MergedBack(i), i - 1)
            /\ active' = IF active > i THEN active - 2 ELSE active
  <2> DEFINE y == i - 1
             pair == Joined(regions[y], regions[i])
             h == MergedBack(i)
             joined == Joined(h[y], h[y + 1])
             g == MergeForward(h, y)
  <2>1. /\ i \in 2 .. m - 1 /\ y \in 1 .. m - 2 /\ i = y + 1
        /\ regions[i - 1].allocated = FALSE
        /\ regions[i + 1].allocated = FALSE
    BY <1>1, <1>6, <1>11, <1>17
  <2>2. pair \in Region /\ IsFree(pair, regions[y].size + regions[i].size,
                                  regions[y].offset)
    <3>1. regions[y] \in Region /\ regions[i] \in Region
      BY <1>1, <1>8, <2>1
    <3> QED   BY <3>1, JoinedIsFree
  <2>3. h = RemoveAt(ReplaceAt(regions, y, pair), y + 1)
    BY <2>1, Zenon DEF MergedBack, remove
  <2>4. g = RemoveAt(ReplaceAt(h, y + 1, joined), y) /\ regions' = g
    BY <1>17, Zenon DEF MergeForward, remove
  <2>5. i - 1 = y
    BY Zenon
  <2> HIDE DEF y, pair, h, g
  <2>6. h \in Seq(Region) /\ Len(h) = m - 1 /\ Merged(h, regions, m, y, pair)
    <3>1. y \in 1 .. Len(regions) - 1 /\ pair \in Region
      BY <2>1, <2>2 DEF m
    <3> QED   BY <1>1, <2>3, <3>1, RemoveNextShape, Zenon DEF m
  <2>7. h[y] = pair /\ h[y + 1] = regions[i + 1] /\ h[y + 1] \in Region
    BY <1>8, <2>1, <2>6 DEF Merged
  <2>8. /\ joined \in Region
        /\ IsFree(joined, pair.size + regions[i + 1].size, pair.offset)
    BY <2>2, <2>7, JoinedIsFree, Zenon
  <2>9. IsFree(joined, regions[y].size + regions[i].size + regions[i + 1].size,
               regions[y].offset)
    BY <2>2, <2>8, Zenon DEF IsFree
  <2> HIDE DEF joined
  <2>10. /\ g \in Seq(Region) /\ Len(g) = (m - 1) - 1
         /\ Merged(g, h, m - 1, y, joined)
    <3>1. /\ h \in Seq(Region) /\ Len(h) = m - 1
          /\ y \in 1 .. Len(h) - 1 /\ joined \in Region
      BY <1>1, <2>1, <2>6, <2>8
    <3> QED   BY <2>4, <3>1, RemoveThisShape, Zenon
  <2>11. /\ WellFormed(g, m - 2, active', size)
         /\ Loses(AllocatedBlocks(g, m - 2), AllocatedBlocks(regions, m),
                  Block(regions[i].size, regions[i].offset))
    <3>1. /\ IsFree(pair, regions[i - 1].size + regions[i].size, regions[i - 1].offset)
          /\ IsFree(joined, regions[i - 1].size + regions[i].size + regions[i + 1].size,
                    regions[i - 1].offset)
          /\ Merged(h, regions, m, i - 1, pair)
          /\ Merged(g, h, m - 1, i - 1, joined)
      BY <2>2, <2>5, <2>6, <2>9, <2>10, Zenon
    <3> QED
      BY <1>1, <1>2, <1>6, <1>17, <2>1, <3>1, MergedBothShape, Zenon
  <2>12. Len(g) = m - 2
    BY <1>1, <2>10
  <2> QED   BY <1>13, <2>4, <2>10, <2>11, <2>12
<1> QED
  BY <1>3, <1>14, <1>15, <1>16, <1>17, Zenon

-----------------------------------------------------------------------------
(* A freshly initialized list satisfies the inductive invariant. *)
LEMMA FreshKeeps ==
    ASSUME NEW n \in BufferSizes
    PROVE  /\ Fresh(n) \in Seq(Region) /\ Len(Fresh(n)) = 1
           /\ WellFormed(Fresh(n), 1, 1, n)
           /\ AllocatedBlocks(Fresh(n), 1) = {}
<1> DEFINE r == get_free(FALSE, n, 0)
           f == Fresh(n)
<1>1. /\ r \in Region /\ r.allocated = FALSE /\ r.size = n /\ r.offset = 0
      /\ n \in Nat
  BY SizesAssumption, Zenon DEF get_free, Region
<1>6. f = <<r>>
  BY Zenon DEF Fresh
<1>7. r \in Region
  BY <1>1, Zenon
<1> HIDE DEF r, f
<1>2. f \in Seq(Region) /\ Len(f) = 1 /\ f[1] = r
  BY <1>6, <1>7
<1>3. Tiles(f, 1, n)
  BY <1>1, <1>2 DEF Tiles, Partitions, IsOrdered, Covers, End
<1>4. IsCoalesced(f, 1) /\ ActiveIsFree(f, 1, 1)
  BY <1>1, <1>2 DEF IsCoalesced, ActiveIsFree
<1>5. AllocatedBlocks(f, 1) = {}
  BY <1>1, <1>2 DEF AllocatedBlocks
<1> QED
  BY <1>2, <1>3, <1>4, <1>5 DEF WellFormed, f

(* What the callers hold stays well-typed, and so does the result. *)
LEMMA TypesKept ==
    ASSUME TypeOK, NoLeak, Next, regions' \in Seq(Region), NoLeak'
    PROVE  TypeOK'
<1>1. active' \in DOMAIN regions'
  BY LenProperties, Zenon DEF NoLeak, WellFormed
<1>2. CASE Reset
  BY <1>1, <1>2, SizesAssumption, Zenon DEF TypeOK, Reset
<1>3. ASSUME NEW n \in AllocSizes, AllocateRegion(n)
      PROVE  TypeOK'
  <2>1. ASSUME NEW rs \in Seq(Region), NEW a \in 1 .. Len(rs),
               TakeFromActive(rs, a, n)
        PROVE  TypeOK'
    <3>1. rs[a].offset \in Nat
      BY RegionFields, Zenon
    <3>2. Block(n, rs[a].offset) \in [size : AllocSizes, offset : Nat]
      BY <3>1, Zenon DEF Block
    <3> QED   BY <1>1, <2>1, <3>1, <3>2 DEF TypeOK, TakeFromActive, insert_before
  <2>2. /\ regions \in Seq(Region) /\ active \in 1 .. Len(regions)
        /\ DOMAIN regions = 1 .. Len(regions) /\ Len(regions) \in Nat
    BY LenProperties, Zenon DEF TypeOK
  <2>3. CASE TakeFromActive(regions, active, n)
    BY <2>1, <2>2, <2>3, Zenon
  <2>4. ASSUME NEW i \in DOMAIN regions, NextCandidate(n, i),
               regions[active].size < n,
               TakeFromActive(AdvancedRegions, AdvancedActive(i), n)
        PROVE  TypeOK'
    <3>1. i # active
      <4>1. regions[i].size >= n /\ n \in Nat
        BY <2>4, SizesAssumption, Zenon DEF NextCandidate, Candidates
      <4>2. regions[active].size \in Nat
        BY <2>2, RegionFields, Zenon
      <4> QED   BY <2>4, <4>1, <4>2
    <3>2. /\ AdvancedRegions \in Seq(Region)
          /\ AdvancedActive(i) \in 1 .. Len(AdvancedRegions)
      <4>1. CASE regions[active].size = 0
        <5>1. /\ RemoveAt(regions, active) \in Seq(Region)
              /\ Len(RemoveAt(regions, active)) = Len(regions) - 1
          BY <2>2, RemoveAtShape, Zenon
        <5> QED   BY <2>2, <3>1, <4>1, <5>1 DEF AdvancedRegions, AdvancedActive, remove
      <4>2. CASE regions[active].size # 0
        BY <2>2, <4>2, Zenon DEF AdvancedRegions, AdvancedActive, remove
      <4> QED   BY <4>1, <4>2
    <3> QED   BY <2>1, <2>4, <3>2
  <2>5. CASE result' = kNullOffset /\ UNCHANGED <<size, regions, active, held>>
    BY <2>5, SizesAssumption, Zenon DEF TypeOK
  <2> QED   BY <1>3, <2>3, <2>4, <2>5 DEF AllocateRegion
<1>4. ASSUME NEW b \in held, ReleaseRegion(b.size, b.offset)
      PROVE  TypeOK'
  BY <1>1, <1>4, SizesAssumption, Zenon DEF TypeOK, ReleaseRegion
<1> QED
  BY <1>2, <1>3, <1>4, Zenon DEF Next

(* Every step of the allocator keeps the invariant. *)
LEMMA StepKeeps ==
    ASSUME TypeOK, NoLeak, [Next]_vars
    PROVE  TypeOK' /\ NoLeak'
<1>1. CASE UNCHANGED vars
  BY <1>1, Zenon DEF vars, TypeOK, NoLeak
<1>2. CASE Next
  <2>1. ASSUME Reset PROVE regions' \in Seq(Region) /\ NoLeak'
    <3>1. PICK n \in BufferSizes : size' = n
      BY <2>1, Zenon DEF Reset
    <3>2. /\ Fresh(n) \in Seq(Region) /\ Len(Fresh(n)) = 1
          /\ WellFormed(Fresh(n), 1, 1, n)
          /\ AllocatedBlocks(Fresh(n), 1) = {}
      BY FreshKeeps, Zenon
    <3>3. /\ regions' = Fresh(n) /\ active' = 1
          /\ held' = AllocatedBlocks(Fresh(n), 1)
      BY <2>1, <3>1, <3>2, Zenon DEF Reset
    <3>4. regions' \in Seq(Region) /\ Len(regions') = 1
      BY <3>2, <3>3, Zenon
    <3>5. WellFormed(regions', Len(regions'), active', size')
      BY <3>1, <3>2, <3>3, Zenon
    <3>6. held' = AllocatedBlocks(regions', Len(regions'))
      BY <3>2, <3>3, Zenon
    <3> QED   BY <3>4, <3>5, <3>6 DEF NoLeak
  <2>2. regions' \in Seq(Region) /\ NoLeak'
    BY <1>2, <2>1, AllocateKeeps, ReleaseKeeps, Zenon DEF Next
  <2> QED   BY <1>2, <2>2, TypesKept
<1> QED
  BY <1>1, <1>2, Zenon

(* Every initial state satisfies the inductive invariant. *)
LEMMA InitKeeps ==
    ASSUME Init
    PROVE  TypeOK /\ NoLeak
<1>1. size \in BufferSizes
  BY Zenon DEF Init
<1>2. /\ Fresh(size) \in Seq(Region) /\ Len(Fresh(size)) = 1
      /\ WellFormed(Fresh(size), 1, 1, size)
      /\ AllocatedBlocks(Fresh(size), 1) = {}
  BY <1>1, FreshKeeps, Zenon
<1>3. NoLeak
  BY <1>2, Zenon DEF Init, NoLeak
<1>4. active \in DOMAIN regions
  BY <1>2, LenProperties DEF Init
<1>5. TypeOK
  BY <1>2, <1>4, SizesAssumption, Zenon DEF Init, TypeOK
<1> QED   BY <1>3, <1>5

(* FifoAllocator never leaks a region and never hands one out twice, and   *)
(* its list always partitions the buffer, whatever the buffer and request  *)
(* sizes and the order of AllocateRegion, ReleaseRegion and Reset.         *)
THEOREM NoLeakHolds == Spec => [](TypeOK /\ NoLeak)
<1>1. Init => TypeOK /\ NoLeak
  BY InitKeeps, Zenon
<1>2. TypeOK /\ NoLeak /\ [Next]_vars => (TypeOK /\ NoLeak)'
  BY StepKeeps, Zenon
<1> QED   BY <1>1, <1>2, PTL DEF Spec

(* The DESIGN section of fifo_allocator.h holds of the code. *)
THEOREM DesignHolds == Spec => []Design
<1>1. TypeOK /\ NoLeak => Design
  BY Zenon DEF NoLeak, WellFormed, Tiles, Design
<1> QED   BY <1>1, NoLeakHolds, PTL

(* ReleaseRegion always finds the region it was given, and the DCHECKs on  *)
(* that region hold.                                                       *)
THEOREM ReleaseFindsRegionHolds == Spec => []ReleaseFindsRegion
<1>1. ASSUME TypeOK, NoLeak
      PROVE  ReleaseFindsRegion
  <2>1. SUFFICES ASSUME NEW b \in held
                 PROVE  \E i \in DOMAIN regions :
                          /\ FoundFor(b.offset, i)
                          /\ regions[i] = get_free(TRUE, b.size, b.offset)
    BY Zenon DEF ReleaseFindsRegion
  <2>2. /\ \A i \in Starting(b.offset) :
              /\ i \in 1 .. Len(regions)
              /\ regions[i].allocated
              /\ regions[i].size = b.size
              /\ regions[i].offset = b.offset
        /\ \A i, j \in Starting(b.offset) : i = j
    BY <1>1, ReleaseTarget, Zenon
  <2>3. PICK i \in 1 .. Len(regions) : i \in Starting(b.offset)
    BY <1>1, ReleaseTarget, Zenon
  <2>4. /\ active \in 1 .. Len(regions) /\ Len(regions) \in Nat
        /\ DOMAIN regions = 1 .. Len(regions) /\ regions \in Seq(Region)
    BY <1>1, LenProperties, Zenon DEF TypeOK
  <2>5. i # active
    BY <2>3, Zenon DEF Starting
  <2>6. FoundFor(b.offset, i)
    BY <2>2, <2>3, <2>4, <2>5 DEF FoundFor
  <2>7. regions[i] \in Region /\ regions[i].allocated = TRUE
    BY <2>2, <2>3, <2>4, RegionFields, Zenon
  <2>8. regions[i] = get_free(TRUE, b.size, b.offset)
    BY <2>2, <2>3, <2>7, Zenon DEF get_free, Region
  <2> QED   BY Zenon, <2>4, <2>6, <2>8
<1> QED   BY <1>1, NoLeakHolds, PTL

-----------------------------------------------------------------------------
(* FifoAllocator implements Heap.  A request is cut from a free region,    *)
(* which no held region touches.                                           *)
LEMMA FreeFits ==
    ASSUME NEW rs, NEW m \in Nat \ {0}, NEW a \in 1 .. m, NEW n \in Nat, size \in Nat,
           NEW b, WellFormed(rs, m, b, size), ~ rs[a].allocated,
           LargeEnough(rs[a], n), held = AllocatedBlocks(rs, m)
    PROVE  rs[a].offset \in 0 .. size /\ H!Fits(rs[a].offset, n)
<1> DEFINE o == rs[a].offset
<1>1. \A i \in 1 .. m : rs[i].size \in Nat /\ rs[i].offset \in Nat
  BY TilesFields, Zenon DEF WellFormed
<1>2. End(rs[a]) <= size
  <2>1. CASE a = m
    BY <1>1, <2>1 DEF WellFormed, Tiles, Partitions, End
  <2>2. CASE a < m
    BY <1>1, <2>2 DEF WellFormed, Tiles, Partitions, IsOrdered, End
  <2> QED   BY <2>1, <2>2
<1>3. o \in Nat /\ o + n <= size /\ o + n <= End(rs[a]) /\ rs[a].size >= n
  BY <1>1, <1>2 DEF LargeEnough, End
<1>4. ASSUME NEW i \in 1 .. m, rs[i].allocated
      PROVE  ~ H!Spans(Block(rs[i].size, rs[i].offset), [offset |-> o, size |-> n])
  <2>1. i # a
    BY <1>4
  <2>2. End(rs[i]) <= o \/ End(rs[a]) <= rs[i].offset
    BY <1>1, <2>1 DEF WellFormed, Tiles, IsOrdered
  <2> QED   BY <1>1, <1>3, <2>2 DEF H!Spans, Block, End
<1>5. \A r \in held : ~ H!Spans(r, [offset |-> o, size |-> n])
  BY <1>4, Zenon DEF AllocatedBlocks
<1> QED   BY <1>3, <1>5 DEF H!Fits

(* A request that no free region can take fits nowhere: the region that    *)
(* holds its first byte is free and too small, and the next one is not     *)
(* free, because neighbours that are free have been merged.                *)
LEMMA RefusedFitsNowhere ==
    ASSUME TypeOK, NoLeak, NEW n \in AllocSizes, Candidates(n) = {},
           NEW o \in 0 .. size, H!Fits(o, n)
    PROVE  FALSE
<1> DEFINE m == Len(regions)
           asked == [offset |-> o, size |-> n]
<1>1. /\ DOMAIN regions = 1 .. m /\ m \in Nat /\ size \in Nat
      /\ n \in Nat \ {0}
  BY SizesAssumption, LenProperties DEF TypeOK
<1>2. WellFormed(regions, m, active, size) /\ held = AllocatedBlocks(regions, m)
  BY Zenon DEF NoLeak
<1>3. \A i \in 1 .. m : /\ regions[i].size \in Nat /\ regions[i].offset \in Nat
                        /\ regions[i].allocated \in BOOLEAN
  BY <1>1, <1>2, TilesFields, Zenon DEF WellFormed
<1> HIDE DEF m
<1>4. \A i \in 1 .. m : regions[i].allocated =>
         ~ (regions[i].offset < o + n /\ o < End(regions[i]))
  <2>1. \A i \in 1 .. m : regions[i].allocated =>
           ~ H!Spans(Block(regions[i].size, regions[i].offset), asked)
    BY <1>2, Zenon DEF H!Fits, AllocatedBlocks
  <2> SUFFICES ASSUME NEW i \in 1 .. m, regions[i].allocated
               PROVE  ~ (regions[i].offset < o + n /\ o < End(regions[i]))
    BY Zenon
  <2> QED   BY <2>1 DEF H!Spans, Block, End
<1>5. o + n <= size /\ o \in 0 .. size - 1
  BY <1>1 DEF H!Fits
<1>6. PICK i \in 1 .. m : regions[i].offset <= o /\ o < End(regions[i])
  BY <1>2, <1>5, Zenon DEF WellFormed, Tiles, Covers
<1>7. ~ regions[i].allocated
  BY <1>1, <1>3, <1>4, <1>6
<1>8. regions[i].size < n
  BY <1>1, <1>3, <1>6, <1>7 DEF Candidates
<1>9. End(regions[i]) < o + n
  BY <1>1, <1>3, <1>6, <1>8 DEF End
<1>10. i \in 1 .. m - 1 /\ i + 1 \in 1 .. m
  BY <1>1, <1>2, <1>5, <1>9 DEF WellFormed, Tiles, Partitions
<1>11. regions[i + 1].allocated /\ regions[i + 1].offset = End(regions[i])
  BY <1>2, <1>7, <1>10 DEF WellFormed, Tiles, Partitions, IsCoalesced
<1>12. regions[i + 1].size > 0
  BY <1>1, <1>2, <1>3, <1>10, <1>11 DEF WellFormed, ActiveIsFree
<1>13. ~ (regions[i + 1].offset < o + n /\ o < End(regions[i + 1]))
  BY <1>4, <1>10, <1>11, Zenon
<1>14. /\ regions[i].size \in Nat /\ regions[i].offset \in Nat
       /\ regions[i + 1].size \in Nat
  BY <1>3, <1>10, Zenon
<1> QED
  BY <1>1, <1>6, <1>9, <1>11, <1>12, <1>13, <1>14 DEF End

(* An allocation is a step of Heap, granted or refused. *)
LEMMA AllocateImplements ==
    ASSUME TypeOK, NoLeak, NEW n \in AllocSizes, AllocateRegion(n)
    PROVE  H!Allocate(n)
<1> DEFINE m == Len(regions)
<1>1. /\ regions \in Seq(Region) /\ active \in 1 .. m /\ size \in Nat
      /\ m \in Nat \ {0} /\ n \in Nat \ {0} /\ DOMAIN regions = 1 .. m
  BY SizesAssumption, LenProperties DEF TypeOK
<1>2. WellFormed(regions, m, active, size) /\ held = AllocatedBlocks(regions, m)
  BY Zenon DEF NoLeak
<1>3. \A i \in 1 .. m : regions[i].size \in Nat /\ regions[i].allocated \in BOOLEAN
  BY <1>1, RegionFields, Zenon
<1>4. ASSUME NEW rs, NEW a, TakeFromActive(rs, a, n),
             rs[a].offset \in 0 .. size, H!Fits(rs[a].offset, n)
      PROVE  H!Allocate(n)
  <2>1. Block(n, rs[a].offset) = [offset |-> rs[a].offset, size |-> n]
    BY DEF Block
  <2> QED   BY <1>4, <2>1, Zenon DEF TakeFromActive, H!Allocate, insert_before
<1>5. CASE regions[active].size >= n /\ TakeFromActive(regions, active, n)
  <2>1. LargeEnough(regions[active], n)
    BY <1>5, Zenon DEF LargeEnough
  <2>2. regions[active].offset \in 0 .. size /\ H!Fits(regions[active].offset, n)
    BY <1>1, <1>2, <2>1, FreeFits DEF WellFormed, ActiveIsFree
  <2> QED   BY <1>4, <1>5, <2>2, Zenon
<1>6. ASSUME regions[active].size < n, NEW i \in 1 .. m, NextCandidate(n, i),
             TakeFromActive(AdvancedRegions, AdvancedActive(i), n)
      PROVE  H!Allocate(n)
  <2>1. regions[i].allocated = FALSE /\ regions[i].size >= n /\ i # active
    BY <1>1, <1>3, <1>6 DEF NextCandidate, Candidates
  <2>2. AdvancedRegions[AdvancedActive(i)] = regions[i]
    <3>1. CASE regions[active].size = 0
      <4>1. Dropped(RemoveAt(regions, active), regions, m, active)
        BY <1>1, RemoveAtShape, Zenon
      <4> QED   BY <1>1, <2>1, <3>1, <4>1 DEF Dropped, AdvancedRegions, AdvancedActive, remove
    <3>2. CASE regions[active].size # 0
      BY <3>2, Zenon DEF AdvancedRegions, AdvancedActive, remove
    <3> QED   BY <3>1, <3>2
  <2>3. regions[i].offset \in 0 .. size /\ H!Fits(regions[i].offset, n)
    <3>1. LargeEnough(regions[i], n)
      BY <2>1, Zenon DEF LargeEnough
    <3> QED   BY <1>1, <1>2, <2>1, <3>1, FreeFits
  <2> QED   BY <1>4, <1>6, <2>2, <2>3, Zenon
<1>7. CASE Candidates(n) = {} /\ result' = kNullOffset /\ UNCHANGED <<size, regions, active, held>>
  <2>1. \A o \in 0 .. size : ~ H!Fits(o, n)
    BY <1>7, RefusedFitsNowhere, Zenon
  <2> QED   BY <1>7, <2>1, Zenon DEF H!Allocate
<1> QED
  BY <1>1, <1>5, <1>6, <1>7, Zenon DEF AllocateRegion

(* FifoAllocator keeps the promise of a heap for every buffer and request  *)
(* size: what it hands out lies in the buffer and overlaps nothing that is *)
(* held, and AllocateRegion refuses only what fits in no gap.              *)
THEOREM HeapSpecHolds == Spec => HeapSpec
<1>1. Init => H!Init
  BY Zenon DEF Init, H!Init
<1>2. ASSUME TypeOK, NoLeak, [Next]_vars
      PROVE  [H!Next]_H!vars
  <2>1. CASE UNCHANGED vars
    BY <2>1, Zenon DEF vars, H!vars
  <2>2. CASE Reset
    BY <2>2, Zenon DEF Reset, H!Reset, H!Next
  <2>3. ASSUME NEW n \in AllocSizes, AllocateRegion(n)
        PROVE  H!Next
    BY <1>2, <2>3, AllocateImplements, Zenon DEF H!Next
  <2>4. ASSUME NEW b \in held, ReleaseRegion(b.size, b.offset)
        PROVE  H!Next
    <3>1. Block(b.size, b.offset) = b
      BY <1>2, <2>4 DEF TypeOK, Block
    <3> QED   BY <2>4, <3>1, Zenon DEF ReleaseRegion, H!Release, H!Next
  <2> QED   BY <1>2, <2>1, <2>2, <2>3, <2>4, Zenon DEF Next
<1> QED   BY <1>1, <1>2, NoLeakHolds, PTL DEF Spec, HeapSpec, H!Spec
=============================================================================
