-------------------------- MODULE RelocationPacker --------------------------
(***************************************************************************)
(* relocation_packer: the compact forms of relative relocations, made of   *)
(* variable-length numbers (leb128, sleb128), runs of equal differences    *)
(* (run_length_encoder) and differences (delta_encoder), and the shared    *)
(* library that they are written into (elf_file).  A byte holds GroupBits  *)
(* bits and a continuation bit, seven in the code, and an Xword has        *)
(* XwordBits bits.                                                         *)
(***************************************************************************)
EXTENDS Integers, Sequences, SequencesExt, FiniteSetsExt, TLC
CONSTANTS GroupBits, XwordBits, WordBytes

Group == 2 ^ GroupBits
Xwords == 2 ^ XwordBits
Unsigned(v) == v % Xwords
Signed(v) == IF v % Xwords >= Xwords \div 2 THEN (v % Xwords) - Xwords ELSE v % Xwords

\* The letters of the signatures: numbers of one byte.
Letter == [A |-> 1, P |-> 2, R |-> 3, One |-> 0]
APR1 == <<Letter.A, Letter.P, Letter.R, Letter.One>>
APA1 == <<Letter.A, Letter.P, Letter.A, Letter.One>>

-----------------------------------------------------------------------------
(* Variable-length numbers. *)

RECURSIVE Leb128(_)
Leb128(value) ==
    IF value < Group THEN <<value>>
    ELSE <<Group + (value % Group)>> \o Leb128(value \div Group)

\* The second highest bit of the last byte is the sign.
SignBit(byte) == byte % Group >= Group \div 2

Ends(rest, byte) == (rest = 0 /\ ~SignBit(byte)) \/ (rest = -1 /\ SignBit(byte))

RECURSIVE Sleb128(_)
Sleb128(value) ==
    LET byte == value % Group
        rest == value \div Group
    IN  IF Ends(rest, byte) THEN <<byte>> ELSE <<Group + byte>> \o Sleb128(rest)

EnqueueAll(Encode(_), values) == FlattenSeq([i \in DOMAIN values |-> Encode(values[i])])

\* The bytes of the first number of an encoding, and the bits they hold; then
\* the bytes of every number.
First(encoding) ==
    SubSeq(encoding, 1, Min({i \in DOMAIN encoding : encoding[i] < Group}))
FieldsOf(bytes) ==
    FoldRight(LAMBDA byte, bits : (byte % Group) + Group * bits, bytes, 0)

LebValue(bytes) == Unsigned(FieldsOf(bytes))

SlebValue(bytes) ==
    LET shift == GroupBits * Len(bytes)
    IN  IF shift < XwordBits /\ SignBit(Last(bytes)) THEN FieldsOf(bytes) - 2 ^ shift
        ELSE Signed(FieldsOf(bytes))

RECURSIVE DequeueAll(_)
DequeueAll(encoding) ==
    IF encoding = << >> THEN << >>
    ELSE LET bytes == First(encoding)
         IN  <<bytes>> \o DequeueAll(SubSeq(encoding, Len(bytes) + 1, Len(encoding)))

-----------------------------------------------------------------------------
(* Relocations without addends: runs of equal differences. *)

Rel(offset) == [type |-> "relative", offset |-> offset, addend |-> 0]

\* What the CHECKs of GetDeltas require.
Increasing(relocations) ==
    \A i \in 1 .. (Len(relocations) - 1) : relocations[i].offset < relocations[i + 1].offset

GetDeltas(relocations) ==
    [i \in 1 .. (Len(relocations) - 1) |-> relocations[i + 1].offset - relocations[i].offset]

Condense(deltas) ==
    LET Add(runs, delta) ==
            IF runs # << >> /\ Last(runs)[2] = delta
            THEN [runs EXCEPT ![Len(runs)][1] = @ + 1] ELSE Append(runs, <<1, delta>>)
    IN  FlattenSeq(FoldLeft(Add, << >>, deltas))

Uncondense(addr, pairs) ==
    LET Run(relocations, pair) ==
            relocations \o [k \in 1 .. pair[1] |-> Rel(Last(relocations).offset + k * pair[2])]
    IN  FoldLeft(Run, <<Rel(addr)>>, pairs)

RunLengthEncode(relocations) ==
    IF Len(relocations) < 2 THEN << >>
    ELSE LET pairs == Condense(GetDeltas(relocations))
         IN  <<Len(pairs) \div 2, relocations[1].offset>> \o pairs

RunLengthDecode(packed) ==
    IF Len(packed) < 4 THEN << >>
    ELSE Uncondense(packed[2], [i \in 1 .. packed[1] |-> <<packed[2 * i + 1], packed[2 * i + 2]>>])

-----------------------------------------------------------------------------
(* Relocations with addends: differences, in the width of an Xword. *)

Rela(offset, addend) == [type |-> "relative", offset |-> offset, addend |-> addend]

DeltaEncode(relocations) ==
    IF relocations = << >> THEN << >>
    ELSE LET before == <<Rela(0, 0)>> \o relocations
             Delta(i) == <<Signed(before[i + 1].offset - before[i].offset),
                           Signed(before[i + 1].addend - before[i].addend)>>
         IN  <<Len(relocations)>> \o FlattenSeq([i \in DOMAIN relocations |-> Delta(i)])

DeltaDecode(packed) ==
    IF Len(packed) < 3 THEN << >>
    ELSE LET Add(sum, i) ==
                 Append(sum, Rela(Unsigned(Last(sum).offset + packed[2 * i]),
                                  Signed(Last(sum).addend + packed[2 * i + 1])))
         IN  Tail(FoldLeft(Add, <<Rela(0, 0)>>, [i \in 1 .. packed[1] |-> i]))

-----------------------------------------------------------------------------
(* The packer: a signature, the encoded numbers and zeros up to a word. *)

Padded(packed) == packed \o [i \in 1 .. ((-Len(packed)) % WordBytes) |-> 0]

PackRel(relocations) ==
    LET words == RunLengthEncode(relocations)
    IN  IF words = << >> THEN << >> ELSE Padded(EnqueueAll(Leb128, APR1 \o words))

UnpackRel(packed) ==
    LET words == DequeueAll(packed)
    IN  RunLengthDecode([i \in 1 .. (Len(words) - 4) |-> LebValue(words[i + 4])])

PackRela(relocations) ==
    LET words == DeltaEncode(relocations)
    IN  IF words = << >> THEN << >> ELSE Padded(APA1 \o EnqueueAll(Sleb128, words))

UnpackRela(packed) ==
    LET words == DequeueAll(SubSeq(packed, 5, Len(packed)))
    IN  DeltaDecode([i \in DOMAIN words |-> SlebValue(words[i])])

HasSignature(packed, signature) == Len(packed) > 3 /\ SubSeq(packed, 1, 4) = signature

-----------------------------------------------------------------------------
(***************************************************************************)
(* relocation_packer's ElfFile: a shared library's relative relocations    *)
(* move from .rel.dyn into .android.rel.dyn and back.  Packing cuts a hole *)
(* into the file, and the GNU_STACK program header becomes a second LOAD   *)
(* so that everything behind the hole keeps its address.                   *)
(*                                                                         *)
(* A library is a record: phoff and shoff of the ELF header, the sections  *)
(* and program headers in the order of their tables, the entries of        *)
(* .dynamic, the relocations of .rel.dyn and the bytes of                  *)
(* .android.rel.dyn.  Names of sections stand for both spellings, .rel and *)
(* .rela.                                                                  *)
(***************************************************************************)
CONSTANTS sizeof_Rel, sizeof_Rela, kPreserveAlignment, Offs

kStubIdentifier == <<3, 3, 0, 0>>

Section(name, addr, offset, size) ==
    [name |-> name, addr |-> addr, offset |-> offset, size |-> size]
Header(type, offset, vaddr, filesz, memsz) ==
    [type |-> type, offset |-> offset, vaddr |-> vaddr, filesz |-> filesz, memsz |-> memsz]
Dyn(tag, val) == [tag |-> tag, val |-> val]
NullRelocation == [type |-> "none", offset |-> 0, addend |-> 0]
GnuStack == Header("GNU_STACK", 0, 0, 0, 0)

sizeof(elf) == IF elf.type = "REL" THEN sizeof_Rel ELSE sizeof_Rela
OfType(relocations, types) == SelectSeq(relocations, LAMBDA r : r.type \in types)

Index(elf, name) == CHOOSE i \in DOMAIN elf.sections : elf.sections[i].name = name
SectionOf(elf, name) == elf.sections[Index(elf, name)]

\* The segment and the section of the dynamic entries begin at one offset.
GetDynamicSection(elf) ==
    {s \in DOMAIN elf.sections :
        \E h \in DOMAIN elf.headers :
            elf.headers[h].type = "DYNAMIC" /\ elf.headers[h].offset = elf.sections[s].offset}

\* The sections packing works on; an empty one counts as missing.
Load(elf) ==
    /\ GetDynamicSection(elf) # {}
    /\ \A name \in {"rel.dyn", "android.rel.dyn"} :
         \E i \in DOMAIN elf.sections :
             elf.sections[i].name = name /\ elf.sections[i].size > 0

-----------------------------------------------------------------------------
(* Resizing a section: a hole of size bytes, negative when cut out. *)

Adjusted(offset, start, size) == IF offset > start THEN offset + size ELSE offset

AdjustElfHeaderForHole(elf, start, size) ==
    [elf EXCEPT !.phoff = Adjusted(@, start, size), !.shoff = Adjusted(@, start, size)]

AdjustSectionHeadersForHole(elf, start, size) ==
    [elf EXCEPT !.sections =
        [i \in DOMAIN @ |-> [@[i] EXCEPT !.offset = Adjusted(@, start, size)]]]

AdjustAllProgramHeaders(headers, ignored, start, size) ==
    [i \in DOMAIN headers |-> [headers[i] EXCEPT !.offset = Adjusted(@, start, size)]]

AdjustProgramHeaderOffsets(headers, ignored, start, size) ==
    [i \in DOMAIN headers |->
        IF i \in ignored THEN headers[i]
        ELSE [headers[i] EXCEPT !.offset = Adjusted(@, start, size)]]

FindFirstLoadSegment(headers) ==
    {i \in DOMAIN headers :
        headers[i].type = "LOAD" /\ headers[i].offset = 0 /\ headers[i].vaddr = 0}

FindUnusedGnuStackSegment(headers) == {i \in DOMAIN headers : headers[i] = GnuStack}

FindOriginalFirstLoadSegment(headers) ==
    {i \in DOMAIN headers :
        /\ headers[i].type = "LOAD"
        /\ \E f \in FindFirstLoadSegment(headers) : headers[i].offset = headers[f].filesz}

\* The offset a section had before its header was adjusted.
Undone(section, start, size) ==
    IF section.offset >= start THEN (section.offset - size) % Offs ELSE section.offset

FindSectionContainingHole(sections, start, size) ==
    1 + Max({i \in DOMAIN sections : Undone(sections[i], start, size) <= start})

FindLastSectionInSegment(sections, header, start, size) ==
    Max({i \in DOMAIN sections : Undone(sections[i], start, size) < header.offset + header.filesz})

\* LOAD headers in the order of their offsets, GNU_STACK behind them, each in
\* one of the places such headers have.
SortOrderSensitiveProgramHeaders(headers) ==
    LET places == SetToSortSeq({i \in DOMAIN headers : headers[i].type \in {"LOAD", "GNU_STACK"}},
                               LAMBDA i, j : i < j)
        Before(i, j) == /\ headers[i].type # "GNU_STACK"
                        /\ \/ headers[j].type = "GNU_STACK"
                           \/ headers[i].offset < headers[j].offset
        order == SortSeq(places, Before)
    IN  [i \in DOMAIN headers |->
            IF i \in Range(places) THEN headers[order[CHOOSE k \in DOMAIN places : places[k] = i]]
            ELSE headers[i]]

\* The first LOAD is cut behind the section with the hole: the GNU_STACK header
\* maps the part in front, the old header the rest, up to the next section.
SplitProgramHeadersForHole(elf, start, size) ==
    LET headers == elf.headers
        spliced == Max(FindUnusedGnuStackSegment(headers))
        split == Max(FindFirstLoadSegment(headers))
        next == elf.sections[FindSectionContainingHole(elf.sections, start, size) + 1]
        end == elf.sections[FindLastSectionInSegment(elf.sections, headers[split], start, size) + 1]
        rest == end.offset - next.offset
        cut == [headers EXCEPT
                  ![spliced] = Header("LOAD", headers[split].offset, headers[split].vaddr,
                                      next.offset, next.offset),
                  ![split] = Header("LOAD", next.offset, next.addr, rest, rest)]
    IN  SortOrderSensitiveProgramHeaders(
            AdjustProgramHeaderOffsets(cut, {spliced, split}, start, size))

CoalesceProgramHeadersForHole(elf, start, size) ==
    LET headers == elf.headers
        spliced == Max(FindFirstLoadSegment(headers))
        split == Max(FindOriginalFirstLoadSegment(headers))
        last == elf.sections[FindLastSectionInSegment(elf.sections, headers[split], start, size)]
        whole == last.offset + last.size
        joined == [headers EXCEPT
                     ![split] = Header("LOAD", headers[spliced].offset, headers[spliced].vaddr,
                                       whole, whole),
                     ![spliced] = GnuStack]
    IN  SortOrderSensitiveProgramHeaders(
            AdjustProgramHeaderOffsets(joined, {spliced, split}, start, size))

RewriteProgramHeadersForHole(elf, start, size) ==
    [elf EXCEPT !.headers = IF size < 0 THEN SplitProgramHeadersForHole(elf, start, size)
                            ELSE CoalesceProgramHeadersForHole(elf, start, size)]

AdjustDynamicSectionForHole(elf, start, size) ==
    [elf EXCEPT !.dynamics =
        [i \in DOMAIN @ |->
            [@[i] EXCEPT !.val = CASE elf.dynamics[i].tag = "RELSZ" -> @ + size
                                   [] elf.dynamics[i].tag = "RELCOUNT" -> @ + size \div sizeof(elf)
                                   [] OTHER -> @]]]

\* The relocations change their size in .dynamic, and the segments around them.
AdjustedForRelocations(elf, start, size) ==
    AdjustDynamicSectionForHole(RewriteProgramHeadersForHole(elf, start, size), start, size)

MakeHole(elf, name, start, size) ==
    LET resized == [elf EXCEPT !.sections[Index(elf, name)].size = @ + size]
        moved == AdjustSectionHeadersForHole(AdjustElfHeaderForHole(resized, start, size),
                                             start, size)
    IN  IF name = "rel.dyn" THEN AdjustedForRelocations(moved, start, size) ELSE moved

ResizeSection(elf, name, new_size) ==
    IF new_size = SectionOf(elf, name).size THEN elf
    ELSE MakeHole(elf, name, SectionOf(elf, name).offset, new_size - SectionOf(elf, name).size)

-----------------------------------------------------------------------------
(* Dynamic entries: the last one stays a null. *)

FindDynamicEntry(tag, dynamics) == {i \in 1 .. (Len(dynamics) - 1) : dynamics[i].tag = tag}

AddDynamicEntry(dyn, dynamics) == [dynamics EXCEPT ![Min(FindDynamicEntry("NULL", dynamics))] = dyn]

\* The entries behind it move up, and the last one stays as it is.
RemoveDynamicEntry(tag, dynamics) ==
    Append(Remove(dynamics, dynamics[Min(FindDynamicEntry(tag, dynamics))]), Last(dynamics))

-----------------------------------------------------------------------------
(* Packing.  A library that cannot be packed, and one on which a CHECK or a
   FATAL ends the program, is not written: Flush is the last step. *)

PadRelocations(count, relocations) == relocations \o [i \in 1 .. count |-> NullRelocation]

Relative(elf) == OfType(elf.relocations, {"relative"})
Other(elf) == OfType(elf.relocations, {"other", "none"})

\* The bytes of the relative relocations that can go: whole relocations, and a
\* multiple of the alignment.
HoleSize(elf) ==
    Max({n * sizeof(elf) : n \in {k \in 0 .. Len(Relative(elf)) :
                                    (k * sizeof(elf)) % kPreserveAlignment = 0}})

\* The null relocations that keep the alignment and keep the section from
\* becoming empty, or that fill the whole hole.
Padding(elf, is_padding) ==
    LET relative == Len(Relative(elf)) * sizeof(elf)
        whole == Min({n \in 1 .. kPreserveAlignment : (n * sizeof(elf)) % kPreserveAlignment = 0})
    IN  CASE is_padding -> Len(Relative(elf))
          [] ~is_padding /\ HoleSize(elf) = relative /\ Other(elf) = << >> -> whole
          [] OTHER -> (relative - HoleSize(elf)) \div sizeof(elf)

PackRelativeRelocations(elf) ==
    IF elf.type = "REL" THEN PackRel(Relative(elf)) ELSE PackRela(Relative(elf))
UnpackRelativeRelocations(elf) ==
    IF elf.type = "REL" THEN UnpackRel(elf.packed) ELSE UnpackRela(elf.packed)

\* The early returns, and the CHECKs and FATALs on the way to Flush.
CanPack(elf, is_padding) ==
    /\ Load(elf) /\ Relative(elf) # << >>
    /\ is_padding \/ (HoleSize(elf) > 0 /\ Padding(elf, is_padding) < Len(Relative(elf)))
    /\ elf.type = "REL" => Increasing(Relative(elf))
    /\ PackRelativeRelocations(elf) # << >>
    /\ Len(PackRelativeRelocations(elf)) < Len(Relative(elf)) * sizeof(elf)
    /\ is_padding \/ FindUnusedGnuStackSegment(elf.headers) # {}
    /\ Cardinality(FindDynamicEntry("NULL", elf.dynamics)) >= 2

\* The sections have their new sizes: their contents and the entries of .dynamic
\* follow.
WithPacked(elf, others, bytes) ==
    LET android == SectionOf(elf, "android.rel.dyn")
    IN  [elf EXCEPT !.relocations = others, !.packed = bytes,
                    !.dynamics = AddDynamicEntry(Dyn("ANDROID_REL_SIZE", android.size),
                                     AddDynamicEntry(Dyn("ANDROID_REL_OFFSET", android.offset), @))]

PackTypedRelocations(elf, is_padding) ==
    LET others == PadRelocations(Padding(elf, is_padding), Other(elf))
        bytes == PackRelativeRelocations(elf)
        shrunk == ResizeSection(elf, "rel.dyn", Len(others) * sizeof(elf))
    IN  WithPacked(ResizeSection(shrunk, "android.rel.dyn", Len(bytes)), others, bytes)

PackRelocations(elf, is_padding) ==
    IF CanPack(elf, is_padding) THEN PackTypedRelocations(elf, is_padding) ELSE elf

-----------------------------------------------------------------------------
(* Unpacking: the relative relocations in front, then those that are no
   padding, and a stub where the packed ones were. *)

CanUnpack(elf) ==
    /\ Load(elf)
    /\ HasSignature(elf.packed, IF elf.type = "REL" THEN APR1 ELSE APA1)

UnpackTypedRelocations(elf) ==
    LET all == UnpackRelativeRelocations(elf) \o OfType(elf.relocations, {"relative", "other"})
        grown == ResizeSection(elf, "rel.dyn", Len(all) * sizeof(elf))
    IN  [ResizeSection(grown, "android.rel.dyn", Len(kStubIdentifier))
            EXCEPT !.relocations = all, !.packed = kStubIdentifier,
                   !.dynamics = RemoveDynamicEntry("ANDROID_REL_SIZE",
                                    RemoveDynamicEntry("ANDROID_REL_OFFSET", @))]

UnpackRelocations(elf) == IF CanUnpack(elf) THEN UnpackTypedRelocations(elf) ELSE elf

\* The program: pack, or with -u unpack, with -p padding instead of shrinking.
main(elf, is_unpacking, is_padding) ==
    IF is_unpacking THEN UnpackRelocations(elf) ELSE PackRelocations(elf, is_padding)

-----------------------------------------------------------------------------
(* What the dynamic linker sees. *)

\* A LOAD header that maps the bytes from offset on at addr.
Maps(header, offset, size, addr) ==
    /\ header.type = "LOAD"
    /\ header.offset <= offset /\ offset + size <= header.offset + header.filesz
    /\ header.vaddr + (offset - header.offset) = addr

\* Every section that has an address, and every other segment, is mapped at its
\* address, and offsets and addresses agree modulo the alignment.
Mapped(elf) ==
    LET loads == {h \in Range(elf.headers) : h.type = "LOAD"}
    IN  /\ \A s \in Range(elf.sections) :
              s.addr # 0 => \E h \in loads : Maps(h, s.offset, s.size, s.addr)
        /\ \A g \in Range(elf.headers) :
              g.filesz > 0 => \E h \in loads : Maps(h, g.offset, g.filesz, g.vaddr)
        /\ \A h \in loads : (h.vaddr - h.offset) % kPreserveAlignment = 0

\* .dynamic gives the size of .rel.dyn, and the place of the packed relocations
\* if there are any.
Described(elf) ==
    LET Val(tag) == {elf.dynamics[i].val : i \in FindDynamicEntry(tag, elf.dynamics)}
        android == SectionOf(elf, "android.rel.dyn")
        Present(v) == IF elf.packed = kStubIdentifier THEN {} ELSE {v}
    IN  /\ GetDynamicSection(elf) = {Index(elf, "dynamic")}
        /\ Val("RELSZ") = {SectionOf(elf, "rel.dyn").size}
        /\ SectionOf(elf, "rel.dyn").size = Len(elf.relocations) * sizeof(elf)
        /\ Val("ANDROID_REL_OFFSET") = Present(android.offset)
        /\ Val("ANDROID_REL_SIZE") = Present(android.size)
        /\ android.size = Len(elf.packed)
        /\ Last(elf.dynamics).tag = "NULL"

\* The relocations that are applied, packed or not.
Applied(elf) ==
    (IF elf.packed = kStubIdentifier THEN << >> ELSE UnpackRelativeRelocations(elf))
    \o OfType(elf.relocations, {"relative", "other"})

\* Sections and tables do not overlap, and lie in the file in the order of the
\* section table.
Disjoint(elf) ==
    /\ \A i \in 1 .. (Len(elf.sections) - 1) :
         elf.sections[i].offset + elf.sections[i].size <= elf.sections[i + 1].offset
    /\ Last(elf.sections).offset + Last(elf.sections).size <= elf.shoff
=============================================================================
