------------------------------- MODULE Output -------------------------------
(***************************************************************************)
(* What every output format works on: the sections with their atoms, the   *)
(* symbols and the relocations that are left when a program is assembled,  *)
(* and the helpers that write and place them (supp.c, reloc.c, vasm.c).    *)
(* A target byte has 8 bits.  Writing yields a file and a set of messages. *)
(***************************************************************************)
EXTENDS Integers, Sequences, FiniteSets, SequencesExt

\* Atoms: data with its relocations, and space (that of size 0 only aligns); src
\* is the file and line of its source.
Data(align, bytes) == [t |-> "data", align |-> align, data |-> bytes, relocs |-> << >>, src |-> <<"", 0>>]
Space(align, n, fill) == [t |-> "space", align |-> align, space |-> n, fill |-> fill, src |-> <<"", 0>>,
                          max |-> 0, uninit |-> FALSE, databss |-> FALSE, relocs |-> << >>]
Uninitialized(n) == [Space(1, n, <<0>>) EXCEPT !.uninit = TRUE]
AlignAtom(align, fill, max) == [Space(align, 0, fill) EXCEPT !.max = max]
\* Relocations: of a field in the atom's data, by the value of a symbol.
Reloc(type, offset, size, sym, addend) ==
    [type |-> type, byteoffset |-> offset, bitoffset |-> 0, size |-> size, mask |-> "all",
     sym |-> sym, addend |-> addend, mod |-> ""]
Section(name, attr, align, org, atoms) ==
    [name |-> name, title |-> << >>, attr |-> attr, align |-> align, org |-> org, pc |-> org, pad |-> <<0>>,
     atoms |-> atoms, last |-> 0, mem |-> 0, flags |-> {}]
\* Symbols: sec is the number of the section of a label, val the value of an
\* expression or the offset of a label, 0 the size of one that has none.
Symbol(name, type, sec, val, flags) ==
    [name |-> name, type |-> type, sec |-> sec, val |-> val, flags |-> flags, size |-> 0, align |-> 0,
     kind |-> "NOTYPE"]
-----------------------------------------------------------------------------
Rep(pat, n) == [i \in 1..(n * Len(pat)) |-> pat[((i - 1) % Len(pat)) + 1]]
Zeros(n) == Rep(<<0>>, n)
Bytes(v, n) == [i \in 1..n |-> (v \div 2 ^ (8 * (i - 1))) % 256]
Ordered(be, bytes) == IF be THEN Reverse(bytes) ELSE bytes

fw16(x, be) == Ordered(be, Bytes(x, 2))
fw24(x, be) == Ordered(be, Bytes(x, 3))
\* TLC's integers have 32 bits; the addresses of the instances are smaller.
fw32(x, be) == Ordered(be, IF x < 0 THEN Bytes(x + 2 ^ 24, 3) \o <<255>> ELSE Bytes(x, 3) \o <<x \div 2 ^ 24>>)

balign(addr, a) == IF a = 0 THEN 0 ELSE (a - (addr % a)) % a

AtomBytes(a) == CASE a.t = "data" -> a.data [] a.t = "space" -> Rep(a.fill, a.space)
atom_size(a) == Len(AtomBytes(a))

pcalign(a, pc) ==
    LET n == balign(pc, a.align)
    IN  IF a.t = "space" /\ a.max # 0 /\ n > a.max THEN pc ELSE pc + n

\* What does not fill a whole pattern is zero, and comes first.
fwpattern(n, pat) == Zeros(n % Len(pat)) \o Rep(pat, n \div Len(pat))
fwalign(n, align) == Zeros(balign(n, align))

\* The padding in front of an atom, whose length is what pcalign adds.
fwpcalign(a, s, pc) ==
    LET n == balign(pc, a.align)
        aligns == a.t = "space" /\ a.space = 0
    IN  IF aligns /\ a.max # 0 /\ n > a.max THEN << >>
        ELSE fwpattern(n, IF aligns THEN a.fill ELSE s.pad)

\* The bytes of the first n atoms of a section and the pc behind them.
WriteAtoms(s, n) ==
    FoldLeft(LAMBDA r, a : LET pad == fwpcalign(a, s, r.pc)
                           IN  [pc |-> r.pc + Len(pad) + atom_size(a), out |-> r.out \o pad \o AtomBytes(a)],
             [pc |-> s.org, out |-> << >>], SubSeq(s.atoms, 1, n))
Contents(s) == WriteAtoms(s, Len(s.atoms)).out

\* Where atom i of a section starts.
AtomPc(s, i) == FoldLeft(LAMBDA pc, k : LET at == pcalign(s.atoms[k], pc)
                                        IN  IF k = i THEN at ELSE at + atom_size(s.atoms[k]),
                         s.org, [k \in 1..i |-> k])
EndPc(s) == IF s.atoms = << >> THEN s.org
            ELSE AtomPc(s, Len(s.atoms)) + atom_size(Last(s.atoms))

\* The pc that assemble() leaves: that behind the last atom.
Assembled(s) == [s EXCEPT !.pc = EndPc(s)]

IsInitialized(a) == a.t = "data" \/ ~a.uninit
\* Mutant: the last initialised atom is remembered, the pc behind it is not.
trim_uninitialized_last(secs) ==
    [k \in 1..Len(secs) |->
        LET s == secs[k]
            init == {i \in 1..Len(s.atoms) : IsInitialized(s.atoms[i])}
        IN  [s EXCEPT !.last = IF init = {} THEN 0 ELSE CHOOSE i \in init : \A j \in init : j <= i]]
\* A section without any initialised atom keeps its pc.
trim_uninitialized(secs) ==
    [k \in 1..Len(secs) |->
        LET s == secs[k]
            init == {i \in 1..Len(s.atoms) : IsInitialized(s.atoms[i])}
            last == CHOOSE i \in init : \A j \in init : j <= i
        IN  IF init = {} THEN [s EXCEPT !.last = 0]
            ELSE [s EXCEPT !.last = last, !.pc = AtomPc(s, last) + atom_size(s.atoms[last])]]

remove_unalloc_sects(secs) == SelectSeq(secs, LAMBDA s : "UNALLOCATED" \notin s.flags)

\* Two sections overlap when one ends or starts inside of the other.
chk_sec_overlap(secs) ==
    IF \E i, j \in 1..Len(secs) :
          /\ i < j
          /\ \/ secs[j].org >= secs[i].org /\ secs[j].org < secs[i].pc
             \/ secs[j].pc > secs[i].org /\ secs[j].pc < secs[i].pc
    THEN {0} ELSE {}

get_sec_size(s) == s.pc - s.org
get_sec_type(s) == IF "ABSOLUTE" \in s.flags THEN "S_ABS"
                   ELSE CASE s.attr = "c" -> "S_TEXT" [] s.attr = "d" -> "S_DATA"
                          [] s.attr = "u" -> "S_BSS" [] OTHER -> "S_MISS"

get_sym_value(sym) == IF "COMMON" \in sym.flags THEN sym.align
                      ELSE IF sym.type \in {"LABSYM", "EXPRESSION"} THEN sym.val ELSE 0
\* Symbols the assembler itself made, or whose name a user cannot write.
Internal(sym) == "VASMINTERN" \in sym.flags

find(syms, name) == {i \in 1..Len(syms) : syms[i].name = name}
\* The relocations of a section in the order of its atoms, each with the address
\* of its atom.
RelocsOf(s) == FlattenSeq([i \in 1..Len(s.atoms) |->
                   [k \in 1..Len(s.atoms[i].relocs) |-> [pc |-> AtomPc(s, i), r |-> s.atoms[i].relocs[k]]]])
\* The data an atom's relocations patch: its bytes, or its pattern.
Patched(a, data) == IF a.t = "data" THEN [a EXCEPT !.data = data] ELSE [a EXCEPT !.fill = data]
PatchData(a) == IF a.t = "data" THEN a.data ELSE a.fill
\* The relocations of an atom by ascending offset.
SortedRelocs(a) == SortSeq(a.relocs, LAMBDA q, r : q.byteoffset < r.byteoffset)

\* Formats with one text, one data and one bss section take the first of each
\* type that is not empty.  at is the number of the section, idx the type that a
\* section has got (that of index 0 when it has got none).
Wanted(s) == get_sec_size(s) > 0 \/ "HAS_SYMBOLS" \in s.flags
NoSlots(secs, types) == [at |-> [i \in types |-> 0], idx |-> [k \in 1..Len(secs) |-> "S_TEXT"], errs |-> {}]
Slot(x, k, i) == IF x.at[i] = 0 THEN [x EXCEPT !.at[i] = k, !.idx[k] = i] ELSE [x EXCEPT !.errs = @ \cup {7}]
\* TypeOf(x, s) may look at the slots that are taken.
Slots(secs, types, Skip(_), TypeOf(_, _)) ==
    FoldLeft(LAMBDA x, k : IF ~Wanted(secs[k]) \/ Skip(secs[k]) THEN x
                           ELSE IF TypeOf(x, secs[k]) \notin types
                                THEN [Slot(x, k, "S_TEXT") EXCEPT !.errs = @ \cup {3}]
                           ELSE Slot(x, k, TypeOf(x, secs[k])),
             NoSlots(secs, types), [k \in 1..Len(secs) |-> k])
TextDataBss == {"S_TEXT", "S_DATA", "S_BSS"}
\* An object file is a sequence of chunks: a kind, a length and a contents.
Chunk(kind, n, v) == [k |-> kind, n |-> n, v |-> v]
DataChunk(bytes) == Chunk("data", Len(bytes), bytes)
Length(chunks) == FoldLeft(LAMBDA sum, c : sum + c.n, 0, chunks)
\* A table of strings, each with a zero behind it; the index is its size.
NoStrings == [strs |-> << >>, index |-> 0]
addString(tab, s) == [strs |-> Append(tab.strs, s), index |-> tab.index + Len(s) + 1]
-----------------------------------------------------------------------------
\* -join: ascending addresses for the sections that have none, then their labels
\* and relocations.  The addresses do not count the padding in front of atoms.
JoinedSize(s) == FoldLeft(LAMBDA sum, a : sum + atom_size(a), 0, s.atoms)
JoinedOrgs(secs, org) ==
    FoldLeft(LAMBDA r, s : IF "ABSOLUTE" \in s.flags THEN [r EXCEPT !.secs = Append(@, s)]
                           ELSE LET at == r.pc + balign(r.pc, s.align)
                                IN  [pc |-> at + JoinedSize(s), secs |-> Append(r.secs, [s EXCEPT !.org = at])],
             [pc |-> org, secs |-> << >>], secs).secs

\* In vasm the addend of a relocation by a label includes the label's offset.
nreloc_real_addend(secs, sym, r) ==
    IF sym.type = "LABSYM" THEN r.addend - (sym.val - secs[sym.sec].org) ELSE r.addend
EXTREF(sym) == sym.type = "IMPORT" \/ "WEAK" \in sym.flags
LOCREF(sym) == sym.type = "LABSYM" /\ "WEAK" \notin sym.flags
\* A field without a sign may hold the signed and the unsigned values of its size;
\* one of 32 bits holds every value of the instances.
reloc_field_overflow(mod, bits, val) ==
    bits < 32 /\ CASE mod = "S" -> val < -(2 ^ (bits - 1)) \/ val >= 2 ^ (bits - 1)
      [] mod = "U" -> val < 0 \/ val >= 2 ^ bits
      [] mod = "" -> val < -(2 ^ (bits - 1)) \/ val >= 2 ^ bits

\* A value of n bytes at an offset of the data.
setval(be, data, offset, n, val) ==
    [i \in 1..Len(data) |-> IF i - 1 \in offset..(offset + n - 1) THEN Ordered(be, Bytes(val, n))[i - offset] ELSE data[i]]
\* patch_nreloc: the bytes of the field hold the value (its mask is not applied).
patch_nreloc(x, r, val, be) ==
    IF reloc_field_overflow(r.mod, r.size, val) THEN [x EXCEPT !.errs = @ \cup {12}]
    ELSE [x EXCEPT !.data = setval(be, @, r.byteoffset, r.size \div 8, val)]
checkdefined(sym) == IF EXTREF(sym) THEN {8} ELSE {}
JoinReloc(secs, syms, pc, x, r, be) ==
    LET sym == syms[r.sym]
        value == get_sym_value(sym) + nreloc_real_addend(secs, sym, r)
        y == [x EXCEPT !.errs = @ \cup checkdefined(sym)]
    IN  CASE r.type = "REL_ABS" -> patch_nreloc(y, r, value, be)
          [] r.type = "REL_PC" -> patch_nreloc(y, r, value - (pc + r.byteoffset), be)
          [] OTHER -> [x EXCEPT !.errs = @ \cup {4}]
JoinAtom(secs, syms, s, i, be) ==
    FoldLeft(LAMBDA x, r : JoinReloc(secs, syms, AtomPc(s, i), x, r, be),
             [data |-> PatchData(s.atoms[i]), errs |-> {}], s.atoms[i].relocs)

JoinedSyms(secs, syms) ==
    [i \in 1..Len(syms) |->
        IF syms[i].type = "LABSYM" /\ "ABSLABEL" \notin syms[i].flags
        THEN [syms[i] EXCEPT !.val = @ + secs[syms[i].sec].org, !.flags = @ \cup {"ABSLABEL"}] ELSE syms[i]]
join_sections(secs, syms, org, be) ==
    LET placed == JoinedOrgs(secs, org)
        labels == JoinedSyms(placed, syms)
        real == {k \in 1..Len(placed) : "ABSOLUTE" \notin placed[k].flags}
        Atom(k, i) == JoinAtom(placed, labels, placed[k], i, be)
    IN  [secs |-> [k \in 1..Len(placed) |->
                     IF k \notin real THEN placed[k]
                     ELSE [placed[k] EXCEPT !.atoms = [i \in 1..Len(@) |-> Patched(@[i], Atom(k, i).data)],
                                            !.pc = EndPc(placed[k]), !.flags = @ \cup {"ABSOLUTE"}]],
         syms |-> labels,
         errs |-> UNION {UNION {Atom(k, i).errs : i \in 1..Len(placed[k].atoms)} : k \in real}]
=============================================================================
