-------------------------------- MODULE Tos ---------------------------------
(***************************************************************************)
(* The Atari formats (output_tos.c): executables, with the relocations as  *)
(* distances, and DRI objects, where a table as large as the contents has  *)
(* a word for each relocated word; and the executables of Human68k         *)
(* (output_xfile.c), which have the same sections.                         *)
(***************************************************************************)
EXTENDS Output

SECT_ALIGN == 2
DRI_NAMELEN == 8
TypeOrMiss(x, s) == get_sec_type(s)
Even(n) == n + balign(n, SECT_ALIGN)
\* Sizes and offsets of the sections, which follow each other.
Layout(secs, org) ==
    LET x == Slots(secs, TextDataBss, LAMBDA s : FALSE, TypeOrMiss)
        Size(i) == IF x.at[i] = 0 THEN 0 ELSE Even(get_sec_size(secs[x.at[i]]))
    IN  [at |-> x.at, idx |-> x.idx, errs |-> x.errs, secs |-> secs,
         secsize |-> [i \in TextDataBss |-> Size(i)],
         secoffs |-> [S_TEXT |-> org, S_DATA |-> org + Size("S_TEXT"), S_BSS |-> org + Size("S_TEXT") + Size("S_DATA")]]
sdabase(l) == l.secoffs.S_DATA + 32768
SymValue(l, sym) == get_sym_value(sym) + IF sym.type = "LABSYM" THEN l.secoffs[l.idx[sym.sec]] ELSE 0

\* The value of a relocation in an executable: patched, or reported.
PatchReloc(l, syms, i, pc, x, r) ==
    LET sym == syms[r.sym]
        y == [x EXCEPT !.errs = @ \cup checkdefined(sym)]
        value == SymValue(l, sym) + nreloc_real_addend(l.secs, sym, r)
        p == patch_nreloc(y, r, l.secoffs[IF sym.sec # 0 THEN l.idx[sym.sec] ELSE "S_TEXT"] + r.addend, TRUE)
    IN  CASE r.type = "REL_SD" -> patch_nreloc(y, r, value - sdabase(l), TRUE)
          [] r.type = "REL_PC" -> patch_nreloc(y, r, value - (l.secoffs[i] + pc + r.byteoffset), TRUE)
          [] r.type = "REL_ABS" -> IF r.size = 32 \/ 12 \in p.errs \ y.errs THEN p ELSE [p EXCEPT !.errs = @ \cup {4}]
          [] OTHER -> [x EXCEPT !.errs = @ \cup {4}]
\* do_relocs: of the relocations of a pattern only the first is applied.
do_relocs(l, syms, i, pc, atom) ==
    LET rs == IF atom.t = "space" /\ atom.relocs # << >> THEN <<[atom.relocs[1] EXCEPT !.byteoffset = 0]>> ELSE atom.relocs
    IN  FoldLeft(LAMBDA x, r : PatchReloc(l, syms, i, pc, x, r), [data |-> PatchData(atom), errs |-> {}], rs)
ZeroOrg(s) == [s EXCEPT !.org = 0]
\* The contents of the section in a slot, relocated in executables.
WriteSection(l, syms, i, exec) ==
    IF l.at[i] = 0 THEN [data |-> << >>, errs |-> {}]
    ELSE LET s == ZeroOrg(l.secs[l.at[i]])
             x == [n \in 1..Len(s.atoms) |-> do_relocs(l, syms, i, AtomPc(s, n), s.atoms[n])]
             out == Contents(IF exec THEN [s EXCEPT !.atoms = [n \in 1..Len(@) |-> Patched(@[n], x[n].data)]] ELSE s)
         IN  [data |-> out \o fwalign(Len(out), SECT_ALIGN), errs |-> IF exec THEN UNION {x[n].errs : n \in 1..Len(x)} ELSE {}]
\* The offsets in the program of the long words that hold an address; the atoms
\* of a section count from pc.
AbsOffsets(l, i, pc) ==
    IF l.at[i] = 0 THEN << >>
    ELSE LET s == [l.secs[l.at[i]] EXCEPT !.org = pc]
             Abs(n) == SelectSeq(SortedRelocs(s.atoms[n]), LAMBDA r : r.type = "REL_ABS" /\ r.size = 32)
         IN  FlattenSeq([n \in 1..Len(s.atoms) |->
                 [k \in 1..Len(Abs(n)) |-> l.secoffs[i] + AtomPc(s, n) + Abs(n)[k].byteoffset]])
-----------------------------------------------------------------------------
\* Symbols whose names start with a dot are internal as well.
TosInternal(sym) == Internal(sym) \/ SubSeq(sym.name, 1, 1) = "."
Counted(o, sym) == ~TosInternal(sym)
                   /\ (o.exec_out => "COMMON" \notin sym.flags /\ sym.type \in {"LABSYM", "EXPRESSION"})
HiSoft(o) == o.hisoft /\ o.exec_out /\ ~o.szbx
Extra(o, name) == IF Len(name) <= DRI_NAMELEN THEN 0
                  ELSE IF o.szbx THEN (Len(name) - 1) \div DRI_NAMELEN ELSE IF HiSoft(o) THEN 1 ELSE 0
\* The index of every symbol in the table, and the number of its entries.
TosIdx(o, syms) == FoldLeft(LAMBDA x, y : [idx |-> Append(x.idx, x.n),
                                           n |-> IF Counted(o, y) THEN x.n + 1 + Extra(o, y.name) ELSE x.n],
                            [idx |-> << >>, n |-> IF o.szbx THEN 1 ELSE 0], syms)
tos_initwrite(o, secs, syms) ==
    LET l == Layout(secs, o.zfile)
        x == TosIdx(o, syms)
    IN  [l |-> l, idx |-> x.idx, nsyms |-> IF (o.exec_out /\ o.no_symbols) \/ o.zfile # 0 THEN 0 ELSE x.n,
         errs |-> l.errs \cup IF \E i \in 1..Len(syms) : ~TosInternal(syms[i]) /\ "WEAK" \in syms[i].flags THEN {10} ELSE {}]
tos_sym_value(o, l, sym) == IF o.monst THEN SymValue(l, sym) ELSE get_sym_value(sym)

DriEntry(name, type, value) == Chunk("sym", 14, [name |-> name, type |-> type, value |-> value])
Part(name, n) == SubSeq(name, n * DRI_NAMELEN + 1, IF (n + 1) * DRI_NAMELEN < Len(name) THEN (n + 1) * DRI_NAMELEN ELSE Len(name))
write_dri_sym(o, name, type, value) ==
    IF Len(name) > DRI_NAMELEN /\ HiSoft(o)
    THEN <<DriEntry(Part(name, 0), type \cup {"LONGNAME"}, value),
           Chunk("sym", 14, [name |-> SubSeq(name, 9, IF Len(name) < 22 THEN Len(name) ELSE 22), type |-> {"REST"}, value |-> 0])>>
    ELSE <<DriEntry(Part(name, 0), type, value)>>
         \o [n \in 1..(IF o.szbx THEN (Len(name) - 1) \div DRI_NAMELEN ELSE 0) |-> DriEntry(Part(name, n), {"XFLAGS"}, 0)]
LabType(l, sym) == IF sym.type = "LABSYM" THEN l.idx[sym.sec] ELSE IF sym.type = "IMPORT" THEN "EXTERNAL" ELSE "EQUATED"
Global(sym) == IF "EXPORT" \in sym.flags /\ sym.type # "IMPORT" THEN {"GLOBAL"} ELSE {}
tos_symboltable(o, l, syms) ==
    FlattenSeq([k \in 1..Len(syms) |->
        LET y == syms[k]
        IN  IF TosInternal(y) \/ "COMMON" \in y.flags \/ y.type \notin {"LABSYM", "EXPRESSION"} THEN << >>
            ELSE write_dri_sym(o, y.name, {LabType(l, y), "DEFINED"} \cup Global(y), tos_sym_value(o, l, y))])
dri_symboltable(o, l, syms) ==
    FlattenSeq([k \in 1..Len(syms) |->
        LET y == syms[k]
        IN  IF TosInternal(y) THEN << >>
            ELSE write_dri_sym(o, y.name, {LabType(l, y), "DEFINED"} \cup Global(y),
                               IF "COMMON" \in y.flags THEN y.size ELSE get_sym_value(y))])

\* A distance: a 1 stands for 254 bytes without a relocation.
\* Mutant: it stands for 255 bytes.
Distance_255(d) == Rep(<<1>>, (d - 1) \div 255) \o <<((d - 1) % 255) + 1>>
Distance(d) == IF d = 0 THEN <<0>> ELSE Rep(<<1>>, (d - 1) \div 254) \o <<((d - 1) % 254) + 1>>
tos_writerelocs(l) ==
    LET offs == AbsOffsets(l, "S_TEXT", 0) \o AbsOffsets(l, "S_DATA", 0)
    IN  IF offs = << >> THEN fw32(0, TRUE)
        ELSE fw32(offs[1], TRUE) \o FlattenSeq([n \in 1..(Len(offs) - 1) |-> Distance(offs[n + 1] - offs[n])]) \o <<0>>

\* The table of an object: the words of a relocated long word are 5 and the type.
sect_relocs == [S_TEXT |-> 2, S_DATA |-> 1, S_BSS |-> 3]
DriType(l, sym, r) ==
    LET known == sym.type \in {"LABSYM", "IMPORT"} /\ r.size = 16
    IN  CASE r.type = "REL_ABS" /\ r.size \in {16, 32} -> IF sym.type = "LABSYM" THEN sect_relocs[l.idx[sym.sec]]
                                                          ELSE IF sym.type = "IMPORT" THEN 4 ELSE 0
          [] r.type = "REL_PC" -> IF known THEN 6 ELSE 0
          [] r.type = "REL_SD" -> IF known THEN 4 ELSE 0
          [] OTHER -> 0
DriReloc(l, syms, idx, x, r) ==
    LET t == DriType(l, syms[r.sym], r)
        gap == Zeros(r.byteoffset - Len(x.data))
    IN  IF t = 0 \/ r.bitoffset # 0 \/ r.mask # "all" THEN [data |-> x.data \o gap, errs |-> x.errs \cup {4}]
        ELSE [data |-> x.data \o gap \o (IF r.size = 32 THEN fw16(5, TRUE) ELSE << >>)
                       \o fw16(IF t \in {4, 6} THEN t + 8 * idx[r.sym] ELSE t, TRUE),
              errs |-> x.errs \cup IF t \in {4, 6} /\ idx[r.sym] > 8191 THEN {19} ELSE {}]
DriAtom(l, syms, idx, atom) ==
    LET x == FoldLeft(LAMBDA y, r : DriReloc(l, syms, idx, y, r), [data |-> << >>, errs |-> {}], SortedRelocs(atom))
    IN  [data |-> x.data \o Zeros(atom_size(atom) - Len(x.data)), errs |-> x.errs]
dri_writerelocs(l, syms, idx, i) ==
    IF l.at[i] = 0 THEN [data |-> << >>, errs |-> {}]
    ELSE LET s == ZeroOrg(l.secs[l.at[i]])
             x == [n \in 1..Len(s.atoms) |-> DriAtom(l, syms, idx, s.atoms[n])]
             out == Contents([s EXCEPT !.atoms = [n \in 1..Len(@) |-> Data(@[n].align, x[n].data)]])
         IN  [data |-> out \o fwalign(Len(out), SECT_ALIGN), errs |-> UNION {x[n].errs : n \in 1..Len(x)}]

TextRelocs(o, w, syms) ==
    IF o.exec_out THEN [data |-> IF o.zfile # 0 THEN << >> ELSE tos_writerelocs(w.l), errs |-> {}]
    ELSE dri_writerelocs(w.l, syms, w.idx, "S_TEXT")
DataRelocs(o, w, syms) ==
    IF o.exec_out THEN [data |-> << >>, errs |-> {}] ELSE dri_writerelocs(w.l, syms, w.idx, "S_DATA")
TosFile(o, w, syms, text, data, trel, drel) ==
    LET nsyms == IF o.szbx /\ w.nsyms = 1 THEN 0 ELSE w.nsyms
    IN  [out |-> <<Chunk("hdr", 28, [tlen |-> w.l.secsize.S_TEXT, dlen |-> w.l.secsize.S_DATA, blen |-> w.l.secsize.S_BSS,
                                     slen |-> nsyms * 14, abs |-> o.zfile # 0]),
                   DataChunk(text.data), DataChunk(data.data)>>
                 \o (IF nsyms = 0 THEN << >>
                     ELSE (IF o.szbx THEN write_dri_sym(o, "SozobonX", {"XFLAGS"}, 0) ELSE << >>)
                          \o IF o.exec_out THEN tos_symboltable(o, w.l, syms) ELSE dri_symboltable(o, w.l, syms))
                 \o <<DataChunk(trel.data), DataChunk(drel.data)>>,
         errs |-> w.errs \cup text.errs \cup data.errs \cup trel.errs \cup drel.errs]
WriteTos(o, w, syms) ==
    TosFile(o, w, syms, WriteSection(w.l, syms, "S_TEXT", o.exec_out), WriteSection(w.l, syms, "S_DATA", o.exec_out),
            TextRelocs(o, w, syms), DataRelocs(o, w, syms))
tos_write_output(o, secs, syms) == WriteTos(o, tos_initwrite(o, secs, syms), syms)
-----------------------------------------------------------------------------
\* Human68k.  The pc of a section's relocations starts with a value that is not
\* initialised: o.pc0.
XfileDistance(d) == IF d > 65535 THEN fw16(1, TRUE) \o fw32(d, TRUE) ELSE fw16(d, TRUE)
xfile_writerelocs(o, l) ==
    LET offs == AbsOffsets(l, "S_TEXT", o.pc0) \o AbsOffsets(l, "S_DATA", o.pc0)
    IN  FlattenSeq([n \in 1..Len(offs) |-> XfileDistance(offs[n] - IF n = 1 THEN 0 ELSE offs[n - 1])])
xfile_symboltable(l, syms) ==
    LET listed == SelectSeq(syms, LAMBDA y : ~Internal(y) /\ y.type \in {"LABSYM", "EXPRESSION"})
    IN  [k \in 1..Len(listed) |-> Chunk("sym", 6 + Even(Len(listed[k].name) + 1),
                                        [name |-> listed[k].name, type |-> LabType(l, listed[k]), value |-> SymValue(l, listed[k])])]
\* The address of the start label; its name is o.exec.
ExecOffset(o, l, syms) == IF o.exec = "" \/ find(syms, o.exec) = {} THEN 0
                          ELSE SymValue(l, syms[CHOOSE i \in find(syms, o.exec) : \A j \in find(syms, o.exec) : i <= j])
XFile(o, l, syms, text, data, rel, tab) ==
    LET weak == ~o.no_symbols /\ \E i \in 1..Len(syms) : ~Internal(syms[i]) /\ syms[i].type # "IMPORT" /\ "WEAK" \in syms[i].flags
    IN  [out |-> <<Chunk("hdr", 64, [textsz |-> l.secsize.S_TEXT, datasz |-> l.secsize.S_DATA, heapsz |-> l.secsize.S_BSS,
                                     execaddr |-> ExecOffset(o, l, syms), relocsz |-> Len(rel), syminfsz |-> Length(tab)]),
                   DataChunk(text.data), DataChunk(data.data), DataChunk(rel)>> \o tab,
         errs |-> l.errs \cup text.errs \cup data.errs \cup (IF weak THEN {10} ELSE {})
                  \cup IF o.exec # "" /\ find(syms, o.exec) = {} THEN {6} ELSE {}]
WriteX(o, l, syms) ==
    XFile(o, l, syms, WriteSection(l, syms, "S_TEXT", TRUE), WriteSection(l, syms, "S_DATA", TRUE),
          xfile_writerelocs(o, l), IF o.no_symbols THEN << >> ELSE xfile_symboltable(l, syms))
xfile_write_output(o, secs, syms) == WriteX(o, Layout(secs, 0), syms)
=============================================================================
