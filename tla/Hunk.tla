-------------------------------- MODULE Hunk --------------------------------
(***************************************************************************)
(* The Amiga hunk format (output_hunk.c): object files and executables.    *)
(* The file is a sequence of hunks; sizes are in long words as in the file,*)
(* the contents are bytes.  o.maxrel stands for the 65536 relocations that *)
(* LoadSeg() accepts in a group (65535 in the short form), o.near for the  *)
(* 65536 bytes that a short offset reaches.                                *)
(***************************************************************************)
EXTENDS Output

strlen32(s) == (Len(s) + 3) \div 4
LongWords(n) == (n + 3) \div 4
scan_attr(s) == CASE s.attr = "c" -> "CODE" [] s.attr \in {"d", ""} -> "DATA" [] s.attr = "u" -> "BSS"
                  [] OTHER -> "DATA"
AttrErrors(s) == IF s.attr \in {"c", "d", "", "u"} THEN {} ELSE {3}
\* The memory a hunk asks for: none, one of two flags, or a long word of flags.
fwmemflags(o, s) == IF s.mem = 0 THEN <<"any">> ELSE IF s.mem \in {2, 4} THEN <<"flag", s.mem>>
                    ELSE IF o.kick1 THEN <<"any">> ELSE <<"type", s.mem>>
MemErrors(o, s) == IF o.kick1 /\ s.mem \notin {0, 2, 4} THEN {24} ELSE {}
hunk_size(s) == LongWords(get_sec_size(s))

\* How much of a section is in the file: up to the last atom that is not zero
\* (-databss), or to where space reserved for that begins.
IsZeroAtom(a) == a.relocs = << >> /\ LET v == IF a.t = "data" THEN a.data ELSE a.fill IN \A i \in 1..Len(v) : v[i] = 0
BehindAtom(s, i) == AtomPc(s, i) + atom_size(s.atoms[i])
file_size(s) == FoldLeft(LAMBDA z, i : IF IsZeroAtom(s.atoms[i]) THEN z ELSE BehindAtom(s, i), 0,
                         [i \in 1..Len(s.atoms) |-> i])
IsDatabss(a) == a.t = "space" /\ a.databss
sect_size(s) ==
    LET dx == FoldLeft(LAMBDA d, i : LET a == s.atoms[i]
                                     IN  IF IsDatabss(a) THEN IF d = 0 THEN AtomPc(s, i) ELSE d
                                         ELSE IF atom_size(a) > 0 THEN 0 ELSE d,
                       0, [i \in 1..Len(s.atoms) |-> i])
    IN  IF dx # 0 THEN dx ELSE EndPc(s)
-----------------------------------------------------------------------------
\* prepare_sections: sections that stay get an index; common symbols that no
\* relocation names get a reference of 4 bytes in the first initialised section;
\* weak symbols become global; absolute ones belong to the first section.
Kept(o, s) == o.keepempty \/ get_sec_size(s) # 0 \/ "HAS_SYMBOLS" \in s.flags
CommReferenced(secs, i) == \E k \in 1..Len(secs) : \E n \in 1..Len(RelocsOf(secs[k])) :
    LET r == RelocsOf(secs[k])[n].r IN r.sym = i /\ r.type \in {"REL_ABS", "REL_PC"} /\ r.size = 32
DummyReference(i) == [Data(4, Zeros(4)) EXCEPT !.relocs = <<Reloc("REL_ABS", 0, 32, i, 0)>>]
dummy_section == [Section("CODE", "c", 8, 0, << >>) EXCEPT !.flags = {"HAS_SYMBOLS"}]
AddDummies(s, commons) == [s EXCEPT !.atoms = @ \o [n \in 1..Len(commons) |-> DummyReference(commons[n])],
                                    !.pc = EndPc([s EXCEPT !.atoms = @ \o [n \in 1..Len(commons) |-> DummyReference(commons[n])]])]
\* A relocation of no type becomes one of the byte at its atom.
ConvertNone(r) == IF r.type = "REL_NONE" THEN [r EXCEPT !.type = "REL_ABS", !.byteoffset = 0, !.size = 8, !.addend = 0] ELSE r
ConvertNones(o, s) == IF o.exec_out THEN s
                      ELSE [s EXCEPT !.atoms = [i \in 1..Len(@) |-> [@[i] EXCEPT !.relocs = [k \in 1..Len(@) |-> ConvertNone(@[k])]]]]
prepare_sections(o, secs0, syms0) ==
    LET kept == SelectSeq([k \in 1..Len(secs0) |-> ConvertNones(o, secs0[k])], LAMBDA s : Kept(o, s))
        commons == SelectSeq([i \in 1..Len(syms0) |-> i],
                             LAMBDA i : ~Internal(syms0[i]) /\ "COMMON" \in syms0[i].flags /\ ~CommReferenced(secs0, i))
        nonbss == {k \in 1..Len(kept) : scan_attr(kept[k]) # "BSS"}
        first == CHOOSE k \in nonbss : \A j \in nonbss : k <= j
        absolute == \E i \in 1..Len(syms0) : syms0[i].type = "EXPRESSION" /\ "EXPORT" \in syms0[i].flags
        secs == IF commons # << >> /\ nonbss # {} THEN [kept EXCEPT ![first] = AddDummies(@, commons)]
                ELSE IF commons # << >> THEN Append(kept, AddDummies(dummy_section, commons))
                ELSE IF absolute /\ secs0 = << >> THEN <<dummy_section>> ELSE kept
        IdxOf(k) == IF Kept(o, secs0[k]) THEN Cardinality({j \in 1..k : Kept(o, secs0[j])}) ELSE 0
        weak(y) == IF "WEAK" \in y.flags /\ "COMMON" \notin y.flags THEN [y EXCEPT !.flags = (@ \ {"WEAK"}) \cup {"EXPORT"}] ELSE y
    IN  [secs |-> secs,
         \* the number of the section a symbol is listed in, from 1
         syms |-> [i \in 1..Len(syms0) |->
                     LET y == weak(syms0[i])
                     IN  IF y.type = "LABSYM" THEN [y EXCEPT !.sec = IdxOf(@)]
                         ELSE IF y.type = "EXPRESSION" /\ "EXPORT" \in y.flags THEN [y EXCEPT !.sec = 1] ELSE y],
         errs |-> IF \E i \in 1..Len(syms0) : weak(syms0[i]) # syms0[i] THEN {10} ELSE {}]
-----------------------------------------------------------------------------
\* Relocations by labels, and references to external symbols.
Whole(r) == r.bitoffset = 0 /\ r.mask = "all"
convert_reloc(o, syms, pc, r) ==
    LET id == CASE r.type = "REL_ABS" /\ r.size = 32 -> "ABSRELOC32"
                [] r.type = "REL_PC" /\ r.size = 8 -> "RELRELOC8"
                [] r.type = "REL_PC" /\ r.size = 16 -> "RELRELOC16"
                [] r.type = "REL_PC" /\ r.size = 32 /\ ~o.kick1 -> "RELRELOC32"
                [] r.type = "REL_SD" /\ r.size = 16 -> "DREL16"
                [] OTHER -> ""
    IN  IF LOCREF(syms[r.sym]) /\ Whole(r) /\ id # ""
        THEN <<[id |-> id, offset |-> pc + r.byteoffset, index |-> syms[r.sym].sec - 1]>> ELSE << >>
convert_xref(o, syms, pc, r) ==
    LET y == syms[r.sym]
        com == "COMMON" \in y.flags
        type == CASE r.type = "REL_ABS" /\ com -> IF r.size = 32 THEN "ABSCOMMON" ELSE ""
                  [] r.type = "REL_ABS" -> IF r.size = 32 THEN "ABSREF32"
                                           ELSE (IF o.kick1 THEN "RELREF" ELSE "ABSREF") \o IF r.size = 8 THEN "8" ELSE "16"
                  [] r.type = "REL_PC" /\ r.size = 32 -> IF o.kick1 THEN "" ELSE IF com THEN "RELCOMMON" ELSE "RELREF32"
                  [] r.type = "REL_PC" -> IF com THEN "" ELSE IF r.size = 8 THEN "RELREF8" ELSE "RELREF16"
                  [] r.type = "REL_SD" -> "DEXT16"
                  [] OTHER -> ""
    IN  IF EXTREF(y) /\ Whole(r) /\ type # ""
        THEN <<[name |-> y.name, type |-> type, size |-> IF com THEN y.size ELSE 0, offset |-> pc + r.byteoffset]>> ELSE << >>
\* An executable has no references, and only relocations of long words.
process_reloc(o, syms, x, t) ==
    LET hr == convert_reloc(o, syms, t.pc, t.r)
        xr == convert_xref(o, syms, t.pc, t.r)
        odd(e) == IF e.offset % 2 = 1 /\ t.r.size > 8 THEN {22} ELSE {}
    IN  IF hr # << >> /\ (~o.exec_out \/ hr[1].id \in {"ABSRELOC32", "RELRELOC32"})
        THEN [x EXCEPT !.relocs = @ \o hr, !.errs = @ \cup odd(hr[1])]
        ELSE IF xr = << >> THEN [x EXCEPT !.errs = @ \cup {4}]
        ELSE IF o.exec_out THEN [x EXCEPT !.errs = @ \cup {8}]
        ELSE [x EXCEPT !.xrefs = @ \o xr, !.errs = @ \cup odd(xr[1])]
process_relocs(o, syms, s) ==
    FoldLeft(LAMBDA x, t : process_reloc(o, syms, x, t), [relocs |-> << >>, xrefs |-> << >>, errs |-> {}], RelocsOf(s))

\* The offsets into one section, in groups of at most o.maxrel.
Groups(o, idx, offsets) ==
    [g \in 1..((Len(offsets) + o.maxrel - 1) \div o.maxrel) |->
        LET part == SubSeq(offsets, (g - 1) * o.maxrel + 1, IF g * o.maxrel < Len(offsets) THEN g * o.maxrel ELSE Len(offsets))
        IN  [n |-> Len(part), idx |-> idx, offs |-> part]]
\* One hunk for the relocations of a type, and what is left for other hunks.
reloc_hunk(o, r, type, short, sec_cnt) ==
    LET taken(e) == e.id = type /\ (~short \/ e.offset < o.near)
        offsets(idx) == LET es == SelectSeq(r.relocs, LAMBDA e : taken(e) /\ e.index = idx)
                        IN  [k \in 1..Len(es) |-> es[k].offset]
        groups == FlattenSeq([i \in 1..sec_cnt |-> Groups(o, i - 1, offsets(i - 1))])
    IN  [relocs |-> SelectSeq(r.relocs, LAMBDA e : ~(taken(e) /\ e.index \in 0..(sec_cnt - 1))),
         out |-> IF groups = << >> THEN r.out
                 ELSE Append(r.out, [h |-> IF short /\ type = "ABSRELOC32" THEN "DREL32" ELSE type, groups |-> groups])]
report_bad_relocs(r) == IF r.relocs # << >> THEN {4} ELSE {}

\* The references to a symbol in one way are listed together.
ext_refs(xrefs) ==
    LET firsts == SelectSeq([i \in 1..Len(xrefs) |-> i],
                            LAMBDA i : ~\E j \in 1..(i - 1) : xrefs[j].name = xrefs[i].name /\ xrefs[j].type = xrefs[i].type)
        same(i) == SelectSeq(xrefs, LAMBDA x : x.name = xrefs[i].name /\ x.type = xrefs[i].type)
    IN  [k \in 1..Len(firsts) |->
            [type |-> xrefs[firsts[k]].type, name |-> xrefs[firsts[k]].name, size |-> xrefs[firsts[k]].size, n |-> Len(same(firsts[k])),
             offs |-> [m \in 1..Len(same(firsts[k])) |-> same(firsts[k])[m].offset]]]
\* The symbols of a section, the one found last first.
ext_defs(syms, type, flag, k, xtype) ==
    LET these == Reverse(SelectSeq(syms, LAMBDA y : ~Internal(y) /\ y.type = type /\ y.sec = k /\ (flag = "" \/ flag \in y.flags)))
    IN  [n \in 1..Len(these) |-> [type |-> xtype, name |-> these[n].name, value |-> get_sym_value(these[n])]]
ExtHunk(entries) == IF entries = << >> THEN << >> ELSE <<[h |-> "EXT", entries |-> entries]>>
SymbolHunk(o, syms, k) == LET e == ext_defs(syms, "LABSYM", IF o.xdefonly THEN "XDEF" ELSE "", k, "SYMB")
                          IN  IF o.no_symbols \/ e = << >> THEN << >> ELSE <<[h |-> "SYMBOL", entries |-> e]>>

\* Lines of the source: a block for each run of lines of one file, an entry for
\* each change of the line, with the offset from the block's.
add_linedebug(blocks, file, line, off) ==
    LET b == IF blocks = << >> \/ Last(blocks).file # file THEN Append(blocks, [file |-> file, offset |-> off, lines |-> << >>])
             ELSE blocks
        last == Last(b)
    IN  IF last.lines # << >> /\ Last(last.lines)[1] = line THEN b
        ELSE [b EXCEPT ![Len(b)].lines = Append(@, <<line, off - last.offset>>)]
LineBlocks(o, s) == IF ~o.linedebug THEN << >>
                    ELSE FoldLeft(LAMBDA b, i : add_linedebug(b, s.atoms[i].src[1], s.atoms[i].src[2], AtomPc(s, i)),
                                  << >>, [i \in 1..Len(s.atoms) |-> i])
linedebug_hunk(o, s) == IF o.no_symbols THEN << >>
                        ELSE LET b == LineBlocks(o, s)
                             IN  [k \in 1..Len(b) |-> [h |-> "DEBUG", size |-> strlen32(b[k].file) + Len(b[k].lines) * 2 + 3,
                                                       file |-> b[k].file, offset |-> b[k].offset, lines |-> b[k].lines]]
-----------------------------------------------------------------------------
\* The padding of code is made of instructions, that of odd code of zeros.
fwnopalign(o, n) == [i \in 1..balign(n, 4) |-> Ordered(TRUE, Bytes(o.hunk_pad, 2))[((i - 1) % 2) + 1]]
HunkPad(o, s, n) == IF scan_attr(s) = "CODE" /\ n % 2 = 0 THEN fwnopalign(o, n) ELSE fwalign(n, 4)
Body(h, size, data) == <<[h |-> h, size |-> size, data |-> data]>>

ObjectHunks(o, p, k) ==
    LET s == p.secs[k]
        type == scan_attr(s)
        x == IF type = "BSS" THEN [relocs |-> << >>, xrefs |-> << >>, errs |-> {}] ELSE process_relocs(o, p.syms, s)
        data == IF type = "BSS" THEN << >> ELSE Contents(s) \o HunkPad(o, s, Len(Contents(s)))
        r == FoldLeft(LAMBDA y, t : reloc_hunk(o, y, t, FALSE, Len(p.secs)), [relocs |-> x.relocs, out |-> << >>],
                      <<"ABSRELOC32", "RELRELOC8", "RELRELOC16", "RELRELOC26", "RELRELOC32", "DREL16">>)
    IN  [out |-> <<[h |-> "NAME", size |-> strlen32(s.name), name |-> s.name, mem |-> fwmemflags(o, s)]>>
                 \o Body(type, hunk_size(s), data) \o r.out
                 \o ExtHunk(ext_refs(x.xrefs)
                            \o (IF k = 1 THEN ext_defs(p.syms, "EXPRESSION", "EXPORT", 1, "ABS") ELSE << >>)
                            \o ext_defs(p.syms, "LABSYM", "EXPORT", k, "DEF"))
                 \o SymbolHunk(o, p.syms, k) \o linedebug_hunk(o, s) \o <<[h |-> "END"]>>,
         errs |-> x.errs \cup report_bad_relocs(r) \cup AttrErrors(s) \cup MemErrors(o, s)]
\* Without a section there is an empty hunk of code.
Hunks(hs) == IF hs = << >> THEN Body("CODE", 0, << >>) \o <<[h |-> "END"]>> ELSE FlattenSeq([k \in 1..Len(hs) |-> hs[k].out])
HunkErrors(hs) == UNION {hs[k].errs : k \in 1..Len(hs)}
ObjectUnit(o, p, hs) ==
    [out |-> <<[h |-> "UNIT", size |-> strlen32(o.filename), name |-> o.filename]>> \o Hunks(hs), errs |-> p.errs \cup HunkErrors(hs)]
PreparedObject(o, p) == ObjectUnit(o, p, [k \in 1..Len(p.secs) |-> ObjectHunks(o, p, k)])
hunk_write_object(o, secs, syms) == PreparedObject(o, prepare_sections(o, secs, syms))

\* Executables: an atom that starts behind the size in the file is not written.
ExecBytes(s, size) == WriteAtoms(s, Cardinality({i \in 1..Len(s.atoms) : (IF i = 1 THEN 0 ELSE BehindAtom(s, i - 1)) < size})).out
ExecHunks(o, p, k) ==
    LET s == p.secs[k]
        bss == scan_attr(s) = "BSS"
        size == IF o.databss THEN file_size(s) ELSE sect_size(s)
        x == IF bss THEN [relocs |-> << >>, xrefs |-> << >>, errs |-> {}] ELSE process_relocs(o, p.syms, s)
        short == IF o.kick1 THEN [relocs |-> x.relocs, out |-> << >>]
                 ELSE reloc_hunk(o, [relocs |-> x.relocs, out |-> << >>], "ABSRELOC32", TRUE, Len(p.secs))
        long == reloc_hunk(o, short, "ABSRELOC32", FALSE, Len(p.secs))
        r == IF o.kick1 THEN long ELSE reloc_hunk(o, long, "RELRELOC32", TRUE, Len(p.secs))
    IN  [out |-> (IF bss THEN Body("BSS", hunk_size(s), << >>)
                  ELSE Body(scan_attr(s), LongWords(size), ExecBytes(s, size) \o HunkPad(o, s, size)))
                 \o r.out \o SymbolHunk(o, p.syms, k) \o linedebug_hunk(o, s) \o <<[h |-> "END"]>>,
         errs |-> x.errs \cup report_bad_relocs(r) \cup AttrErrors(s)
                  \cup IF bss /\ o.kick1 /\ hunk_size(s) > 65536 THEN {18} ELSE {}]
LoadFile(o, p, hs) ==
    [out |-> <<[h |-> "HEADER", last |-> IF hs = << >> THEN 0 ELSE Len(hs) - 1,
                sizes |-> IF hs = << >> THEN <<0>> ELSE [k \in 1..Len(hs) |-> hunk_size(p.secs[k])]]>> \o Hunks(hs),
     errs |-> p.errs \cup HunkErrors(hs) \cup UNION {MemErrors(o, p.secs[k]) : k \in 1..Len(hs)}]
PreparedExec(o, p) == LoadFile(o, p, [k \in 1..Len(p.secs) |-> ExecHunks(o, p, k)])
hunk_write_exec(o, secs, syms) == PreparedExec(o, prepare_sections(o, secs, syms))
hunk_write_output(o, secs, syms) == IF o.exec_out THEN hunk_write_exec(o, secs, syms) ELSE hunk_write_object(o, secs, syms)
=============================================================================
