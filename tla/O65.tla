-------------------------------- MODULE O65 ---------------------------------
(***************************************************************************)
(* The o65 object format (output_o65.c) with words of 2 bytes: text, data, *)
(* bss and zero page sections, imports, tables of relocations as distances *)
(* and exported symbols.  File options (names and dates) are left out.     *)
(***************************************************************************)
EXTENDS Output

Segments == <<"S_TEXT", "S_DATA", "S_BSS", "S_ZERO">>
SegmentSet == {Segments[i] : i \in 1..Len(Segments)}
SEG_UND == 0
SEG_ABS == 1
SegId(i) == 1 + CHOOSE n \in 1..Len(Segments) : Segments[n] = i
fwsize(w) == fw16(w, FALSE)

\* ORG sections take the text, or the data when there is a text and no data.
\* o.bssname holds the names that contain "bss".
O65Type(o, x, s) ==
    LET i == get_sec_type(s)
    IN  CASE i = "S_ABS" -> IF x.at.S_TEXT # 0 /\ x.at.S_DATA = 0 THEN "S_DATA" ELSE "S_TEXT"
          [] i = "S_BSS" /\ s.name \notin o.bssnames -> "S_ZERO"
          [] OTHER -> i
\* Start addresses: fixed by ORG, set by an option (o.org), or one behind the
\* other in executables.
StartAddress(o, x, r, i) ==
    IF x.at[i] = 0 THEN r
    ELSE LET s == r.secs[x.at[i]]
             first == IF r.addr = << >> THEN s.org ELSE r.addr[1]
             moved == "ABSOLUTE" \notin s.flags /\ i \notin DOMAIN o.org /\ o.exec_out /\ s.org = 0
             org == IF "ABSOLUTE" \in s.flags THEN s.org ELSE IF i \in DOMAIN o.org THEN o.org[i] ELSE IF moved THEN first ELSE s.org
             addr == IF "ABSOLUTE" \in s.flags \/ i \in DOMAIN o.org THEN org ELSE first
             known == "ABSOLUTE" \in s.flags \/ i \in DOMAIN o.org \/ moved
         IN  [secs |-> [r.secs EXCEPT ![x.at[i]].org = org], addr |-> <<addr + get_sec_size(s)>>,
              orgs |-> [r.orgs EXCEPT ![i] = IF known THEN org ELSE @]]
o65_initwrite(o, secs) ==
    LET x == Slots(secs, SegmentSet, LAMBDA s : FALSE, LAMBDA y, s : O65Type(o, y, s))
        Size(i) == IF x.at[i] = 0 THEN 0 ELSE get_sec_size(secs[x.at[i]])
        r == FoldLeft(LAMBDA y, i : StartAddress(o, x, y, i),
                      [secs |-> secs, addr |-> << >>, orgs |-> [i \in SegmentSet |-> IF i \in DOMAIN o.org THEN o.org[i] ELSE 0]], Segments)
    IN  [at |-> x.at, idx |-> x.idx, errs |-> x.errs, secs |-> r.secs, secorgs |-> r.orgs, secsizes |-> [i \in SegmentSet |-> Size(i)],
         imports |-> << >>, relocs |-> [S_TEXT |-> << >>, S_DATA |-> << >>]]
\* Whether text, data and bss follow each other.
o65_simple(w) ==
    LET used == SelectSeq(<<"S_TEXT", "S_DATA", "S_BSS">>, LAMBDA i : w.at[i] # 0)
    IN  \A n \in 2..Len(used) : w.secorgs[used[n]] = FoldLeft(LAMBDA a, m : a + w.secsizes[used[m]], w.secorgs[used[1]], [m \in 1..(n - 1) |-> m])
o65_header(o, w) == [obj |-> ~o.exec_out, simple |-> o.exec_out /\ o65_simple(w), paged |-> o.paged, orgs |-> w.secorgs, sizes |-> w.secsizes]

\* The type of a relocation, 0 when there is none: a byte, a word, 24 bits, or
\* the high byte of an address.
o65_rtype(r) == IF r.type # "REL_ABS" \/ r.bitoffset # 0 THEN 0
                ELSE CASE r.mask = "all" -> (CASE r.size = 8 -> 33 [] r.size = 16 -> 128 [] r.size = 24 -> 192 [] OTHER -> 0)
                       [] r.mask = "high" -> IF r.size \in {8, 16} THEN 64 ELSE 0
                       [] r.mask = "lo" -> IF r.size \in {8, 16} THEN 32 ELSE 0
                       [] OTHER -> 0
\* Sorted by their offsets; one with an offset that is known goes behind the others.
add_o65reloc(list, e) == LET before == SelectSeq(list, LAMBDA q : q.offset <= e.offset)
                         IN  before \o <<e>> \o SubSeq(list, Len(before) + 1, Len(list))
add_import(w, name) == IF \E i \in 1..Len(w.imports) : w.imports[i] = name THEN w ELSE [w EXCEPT !.imports = Append(@, name)]
ImportIdx(w, name) == (CHOOSE i \in 1..Len(w.imports) : w.imports[i] = name) - 1
O65Reloc(w, syms, i, offs, x, r) ==
    LET type == o65_rtype(r)
        sym == syms[r.sym]
        imp == sym.type = "IMPORT"
        v == IF imp THEN add_import(x.w, sym.name) ELSE x.w
        a == r.addend + IF imp THEN 0 ELSE v.secs[sym.sec].org
        y == patch_nreloc([data |-> x.data, errs |-> IF type = 33 /\ (a < -255 \/ a > 255) THEN {12} ELSE {}], r,
                          CASE type \in {32, 33} -> a % 256 [] type = 64 -> (a \div 256) % 256 [] OTHER -> a, FALSE)
        e == [offset |-> offs + r.byteoffset, type |-> IF type = 33 THEN 32 ELSE type,
              segid |-> IF imp THEN SEG_UND ELSE SegId(v.idx[sym.sec]), import |-> IF imp THEN ImportIdx(v, sym.name) ELSE 0, addend |-> a]
    IN  IF type = 0 THEN [x EXCEPT !.w.errs = @ \cup {4}]
        ELSE [data |-> y.data, w |-> [v EXCEPT !.relocs[i] = add_o65reloc(@, e), !.errs = @ \cup y.errs]]
\* The relocations are made while the contents are written.
o65_writesection(w0, syms, i) ==
    IF w0.at[i] = 0 THEN [w |-> w0, out |-> << >>]
    ELSE LET s == w0.secs[w0.at[i]]
             At(x, n) == FoldLeft(LAMBDA y, r : O65Reloc(w0, syms, i, AtomPc(s, n) - s.org, y, r),
                                  [data |-> PatchData(s.atoms[n]), w |-> x.w], s.atoms[n].relocs)
             z == FoldLeft(LAMBDA x, n : LET y == At(x, n) IN [w |-> y.w, atoms |-> Append(x.atoms, Patched(s.atoms[n], y.data))],
                           [w |-> w0, atoms |-> << >>], [n \in 1..Len(s.atoms) |-> n])
         IN  [w |-> z.w, out |-> Contents([s EXCEPT !.atoms = z.atoms])]

\* A distance: 255 stands for 254 bytes without a relocation.
RelocDistance(d) == Rep(<<255>>, (d - 1) \div 254) \o <<((d - 1) % 254) + 1>>
o65_writerelocs(o, list) ==
    FlattenSeq([n \in 1..Len(list) |->
        LET r == list[n]
        IN  RelocDistance(r.offset - IF n = 1 THEN -1 ELSE list[n - 1].offset) \o <<r.type + r.segid>>
            \o (IF r.segid = SEG_UND THEN fwsize(r.import) ELSE << >>)
            \o (IF r.type = 64 /\ ~o.paged THEN <<r.addend % 256>> ELSE << >>)]) \o <<0>>
o65_globals(w, syms) ==
    LET ys == SelectSeq(syms, LAMBDA y : y.type \in {"LABSYM", "EXPRESSION"} /\ ~Internal(y) /\ "EXPORT" \in y.flags /\ "WEAK" \notin y.flags)
    IN  [n \in 1..Len(ys) |-> IF ys[n].type = "LABSYM"
                              THEN [name |-> ys[n].name, segid |-> SegId(w.idx[ys[n].sec]), value |-> w.secs[ys[n].sec].org + ys[n].val]
                              ELSE [name |-> ys[n].name, segid |-> SEG_ABS, value |-> get_sym_value(ys[n])]]
O65File(o, w, syms, text, data) ==
    LET weak == \E i \in 1..Len(syms) : syms[i].type # "IMPORT" /\ ~Internal(syms[i]) /\ {"EXPORT", "WEAK"} \subseteq syms[i].flags
    IN  [out |-> <<Chunk("hdr", 27, o65_header(o, w)), DataChunk(text.out), DataChunk(data.out), Chunk("imports", 0, data.w.imports),
                   DataChunk(o65_writerelocs(o, data.w.relocs.S_TEXT)), DataChunk(o65_writerelocs(o, data.w.relocs.S_DATA)),
                   Chunk("globals", 0, o65_globals(data.w, syms))>>,
         errs |-> data.w.errs \cup IF weak THEN {10} ELSE {}]
WithText(o, w, syms, text) == O65File(o, w, syms, text, o65_writesection(text.w, syms, "S_DATA"))
WriteO65(o, w, syms) == WithText(o, w, syms, o65_writesection(w, syms, "S_TEXT"))
o65_write_output(o, secs, syms) == WriteO65(o, o65_initwrite(o, secs), syms)
=============================================================================
