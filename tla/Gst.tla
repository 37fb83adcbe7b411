-------------------------------- MODULE Gst ---------------------------------
(***************************************************************************)
(* The GST object format (output_gst.c): a stream of bytes with directives *)
(* in between.  A directive starts with the code GSTESC, which is doubled  *)
(* where it is data; directive and byte are both records with a field d.   *)
(***************************************************************************)
EXTENDS Output

GSTESC == 251
RawByte(b) == [d |-> "byte", b |-> b]
Raw(bytes) == [i \in 1..Len(bytes) |-> RawByte(bytes[i])]
gst_define(id, name) == [d |-> "DEFINE", id |-> id, name |-> name]
gst_section(idx, s, k) == IF "ABSOLUTE" \in s.flags THEN [d |-> "ORG", org |-> s.org] ELSE [d |-> "SECTION", id |-> -idx[k]]
gst_offset(n) == [d |-> "OFFSET", n |-> n]
gst_xref(add, rule, refid) == [d |-> "XREF", add |-> add, rule |-> rule, id |-> refid]
\* The state x: the stream, the bytes of uninitialised space that are due, the
\* messages.
gst_dobss(x) == IF x.bss = 0 THEN x ELSE [x EXCEPT !.out = Append(@, gst_offset(x.bss)), !.bss = 0]
\* Mutant: GSTESC in the data is not doubled.
gst_data_raw(x, bytes) == LET y == gst_dobss(x) IN [y EXCEPT !.out = @ \o Raw(bytes)]
gst_data(x, bytes) ==
    LET y == gst_dobss(x)
        Esc(b) == IF b = GSTESC THEN <<RawByte(b), RawByte(b)>> ELSE <<RawByte(b)>>
    IN  IF bytes = << >> THEN y ELSE [y EXCEPT !.out = @ \o FlattenSeq([i \in 1..Len(bytes) |-> Esc(bytes[i])])]

\* Sections and common symbols have negative ids, imported symbols positive ones.
Relocatable(secs) == SelectSeq([k \in 1..Len(secs) |-> k], LAMBDA k : "ABSOLUTE" \notin secs[k].flags)
SecIdx(secs) == [k \in 1..Len(secs) |-> IF "ABSOLUTE" \in secs[k].flags THEN 0
                                        ELSE Cardinality({j \in 1..k : "ABSOLUTE" \notin secs[j].flags})]
define_section_names(secs) == [n \in 1..Len(Relocatable(secs)) |-> gst_define(-n, secs[Relocatable(secs)[n]].name)]
IsCommon(sym) == sym.type = "IMPORT" /\ "COMMON" \in sym.flags
SymId(secs, syms) ==
    [i \in 1..Len(syms) |->
        IF syms[i].type # "IMPORT" THEN 0
        ELSE IF IsCommon(syms[i]) THEN -(Len(Relocatable(secs)) + Cardinality({j \in 1..i : IsCommon(syms[j])}))
        ELSE Cardinality({j \in 1..i : syms[j].type = "IMPORT" /\ ~IsCommon(syms[j])})]
define_import_names(secs, syms) ==
    LET imports == SelectSeq([i \in 1..Len(syms) |-> i], LAMBDA i : syms[i].type = "IMPORT")
    IN  [n \in 1..Len(imports) |-> gst_define(SymId(secs, syms)[imports[n]], syms[imports[n]].name)]

\* A part of an atom; of initialised space whole patterns.
stream_data(x, s, atom, offs, len) ==
    IF atom.t = "data" THEN gst_data(x, SubSeq(atom.data, offs + 1, offs + len))
    ELSE IF get_sec_type(s) = "S_BSS" \/ atom.uninit THEN [x EXCEPT !.bss = @ + len]
    ELSE LET size == Len(atom.fill)
         IN  FoldLeft(LAMBDA y, k : gst_data(y, atom.fill), x, [k \in 1..(IF len > offs THEN (len - offs + size - 1) \div size ELSE 0) |-> k])
stream_reloc(x, secs, syms, s, atom, r) ==
    LET sym == syms[r.sym]
        y == stream_data(x, s, atom, x.offs, r.byteoffset - x.offs)
        refid == IF sym.type = "IMPORT" THEN SymId(secs, syms)[r.sym] ELSE -SecIdx(secs)[sym.sec]
        rule == <<r.size \div 8, CASE r.type = "REL_ABS" -> "UNSIGNED ABS" [] r.type = "REL_PC" -> "SIGNED PCREL" [] OTHER -> "">>
    IN  IF r.bitoffset = 0 /\ r.mask = "all" /\ r.size \in {8, 16, 32}
        THEN [y EXCEPT !.out = Append(@, gst_xref(r.addend, rule, refid)), !.offs = r.byteoffset + (r.size \div 8),
                       !.errs = IF r.type \in {"REL_ABS", "REL_PC"} THEN @ ELSE @ \cup {4}]
        ELSE [y EXCEPT !.offs = r.byteoffset, !.errs = @ \cup {4}]
\* The padding in front of an atom is written as it is.
stream_atom(x, secs, syms, s, pc, atom) ==
    LET p == [x EXCEPT !.out = @ \o Raw(fwpcalign(atom, s, pc)), !.offs = 0]
        y == FoldLeft(LAMBDA z, r : stream_reloc(z, secs, syms, s, atom, r), p, SortedRelocs(atom))
    IN  stream_data(y, s, atom, y.offs, atom_size(atom) - y.offs)
stream_section(x, secs, syms, k) ==
    LET s == secs[k]
        Npc(n) == IF n = 1 THEN s.org ELSE AtomPc(s, n - 1) + atom_size(s.atoms[n - 1])
    IN  gst_dobss(FoldLeft(LAMBDA y, n : stream_atom(y, secs, syms, s, Npc(n), s.atoms[n]),
                           [x EXCEPT !.out = Append(@, gst_section(SecIdx(secs), s, k))], [n \in 1..Len(s.atoms) |-> n]))

common_symbols(secs, syms) ==
    LET at == SelectSeq([i \in 1..Len(syms) |-> i], LAMBDA i : IsCommon(syms[i]))
    IN  FlattenSeq([n \in 1..Len(at) |-> <<[d |-> "COMMON", id |-> SymId(secs, syms)[at[n]]], gst_offset(syms[at[n]].size)>>])
export_symbols(secs, syms) ==
    LET ys == SelectSeq(syms, LAMBDA y : y.type # "IMPORT" /\ ~Internal(y) /\ "EXPORT" \in y.flags)
    IN  [n \in 1..Len(ys) |-> [d |-> "XDEF", name |-> ys[n].name, value |-> get_sym_value(ys[n]),
                               id |-> IF ys[n].type = "LABSYM" THEN -SecIdx(secs)[ys[n].sec] ELSE 0]]
gst_write_output(o, secs, syms) ==
    LET x == FoldLeft(LAMBDA y, k : stream_section(y, secs, syms, k),
                      [out |-> <<[d |-> "SOURCE", name |-> o.filename]>> \o define_section_names(secs) \o define_import_names(secs, syms),
                       bss |-> 0, offs |-> 0, errs |-> {}], [k \in 1..Len(secs) |-> k])
    IN  [out |-> x.out \o common_symbols(secs, syms) \o export_symbols(secs, syms) \o <<[d |-> "END"]>>,
         errs |-> x.errs \cup IF \E i \in 1..Len(syms) : syms[i].type = "IMPORT" /\ ~IsCommon(syms[i]) /\ "WEAK" \in syms[i].flags THEN {10} ELSE {}]
=============================================================================
