------------------------------ MODULE ElfCoff -------------------------------
(***************************************************************************)
(* The two object formats with a table of section headers.                 *)
(* ELF (output_elf.c) in its 32 and 64 bit classes: e is the record of the *)
(* lists and indices that grow while headers, symbols and relocations are  *)
(* made; the file is written from them at the end.  Stabs debugging        *)
(* entries are left out.                                                   *)
(* COFF (output_coff.c): header, headers of the sections, relocations,     *)
(* symbols with the table of their long names, contents.  The addends of   *)
(* relocations are in the contents.                                        *)
(***************************************************************************)
EXTENDS Output

Sizes(bits) == IF bits = 32 THEN [ehdr |-> 52, shdr |-> 40, sym |-> 16, rela |-> 12, rel |-> 8, align |-> 4]
               ELSE [ehdr |-> 64, shdr |-> 64, sym |-> 24, rela |-> 24, rel |-> 16, align |-> 8]
elfrelsize(o) == IF o.rela THEN Sizes(o.bits).rela ELSE Sizes(o.bits).rel
SHT_NOBITS == "NOBITS"
shtreloc == "RELOC"

\* Indices count from 0: an index is the length of the list before the entry.
shdrindex(e) == Len(e.shdrs)
symindex(e) == Len(e.syms)
makeShdr(e, name, type, offset, size, info, link, entsize) ==
    [e EXCEPT !.shdrs = Append(@, [name |-> name, type |-> type, offset |-> offset, size |-> size,
                                   info |-> info, link |-> link, entsize |-> entsize])]
\* The same with a new string for the name.
makeNamedShdr(e, name, type, offset, size, info) ==
    [makeShdr(e, e.shstr.index, type, offset, size, info, 0, 0) EXCEPT !.shstr = addString(@, name)]
newSym(e, name, value, size, bind, type, shndx) ==
    [e EXCEPT !.syms = Append(@, [st_name |-> IF name = "" THEN 0 ELSE e.str.index, name |-> name, value |-> value,
                                  size |-> size, bind |-> bind, type |-> type, shndx |-> shndx]),
              !.str = IF name = "" THEN @ ELSE addString(@, name)]

symtabidx == 1
strtabidx == symtabidx + Len(".symtab") + 1
shstrtabidx == strtabidx + Len(".strtab") + 1
init_lists ==
    LET shstr == FoldLeft(addString, NoStrings, <<"", ".symtab", ".strtab", ".shstrtab">>)
        e == [shdrs |-> << >>, syms |-> << >>, rels |-> << >>, shstr |-> shstr,
              str |-> addString(NoStrings, ""), idx |-> << >>, soffset |-> 0, roffset |-> 0, errs |-> {}]
    IN  newSym(makeShdr(e, 0, "NULL", 0, 0, 0, 0, 0), "", 0, 0, "LOCAL", "NOTYPE", 0)

findelfsymbol(e, name) ==
    LET at == {i \in 1..Len(e.syms) : e.syms[i].name = name}
    IN  IF at = {} THEN 0 ELSE (CHOOSE i \in at : \A j \in at : i <= j) - 1

elf_sec_type(s) == IF s.name = ".note" THEN "NOTE" ELSE IF get_sec_type(s) = "S_BSS" THEN SHT_NOBITS ELSE "PROGBITS"
SHN_ABS == -15
SHN_COMMON == -14
get_sym_index(e, sym) == IF "COMMON" \in sym.flags THEN SHN_COMMON
                         ELSE IF sym.type = "IMPORT" THEN 0
                         ELSE IF sym.sec # 0 THEN e.idx[sym.sec] ELSE SHN_ABS

\* Only whole bytes, words and long words can be relocated.
RTYPE_ILLEGAL == << >>
get_reloc_type(r) ==
    IF r.bitoffset = 0 /\ r.mask = "all" /\ r.size \in {8, 16, 32} /\ r.type \in {"REL_ABS", "REL_PC", "REL_GOT", "REL_PLT"}
    THEN <<r.type, r.size>> ELSE IF r.type = "REL_NONE" THEN <<r.type, 0>> ELSE RTYPE_ILLEGAL
-----------------------------------------------------------------------------
\* A header and a symbol for every section that is not empty: the symbol's index
\* is the header's, and relocations use it for the labels of the section.
SectionHdr(e, o, s) ==
    IF ~o.keepempty /\ get_sec_size(s) = 0 /\ "HAS_SYMBOLS" \notin s.flags THEN [e EXCEPT !.idx = Append(@, 0)]
    ELSE LET x == newSym(e, "", 0, 0, "LOCAL", "SECTION", shdrindex(e))
             y == makeNamedShdr(x, s.name, elf_sec_type(s), e.soffset, get_sec_size(s), 0)
         IN  [y EXCEPT !.idx = Append(@, shdrindex(e)),
                       !.soffset = IF elf_sec_type(s) = SHT_NOBITS THEN @ ELSE @ + get_sec_size(s)]
prog_sec_hdrs(e, o, secs) == FoldLeft(LAMBDA x, s : SectionHdr(x, o, s), e, secs)

\* Local symbols come first; undefined ones are only made when a relocation
\* needs them, unless they are common or weak.
IsLocalSym(sym) == ~Internal(sym) /\ sym.type # "IMPORT" /\ sym.flags \cap {"EXPORT", "WEAK"} = {}
IsGlobalSym(sym) == ~Internal(sym) /\ IF sym.type = "IMPORT" THEN sym.flags \cap {"COMMON", "WEAK"} # {}
                                     ELSE sym.flags \cap {"EXPORT", "WEAK"} # {}
AddSym(e, sym, bind) == newSym(e, sym.name, get_sym_value(sym), sym.size, bind, sym.kind, get_sym_index(e, sym))
LocalSyms(e, o, syms) == IF o.no_symbols THEN e
                         ELSE FoldLeft(LAMBDA x, y : AddSym(x, y, "LOCAL"), e, SelectSeq(syms, IsLocalSym))
GlobalSyms(e, syms) == FoldLeft(LAMBDA x, y : AddSym(x, y, IF "WEAK" \in y.flags THEN "WEAK" ELSE "GLOBAL"),
                                e, SelectSeq(syms, IsGlobalSym))
build_symbol_table(e, o, syms) ==
    LET file == newSym(e, o.filename, 0, 0, "LOCAL", "FILE", SHN_ABS)
        loc == LocalSyms(file, o, syms)
    IN  [e |-> GlobalSyms(loc, syms), firstglobal |-> symindex(loc)]

addRel(e, o, offset, addend, sym, type) ==
    [e EXCEPT !.rels = Append(@, [offset |-> offset, addend |-> addend, sym |-> sym, type |-> type]),
              !.roffset = @ + elfrelsize(o)]
make_reloc(e, o, syms, pc, r) ==
    LET type == get_reloc_type(r)
        sym == syms[r.sym]
        known == findelfsymbol(e, sym.name)
    IN  IF type = RTYPE_ILLEGAL THEN [e EXCEPT !.errs = @ \cup {4}]
        ELSE IF LOCREF(sym) THEN addRel(e, o, pc + r.byteoffset, r.addend, e.idx[sym.sec], type)
        ELSE IF known # 0 THEN addRel(e, o, pc + r.byteoffset, r.addend, known, type)
        ELSE addRel(newSym(e, sym.name, 0, 0, "GLOBAL", "NOTYPE", 0), o, pc + r.byteoffset, r.addend, symindex(e), type)
make_relsechdr(e, o, name, basero, idx) ==
    LET x == makeNamedShdr(e, name, shtreloc, basero, e.roffset - basero, idx)
    IN  [x EXCEPT !.shdrs[Len(x.shdrs)].entsize = elfrelsize(o)]
RelocSection(e, o, secs, syms, k) ==
    LET x == FoldLeft(LAMBDA y, t : make_reloc(y, o, syms, t.pc - secs[k].org, t.r), e, RelocsOf(secs[k]))
    IN  IF e.idx[k] = 0 \/ x.roffset = e.roffset THEN x
        ELSE make_relsechdr(x, o, (IF o.rela THEN ".rela" ELSE ".rel") \o secs[k].name, e.roffset, e.idx[k])
make_reloc_sections(e, o, secs, syms) ==
    FoldLeft(LAMBDA x, k : RelocSection(x, o, secs, syms, k), e, [k \in 1..Len(secs) |-> k])

write_section_data(e, secs) ==
    FlattenSeq([k \in 1..Len(secs) |-> IF e.idx[k] # 0 /\ elf_sec_type(secs[k]) # SHT_NOBITS
                                       THEN <<DataChunk(Contents(secs[k]))>> ELSE << >>])
\* The relocations start behind the table of strings: their headers get the rest.
FixRelHdr(h, soffset, link) == IF h.type = shtreloc THEN [h EXCEPT !.offset = @ + soffset, !.link = link] ELSE h
\* The file once all lists are complete, and with write_ELF what write_ELF32 and
\* write_ELF64 do.
ElfFile(o, secs, e, firstglobal) ==
    LET size == Sizes(o.bits)
        a == makeShdr(e, shstrtabidx, "STRTAB", e.soffset, e.shstr.index, 0, 0, 0)
        align1 == balign(e.soffset + e.shstr.index, 4)
        shoff == e.soffset + e.shstr.index + align1
        shnum == shdrindex(a) + 2
        symoff == shoff + shnum * size.shdr
        b == makeShdr(a, symtabidx, "SYMTAB", symoff, symindex(e) * size.sym, firstglobal, shdrindex(a) + 1, size.sym)
        stroff == symoff + symindex(e) * size.sym
        c == makeShdr(b, strtabidx, "STRTAB", stroff, e.str.index, 0, 0, 0)
        align2 == balign(stroff + e.str.index, 4)
        reloff == stroff + e.str.index + align2
        header == [shoff |-> shoff, shstrndx |-> shdrindex(a) - 1, shnum |-> shnum]
    IN  [out |-> <<Chunk("ehdr", size.ehdr, header)>> \o write_section_data(e, secs)
                 \o <<Chunk("strtab", e.shstr.index, e.shstr.strs), Chunk("pad", align1, << >>),
                      Chunk("shdrs", Len(c.shdrs) * size.shdr,
                            [i \in 1..Len(c.shdrs) |-> FixRelHdr(c.shdrs[i], reloff, Len(c.shdrs) - 2)]),
                      Chunk("symtab", symindex(e) * size.sym, e.syms), Chunk("strtab", e.str.index, e.str.strs),
                      Chunk("pad", align2, << >>), Chunk("relocs", Len(e.rels) * elfrelsize(o), e.rels)>>,
         errs |-> e.errs]
WithTable(o, secs, syms, table) == ElfFile(o, secs, make_reloc_sections(table.e, o, secs, syms), table.firstglobal)
write_ELF(o, secs, syms) ==
    WithTable(o, secs, syms, build_symbol_table(prog_sec_hdrs([init_lists EXCEPT !.soffset = Sizes(o.bits).ehdr], o, secs), o, syms))
elf_write_output(o, secs, syms) ==
    IF o.bits \in {32, 64} /\ o.elfcpu THEN write_ELF(o, secs, syms) ELSE [out |-> << >>, errs |-> {1}]
-----------------------------------------------------------------------------
\* COFF

HDR == 20
SECHDR == 40
RELOC == 10
SYM == 18

get_coff_reloc_type(r) ==
    CASE r.type \in {"REL_ABS", "REL_PC"} -> IF r.size \in {8, 16, 32} THEN <<r.type, r.size>> ELSE << >>
      [] OTHER -> <<"R_ABS", 0>>

\* Symbols that have no other flag than the one of internal symbols are left out.
HasEntry(sym) == sym.flags # {"VASMINTERN"}
IsLong(name) == Len(name) > 8
SymIdx(syms) == [i \in 1..Len(syms) |-> IF HasEntry(syms[i])
                                        THEN Cardinality({j \in 1..(i - 1) : HasEntry(syms[j])}) ELSE -1]
RelocEntry(idx, t, s) == [r_vaddr |-> t.pc - s.org + t.r.byteoffset, r_symndx |-> idx[t.r.sym],
                          r_type |-> get_coff_reloc_type(t.r)]
Supported(rs) == SelectSeq(rs, LAMBDA t : get_coff_reloc_type(t.r) # << >>)

COFF_N_ABS == -1
\* The class of a label is that of an exported one when it has no other flag.
SymbolClass(sym) == CASE sym.type = "IMPORT" -> "C_NULL" [] sym.type = "EXPRESSION" -> "C_TPDEF"
                      [] sym.type = "LABSYM" -> IF sym.flags = {"EXPORT"} THEN "C_EXT" ELSE "C_LABEL"
SymbolEntry(r, sym) ==
    [nameo |-> IF IsLong(sym.name) THEN r.nameo + Len(sym.name) + 1 ELSE r.nameo,
     syms |-> Append(r.syms, [n_name |-> IF IsLong(sym.name) THEN "" ELSE sym.name,
                              n_offset |-> IF IsLong(sym.name) THEN r.nameo ELSE 0,
                              n_value |-> get_sym_value(sym),
                              n_scnum |-> IF sym.type = "EXPRESSION" THEN COFF_N_ABS ELSE sym.sec,
                              n_sclass |-> SymbolClass(sym)])]
\* Where each section's relocations and contents are; all relocations are counted.
SectionEntry(r, s) ==
    LET n == Len(RelocsOf(s))
    IN  [relptr |-> r.relptr + n * RELOC, scnptr |-> r.scnptr + get_sec_size(s), addr |-> r.addr + get_sec_size(s),
         hdrs |-> Append(r.hdrs, [s_name |-> s.name, s_size |-> get_sec_size(s), s_scnptr |-> r.scnptr,
                                  s_vaddr |-> r.addr, s_nreloc |-> n, s_relptr |-> IF n > 0 THEN r.relptr ELSE 0,
                                  s_type |-> get_sec_type(s)])]

coff_write_output(o, secs, syms0) ==
    LET syms == SelectSeq(syms0, HasEntry)
        idx == SymIdx(syms0)
        long == SelectSeq(syms, LAMBDA y : IsLong(y.name))
        relptr == HDR + Len(secs) * SECHDR
        nrelocs == FoldLeft(LAMBDA n, s : n + Len(RelocsOf(s)), 0, secs)
        symptr == relptr + nrelocs * RELOC
        names == FoldLeft(LAMBDA t, y : addString(t, y.name), NoStrings, long)
        entries == FoldLeft(SymbolEntry, [nameo |-> 4, syms |-> << >>], syms)
        h == FoldLeft(SectionEntry, [relptr |-> relptr, addr |-> 0, hdrs |-> << >>,
                                     scnptr |-> symptr + Len(syms) * SYM + 4 + names.index], secs)
        Relocs(s) == LET rs == Supported(RelocsOf(s))
                     IN  [k \in 1..Len(rs) |-> Chunk("reloc", RELOC, RelocEntry(idx, rs[k], s))]
    IN  [out |-> <<Chunk("hdr", HDR, [f_nscns |-> Len(secs), f_symptr |-> symptr, f_nsyms |-> Len(syms)]),
                   Chunk("sechdrs", Len(secs) * SECHDR, h.hdrs)>>
                 \o FlattenSeq([k \in 1..Len(secs) |-> Relocs(secs[k])])
                 \o <<Chunk("symtab", Len(syms) * SYM, entries.syms), Chunk("namesize", 4, entries.nameo),
                      Chunk("strtab", names.index, names.strs)>>
                 \o [k \in 1..Len(secs) |-> DataChunk(Contents(secs[k]))],
         errs |-> IF \E k \in 1..Len(secs) : Len(Supported(RelocsOf(secs[k]))) # Len(RelocsOf(secs[k])) THEN {4} ELSE {}]
=============================================================================
