-------------------------------- MODULE Aout --------------------------------
(***************************************************************************)
(* The a.out object format (output_aout.c): one text, one data and one bss *)
(* section, ORG sections behind the text.  a is the record of the symbols, *)
(* strings and relocations that grow before the file is written; values of *)
(* symbols and addends count from the start of the text.                   *)
(***************************************************************************)
EXTENDS Output

secalign(o) == o.secalign
aout_initwrite(o, secs) ==
    LET x == Slots(secs, TextDataBss, LAMBDA s : get_sec_type(s) = "S_ABS", LAMBDA y, s : get_sec_type(s))
        Size(i) == IF x.at[i] = 0 THEN 0 ELSE get_sec_size(secs[x.at[i]])
        text == FoldLeft(LAMBDA n, s : IF "ABSOLUTE" \in s.flags THEN n + balign(n, s.align) + get_sec_size(s) ELSE n,
                         Size("S_TEXT"), secs)
        data == text + balign(text, secalign(o))
        bss == data + Size("S_DATA") + balign(Size("S_DATA"), secalign(o))
    IN  [at |-> x.at, idx |-> x.idx, errs |-> x.errs, secs |-> secs,
         secsize |-> [S_TEXT |-> text, S_DATA |-> Size("S_DATA"), S_BSS |-> Size("S_BSS")],
         secoffs |-> [S_TEXT |-> 0, S_DATA |-> data, S_BSS |-> bss],
         syms |-> << >>, strs |-> << >>, nextoffset |-> 4, relocs |-> [S_TEXT |-> << >>, S_DATA |-> << >>], isPIC |-> TRUE]

\* A string that is already in the table is not added again.
StrOffset(a, i) == FoldLeft(LAMBDA n, s : n + Len(s) + 1, 4, SubSeq(a.strs, 1, i - 1))
Known(a, name) == {i \in 1..Len(a.strs) : a.strs[i] = name}
aout_addstr(a, name) ==
    IF name = "" THEN [a |-> a, strx |-> 0]
    ELSE IF Known(a, name) # {} THEN [a |-> a, strx |-> StrOffset(a, CHOOSE i \in Known(a, name) : TRUE)]
    ELSE [a |-> [a EXCEPT !.strs = Append(@, name), !.nextoffset = @ + Len(name) + 1], strx |-> a.nextoffset]
aout_addsym(a, name, type, ext, bind, value) ==
    LET x == aout_addstr(a, name)
    IN  [x.a EXCEPT !.syms = Append(@, [n_strx |-> x.strx, name |-> name, n_type |-> type, ext |-> ext, bind |-> bind,
                                        n_value |-> value])]
aout_findsym(a, name) == LET at == {i \in 1..Len(a.syms) : a.syms[i].name = name}
                         IN  IF at = {} THEN -1 ELSE (CHOOSE i \in at : \A j \in at : i <= j) - 1

aout_getbind(sym) == IF "WEAK" \in sym.flags THEN "WEAK"
                     ELSE IF sym.type # "IMPORT" /\ "EXPORT" \notin sym.flags THEN "LOCAL" ELSE "GLOBAL"
sectype == [S_TEXT |-> "N_TEXT", S_DATA |-> "N_DATA", S_BSS |-> "N_BSS"]
secweak == [S_TEXT |-> "N_WEAKT", S_DATA |-> "N_WEAKD", S_BSS |-> "N_WEAKB"]
\* The section offset is added to the value of a label, unless it is weak.
aout_symconvert(a, sym, bind) ==
    LET ext == bind = "GLOBAL"
        Sized(x) == IF sym.size = 0 THEN x ELSE aout_addsym(x, sym.name, "N_SIZE", FALSE, bind, sym.size)
        val == get_sym_value(sym)
        InSection == sym.type = "LABSYM" /\ "ABSOLUTE" \notin a.secs[sym.sec].flags
    IN  CASE sym.kind = "SECTION" -> a
          [] sym.kind = "FILE" -> aout_addsym(a, sym.name, "N_FN", TRUE, bind, val)
          [] "COMMON" \in sym.flags -> aout_addsym(a, sym.name, "N_UNDF", TRUE, bind, sym.size)
          [] "WEAK" \in sym.flags ->
                Sized(aout_addsym(a, sym.name, CASE sym.type = "LABSYM" -> secweak[a.idx[sym.sec]] [] sym.type = "IMPORT" -> "N_WEAKU"
                                                 [] OTHER -> "N_WEAKA", FALSE, bind, val))
          [] sym.type = "LABSYM" ->
                Sized(IF InSection THEN aout_addsym(a, sym.name, sectype[a.idx[sym.sec]], ext, bind, val + a.secoffs[a.idx[sym.sec]])
                      ELSE aout_addsym(a, sym.name, "N_ABS", ext, bind, val))
          [] "EXPORT" \in sym.flags -> Sized(aout_addsym(a, sym.name, "N_ABS", ext, bind, val))
          [] OTHER -> a
aout_addsymlist(a, syms, bind) ==
    FoldLeft(LAMBDA x, y : IF (y.type = "IMPORT" => y.flags \cap {"WEAK", "COMMON"} # {}) /\ ~Internal(y) /\ aout_getbind(y) = bind
                           THEN aout_symconvert(x, y, bind) ELSE x, a, syms)

\* What a relocation is; << >> when a.out has no such one.
aoutstd_getrinfo(rs, j, extern) ==
    LET r == rs[j]
        alone == j = Len(rs) \/ rs[j + 1].byteoffset # r.byteoffset
    IN  IF r.type \in {"REL_ABS", "REL_PC", "REL_SD"} /\ r.bitoffset = 0 /\ alone /\ r.mask = "all" /\ r.size \in {8, 16, 32}
        THEN <<[pcrel |-> r.type = "REL_PC", baserel |-> r.type = "REL_SD", length |-> r.size, extern |-> extern]>> ELSE << >>
aout_addreloclist(a, i, addr, symbolnum, info) ==
    [a EXCEPT !.relocs[i] = Append(@, [r_address |-> addr, r_symbolnum |-> symbolnum, info |-> info]),
              !.isPIC = @ /\ info # << >> /\ (info[1].pcrel \/ info[1].baserel),
              !.errs = IF info = << >> THEN @ \cup {4} ELSE @]
\* The relocations of an atom, and their addends in its data: a pattern is
\* patched once, after which the space is empty.
aout_convert_reloc(o, syms, i, pc, x, atom, j) ==
    LET r == atom.relocs[j]
        sym == syms[r.sym]
        local == LOCREF(sym)
        rsec == x.a.idx[sym.sec]
        a == IF local \/ aout_findsym(x.a, sym.name) # -1 THEN x.a ELSE aout_addsym(x.a, sym.name, "N_UNDF", TRUE, "LOCAL", 0)
        base == IF ~local THEN 0 ELSE CASE r.type = "REL_SD" -> IF rsec = "S_BSS" THEN a.secoffs.S_BSS - a.secoffs.S_DATA ELSE 0
                                        [] r.type = "REL_PC" -> 0 [] OTHER -> a.secoffs[rsec]
        val == get_sym_value(sym) + base + nreloc_real_addend(a.secs, sym, r)
               - (IF r.type = "REL_PC" THEN pc + r.byteoffset ELSE 0)
        num == IF local THEN <<"sec", sectype[rsec]>> ELSE <<"sym", aout_findsym(a, sym.name)>>
        off == IF atom.t = "data" THEN r.byteoffset ELSE 0
    IN  [a |-> aout_addreloclist(a, i, pc + r.byteoffset, num, aoutstd_getrinfo(atom.relocs, j, ~local)),
         atom |-> IF atom.t = "space" /\ x.atom.space = 0 THEN x.atom
                  ELSE LET p == Patched(x.atom, setval(o.be, PatchData(x.atom), off, r.size \div 8, val))
                       IN  IF atom.t = "space" THEN [p EXCEPT !.space = 0] ELSE p]
aout_convert_rlist(o, syms, i, pc, a, atom) ==
    FoldLeft(LAMBDA x, j : aout_convert_reloc(o, syms, i, pc, x, atom, j), [a |-> a, atom |-> atom], [j \in 1..Len(atom.relocs) |-> j])
BehindConverted(r, pc, x) == [pc |-> pc + atom_size(x.atom), a |-> x.a, atoms |-> Append(r.atoms, x.atom)]
Stored(y, k) == [y.a EXCEPT !.secs[k].atoms = y.atoms]
aout_addrelocs(o, syms, a, i) ==
    IF a.at[i] = 0 THEN a
    ELSE Stored(FoldLeft(LAMBDA r, atom : LET pc == pcalign(atom, r.pc)
                                          IN  BehindConverted(r, pc, aout_convert_rlist(o, syms, i, pc, r.a, atom)),
                         [pc |-> 0, a |-> a, atoms |-> << >>], a.secs[a.at[i]].atoms), a.at[i])

aout_writesection(a, i, align) ==
    IF a.at[i] = 0 THEN << >>
    ELSE LET out == Contents([a.secs[a.at[i]] EXCEPT !.org = 0]) IN out \o fwalign(Len(out), align)
\* The padding between ORG sections is not counted in the pc.
aout_writeorg(a, align) ==
    LET x == FoldLeft(LAMBDA r, s : IF "ABSOLUTE" \notin s.flags THEN r
                                    ELSE LET w == WriteAtoms([s EXCEPT !.org = r.pc], Len(s.atoms))
                                         IN  [pc |-> w.pc, out |-> r.out \o fwalign(r.pc, s.align) \o w.out],
                      [pc |-> IF a.at.S_TEXT = 0 THEN 0 ELSE get_sec_size(a.secs[a.at.S_TEXT]), out |-> << >>], a.secs)
    IN  x.out \o fwalign(x.pc, align)

AoutSymbols(o, a, syms) ==
    FoldLeft(LAMBDA x, bind : aout_addsymlist(x, syms, bind), a,
             <<"GLOBAL", "WEAK">> \o IF o.no_symbols THEN << >> ELSE <<"LOCAL">>)
aout_header(o, a) ==
    [a_text |-> a.secsize.S_TEXT + balign(a.secsize.S_TEXT, secalign(o)),
     a_data |-> a.secsize.S_DATA + balign(a.secsize.S_DATA, secalign(o)), a_bss |-> a.secsize.S_BSS,
     a_syms |-> Len(a.syms) * 12, a_trsize |-> Len(a.relocs.S_TEXT) * 8, a_drsize |-> Len(a.relocs.S_DATA) * 8, pic |-> a.isPIC]
AoutFile(o, a) ==
    [out |-> <<Chunk("hdr", 32, aout_header(o, a)), DataChunk(aout_writesection(a, "S_TEXT", 0) \o aout_writeorg(a, secalign(o))),
               DataChunk(aout_writesection(a, "S_DATA", secalign(o))),
               Chunk("relocs", Len(a.relocs.S_TEXT) * 8, a.relocs.S_TEXT), Chunk("relocs", Len(a.relocs.S_DATA) * 8, a.relocs.S_DATA),
               Chunk("symtab", Len(a.syms) * 12, a.syms)>>
             \o IF a.nextoffset > 4 THEN <<Chunk("strtab", a.nextoffset, a.strs)>> ELSE << >>,
     errs |-> a.errs]
aout_write_output(o, secs, syms) ==
    AoutFile(o, FoldLeft(LAMBDA a, i : aout_addrelocs(o, syms, a, i), AoutSymbols(o, aout_initwrite(o, secs), syms), <<"S_TEXT", "S_DATA">>))
=============================================================================
