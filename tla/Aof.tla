-------------------------------- MODULE Aof ---------------------------------
(***************************************************************************)
(* The Acorn object format (output_aof.c): a file of chunks, whose header  *)
(* gives their offsets, with the contents and relocations of the areas.    *)
(* The relocations of whole bytes, words and long words are modelled; the  *)
(* fields of ARM and Thumb instructions are those of other sizes.          *)
(***************************************************************************)
EXTENDS Output

CHUNKS_RESERVED == 8
FirstOffset == 4 * 3 + CHUNKS_RESERVED * 16
Align4(n) == n + balign(n, 4)
\* The offset of a name in the table of strings, where it is once.
Name(strs, name) == IF \E i \in 1..Len(strs) : strs[i] = name THEN strs ELSE Append(strs, name)
NameOffset(strs, name) == LET i == CHOOSE n \in 1..Len(strs) : strs[n] = name
                          IN  FoldLeft(LAMBDA n, s : n + Len(s) + 1, 4, SubSeq(strs, 1, i - 1))
StrtSize(strs) == FoldLeft(LAMBDA n, s : n + Len(s) + 1, 4, strs)
add_strt(strs, name) == Name(strs, name)

\* Data must be relocated where its atom starts.
Instruction(atom, r) == atom.t = "data" /\ Len(atom.data) >= 2 /\ r.size \notin {16, 32}
new_aof_reloc(secs, syms, idx, atom, offset, r) ==
    LET good == /\ r.type \in {"REL_ABS", "REL_PC", "REL_SD"}
                /\ Instruction(atom, r) \/ (r.byteoffset = 0 /\ r.bitoffset = 0 /\ r.mask = "all" /\ r.size \in {8, 16, 32})
        sym == syms[r.sym]
    IN  IF ~good THEN << >>
        ELSE <<[offset |-> IF Instruction(atom, r) /\ r.size = 8 /\ r.type = "REL_ABS" /\ offset % 2 = 0 THEN offset + 1 ELSE offset,
                type |-> r.type, ft |-> IF Instruction(atom, r) THEN 3 ELSE r.size \div 16,
                a |-> sym.type = "IMPORT", sid |-> IF sym.type = "IMPORT" THEN idx[r.sym] ELSE sym.sec - 1]>>
\* The relocations of an area, the last one first.
AreaRelocs(secs, syms, idx, s) ==
    LET Of(n) == FlattenSeq([k \in 1..Len(s.atoms[n].relocs) |->
                     new_aof_reloc(secs, syms, idx, s.atoms[n], AtomPc(s, n) - s.org, s.atoms[n].relocs[k])])
    IN  Reverse(FlattenSeq([n \in 1..Len(s.atoms) |-> Of(n)]))
AA_NOINIT(s) == s.attr = "u"
AreaHdr(strs, s, relocs) ==
    [name_offs |-> NameOffset(strs, s.name), noinit |-> AA_NOINIT(s), code |-> s.attr = "c", aligned_size |-> Align4(EndPc(s) - s.org),
     num_relocs |-> Len(relocs), base_addr |-> IF "ABSOLUTE" \in s.flags THEN s.org ELSE 0,
     pic |-> "ABSOLUTE" \notin s.flags /\ relocs = << >>]

AofListed(sym) == ~Internal(sym)
AofSymbol(strs, secs, sym) ==
    [symname |-> NameOffset(strs, sym.name),
     attr |-> IF sym.type = "IMPORT" THEN {"EXTERN"} \cup (IF "COMMON" \in sym.flags THEN {"COMMON"}
                                                           ELSE IF "WEAK" \in sym.flags THEN {"WEAK"} ELSE {})
              ELSE {IF "EXPORT" \in sym.flags THEN "GLOBAL" ELSE "LOCAL"} \cup (IF sym.type = "EXPRESSION" THEN {"ABS"} ELSE {}),
     value |-> IF sym.type = "IMPORT" /\ "COMMON" \in sym.flags THEN sym.size ELSE get_sym_value(sym),
     areaname |-> IF sym.type = "LABSYM" THEN NameOffset(strs, secs[sym.sec].name) ELSE 0]
\* make_symt: the index of a listed symbol is the number of those before it.
AofIdx(syms) == [i \in 1..Len(syms) |-> Cardinality({j \in 1..(i - 1) : AofListed(syms[j])})]

\* The contents of an area without the padding in front of its atoms.
write_areas(secs, areas) ==
    FlattenSeq([k \in 1..Len(secs) |->
        LET s == secs[k]
            data == FlattenSeq([n \in 1..Len(s.atoms) |-> AtomBytes(s.atoms[n])])
        IN  IF AA_NOINIT(s) THEN << >>
            ELSE <<DataChunk(data \o Zeros(areas[k].hdr.aligned_size - (EndPc(s) - s.org))),
                   Chunk("relocs", areas[k].hdr.num_relocs * 8, areas[k].relocs)>>])
\* add_chunk: the offsets are those of the order of writing, the head is listed first.
Entries(parts) == FoldLeft(LAMBDA x, p : IF p.n = 0 THEN x
                                         ELSE [offs |-> x.offs + p.n, list |-> LET e == [id |-> p.k, offs |-> x.offs, size |-> p.n]
                                                                               IN  IF p.k = "OBJ_HEAD" THEN <<e>> \o x.list ELSE Append(x.list, e)],
                           [offs |-> FirstOffset, list |-> << >>], parts).list

aof_write_output(o, secs, syms) ==
    LET listed == SelectSeq(syms, AofListed)
        secnames == FoldLeft(LAMBDA t, s : add_strt(t, s.name), << >>, secs)
        strs == FoldLeft(LAMBDA t, y : add_strt(t, y.name), secnames, listed)
        areas == [k \in 1..Len(secs) |-> LET r == AreaRelocs(secs, syms, AofIdx(syms), secs[k]) IN [relocs |-> r, hdr |-> AreaHdr(strs, secs[k], r)]]
        chunksize == FoldLeft(LAMBDA n, a : IF a.hdr.noinit THEN n ELSE n + a.hdr.aligned_size + a.hdr.num_relocs * 8, 0, areas)
        parts == <<Chunk("OBJ_AREA", chunksize, write_areas(secs, areas)), Chunk("OBJ_IDFN", Align4(Len(o.idfn) + 1), o.idfn),
                   Chunk("OBJ_SYMT", Len(listed) * 16, [i \in 1..Len(listed) |-> AofSymbol(strs, secs, listed[i])]),
                   Chunk("OBJ_STRT", IF strs = << >> THEN 0 ELSE Align4(StrtSize(strs)), strs),
                   Chunk("OBJ_HEAD", 4 * (6 + Len(secs) * 5), [areacnt |-> Len(secs), symcnt |-> Len(listed), areas |-> [k \in 1..Len(secs) |-> areas[k].hdr]])>>
        written == SelectSeq(parts, LAMBDA p : p.n # 0)
    IN  [out |-> <<Chunk("hdr", FirstOffset, Entries(parts))>>
                 \o FlattenSeq([i \in 1..Len(written) |-> IF written[i].k = "OBJ_AREA" THEN written[i].v ELSE <<written[i]>>]),
         errs |-> IF \E k \in 1..Len(secs) : Len(areas[k].relocs) # Len(RelocsOf(secs[k])) THEN {4} ELSE {}]
=============================================================================
