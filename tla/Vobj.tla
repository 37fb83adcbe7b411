-------------------------------- MODULE Vobj --------------------------------
(***************************************************************************)
(* The VOBJ format (output_vobj.c) and the program that reads it back      *)
(* (vobjdump.c).  The file is a sequence of numbers, strings and blocks of *)
(* bytes; a number is the bytes it is written in.  A target address has    *)
(* TADDR bytes in the assembler (8 in C).                                  *)
(***************************************************************************)
EXTENDS Output, FiniteSetsExt

TADDR == 3
Top(bytes, filler) == LET used == {i \in 1..TADDR : bytes[i] # filler} IN IF used = {} THEN 1 ELSE Max(used)

\* The first version has numbers of one length; the others leave out the zeros
\* or the sign at the end, whichever saves more.
write_number(o, val) ==
    LET bytes == Bytes(val, TADDR)
        s == IF o.version = 1 THEN TADDR ELSE Top(bytes, 0)
        u == IF o.version = 1 THEN TADDR ELSE Top(bytes, 255)
    IN  IF val \in 0..127 THEN <<val>>
        ELSE IF u < s THEN <<192 + u>> \o SubSeq(bytes, 1, u) ELSE <<128 + s>> \o SubSeq(bytes, 1, s)
Block(bytes) == [t |-> "bytes", v |-> bytes]
String(name) == [t |-> "string", v |-> name]
Numbers(o, vals) == [i \in 1..Len(vals) |-> Block(write_number(o, vals[i]))]

sym_valid(o, sym) == ~Internal(sym) /\ ~(o.no_symbols /\ sym.type # "IMPORT" /\ "EXPORT" \notin sym.flags
                                         /\ sym.kind \notin {"SECTION", "FILE"})
TypeNumber == [LABSYM |-> 1, IMPORT |-> 2, EXPRESSION |-> 3]
FlagNumber(sym) == (IF "EXPORT" \in sym.flags THEN 8 ELSE 0) + (IF "COMMON" \in sym.flags THEN 32 ELSE 0)
                   + (IF "WEAK" \in sym.flags THEN 64 ELSE 0) + (IF "SYMINDIR" \in sym.flags THEN 2 ^ 18 ELSE 0)
                   + (IF sym.kind = "SECTION" THEN 3 ELSE 0)

\* Whether a relocation is written: its symbol must be, unless it has a section.
BadReloc(o, sym) == sym.type = "IMPORT" /\ ~sym_valid(o, sym)
count_relocs(o, s, syms) == Len(SelectSeq(RelocsOf(s), LAMBDA t : ~BadReloc(o, syms[t.r.sym])))

\* What follows the last atom that is not zero is left out of the file.
IsZero(a) == a.t = "space" /\ a.relocs = << >> /\ \A i \in 1..Len(a.fill) : a.fill[i] = 0
DataSize(s) == LET used == {i \in 1..Len(s.atoms) : ~IsZero(s.atoms[i])}
               IN  IF used = {} THEN 0 ELSE AtomPc(s, Max(used)) + atom_size(s.atoms[Max(used)])
get_section_sizes(o, s, syms) == [size |-> EndPc(s), data |-> DataSize(s), nrelocs |-> count_relocs(o, s, syms)]
write_data(s, data) ==
    WriteAtoms(s, Cardinality({i \in 1..Len(s.atoms) :
                                 (IF i = 1 THEN 0 ELSE AtomPc(s, i - 1) + atom_size(s.atoms[i - 1])) < data})).out

\* The indices: of the symbols of sections first, which are those of the sections,
\* then of the valid symbols; 0 is none.
SymIdx(o, secs, syms) ==
    [i \in 1..Len(syms) |-> IF ~sym_valid(o, syms[i]) THEN 0
                            ELSE Len(secs) + Cardinality({j \in 1..i : sym_valid(o, syms[j])})]
get_nreloc_sym_idx(o, idx, syms, r) == IF idx[r.sym] # 0 THEN idx[r.sym]
                                       ELSE IF BadReloc(o, syms[r.sym]) THEN 0 ELSE syms[r.sym].sec
RelocNumber == [REL_NONE |-> 0, REL_ABS |-> 1, REL_PC |-> 2, REL_GOT |-> 3, REL_PLT |-> 7]
write_relocs(o, s, idx, syms) ==
    LET rs == RelocsOf(s)
        Entry(t) == LET n == get_nreloc_sym_idx(o, idx, syms, t.r)
                    IN  Numbers(o, <<RelocNumber[t.r.type]>>)
                        \o IF n = 0 THEN << >>
                           ELSE Numbers(o, <<t.pc + t.r.byteoffset, t.r.bitoffset, t.r.size,
                                             IF t.r.mask = "all" THEN -1 ELSE 255, t.r.addend, n>>)
    IN  FlattenSeq([k \in 1..Len(rs) |-> Entry(rs[k])])

WriteSymbol(o, idx, sym) ==
    <<String(sym.name)>> \o Numbers(o, <<TypeNumber[sym.type], FlagNumber(sym)>>
                               \o IF "SYMINDIR" \in sym.flags THEN <<0, sym.val, idx[sym.size]>>
                                  ELSE <<sym.sec, get_sym_value(sym), sym.size>>)
WriteSection(o, s, idx, syms) ==
    LET z == get_section_sizes(o, s, syms)
    IN  <<String(s.name), String(s.attr)>> \o Numbers(o, <<IF "ABSOLUTE" \in s.flags THEN 2 ELSE 0>>)
        \o (IF o.version >= 3 /\ "ABSOLUTE" \in s.flags THEN Numbers(o, <<0>>) ELSE << >>)
        \o Numbers(o, <<s.align, z.size, z.nrelocs, z.data>>) \o <<Block(write_data(s, z.data))>> \o write_relocs(o, s, idx, syms)
vobj_write_output(o, secs, syms) ==
    LET idx == SymIdx(o, secs, syms)
        base == [k \in 1..Len(secs) |-> [Symbol(secs[k].name, "LABSYM", k, 0, {}) EXCEPT !.kind = "SECTION"]]
        valid == base \o SelectSeq(syms, LAMBDA y : sym_valid(o, y))
    IN  [out |-> <<Block(<<86, 79, 66, 74, (IF o.be THEN 1 ELSE 2) + 4 * (o.version - 1)>>)>>
                 \o Numbers(o, <<8, o.bytespertaddr>>) \o <<String(o.cpu)>> \o Numbers(o, <<Len(secs), Len(valid)>>)
                 \o FlattenSeq([i \in 1..Len(valid) |-> WriteSymbol(o, idx, valid[i])])
                 \o FlattenSeq([k \in 1..Len(secs) |-> WriteSection(o, secs[k], idx, syms)]),
         errs |-> (IF o.version < 3 /\ \E i \in 1..Len(valid) : "SYMINDIR" \in valid[i].flags THEN {25} ELSE {})
                  \cup IF \E k \in 1..Len(secs) : count_relocs(o, secs[k], syms) # Len(RelocsOf(secs[k])) THEN {4} ELSE {}]
-----------------------------------------------------------------------------
\* vobjdump: x is the file f and a position p in it.  The length of a number is
\* in its first byte and must be that of the number.
NumberLen(n) == IF n >= 192 THEN n - 192 ELSE IF n >= 128 THEN n - 128 ELSE 0
read_number(x, p, signed) ==
    LET b == x.f[p].v
        n == b[1]
        raw == FoldLeft(LAMBDA v, i : v + b[1 + i] * 2 ^ (8 * (i - 1)), 0, [i \in 1..NumberLen(n) |-> i])
        sign == 2 ^ (8 * x.bpt - 1)
    IN  CASE n < 128 -> n
          [] n >= 192 -> raw - 2 ^ (8 * NumberLen(n))
          [] signed /\ (raw \div sign) % 2 = 1 -> (raw % sign) - sign
          [] OTHER -> raw
IsNumber(x, p) == x.f[p].t = "bytes" /\ Len(x.f[p].v) = 1 + NumberLen(x.f[p].v[1])

read_symbol(x, p) ==
    [name |-> x.f[p].v, type |-> read_number(x, p + 1, FALSE), flags |-> read_number(x, p + 2, FALSE),
     sec |-> read_number(x, p + 3, FALSE), val |-> read_number(x, p + 4, TRUE), size |-> read_number(x, p + 5, FALSE)]
read_reloc(x, p) ==
    [type |-> read_number(x, p, FALSE), offs |-> read_number(x, p + 1, FALSE), bpos |-> read_number(x, p + 2, FALSE),
     bsiz |-> read_number(x, p + 3, FALSE), mask |-> read_number(x, p + 4, TRUE), addend |-> read_number(x, p + 5, TRUE),
     sym |-> read_number(x, p + 6, FALSE)]
read_section(x, k) ==
    LET q == x.p + (IF x.ver >= 3 /\ read_number(x, x.p + 2, FALSE) = 2 THEN 4 ELSE 3)
        nrelocs == read_number(x, q + 2, FALSE)
        ok == /\ \A i \in (q..(q + 3)) \cup ((q + 5)..(q + 4 + 7 * nrelocs)) : IsNumber(x, i)
              /\ read_number(x, q + 3, FALSE) = Len(x.f[q + 4].v)
    IN  [x EXCEPT !.p = q + 5 + 7 * nrelocs, !.ok = @ /\ ok,
                  !.secs = Append(@, [name |-> x.f[x.p].v, attr |-> x.f[x.p + 1].v, align |-> read_number(x, q, FALSE),
                                      dsize |-> read_number(x, q + 1, FALSE), data |-> x.f[q + 4].v,
                                      relocs |-> [i \in 1..nrelocs |-> read_reloc(x, q + 5 + 7 * (i - 1))]])]
vobjdump(f) ==
    LET x == [f |-> f, bpt |-> f[3].v[1], ver |-> (f[1].v[5] \div 4) + 1]
        nsecs == read_number(x, 5, FALSE)
        nsyms == read_number(x, 6, FALSE)
        syms == [i \in 1..nsyms |-> read_symbol(x, 7 + 6 * (i - 1))]
        ok == \A i \in 1..nsyms : \A j \in 1..5 : IsNumber(x, 7 + 6 * (i - 1) + j)
    IN  FoldLeft(read_section, x @@ [p |-> 7 + 6 * nsyms, secs |-> << >>, syms |-> syms, ok |-> ok], [k \in 1..nsecs |-> k])
\* print_nreloc refuses a relocation outside of its section or of its symbols.
PrintsReloc(s, syms, r) == /\ r.offs + (r.bpos + r.bsiz - 1) \div 8 < s.dsize
                           /\ r.sym \in 1..Len(syms)
=============================================================================
