----------------------------- MODULE MCOutputs ------------------------------
(***************************************************************************)
(* A program of a few atoms and labels is parsed, assembled and written in *)
(* one of the output formats.  What the file means is defined here by a    *)
(* reader for each format, the way a loader or a linker takes it apart: by *)
(* the lengths, offsets and indices that the file itself gives.            *)
(***************************************************************************)
EXTENDS Output

CONSTANTS Scenes,      \* which of the scenes below are checked
          MaxSteps     \* atoms and labels of a program
VARIABLES scene, phase, cur, steps, secs, syms, fmt, file
vars == <<scene, phase, cur, steps, secs, syms, fmt, file>>

I == INSTANCE Image
E == INSTANCE ElfCoff
A == INSTANCE Aout
H == INSTANCE Hunk
V == INSTANCE Vobj
O == INSTANCE O65
T == INSTANCE Tos
F == INSTANCE Aof
G == INSTANCE Gst

AllScenes == {"image", "far", "join", "object", "names", "long"}
Join16 == <<16>>
-----------------------------------------------------------------------------
\* The options of all formats; each format looks at its own.
Options == [w |-> "", fmt |-> "raw", exec |-> "", join |-> << >>, be |-> FALSE, coalesce |-> FALSE, cpu |-> "65C02", addrbits |-> 16,
            tape |-> <<65>>, usr |-> << >>, srecfmt |-> 2, hexfmt |-> 32, reclen |-> 4,
            bits |-> 32, rela |-> TRUE, keepempty |-> FALSE, no_symbols |-> FALSE, filename |-> "f", elfcpu |-> TRUE,
            version |-> 2, bytespertaddr |-> 2, secalign |-> 4, exec_out |-> FALSE, kick1 |-> FALSE, databss |-> FALSE, linedebug |-> TRUE,
            xdefonly |-> FALSE, hunk_pad |-> 20081, maxrel |-> 1, near |-> 8, bssnames |-> {"bss"}, org |-> << >>, paged |-> FALSE,
            hisoft |-> TRUE, szbx |-> FALSE, monst |-> FALSE, zfile |-> 0, pc0 |-> 0, idfn |-> "vasm"]
W(w) == [Options EXCEPT !.w = w]
Bin(f) == [W("bin") EXCEPT !.fmt = f]
Images == {Bin(f) : f \in {"raw", "apple", "atari", "cbm", "dragon", "pgx", "pgz", "oric", "coco"}}
          \cup {W("cmd"), W("pap"), W("woz"), [W("srec") EXCEPT !.srecfmt = 1], [W("ihex") EXCEPT !.hexfmt = 8], [W("ihex") EXCEPT !.hexfmt = 16]}
Fars == {[W("srec") EXCEPT !.srecfmt = n, !.exec = "lab"] : n \in {2, 3}} \cup {W("ihex")}
Objects == {[W("elf") EXCEPT !.bits = 64, !.rela = FALSE, !.no_symbols = TRUE], [W("elf") EXCEPT !.be = TRUE, !.keepempty = TRUE],
            W("coff"), [W("aout") EXCEPT !.be = TRUE], W("hunk"), [W("hunk") EXCEPT !.maxrel = 2],
            [W("hunk") EXCEPT !.exec_out = TRUE], [W("hunk") EXCEPT !.exec_out = TRUE, !.kick1 = TRUE, !.databss = TRUE],
            [W("vobj") EXCEPT !.no_symbols = TRUE], W("vobj"), W("o65"), [W("tos") EXCEPT !.exec_out = TRUE],
            [W("tos") EXCEPT !.szbx = TRUE], W("aof"), W("gst"), W("xfile")}
Longs == {W("o65"), [W("tos") EXCEPT !.exec_out = TRUE], W("vobj"), [W("vobj") EXCEPT !.version = 1]}
Formats == [image |-> Images, far |-> Fars, join |-> {[Bin("raw") EXCEPT !.join = Join16], [Bin("cbm") EXCEPT !.join = Join16]},
            object |-> Objects, names |-> Objects \cup {W("cdef"), W("hans")}, long |-> Longs]

\* The atoms of a scene; each is on a line of its own.
Relocated(align, bytes, relocs) == [Data(align, bytes) EXCEPT !.relocs = relocs]
AbsLab == Relocated(1, Zeros(4), <<Reloc("REL_ABS", 0, 32, 1, 1)>>)
AbsFar == Relocated(4, <<1, 2>> \o Zeros(10), <<Reloc("REL_ABS", 8, 32, 2, 0), Reloc("REL_ABS", 2, 32, 3, 2)>>)
Word == Relocated(1, Zeros(2), <<Reloc("REL_ABS", 0, 16, 2, 0)>>)
PcExt == Relocated(2, Zeros(2), <<Reloc("REL_PC", 0, 16, 3, 0)>>)
Plain == Data(1, <<251, 3, 5>>)
Menu == [image |-> {Plain, Data(4, <<1>>), Space(1, 2, <<7, 8>>), AlignAtom(4, <<9>>, 2), Uninitialized(3)},
         far |-> {Plain, Space(1, 3, <<7>>), Uninitialized(2)},
         join |-> {Plain, Word, Space(1, 2, <<0>>)},
         object |-> {Plain, AbsLab, AbsFar, Space(2, 3, <<0>>)},
         names |-> {Plain, Word, PcExt, Uninitialized(2), AlignAtom(8, <<9>>, 0)},
         long |-> {AbsLab, Word} \cup {Space(1, n, <<0>>) : n \in {250, 252, 254, 300}}]
Start(sc) ==
    LET Sec(name, attr, org) == [Section(name, attr, 4, org, << >>) EXCEPT !.flags = IF org > 0 THEN {"ABSOLUTE"} ELSE {}]
    IN  CASE sc = "image" -> <<Sec("b", "c", 32), Sec("a", "d", 8)>>
          [] sc = "far" -> <<Sec("b", "c", 65536 + 8), Sec("a", "d", 16), Sec("c", "d", 131072)>>
          [] OTHER -> <<Sec("text", "c", 0), Sec("data", "d", 0), Sec("bss", "u", 0)>>
\* A label that is only known in the module, an exported one with a long name, a
\* symbol of another module, an exported constant, a common block.
Symbols == <<Symbol("lab", "IMPORT", 0, 0, {}), Symbol("exported_name", "IMPORT", 0, 0, {"EXPORT"}), Symbol("ext", "IMPORT", 0, 0, {}),
             Symbol("value", "EXPRESSION", 0, 77, {"EXPORT"}), Symbol(".hidden", "EXPRESSION", 0, 5, {"VASMINTERN"})>>
Common == [Symbol("common", "IMPORT", 0, 0, {"COMMON"}) EXCEPT !.size = 8, !.align = 4]
-----------------------------------------------------------------------------
Init == /\ scene \in Scenes
        /\ phase = "parse" /\ cur = 1 /\ steps = 0 /\ fmt = Options /\ file = [out |-> << >>, errs |-> {}]
        /\ secs = Start(scene)
        /\ syms = IF scene \in {"image", "far"} THEN <<[Symbols[1] EXCEPT !.type = "LABSYM", !.sec = 1, !.val = secs[1].org], Symbols[4], Symbols[5]>>
                  ELSE IF scene = "names" THEN Append(Symbols, Common)
                  ELSE IF scene = "long" THEN [Symbols EXCEPT ![1].type = "LABSYM", ![1].sec = 1] ELSE Symbols

NextSection == /\ phase = "parse" /\ cur < Len(secs)
               /\ cur' = cur + 1
               /\ UNCHANGED <<scene, phase, steps, secs, syms, fmt, file>>
AddAtom == /\ phase = "parse" /\ steps < MaxSteps
           /\ \E a \in Menu[scene] :
                 /\ secs[cur].attr = "u" => a.t = "space" /\ a.relocs = << >>
                 /\ secs' = [secs EXCEPT ![cur].atoms = Append(@, [a EXCEPT !.src = <<"f", steps>>])]
           /\ steps' = steps + 1
           /\ UNCHANGED <<scene, phase, cur, syms, fmt, file>>
\* A label defined twice would be an error.
AddLabel == /\ phase = "parse" /\ steps < MaxSteps
            /\ \E i \in 1..2 :
                  /\ syms[i].type = "IMPORT"
                  /\ syms' = [syms EXCEPT ![i].type = "LABSYM", ![i].sec = cur, ![i].val = EndPc(secs[cur])]
            /\ secs' = [secs EXCEPT ![cur].flags = @ \cup {"HAS_SYMBOLS"}]
            /\ steps' = steps + 1
            /\ UNCHANGED <<scene, phase, cur, fmt, file>>
\* The addend of a relocation by a label includes the offset of the label.
Resolved(r) == IF syms[r.sym].type = "LABSYM" THEN [r EXCEPT !.addend = @ + syms[r.sym].val - secs[syms[r.sym].sec].org] ELSE r
ResolvedSec(s) == [s EXCEPT !.atoms = [i \in 1..Len(@) |-> [@[i] EXCEPT !.relocs = [k \in 1..Len(@) |-> Resolved(@[k])]]]]
Assemble == /\ phase = "parse" /\ \E k \in 1..Len(secs) : secs[k].atoms # << >>
            /\ secs' = trim_uninitialized([k \in 1..Len(secs) |-> Assembled(ResolvedSec(secs[k]))])
            /\ phase' = "assembled"
            /\ UNCHANGED <<scene, cur, steps, syms, fmt, file>>
WriteWith(o) == CASE o.w = "bin" -> I!bin_write_output(o, secs, syms) [] o.w = "cmd" -> I!cmd_write_output(o, secs, syms)
                  [] o.w = "srec" -> I!srec_write_output(o, secs, syms) [] o.w = "ihex" -> I!ihex_write_output(o, secs, syms)
                  [] o.w = "pap" -> I!pap_write_output(o, secs, syms) [] o.w = "woz" -> I!woz_write_output(o, secs, syms)
                  [] o.w = "elf" -> E!elf_write_output(o, secs, syms) [] o.w = "coff" -> E!coff_write_output(o, secs, syms)
                  [] o.w = "aout" -> A!aout_write_output(o, secs, syms) [] o.w = "hunk" -> H!hunk_write_output(o, secs, syms)
                  [] o.w = "vobj" -> V!vobj_write_output(o, secs, syms) [] o.w = "o65" -> O!o65_write_output(o, secs, syms)
                  [] o.w = "tos" -> T!tos_write_output(o, secs, syms) [] o.w = "xfile" -> T!xfile_write_output(o, secs, syms)
                  [] o.w = "aof" -> F!aof_write_output(o, secs, syms) [] o.w = "gst" -> G!gst_write_output(o, secs, syms)
                  [] o.w = "cdef" -> I!cdef_write_output(o, secs, syms) [] o.w = "hans" -> I!hans_write_output(o, secs, syms)
\* Every section empty: output_bin.c reads a list that it has not filled.
Write == /\ phase = "assembled" /\ \E k \in 1..Len(secs) : get_sec_size(secs[k]) # 0
         /\ \E o \in Formats[scene] : fmt' = o /\ file' = WriteWith(o)
         /\ phase' = "written"
         /\ UNCHANGED <<scene, cur, steps, secs, syms>>
Next == NextSection \/ AddAtom \/ AddLabel \/ Assemble \/ Write
Spec == Init /\ [][Next]_vars
-----------------------------------------------------------------------------
\* Loaders: the pairs of an address and a byte that a file puts into memory, and
\* whether the file was taken apart without a rest.
Out == file.out
Le(p) == Out[p] + 256 * Out[p + 1]
Be(p) == 256 * Out[p] + Out[p + 1]
Take(p, n) == SubSeq(Out, p, IF p + n - 1 < Len(Out) THEN p + n - 1 ELSE Len(Out))
Bytewise(a, bytes) == {<<a + i - 1, bytes[i]>> : i \in 1..Len(bytes)}
Image(a, p) == [mem |-> Bytewise(a, Take(p, Len(Out))), ok |-> TRUE]
Sized(a, n, p) == [mem |-> Bytewise(a, Take(p, n)), ok |-> p + n = Len(Out) + 1]
\* Segments up to the end of the file or to the last one: Seg gives the address,
\* the length and the place of the bytes of the segment at p.
Segmented(p0, Seg(_), IsLast(_), rest) ==
    LET x == FoldLeft(LAMBDA r, k : IF r.p > Len(Out) \/ IsLast(r.p) THEN r
                                    ELSE LET g == Seg(r.p) IN [p |-> g.p + g.n, mem |-> r.mem \cup Bytewise(g.a, Take(g.p, g.n))],
                      [p |-> p0, mem |-> {}], [k \in 1..(Len(secs) + 1) |-> k])
    IN  [mem |-> x.mem, ok |-> x.p + rest = Len(Out) + 1]
Records(Is(_), Of(_)) == [mem |-> UNION {Bytewise(Of(Out[i]), Out[i].data) : i \in {k \in 1..Len(Out) : Is(Out[k])}}, ok |-> TRUE]
Value(bytes) == FoldLeft(LAMBDA v, b : v * 256 + b, 0, bytes)
FirstOrg == LET filled == {secs[k].org : k \in {j \in 1..Len(secs) : get_sec_size(secs[j]) > 0}}
            IN  CHOOSE a \in filled : \A b \in filled : a <= b
HexMemory == FoldLeft(LAMBDA r, c : CASE c.type = 0 -> [r EXCEPT !.mem = @ \cup Bytewise(r.base + c.addr, c.data)]
                                      [] c.type = 2 -> [r EXCEPT !.base = Value(c.data) * 16]
                                      [] c.type = 4 -> [r EXCEPT !.base = Value(c.data) * 65536]
                                      [] OTHER -> r, [mem |-> {}, base |-> 0, ok |-> TRUE], Out)
Load ==
    CASE fmt.w = "cmd" -> Segmented(1, LAMBDA p : [a |-> Le(p + 3), n |-> Le(p + 1) - 5, p |-> p + 5], LAMBDA p : Out[p] = 2, 5)
      [] fmt.w = "srec" -> Records(LAMBDA c : c.type \in 1..3, LAMBDA c : Value(c.addr))
      [] fmt.w = "ihex" -> HexMemory
      [] fmt.w = "pap" -> Records(LAMBDA c : c.count > 0, LAMBDA c : c.addr)
      [] fmt.w = "woz" -> Records(LAMBDA c : TRUE, LAMBDA c : c.addr)
      [] fmt.fmt = "apple" -> Sized(Le(1), Le(3), 5)
      [] fmt.fmt = "cbm" -> Image(Le(1), 3)
      [] fmt.fmt = "dragon" -> Sized(Be(3), Be(5), 10)
      [] fmt.fmt = "pgx" -> Image(Le(5), 9)
      [] fmt.fmt = "oric" -> Sized(Be(12), Be(10) - Be(12) + 1, 15 + Len(fmt.tape) + 1)
      [] fmt.fmt = "atari" -> Segmented(3, LAMBDA p : [a |-> Le(p), n |-> Le(p + 2) - Le(p) + 1, p |-> p + 4], LAMBDA p : FALSE, 0)
      [] fmt.fmt = "coco" -> Segmented(1, LAMBDA p : [a |-> Be(p + 3), n |-> Be(p + 1), p |-> p + 5], LAMBDA p : Out[p] = 255, 5)
      [] fmt.fmt = "pgz" -> Segmented(2, LAMBDA p : [a |-> Le(p), n |-> Le(p + 3), p |-> p + 6], LAMBDA p : Le(p + 3) = 0, 6)
      [] OTHER -> Image(IF fmt.join # << >> THEN fmt.join[1] ELSE FirstOrg, 1)
\* What the program puts into memory, where section k starts at Org[k].
AtomMemory(org, k, i) ==
    LET a == secs[k].atoms[i]
        r == a.relocs[1]
        bytes == IF a.relocs = << >> THEN AtomBytes(a) ELSE Bytes(r.addend + org[syms[r.sym].sec], r.size \div 8)
    IN  IF IsInitialized(a) THEN Bytewise(AtomPc(secs[k], i) - secs[k].org + org[k], bytes) ELSE {}
Memory(org) == UNION {UNION {AtomMemory(org, k, i) : i \in 1..Len(secs[k].atoms)} : k \in 1..Len(secs)}
Orgs == [k \in 1..Len(secs) |-> secs[k].org]
JoinOrgs == [k \in 1..Len(secs) |->
    FoldLeft(LAMBDA a, j : LET b == a + (EndPc(secs[j]) - secs[j].org) IN b + balign(b, secs[j + 1].align), fmt.join[1], [j \in 1..(k - 1) |-> j])]
Padded(s) == \E i \in 2..Len(s.atoms) : AtomPc(s, i) # AtomPc(s, i - 1) + atom_size(s.atoms[i - 1])
Blank(s) == s.last = 0 /\ get_sec_size(s) > 0
Trailing(s) == s.pc # EndPc(s)
\* Cases in which the code does not write what the format says (see the README).
LoadsWell == CASE fmt.w = "cmd" -> \A k \in 1..Len(secs) : ~Trailing(secs[k])
               [] fmt.w \in {"pap", "woz"} -> \A k \in 1..Len(secs) : ~Padded(secs[k])
               [] fmt.fmt \in {"atari", "coco", "pgz"} -> \A k \in 1..Len(secs) : ~Blank(secs[k])
               [] OTHER -> TRUE

-----------------------------------------------------------------------------
\* Readers of object files: the set of its sections (name, size, bytes), its
\* definitions (name, section, value), its relocations (section, offset, type,
\* size, what it is relative to), their addends where the file holds them, and
\* whether lengths, counts and indices of the file agree.
Starts == [i \in 1..Len(Out) |-> Length(SubSeq(Out, 1, i - 1))]
PartAt(off, n) == LET at == {i \in 1..Len(Out) : Starts[i] = off /\ Out[i].n = n}
                  IN  IF n = 0 \/ at = {} THEN Chunk("none", 0, << >>) ELSE Out[CHOOSE i \in at : TRUE]
Present(off, n) == n = 0 \/ PartAt(off, n).n = n
\* The string at an offset of a table of strings, each with a zero behind it.
StringAt(strs, off) == LET at == {i \in 1..Len(strs) : FoldLeft(LAMBDA n, t : n + Len(t) + 1, 0, SubSeq(strs, 1, i - 1)) = off}
                       IN  IF at = {} THEN "?" ELSE strs[CHOOSE i \in at : TRUE]
Signed(bytes) == LET b == bytes[1] IN Value(Tail(bytes)) + (IF b > 127 THEN b - 256 ELSE b) * 2 ^ (8 * (Len(bytes) - 1))
Field(data, at, n, be) == Signed(Ordered(~be, SubSeq(data, at + 1, at + n)))
Sec(name, size, data) == [name |-> name, size |-> size, data |-> data]
Def(name, sec, val) == [name |-> name, sec |-> sec, val |-> val]
Rel(sec, at, type, size, target) == [sec |-> sec, at |-> at, type |-> type, size |-> size, target |-> target]
Target(kind, name) == [kind |-> kind, name |-> name]
Object(ss, defs, rels, adds, ok) == [secs |-> ss, defs |-> defs, rels |-> rels, adds |-> adds, ok |-> ok]
SetOf(seq) == {seq[i] : i \in 1..Len(seq)}

ElfObject ==
    LET z == E!Sizes(fmt.bits)
        h == Out[1].v
        sh == PartAt(h.shoff, h.shnum * z.shdr).v
        strs(i) == PartAt(sh[i].offset, sh[i].size).v
        name(i) == StringAt(strs(h.shstrndx + 1), sh[i].name)
        st == CHOOSE i \in 1..Len(sh) : sh[i].type = "SYMTAB"
        tab == PartAt(sh[st].offset, sh[st].size).v
        symname(y) == StringAt(strs(sh[st].link + 1), y.st_name)
        where(y) == IF y.shndx = E!SHN_ABS THEN "abs" ELSE name(y.shndx + 1)
        progs == {i \in 1..Len(sh) : sh[i].type \in {"PROGBITS", "NOBITS"}}
        all == Last(Out)
        Entries(i) == SubSeq(all.v, ((sh[i].offset - Starts[Len(Out)]) \div sh[i].entsize) + 1,
                             (sh[i].offset - Starts[Len(Out)] + sh[i].size) \div sh[i].entsize)
        target(y) == IF y.type = "SECTION" THEN Target("sec", name(y.shndx + 1)) ELSE Target("sym", symname(y))
        relhdrs == {i \in 1..Len(sh) : sh[i].type = "RELOC"}
        sec(i) == name(sh[i].info + 1)
    IN  Object({Sec(name(i), sh[i].size, IF sh[i].type = "NOBITS" THEN << >> ELSE PartAt(sh[i].offset, sh[i].size).v) : i \in progs},
               {Def(symname(y), where(y), y.value) : y \in {tab[i] : i \in {k \in 1..Len(tab) : tab[k].bind # "LOCAL" /\ tab[k].shndx \notin {0, E!SHN_COMMON}}}},
               UNION {{Rel(sec(i), e.offset, e.type[1], e.type[2], target(tab[e.sym + 1])) : e \in SetOf(Entries(i))} : i \in relhdrs},
               IF fmt.rela THEN UNION {{<<sec(i), e.offset, e.addend>> : e \in SetOf(Entries(i))} : i \in relhdrs} ELSE {},
               /\ \A i \in progs : sh[i].type = "PROGBITS" => Present(sh[i].offset, sh[i].size)
               /\ \A i \in 1..Len(tab) : tab[i].bind = "LOCAL" <=> i <= sh[st].info)

CoffObject ==
    LET h == Out[1].v
        hs == PartAt(E!HDR, h.f_nscns * E!SECHDR)
        tab == PartAt(h.f_symptr, h.f_nsyms * E!SYM).v
        strs == Out[CHOOSE i \in 1..Len(Out) : Out[i].k = "strtab"].v
        symname(y) == IF y.n_name = "" THEN StringAt(strs, y.n_offset - 4) ELSE y.n_name
        where(y) == IF y.n_scnum = E!COFF_N_ABS THEN "abs" ELSE IF y.n_scnum = 0 THEN "none" ELSE hs.v[y.n_scnum].s_name
        rels(s) == {PartAt(s.s_relptr + (j - 1) * E!RELOC, E!RELOC).v : j \in 1..s.s_nreloc}
        target(y) == IF y.n_scnum > 0 THEN Target("sec", where(y)) ELSE Target("sym", symname(y))
    IN  Object({Sec(s.s_name, s.s_size, PartAt(s.s_scnptr, s.s_size).v) : s \in SetOf(hs.v)},
               {Def(symname(y), where(y), y.n_value) : y \in SetOf(tab)},
               UNION {{Rel(s.s_name, e.r_vaddr, e.r_type[1], e.r_type[2], target(tab[e.r_symndx + 1])) : e \in rels(s)} : s \in SetOf(hs.v)},
               {}, \A s \in SetOf(hs.v) : Present(s.s_scnptr, s.s_size))

AoutObject ==
    LET h == Out[1].v
        data == 32 + h.a_text
        trel == data + h.a_data
        syms0 == trel + h.a_trsize + h.a_drsize
        tab == PartAt(syms0, h.a_syms).v
        strs == IF Starts[Len(Out)] = syms0 + h.a_syms THEN Last(Out).v ELSE << >>
        base == [text |-> 0, data |-> h.a_text, bss |-> h.a_text + h.a_data]
        sec == [N_TEXT |-> "text", N_DATA |-> "data", N_BSS |-> "bss"]
        bytes == [text |-> PartAt(32, h.a_text).v, data |-> PartAt(data, h.a_data).v]
        symname(y) == StringAt(strs, y.n_strx - 4)
        rels == [text |-> PartAt(trel, h.a_trsize).v, data |-> PartAt(trel + h.a_trsize, h.a_drsize).v]
        target(e) == IF e.r_symbolnum[1] = "sec" THEN Target("sec", sec[e.r_symbolnum[2]]) ELSE Target("sym", symname(tab[e.r_symbolnum[2] + 1]))
        add(s, e) == Field(bytes[s], e.r_address, e.info[1].length \div 8, fmt.be) + (IF e.info[1].pcrel THEN e.r_address ELSE 0)
                     - (IF target(e).kind = "sec" THEN base[target(e).name] ELSE 0)
    IN  Object({Sec("text", h.a_text, bytes.text), Sec("data", h.a_data, bytes.data), Sec("bss", h.a_bss, << >>)},
               {IF y.n_type = "N_ABS" THEN Def(symname(y), "abs", y.n_value) ELSE Def(symname(y), sec[y.n_type], y.n_value - base[sec[y.n_type]])
                  : y \in {tab[i] : i \in {k \in 1..Len(tab) : tab[k].ext /\ tab[k].n_type \in {"N_ABS", "N_TEXT", "N_DATA", "N_BSS"}}}},
               UNION {{Rel(s, e.r_address, IF e.info[1].pcrel THEN "REL_PC" ELSE "REL_ABS", e.info[1].length, target(e)) : e \in SetOf(rels[s])} : s \in {"text", "data"}},
               UNION {{<<s, e.r_address, add(s, e)>> : e \in SetOf(rels[s])} : s \in {"text", "data"}},
               Present(32, h.a_text) /\ Present(data, h.a_data))

\* The hunks up to each END belong to one section; executables have no names.
Ends == {i \in 1..Len(Out) : Out[i].h = "END"}
EndsBefore(i) == Cardinality({e \in Ends : e < i})
Names == IF fmt.exec_out THEN LET kept == SelectSeq(secs, LAMBDA s : get_sec_size(s) # 0 \/ "HAS_SYMBOLS" \in s.flags) IN [k \in 1..Len(kept) |-> kept[k].name]
         ELSE LET ns == SelectSeq(Out, LAMBDA x : x.h = "NAME") IN [k \in 1..Len(ns) |-> ns[k].name]
HunkType == [ABSRELOC32 |-> <<"REL_ABS", 32>>, DREL32 |-> <<"REL_ABS", 32>>, RELRELOC16 |-> <<"REL_PC", 16>>,
             ABSREF32 |-> <<"REL_ABS", 32>>, ABSREF16 |-> <<"REL_ABS", 16>>, RELREF16 |-> <<"REL_PC", 16>>]
HunkObject ==
    LET sec(i) == Names[EndsBefore(i) + 1]
        Is(hs) == {i \in 1..Len(Out) : Out[i].h \in hs}
        bodies == Is({"CODE", "DATA", "BSS"})
        size(i) == 4 * IF fmt.exec_out THEN Out[1].sizes[EndsBefore(i) + 1] ELSE Out[i].size
        RT(i, off, h, target) == Rel(sec(i), off, HunkType[h][1], HunkType[h][2], target)
        groups(i) == UNION {{RT(i, off, Out[i].h, Target("sec", Names[g.idx + 1])) : off \in SetOf(g.offs)} : g \in SetOf(Out[i].groups)}
        refs(i) == UNION {{RT(i, off, e.type, Target("sym", e.name)) : off \in SetOf(e.offs)}
                          : e \in {Out[i].entries[n] : n \in {m \in 1..Len(Out[i].entries) : Out[i].entries[m].type \in DOMAIN HunkType}}}
        defs(i) == {Def(e.name, IF e.type = "ABS" THEN "abs" ELSE sec(i), e.value)
                    : e \in {Out[i].entries[n] : n \in {m \in 1..Len(Out[i].entries) : Out[i].entries[m].type \in {"DEF", "ABS", "SYMB"}}}}
        relhunks == Is({"ABSRELOC32", "DREL32", "RELRELOC16"})
    IN  Object({Sec(sec(i), size(i), Out[i].data) : i \in bodies}, UNION {defs(i) : i \in Is({"EXT", "SYMBOL"})},
               UNION ({groups(i) : i \in relhunks} \cup {refs(i) : i \in Is({"EXT"})}), {},
               /\ \A i \in bodies : Len(Out[i].data) \in {0, 4 * Out[i].size} /\ 4 * Out[i].size <= size(i)
               /\ \A i \in relhunks : \A n \in 1..Len(Out[i].groups) : Out[i].groups[n].n = Len(Out[i].groups[n].offs) /\ Out[i].groups[n].n <= fmt.maxrel)

VobjRead(x) ==
    LET type == <<"REL_ABS", "REL_PC">>
        target(y) == IF y.type = 1 THEN Target("sec", x.secs[y.sec].name) ELSE Target("sym", y.name)
    IN  Object({Sec(s.name, s.dsize, s.data) : s \in SetOf(x.secs)},
               {Def(y.name, IF y.type = 3 THEN "abs" ELSE x.secs[y.sec].name, y.val) : y \in {x.syms[i] : i \in {k \in 1..Len(x.syms) : x.syms[k].type # 2}}},
               UNION {{Rel(s.name, r.offs, type[r.type], r.bsiz, target(x.syms[r.sym])) : r \in SetOf(s.relocs)} : s \in SetOf(x.secs)},
               UNION {{<<s.name, r.offs, r.addend>> : r \in SetOf(s.relocs)} : s \in SetOf(x.secs)},
               x.ok /\ x.p = Len(Out) + 1 /\ \A s \in SetOf(x.secs) : \A r \in SetOf(s.relocs) : V!PrintsReloc(s, x.syms, r))
VobjObject == VobjRead(V!vobjdump(Out))

\* A table of distances of o65: the address, the type, what it refers to.
O65Table(t, imports) ==
    FoldLeft(LAMBDA x, k : IF x.p > Len(t) \/ t[x.p] = 0 THEN x
                           ELSE IF t[x.p] = 255 THEN [x EXCEPT !.p = @ + 1, !.at = @ + 254]
                           ELSE LET seg == t[x.p + 1] % 8
                                    type == t[x.p + 1] - seg
                                IN  [p |-> x.p + 2 + (IF seg = 0 THEN 2 ELSE 0) + (IF type = 64 THEN 1 ELSE 0), at |-> x.at + t[x.p],
                                     out |-> Append(x.out, [at |-> x.at + t[x.p], size |-> IF type = 128 THEN 16 ELSE 8,
                                                            target |-> IF seg = 0 THEN Target("sym", imports[t[x.p + 2] + 256 * t[x.p + 3] + 1])
                                                                       ELSE Target("sec", <<"text", "data", "bss", "zero">>[seg - 1])])],
             [p |-> 1, at |-> -1, out |-> << >>], [k \in 1..Len(t) |-> k])
O65Object ==
    LET h == Out[1].v
        bytes == [text |-> Out[2].v, data |-> Out[3].v]
        table == [text |-> O65Table(Out[5].v, Out[4].v), data |-> O65Table(Out[6].v, Out[4].v)]
    IN  Object({Sec("text", h.sizes.S_TEXT, bytes.text), Sec("data", h.sizes.S_DATA, bytes.data), Sec("bss", h.sizes.S_BSS, << >>)},
               {Def(y.name, <<"abs", "text", "data", "bss">>[y.segid], y.value) : y \in SetOf(Out[7].v)},
               UNION {{Rel(s, e.at, "REL_ABS", e.size, e.target) : e \in SetOf(table[s].out)} : s \in {"text", "data"}},
               UNION {{<<s, e.at, Field(bytes[s], e.at, e.size \div 8, FALSE)>> : e \in SetOf(table[s].out)} : s \in {"text", "data"}},
               Len(bytes.text) = h.sizes.S_TEXT /\ Len(bytes.data) = h.sizes.S_DATA
               /\ table.text.p = Len(Out[5].v) /\ table.data.p = Len(Out[6].v))

\* The tables of distances of executables give places in the program, text first.
TosTable(t) == IF t = Zeros(4) THEN << >>
               ELSE FoldLeft(LAMBDA x, k : IF t[k] = 0 THEN x ELSE IF t[k] = 1 THEN [x EXCEPT !.at = @ + 254]
                                           ELSE [at |-> x.at + t[k], out |-> Append(x.out, x.at + t[k])],
                             [at |-> Value(SubSeq(t, 1, 4)), out |-> <<Value(SubSeq(t, 1, 4))>>], [k \in 1..(Len(t) - 4) |-> k + 4]).out
XTable(t) == FoldLeft(LAMBDA x, k : [at |-> x.at + Value(SubSeq(t, 2 * k - 1, 2 * k)), out |-> Append(x.out, x.at + Value(SubSeq(t, 2 * k - 1, 2 * k)))],
                      [at |-> 0, out |-> << >>], [k \in 1..(Len(t) \div 2) |-> k]).out
\* Entries of the symbol table: a long name continues in the next entries.
SymEntries == SelectSeq(Out, LAMBDA c : c.k = "sym")
LongName(i) == FoldLeft(LAMBDA n, j : IF j.type \in {{"XFLAGS"}, {"REST"}} /\ ~n.done THEN [n EXCEPT !.name = @ \o j.name] ELSE [n EXCEPT !.done = TRUE],
                        [name |-> SymEntries[i].v.name, done |-> FALSE], [j \in 1..(Len(SymEntries) - i) |-> SymEntries[i + j].v]).name
SecOfType == [S_TEXT |-> "text", S_DATA |-> "data", S_BSS |-> "bss", EQUATED |-> "abs"]
TosDefs == UNION {{Def(LongName(i), SecOfType[t], SymEntries[i].v.value) : t \in SymEntries[i].v.type \cap DOMAIN SecOfType} : i \in 1..Len(SymEntries)}
Program(tlen, dlen, blen, rels, defs, ok) ==
    LET prog == Out[2].v \o Out[3].v
        place(at) == IF at < tlen THEN <<"text", at>> ELSE <<"data", at - tlen>>
    IN  Object({Sec("text", tlen, Out[2].v), Sec("data", dlen, Out[3].v), Sec("bss", blen, << >>)}, defs,
               {Rel(place(at)[1], place(at)[2], "REL_ABS", 32, Target("prog", "")) : at \in SetOf(rels)},
               {<<place(at)[1], place(at)[2], Field(prog, at, 4, TRUE)>> : at \in SetOf(rels)},
               ok /\ Len(Out[2].v) = tlen /\ Len(Out[3].v) = dlen)
DriWords(t) == [i \in 1..(Len(t) \div 2) |-> 256 * t[2 * i - 1] + t[2 * i]]
DriRels(s, t) ==
    LET w == DriWords(t)
        sec == <<"data", "text", "bss">>
        target(n) == IF n % 8 \in 1..3 THEN Target("sec", sec[n % 8]) ELSE Target("sym", LongName((n \div 8) + 1))
    IN  {LET long == i > 1 /\ w[i - 1] = 5
         IN  Rel(s, 2 * (i - 1) - (IF long THEN 2 ELSE 0), IF w[i] % 8 = 6 THEN "REL_PC" ELSE "REL_ABS", IF long THEN 32 ELSE 16, target(w[i]))
           : i \in {k \in 1..Len(w) : w[k] # 0 /\ w[k] # 5}}
TosObject ==
    LET h == Out[1].v
        p == Program(h.tlen, h.dlen, h.blen, IF fmt.exec_out THEN TosTable(Out[Len(Out) - 1].v) ELSE << >>, TosDefs, h.slen = 14 * Len(SymEntries))
    IN  IF fmt.exec_out THEN p ELSE [p EXCEPT !.rels = DriRels("text", Out[Len(Out) - 1].v) \cup DriRels("data", Last(Out).v)]
XfileObject ==
    LET h == Out[1].v
        base == [S_TEXT |-> 0, S_DATA |-> h.textsz, S_BSS |-> h.textsz + h.datasz, EQUATED |-> 0]
    IN  Program(h.textsz, h.datasz, h.heapsz, XTable(Out[4].v),
                {Def(c.v.name, SecOfType[c.v.type], c.v.value - base[c.v.type]) : c \in SetOf(SymEntries)},
                h.relocsz = Len(Out[4].v) /\ h.syminfsz = Length(SymEntries))

AofObject ==
    LET list == Out[1].v
        entry(id) == list[CHOOSE i \in 1..Len(list) : list[i].id = id]
        part(id) == PartAt(entry(id).offs, entry(id).size).v
        areas == part("OBJ_HEAD").areas
        strs == part("OBJ_STRT")
        tab == part("OBJ_SYMT")
        name(k) == StringAt(strs, areas[k].name_offs - 4)
        Room(k) == IF areas[k].noinit THEN 0 ELSE areas[k].aligned_size + areas[k].num_relocs * 8
        offs(k) == FoldLeft(LAMBDA n, j : n + Room(j), IF \E i \in 1..Len(list) : list[i].id = "OBJ_AREA" THEN entry("OBJ_AREA").offs ELSE 0, [j \in 1..(k - 1) |-> j])
        rels(k) == IF areas[k].noinit THEN << >> ELSE PartAt(offs(k) + areas[k].aligned_size, areas[k].num_relocs * 8).v
        target(e) == IF e.a THEN Target("sym", StringAt(strs, tab[e.sid + 1].symname - 4)) ELSE Target("sec", name(e.sid + 1))
    IN  Object({Sec(name(k), areas[k].aligned_size, IF areas[k].noinit THEN << >> ELSE PartAt(offs(k), areas[k].aligned_size).v) : k \in 1..Len(areas)},
               {Def(StringAt(strs, y.symname - 4), IF "ABS" \in y.attr THEN "abs" ELSE StringAt(strs, y.areaname - 4), y.value)
                  : y \in {tab[i] : i \in {n \in 1..Len(tab) : "GLOBAL" \in tab[n].attr}}},
               UNION {{Rel(name(k), e.offset, e.type, 8 * 2 ^ e.ft, target(e)) : e \in SetOf(rels(k))} : k \in 1..Len(areas)}, {},
               \A k \in 1..Len(areas) : areas[k].noinit \/ Present(offs(k), areas[k].aligned_size))

\* A stream: the section that is open, the bytes read so far, a single GSTESC.
GstStep(x, d) ==
    LET name(id) == (CHOOSE e \in x.names : e[1] = id)[2]
    IN  CASE d.d = "byte" /\ d.b = 251 /\ ~x.esc -> [x EXCEPT !.esc = TRUE]
          [] d.d = "byte" -> [x EXCEPT !.esc = FALSE, !.ok = @ /\ (x.esc => d.b = 251), !.data[x.sec] = Append(@, d.b)]
          [] x.esc -> [x EXCEPT !.ok = FALSE]
          [] d.d = "DEFINE" -> [x EXCEPT !.names = @ \cup {<<d.id, d.name>>}, !.data = IF d.id < 0 THEN @ @@ (d.name :> << >>) ELSE @]
          [] d.d \in {"SECTION", "COMMON"} -> [x EXCEPT !.sec = name(d.id)]
          [] d.d = "OFFSET" -> [x EXCEPT !.data[x.sec] = @ \o Zeros(d.n)]
          [] d.d = "XREF" -> [x EXCEPT !.data[x.sec] = @ \o Zeros(d.rule[1]), !.adds = @ \cup {<<x.sec, Len(x.data[x.sec]), d.add>>},
                                       !.rels = @ \cup {Rel(x.sec, Len(x.data[x.sec]), IF d.rule[2] = "SIGNED PCREL" THEN "REL_PC" ELSE "REL_ABS", 8 * d.rule[1],
                                                            Target(IF d.id < 0 THEN "sec" ELSE "sym", name(d.id)))}]
          [] d.d = "XDEF" -> [x EXCEPT !.defs = @ \cup {Def(d.name, IF d.id = 0 THEN "abs" ELSE name(d.id), d.value)}]
          [] OTHER -> x
GstObject ==
    LET x == FoldLeft(GstStep, [names |-> {}, data |-> << >>, sec |-> "", esc |-> FALSE, ok |-> TRUE, rels |-> {}, adds |-> {}, defs |-> {}], Out)
    IN  Object({Sec(n, Len(x.data[n]), x.data[n]) : n \in DOMAIN x.data}, x.defs, x.rels, x.adds, x.ok)

TheObject == CASE fmt.w = "elf" -> ElfObject [] fmt.w = "coff" -> CoffObject [] fmt.w = "aout" -> AoutObject [] fmt.w = "hunk" -> HunkObject
               [] fmt.w = "vobj" -> VobjObject [] fmt.w = "o65" -> O65Object [] fmt.w = "tos" -> TosObject [] fmt.w = "xfile" -> XfileObject
               [] fmt.w = "aof" -> AofObject [] fmt.w = "gst" -> GstObject
-----------------------------------------------------------------------------

\* Loading an image gives the bytes of the program at their addresses and no byte
\* outside of the program, whatever the order, the gaps and the uninitialised
\* ends of its sections (write_output of output_bin.c, _srec.c, _ihex.c, ...).
ImageLoads ==
    phase = "written" /\ file.errs = {} /\ scene \in {"image", "far", "join"} /\ LoadsWell =>
        LET org == IF fmt.join # << >> THEN JoinOrgs ELSE Orgs
            ends == {org[k] + EndPc(secs[k]) - secs[k].org : k \in 1..Len(secs)}
        IN  /\ Load.ok /\ Memory(org) \subseteq Load.mem
            /\ \A m, n \in Load.mem : m[1] = n[1] => m = n
            /\ \A m \in Load.mem : (\E k \in 1..Len(secs) : m[1] >= org[k]) /\ (\E e \in ends : m[1] < e)
\* Objects that are checked: those without a known defect (see the README).
IsObject == phase = "written" /\ file.errs = {} /\ scene \in {"object", "names", "long"} /\ fmt.w \notin {"cdef", "hans"}
ReadsWell == /\ \A k \in 1..Len(secs) : ~Trailing(secs[k])
             /\ fmt.w \in {"aof", "gst"} => \A k \in 1..Len(secs) : ~Padded(secs[k])
             /\ fmt.w = "tos" /\ ~fmt.exec_out => \A k \in 1..Len(secs) : \A n \in 1..Len(RelocsOf(secs[k])) :
                    LET t == RelocsOf(secs[k])[n] IN (t.pc + t.r.byteoffset) % 2 = 0
             /\ fmt.databss => \A k \in 1..Len(secs) : secs[k].attr = "c" => H!file_size(secs[k]) \in {0, EndPc(secs[k])}
Kept(s) == get_sec_size(s) > 0 \/ "HAS_SYMBOLS" \in s.flags
Fields(s) == UNION {LET t == RelocsOf(s)[n] IN (t.pc + t.r.byteoffset)..(t.pc + t.r.byteoffset + (t.r.size \div 8) - 1) : n \in 1..Len(RelocsOf(s))}
Programs == {"tos", "xfile"}
IsProgram == fmt.exec_out \/ fmt.w = "xfile"
Base(obj, name) == LET size(n) == (CHOOSE x \in obj.secs : x.name = n).size
                   IN  CASE name = "text" -> 0 [] name = "data" -> size("text") [] name = "bss" -> size("text") + size("data")
LabelSec(i) == secs[syms[i].sec].name
ReferTo(r) == IF syms[r.sym].type = "LABSYM" THEN (IF IsProgram /\ fmt.w \in Programs THEN Target("prog", "") ELSE Target("sec", LabelSec(r.sym)))
              ELSE Target("sym", syms[r.sym].name)
Exported == {i \in 1..Len(syms) : "EXPORT" \in syms[i].flags /\ (syms[i].type = "LABSYM" \/ (syms[i].type = "EXPRESSION" /\ ~(fmt.w = "hunk" /\ fmt.exec_out)))}
Byte(x, i) == IF i <= Len(x.data) THEN x.data[i] ELSE 0
Room == IF fmt.w = "hunk" THEN 7 ELSE 3     \* alignment, and a reference that keeps a common block
SectionRead(s, x, bytes, fields) ==
    /\ x.size \in get_sec_size(s)..(get_sec_size(s) + Room)
    /\ s.attr # "u" => \A i \in 1..Len(bytes) : i - 1 \notin fields => Byte(x, i) = bytes[i]
ReadsAs(obj) ==
    /\ obj.ok
    /\ \A k \in 1..Len(secs) : Kept(secs[k]) =>
          /\ \E x \in obj.secs : x.name = secs[k].name
          /\ SectionRead(secs[k], CHOOSE x \in obj.secs : x.name = secs[k].name, Contents(secs[k]), Fields(secs[k]))
    /\ {d \in obj.defs : d.name \in {syms[i].name : i \in Exported}}
       = {Def(syms[i].name, IF syms[i].type = "LABSYM" THEN LabelSec(i) ELSE "abs", syms[i].val) : i \in Exported}
\* A linker finds in an object file, under the offsets, lengths and counts the file
\* gives, each section with its size and bytes and each exported symbol with its
\* section and value (the writers of ELF, COFF, a.out, hunk, VOBJ, o65, TOS,
\* Human68k, AOF and GST files).
ObjectReadsBack == IsObject /\ ReadsWell => ReadsAs(TheObject)
\* All relocations of the program, with the names of their sections.
Relocs == UNION {{[sec |-> secs[k].name, t |-> RelocsOf(secs[k])[n]] : n \in 1..Len(RelocsOf(secs[k]))} : k \in 1..Len(secs)}
RelocsAs(obj) ==
    LET Addend(t) == t.r.addend + IF IsProgram /\ fmt.w \in Programs THEN Base(obj, LabelSec(t.r.sym)) ELSE 0
    IN  /\ obj.rels = {Rel(e.sec, e.t.pc + e.t.r.byteoffset, e.t.r.type, e.t.r.size, ReferTo(e.t.r)) : e \in Relocs}
        /\ obj.adds # {} => obj.adds = {<<e.sec, e.t.pc + e.t.r.byteoffset, Addend(e.t)>> : e \in Relocs}
\* A linker finds each relocation of the program at its offset, with its type and
\* size, against the section or the symbol it was written for, and the addend it
\* needs: the indices in the file are those of the tables of the file (the
\* relocations of the same writers).
RelocsReadBack == IsObject /\ ReadsWell => RelocsAs(TheObject)
=============================================================================
