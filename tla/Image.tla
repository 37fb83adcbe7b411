-------------------------------- MODULE Image --------------------------------
(***************************************************************************)
(* The output formats that are images of the memory: the binary format     *)
(* with its headers (output_bin.c), TRS-DOS command files (output_cmd.c),  *)
(* S-records, Intel hex, paper tape and Woz monitor text, and the lists of *)
(* definitions (output_cdef.c) and of words (output_hans.c).               *)
(* Records of text are records here: hexadecimal digits and line ends are  *)
(* left out.  o is a record of the options.                                *)
(***************************************************************************)
EXTENDS Output

Written(out, errs) == [out |-> out, errs |-> errs]
\* An undefined symbol is an error in every image.
Undefined(syms) == IF \E i \in 1..Len(syms) : syms[i].type = "IMPORT" THEN {6} ELSE {}

\* The address a named symbol starts the program at: 0 is none.
ExecAddr(o, syms) == IF o.exec = "" \/ find(syms, o.exec) = {} THEN 0
                     ELSE LET i == CHOOSE k \in find(syms, o.exec) : \A j \in find(syms, o.exec) : k <= j
                          IN  syms[i].val
ExecErrors(o, syms) == IF o.exec # "" /\ find(syms, o.exec) = {} THEN {6} ELSE {}
ExecOr(addr, org) == IF addr # 0 THEN addr ELSE org

orgcmp(a, b) == a.org < b.org
\* Sections that are unallocated, or empty, are not written.
Filled(secs) == SelectSeq(secs, LAMBDA s : "UNALLOCATED" \notin s.flags /\ s.pc # s.org)
-----------------------------------------------------------------------------
\* The header of the file, where len is the length of the image that is patched
\* into it when all sections are written, and last the address of its last byte.
BinHeader(o, org, exec, end) ==
    CASE o.fmt = "apple" -> fw16(org, FALSE) \o fw16(end - org, FALSE)
      [] o.fmt = "atari" -> fw16(65535, FALSE)
      [] o.fmt = "cbm" -> fw16(org, FALSE)
      [] o.fmt = "dragon" -> <<85, 2>> \o fw16(org, TRUE) \o fw16(end - org, TRUE)
                             \o fw16(ExecOr(exec, org), TRUE) \o <<170>>
      [] o.fmt = "pgx" -> <<80, 71, 88, IF o.cpu = "65816" THEN 1 ELSE 3>> \o fw32(org, FALSE)
      [] o.fmt = "pgz" -> <<IF o.addrbits < 32 THEN 90 ELSE 122>>
      [] o.fmt \in {"oric", "oricx"} ->
            <<22, 22, 22, 22, 36, 0, 0, 128, IF o.fmt = "oricx" THEN 199 ELSE 0>>
            \o fw16(end - 1, TRUE) \o fw16(org, TRUE) \o <<0>> \o o.tape \o <<0>>
      [] o.fmt = "rw18" -> IF o.usr = << >> THEN << >>
                           ELSE <<85, 83, 82, 26>> \o fw16(o.usr[1], FALSE) \o fw16(o.usr[2], FALSE)
                                \o fw16(o.usr[3], FALSE) \o fw16(end - org, FALSE)
      [] OTHER -> << >>

Addr(o, v) == IF o.addrbits < 32 THEN fw24(v, FALSE) ELSE fw32(v, FALSE)

\* In front of each section: a header of its own, or padding up to its start.
SectionHeader(o, s, pc, prev) ==
    CASE o.fmt = "atari" -> fw16(s.org, FALSE) \o fw16(s.pc - 1, FALSE)
      [] o.fmt = "coco" -> <<0>> \o fw16(get_sec_size(s), TRUE) \o fw16(s.org, TRUE)
      [] o.fmt = "pgz" -> Addr(o, s.org) \o Addr(o, get_sec_size(s))
      [] OTHER -> IF prev # << >> /\ ~o.coalesce /\ s.org > pc THEN fwpattern(s.org - pc, s.pad) ELSE << >>

Trailer(o, org, exec) ==
    CASE o.fmt = "coco" -> <<255, 0, 0>> \o fw16(ExecOr(exec, org), TRUE)
      [] o.fmt = "pgz" -> Addr(o, ExecOr(exec, org)) \o Addr(o, 0)
      [] OTHER -> << >>

\* The sections in the order of their addresses, without the uninitialised space
\* at their ends.
WriteSections(o, list) ==
    FoldLeft(LAMBDA r, s : LET body == WriteAtoms(s, s.last)
                           IN  [pc |-> body.pc, prev |-> <<s>>,
                                out |-> r.out \o SectionHeader(o, s, r.pc, r.prev) \o body.out],
             [pc |-> 0, prev |-> << >>, out |-> << >>], list)

BinFile(o, j) ==
    LET list == SortSeq(Filled(j.secs), orgcmp)
        exec == ExecAddr(o, j.syms)
        body == WriteSections(o, list)
        org == list[1].org
        errs == j.errs \cup Undefined(j.syms) \cup ExecErrors(o, j.syms) \cup chk_sec_overlap(j.secs)
    IN  IF o.fmt = "pgx" /\ o.cpu \notin {"65816", "65C02"} THEN Written(<< >>, errs \cup {2001})
        ELSE Written(BinHeader(o, org, exec, body.pc) \o body.out \o Trailer(o, org, exec), errs)
bin_write_output(o, secs, syms) ==
    BinFile(o, IF o.join = << >> THEN [secs |-> secs, syms |-> syms, errs |-> {}]
               ELSE join_sections(secs, syms, o.join[1], o.be))
-----------------------------------------------------------------------------
\* TRS-DOS: a load block for each section and a transfer block.
LoadBlock(s) == <<1>> \o fw16(get_sec_size(s) + 5, FALSE) \o fw16(s.org, FALSE) \o Contents(s)
cmd_write_output(o, secs, syms) ==
    LET list == SortSeq(Filled(secs), orgcmp)
        exec == ExecAddr(o, syms)
        errs == Undefined(syms) \cup ExecErrors(o, syms) \cup chk_sec_overlap(secs)
    IN  Written(IF list = << >> THEN << >>
                ELSE FlattenSeq([k \in 1..Len(list) |-> LoadBlock(list[k])])
                     \o <<2>> \o fw16(2, FALSE) \o fw16(ExecOr(exec, list[1].org), FALSE), errs)
-----------------------------------------------------------------------------
\* Buffered records: bytes are collected, and a full buffer is written.
\* The bytes of a section from address a on, cut into records of n bytes.
Chunks(a, bytes, n) ==
    [k \in 1..((Len(bytes) + n - 1) \div n) |->
        [addr |-> a + (k - 1) * n,
         data |-> SubSeq(bytes, (k - 1) * n + 1, IF k * n < Len(bytes) THEN k * n ELSE Len(bytes))]]
SumOf(bytes) == FoldLeft(LAMBDA sum, b : sum + b, 0, bytes)

\* S-records: the address has 2, 3 or 4 bytes for the formats 1, 2 and 3.
\* TLC's integers have 32 bits: an address of the third format is in range.
OutOfRange(addr, fmt) == fmt < 3 /\ addr >= 2 ^ (8 * (fmt + 1))
SRecord(type, addrbytes, addr, bytes) ==
    LET count == Len(bytes) + addrbytes + 1
    IN  [type |-> type, count |-> count, addr |-> Reverse(Bytes(addr, addrbytes)), data |-> bytes,
         sum |-> 255 - ((count + SumOf(Bytes(addr, addrbytes)) + SumOf(bytes)) % 256)]
write_data_buffer(s, o) == Chunks(s.org, Contents(s), o.reclen)
SectionRecords(s, o) ==
    LET recs == write_data_buffer(s, o)
    IN  <<SRecord(0, 2, 0, s.title)>>
        \o [k \in 1..Len(recs) |-> SRecord(o.srecfmt, o.srecfmt + 1, recs[k].addr, recs[k].data)]
write_termination_record(o, start) == <<SRecord(10 - o.srecfmt, o.srecfmt + 1, start, << >>)>>
srec_write_output(o, secs, syms) ==
    LET start == ExecAddr(o, syms)
        ranges == UNION {{write_data_buffer(secs[k], o)[i].addr : i \in 1..Len(write_data_buffer(secs[k], o))}
                         : k \in 1..Len(secs)} \cup {start}
    IN  Written(FlattenSeq([k \in 1..Len(secs) |-> SectionRecords(secs[k], o)])
                \o write_termination_record(o, start),
                Undefined(syms) \cup ExecErrors(o, syms)
                \cup IF \E a \in ranges : OutOfRange(a, o.srecfmt) THEN {11} ELSE {})

\* Intel hex: a record has 16 bits of the address of its first byte; the upper
\* ones are written, in a record of their own, when they change.
HexRecord(type, addr, bytes) ==
    [type |-> type, addr |-> addr, data |-> bytes,
     sum |-> (256 - ((type + Len(bytes) + SumOf(Bytes(addr, 2)) + SumOf(bytes)) % 256)) % 256]
write_extended_record(o, ext) ==
    CASE o.hexfmt = 16 -> HexRecord(2, 0, Reverse(Bytes((ext * 16) % 65536, 2)))
      [] o.hexfmt = 32 -> HexRecord(4, 0, Reverse(Bytes(ext, 2)))
      [] o.hexfmt = 8 -> HexRecord(0, 0, << >>)
HexRange(o, last) == CASE o.hexfmt = 8 -> last > 65535 [] o.hexfmt = 16 -> last > 2 ^ 20 - 1 [] OTHER -> FALSE
write_data_record(o, r, c) ==
    LET ext == c.addr \div 65536
        data == HexRecord(0, c.addr % 65536, c.data)
    IN  [ext |-> ext, errs |-> r.errs \cup (IF HexRange(o, c.addr + Len(c.data) - 1) THEN {11} ELSE {}),
         out |-> r.out \o (IF ext # r.ext THEN <<write_extended_record(o, ext)>> ELSE << >>) \o <<data>>]
ihex_write_output(o, secs, syms) ==
    LET recs == FlattenSeq([k \in 1..Len(secs) |-> Chunks(secs[k].org, Contents(secs[k]), o.reclen)])
        r == FoldLeft(LAMBDA x, c : write_data_record(o, x, c), [ext |-> 0, out |-> << >>, errs |-> {}], recs)
    IN  Written(Append(r.out, HexRecord(1, 0, << >>)), r.errs \cup Undefined(syms) \cup chk_sec_overlap(secs))

\* Paper tape: no padding is written; the last record counts the others.
RawContents(s) == FlattenSeq([i \in 1..Len(s.atoms) |-> AtomBytes(s.atoms[i])])
PapRecord(addr, bytes) ==
    [count |-> Len(bytes), addr |-> addr % 65536, data |-> bytes,
     sum |-> (Len(bytes) + SumOf(Bytes(addr, 2)) + SumOf(bytes)) % 65536]
pap_write_output(o, secs, syms) ==
    LET recs == FlattenSeq([k \in 1..Len(secs) |-> Chunks(secs[k].org, RawContents(secs[k]), o.reclen)])
        lines == Len(recs)
    IN  Written([k \in 1..lines |-> PapRecord(recs[k].addr, recs[k].data)]
                \o <<[count |-> 0, addr |-> lines, data |-> << >>, sum |-> (lines \div 256) + (lines % 256)]>>,
                Undefined(syms) \cup chk_sec_overlap(secs)
                \cup IF \E k \in 1..lines : recs[k].addr + Len(recs[k].data) - 1 > 65535 THEN {11} ELSE {})

\* Woz monitor: an address opens a line at every multiple of 8, and in front of a
\* section that starts elsewhere; what is written goes to the line that is open.
write_bytes(r, bytes) ==
    FoldLeft(LAMBDA x, b : LET opened == IF x.addr % 8 = 0 THEN Append(x.out, [addr |-> x.addr, data |-> << >>]) ELSE x.out
                           IN  [addr |-> x.addr + 1, out |-> [opened EXCEPT ![Len(opened)].data = Append(@, b)]],
             r, bytes)
WozSection(out, s) ==
    LET opened == IF s.org % 8 # 0 THEN Append(out, [addr |-> s.org, data |-> << >>]) ELSE out
    IN  FoldLeft(LAMBDA x, a : write_bytes(x, AtomBytes(a)), [addr |-> s.org, out |-> opened], s.atoms)
woz_write_output(o, secs, syms) ==
    LET r == FoldLeft(LAMBDA x, s : WozSection(x.out, s), [addr |-> 0, out |-> << >>], secs)
    IN  Written(r.out, Undefined(syms) \cup chk_sec_overlap(secs) \cup IF r.addr > 65536 THEN {11} ELSE {})
-----------------------------------------------------------------------------
\* The absolute symbols as definitions of C.
cdef_write_output(o, secs, syms) ==
    Written(SelectSeq(syms, LAMBDA y : ~Internal(y) /\ y.type = "EXPRESSION"), {})

\* Hans: the symbols, then for each section its labels, relocations and words.
\* A relocation's offset counts the atoms in front of it, not their words.
HansOffset(s, i) == FoldLeft(LAMBDA n, a : n + IF a.t = "data" THEN 1 ELSE a.space, 0, SubSeq(s.atoms, 1, i - 1))
\* The upper half and its correction are one entry.
is_HA_Reloc(r1, r2) == r1.mask = "high" /\ r2.mask = "bit15" /\ [r1 EXCEPT !.mask = "bit15"] = r2
HansRelocs(s) == FlattenSeq([i \in 1..Len(s.atoms) |->
    LET rs == s.atoms[i].relocs
        Adjusted(k) == k < Len(rs) /\ is_HA_Reloc(rs[k], rs[k + 1])
        Entry(k) == <<[offset |-> rs[k].byteoffset + HansOffset(s, i), sym |-> rs[k].sym, addend |-> rs[k].addend,
                       pc |-> rs[k].type = "REL_PC", part |-> IF Adjusted(k) THEN "ha" ELSE rs[k].mask]>>
    IN  FlattenSeq([k \in 1..Len(rs) |-> IF k > 1 /\ Adjusted(k - 1) THEN << >> ELSE Entry(k)])])
\* The words of spaces also get in between the relocations.
HansStray(s) == FlattenSeq([i \in 1..Len(s.atoms) |-> IF s.atoms[i].t = "space" THEN AtomBytes(s.atoms[i]) ELSE << >>])
hans_write_output(o, secs, syms) ==
    Written([syms |-> SelectSeq(syms, LAMBDA y : y.type \in {"IMPORT", "EXPRESSION"}),
             secs |-> [k \in 1..Len(secs) |->
                          [labels |-> SelectSeq(syms, LAMBDA y : y.type = "LABSYM" /\ y.sec = k),
                           relocs |-> HansRelocs(secs[k]), stray |-> HansStray(secs[k]),
                           words |-> RawContents(secs[k])]]], {})
=============================================================================
