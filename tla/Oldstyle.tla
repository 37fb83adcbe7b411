------------------------------ MODULE Oldstyle ------------------------------
(***************************************************************************)
(* The oldstyle syntax module (syntax/oldstyle/syntax.c) on the state of   *)
(* module Asm, for a target with bytes of 8 bits and the low one first.    *)
(***************************************************************************)
EXTENDS Asm

\* The options of the command line and the static variables.
Statics == [autoexport |-> FALSE, sect_directives |-> FALSE, orgmode |-> -1,
            last_alloc_sect |-> NoSection, dsect_offs |-> 0, dsect_active |-> FALSE, anon_labno |-> 0,
            inline_stack |-> << >>, inline_id |-> 0, saved_last_global |-> Global(""), listing |-> TRUE]
INLSTACKSIZE == 100
textname == <<"sec", ".text">>
dataname == <<"sec", ".data">>
bssname == <<"sec", ".bss">>
syntax_args(x, p) == CASE p[1] = "-autoexp" -> [x EXCEPT !.autoexport = TRUE]
                       [] p[1] = "-sect" -> [x EXCEPT !.sect_directives = TRUE]
                       [] p[1] = "-org" -> [x EXCEPT !.orgmode = p[2]]
InitSyntax(x) == LET s == Start(textname, x) IN IF x.orgmode = -1 THEN s ELSE set_org(s, x.orgmode)
init_syntax == InitSyntax(Statics)

\* A mutant: the first sign counts like the others.
get_local_label_once_more(s, r) ==
    CASE r[1] = "loc" -> Local(s.last_global, r[2])
      [] r[1] = "qual" -> Local(Global(r[2]), r[3])
      [] r[1] = "anon" -> Local(Global(":"), s.x.anon_labno + (IF r[2] = "+" THEN 2 ELSE -1) + r[3])
      [] OTHER -> r
\* .l and l$ belong to the last global label, g.l to the one it names; ":" and
\* signs, the first of them and the sum of the others, is an anonymous label.
get_local_label(s, r) ==
    CASE r[1] = "loc" -> Local(s.last_global, r[2])
      [] r[1] = "qual" -> Local(Global(r[2]), r[3])
      [] r[1] = "anon" -> Local(Global(":"), s.x.anon_labno + (IF r[2] = "+" THEN 1 ELSE 0) + r[3])
      [] OTHER -> r
Named(s, p) == IF p.t = "ref" THEN Ref(get_local_label(s, p.v)) ELSE p
-----------------------------------------------------------------------------
\* parse_string: no string without its closing delimiter or with one character.
parse_string(p) == p.t = "str" /\ p.closed /\ Len(p.v) # 1
DataOperand(s, p, n) ==
    CASE p.t = "val" -> add_datadef(s, LE(p.v, n), NoName)
      [] p.t = "str" /\ Len(p.v) = 1 -> add_datadef(s, LE(p.v[1], n), NoName)
      [] p.t = "ref" -> add_datadef(new_import(s, get_local_label(s, p.v)), Zeros(n), get_local_label(s, p.v))
      [] OTHER -> syntax_error(s, 8)
\* The modifier of ABYTE is an addend here.
Modified(p, addend) == IF p.t = "val" THEN Val(p.v + addend) ELSE p
handle_data_mod(s, a, n, addend) ==
    ForEach(s, a, LAMBDA t, p : Go(IF n \in {1, 2, 4, 8} /\ parse_string(p)
                                   THEN add_data(t, FlattenSeq([i \in DOMAIN p.v |-> LE(p.v[i] + addend, n)]))
                                   ELSE DataOperand(t, Modified(p, addend), n)))
handle_data(s, a, n) == handle_data_mod(s, a, n, 0)
handle_d8_mod(s, a) == IF Len(a) < 2 THEN syntax_error(s, 9) ELSE handle_data_mod(s, Tail(a), 1, a[1].v)
do_space(s, n, count, fill) == add_space(s, n * count, fill)
handle_space(s, a, n) == do_space(s, n, a[1].v, IF Len(a) > 1 THEN a[2].v ELSE 0)
handle_uspace(s, a, n) == do_space(s, n, a[1].v, 0)
handle_fixedspc(s, n) == do_space(s, 1, n, 0)
\* Data directives without operands reserve their size.
DataOrSpace(s, a, n) == IF a = << >> THEN handle_fixedspc(s, n) ELSE handle_data(s, a, n)
handle_d8(s, a) == DataOrSpace(s, a, 1)
handle_dblbyt(s, a) == DataOrSpace(s, a, 2)
handle_d16(s, a) == DataOrSpace(s, a, 2)
handle_d24(s, a) == DataOrSpace(s, a, 3)
handle_d32(s, a) == DataOrSpace(s, a, 4)
handle_d64(s, a) == DataOrSpace(s, a, 8)
handle_taddr(s, a) == DataOrSpace(s, a, 2)

do_text(s, a, add) ==
    IF a = << >> \/ a[1].t # "str" THEN syntax_error(s, 8)
    ELSE IF parse_string(a[1])
         THEN IF a[1].v = << >> THEN s ELSE add_data(s, [a[1].v EXCEPT ![Len(a[1].v)] = (@ + add) % 256])
    ELSE IF a[1].v = << >> THEN syntax_error(s, 8)
    ELSE add_data(s, <<(a[1].v[1] + add) % 256>>)
handle_text(s, a) == do_text(s, a, 0)
handle_fcs(s, a) == do_text(s, a, 128)
\* The names of sections are directives only with -sect.
handle_sectext(s, a) == IF s.x.sect_directives THEN switch_to(s, textname) ELSE do_text(s, a, 0)
handle_secdata(s, a) == IF s.x.sect_directives THEN switch_to(s, dataname) ELSE handle_data(s, a, 1)
handle_secbss(s, a) == IF s.x.sect_directives THEN switch_to(s, bssname) ELSE handle_space(s, a, 1)
do_alignment(s, align) == add_atom_aligned(s, "space", << >>, align)
handle_align(s, a) == IF a[1].v > 63 THEN syntax_error(s, 21) ELSE do_alignment(s, Bit(a[1].v))
handle_even(s) == do_alignment(s, 2)
handle_spc8(s, a) == handle_space(s, a, 1)
handle_spc16(s, a) == handle_space(s, a, 2)
handle_spc24(s, a) == handle_space(s, a, 3)
handle_spc32(s, a) == handle_space(s, a, 4)
handle_spc64(s, a) == handle_space(s, a, 8)
handle_ascii(s, a) == handle_data(s, a, 1)
handle_string(s, a) == add_space(handle_data(s, a, 1), 1, 0)
handle_str(s, a) == add_space(handle_data(s, a, 1), 1, 13)
-----------------------------------------------------------------------------
handle_end(s) == [s EXCEPT !.end = TRUE]
handle_fail(s) == add_atom(s, "assert", << >>)
handle_assert(s) == add_atom(s, "assert", << >>)
\* "*=*+n" reserves space; in a dummy section the origin is an offset.
handle_org(s, a) ==
    IF IsWord(a, "*+") THEN handle_uspace(s, Tail(a), 1)
    ELSE LET p == Named(s, a[1])
             v == IF Known(s, p) THEN Value(s, p) ELSE 0
             t == IF Known(s, p) THEN s ELSE general_error(s, 30)
         IN  IF s.x.dsect_active THEN switch_offset_section(t, NoName, v) ELSE set_org(t, v)
handle_rorg(s, a) == start_rorg(s, a[1].v)
handle_rend(s) == end_rorg(s)
handle_roffs(s, a) == add_roffs(s, a[1].v, 0)
handle_section(s, a) == IF a = << >> THEN s ELSE switch_to(s, <<"sec", a[1].v>>)
handle_dsect(s) ==
    LET t == IF s.x.dsect_active THEN syntax_error(s, 13)
             ELSE [s EXCEPT !.x.dsect_active = TRUE, !.x.last_alloc_sect = s.current]
    IN  switch_offset_section(t, NoName, t.x.dsect_offs)
handle_dend(s) ==
    IF ~s.x.dsect_active THEN syntax_error(s, 14)
    ELSE [set_section([s EXCEPT !.x.dsect_offs = Cur(s).pc], s.x.last_alloc_sect)
          EXCEPT !.x.last_alloc_sect = NoSection, !.x.dsect_active = FALSE]

\* The test for another binding never fails: it reads flags & (mask != bind).
do_binding(s, a, bind) == ForEach(s, a, LAMBDA t, p : IF p.t = "ref" THEN Go(Binding(t, p.v, bind)) ELSE Stop(t))
handle_global(s, a) == do_binding(s, a, "export")
handle_weak(s, a) == do_binding(s, a, "weak")
handle_local(s, a) == do_binding(s, a, "local")
handle_symdepend(s) == add_space(s, 0, 0)
handle_defc(s, a) == IF a = << >> \/ a[1].t # "ref" THEN syntax_error(s, 10)
                     ELSE IF Len(a) > 1 THEN new_abs(s, a[1].v, a[2].v) ELSE s
-----------------------------------------------------------------------------
\* Without a name IFDEF and IFUSED open no level.
ifdef(s, a, b) == IF a = << >> THEN syntax_error(s, 10)
                  ELSE cond_if(s, (Type(s, get_local_label(s, a[1].v)) \notin {"none", "import"}) = b)
ifused(s, a, b) ==
    IF a = << >> THEN syntax_error(s, 10)
    ELSE LET t == Type(s, a[1].v)
         IN  cond_if(IF t \in {"none", "import"} THEN s ELSE syntax_error(s, 22), (t = "import") = b)
ifblank(s, a, b) == cond_if(s, (a = << >>) = b)
ifexp(s, a, Holds(_)) == LET p == Named(s, a[1])
                         IN  IF Known(s, p) THEN cond_if(s, Holds(Value(s, p)))
                             ELSE cond_if(general_error(s, 30), FALSE)
handle_ifd(s, a) == ifdef(s, a, TRUE)
handle_ifnd(s, a) == ifdef(s, a, FALSE)
handle_ifused(s, a) == ifused(s, a, TRUE)
handle_ifnused(s, a) == ifused(s, a, FALSE)
handle_ifblank(s, a) == ifblank(s, a, TRUE)
handle_ifnblank(s, a) == ifblank(s, a, FALSE)
handle_ifeq(s, a) == ifexp(s, a, LAMBDA v : v = 0)
handle_ifne(s, a) == ifexp(s, a, LAMBDA v : v # 0)
handle_ifgt(s, a) == ifexp(s, a, LAMBDA v : v > 0)
handle_ifge(s, a) == ifexp(s, a, LAMBDA v : v >= 0)
handle_iflt(s, a) == ifexp(s, a, LAMBDA v : v < 0)
handle_ifle(s, a) == ifexp(s, a, LAMBDA v : v <= 0)
handle_else(s) == cond_skipelse(s)
handle_endif(s) == cond_endif(s)

\* What concerns other sources and files is asked of them.
Ask(s, what, a) == [s EXCEPT !.req = <<what, a>>]
handle_incdir(s, a) == Ask(s, "incdir", a)
handle_include(s, a) == IF a = << >> THEN s ELSE Ask(s, "include", a)
handle_incbin(s, a) == IF a = << >> THEN s
                       ELSE Ask(s, "incbin", <<a[1], Val(IF Len(a) < 2 \/ a[2].v < 0 THEN 0 ELSE a[2].v),
                                               Val(IF Len(a) < 3 THEN 0 ELSE a[3].v)>>)
handle_rept(s, a) == Ask(s, "rept", <<Val(IF a[1].v < 0 THEN 0 ELSE a[1].v)>> \o Tail(a))
handle_endr(s) == syntax_error(s, 12)
handle_macro(s, a) == IF a = << >> THEN syntax_error(s, 10) ELSE Ask(s, "macro", a)
handle_endm(s) == syntax_error(s, 12)
handle_exitmacro(s) == Ask(s, "mexit", << >>)
handle_list(s) == [s EXCEPT !.x.listing = TRUE]
handle_nolist(s) == [s EXCEPT !.x.listing = FALSE]
-----------------------------------------------------------------------------
handle_struct(s, a) ==
    IF a = << >> THEN syntax_error(s, 10)
    ELSE LET t == new_structure(s, a[1].v)
         IN  IF s.cur_struct # NoSection THEN t ELSE WithFlag(t, t.current, "local")
\* The name of the structure becomes a label, at the offset of its end.
handle_endstruct(s) ==
    IF s.cur_struct = NoSection THEN end_structure(s)
    ELSE LET t == new_label(WithoutFlag(end_structure(s), s.current, "local"), Cur(s).name)
         IN  set_section([t EXCEPT !.fresh = NoName], s.struct_prev)

\* Blocks of their own local labels: the outermost one restores the label that
\* was the last one in front of it.
InlName(id) == <<"inl", id>>
handle_inline(s) ==
    IF Len(s.x.inline_stack) >= INLSTACKSIZE THEN syntax_error(s, 16)
    ELSE [s EXCEPT !.last_global = InlName(s.x.inline_id), !.x.inline_id = @ + 1,
                   !.x.inline_stack = Append(@, s.x.inline_id),
                   !.x.saved_last_global = IF s.x.inline_stack = << >> THEN s.last_global ELSE @]
handle_einline(s) ==
    IF s.x.inline_stack = << >> THEN syntax_error(s, 17)
    ELSE LET rest == Front(s.x.inline_stack)
         IN  [s EXCEPT !.x.inline_stack = rest,
                       !.last_global = IF rest = << >> THEN s.x.saved_last_global ELSE InlName(Last(rest)),
                       !.x.saved_last_global = IF rest = << >> THEN Global("") ELSE @]

\* A structure as an operation: its data again, with new values where given.
Fitted(bytes, n) == [i \in 1..n |-> IF i <= Len(bytes) THEN bytes[i] ELSE 0]
execute_struct(s, name, a) ==
    LET IsField(x) == x.t \in {"data", "space", "datadef", "inst"}
        fields == SelectSeq(s.secs[SectionNamed(s, name)].atoms, IsField)
        operands == SelectSeq(fields, LAMBDA x : x.t # "inst")
        Given(i) == i <= Len(a) /\ a[i].t # "word"
        One(t, i) ==
            LET x == operands[i] IN
            CASE ~Given(i) -> add_datadef(t, x.b, x.ref)
              [] Given(i) /\ x.t = "space" -> add_space(t, Len(x.b), a[i].v)
              [] Given(i) /\ x.t = "datadef" -> DataOperand(t, a[i], Len(x.b))
              [] Given(i) /\ x.t = "data" ->
                     IF a[i].t # "str" THEN add_data(t, LE(a[i].v, Len(x.b)))
                     ELSE add_data(IF Len(a[i].v) > Len(x.b) THEN syntax_error(t, 24) ELSE t,
                                   Fitted(a[i].v, Len(x.b)))
        t == FoldLeft(One, s, [i \in DOMAIN operands |-> i])
    IN  IF Len(operands) < Len(fields) THEN syntax_error(t, 23) ELSE t
-----------------------------------------------------------------------------
directives(s, op, a) ==
    CASE op = "org" -> handle_org(s, a)
      [] op \in {"rorg", "phase"} -> handle_rorg(s, a)
      [] op \in {"rend", "dephase"} -> handle_rend(s)
      [] op = "roffs" -> handle_roffs(s, a)
      [] op = "align" -> handle_align(s, a)
      [] op = "even" -> handle_even(s)
      [] op = "data" -> handle_secdata(s, a)
      [] op = "text" -> handle_sectext(s, a)
      [] op = "bss" -> handle_secbss(s, a)
      [] op = "abyte" -> handle_d8_mod(s, a)
      [] op \in {"asc", "ascii"} -> handle_ascii(s, a)
      [] op \in {"asciiz", "string"} -> handle_string(s, a)
      [] op = "str" -> handle_str(s, a)
      [] op \in {"defm", "fcc"} -> handle_text(s, a)
      [] op = "fcs" -> handle_fcs(s, a)
      [] op \in {"fcb", "byt", "byte", "db", "dfb", "defb", "di8"} -> handle_d8(s, a)
      [] op = "fdb" -> handle_dblbyt(s, a)
      [] op \in {"wrd", "wor", "word", "dw", "dfw", "defw", "di16"} -> handle_d16(s, a)
      [] op = "di24" -> handle_d24(s, a)
      [] op \in {"dl", "defl", "dd", "di32"} -> handle_d32(s, a)
      [] op = "di64" -> handle_d64(s, a)
      [] op \in {"addr", "da", "defp"} -> handle_taddr(s, a)
      [] op \in {"ds", "dsb", "fill", "reserve", "spc", "defs", "bsz", "zmb", "dc", "blk", "ds8"} -> handle_spc8(s, a)
      [] op \in {"dsw", "blkw", "ds16"} -> handle_spc16(s, a)
      [] op = "ds24" -> handle_spc24(s, a)
      [] op \in {"dsl", "blkl", "ds32"} -> handle_spc32(s, a)
      [] op = "ds64" -> handle_spc64(s, a)
      [] op = "assert" -> handle_assert(s)
      [] op \in {"ifdef", "ifd"} -> handle_ifd(s, a)
      [] op \in {"ifndef", "ifnd"} -> handle_ifnd(s, a)
      [] op = "ifblank" -> handle_ifblank(s, a)
      [] op = "ifnblank" -> handle_ifnblank(s, a)
      [] op = "ifeq" -> handle_ifeq(s, a)
      [] op \in {"ifne", "if"} -> handle_ifne(s, a)
      [] op = "ifgt" -> handle_ifgt(s, a)
      [] op = "ifge" -> handle_ifge(s, a)
      [] op = "iflt" -> handle_iflt(s, a)
      [] op = "ifle" -> handle_ifle(s, a)
      [] op = "ifused" -> handle_ifused(s, a)
      [] op = "ifnused" -> handle_ifnused(s, a)
      [] op \in {"else", "el"} -> handle_else(s)
      [] op \in {"endif", "ei", "fi"} -> handle_endif(s)
      [] op \in {"incbin", "mdat", "binary"} -> handle_incbin(s, a)
      [] op = "incdir" -> handle_incdir(s, a)
      [] op = "include" -> handle_include(s, a)
      [] op \in {"rept", "repeat"} -> handle_rept(s, a)
      [] op \in {"endr", "endrep", "endrepeat"} -> handle_endr(s)
      [] op \in {"mac", "macro"} -> handle_macro(s, a)
      [] op \in {"endm", "endmac", "endmacro"} -> handle_endm(s)
      [] op = "exitmacro" -> handle_exitmacro(s)
      [] op = "end" -> handle_end(s)
      [] op = "fail" -> handle_fail(s)
      [] op = "section" -> handle_section(s, a)
      [] op = "dsect" -> handle_dsect(s)
      [] op = "dend" -> handle_dend(s)
      [] op = "defc" -> handle_defc(s, a)
      [] op \in {"xdef", "xref", "lib", "xlib", "global", "extern"} -> handle_global(s, a)
      [] op = "local" -> handle_local(s, a)
      [] op = "weak" -> handle_weak(s, a)
      [] op \in {"needs", "symdepend"} -> handle_symdepend(s)
      [] op = "list" -> handle_list(s)
      [] op = "nolist" -> handle_nolist(s)
      [] op \in {"struct", "structure"} -> handle_struct(s, a)
      [] op \in {"endstruct", "endstructure"} -> handle_endstruct(s)
      [] op = "inline" -> handle_inline(s)
      [] op = "einline" -> handle_einline(s)
      [] OTHER -> s    \* nam, subttl, page, space

\* The label field: ":" alone is the next anonymous label.
parse_label_field(s, lab) == IF lab[1] = "anon" THEN [s EXCEPT !.x.anon_labno = @ + 1] ELSE s
LabelName(s, lab) == IF lab[1] = "anon" THEN Local(Global(":"), s.x.anon_labno) ELSE get_local_label(s, lab)
Exported(s, name) == IF s.x.autoexport /\ ~IsLocal(name) THEN Binding(s, name, "export") ELSE s
Assignments == {"=", "equ", "eq", "set"}
Assign(s, name, op, a) ==
    LET p == Named(s, a[1])
        v == IF Known(s, p) THEN Value(s, p) ELSE Unknown
    IN  IF name = Global("*") THEN IF op = "set" THEN syntax_error(s, 10) ELSE handle_org(s, a)
        ELSE Exported(IF op = "set" THEN new_abs(s, name, v) ELSE new_equate(s, name, v), name)
FreshExported(s) == Exported(s, s.fresh)
JustLabel(s, name) == FreshExported(new_label(s, name))

\* Lines that are not assembled: every directive whose name starts with if.
Opens == {"ifdef", "ifd", "ifndef", "ifnd", "ifblank", "ifnblank", "ifeq", "ifne", "if", "ifgt",
          "ifge", "iflt", "ifle", "ifused", "ifnused"}
SkippedLine(s, op) == CASE op \in Opens -> cond_skipif(s)
                        [] op \in {"else", "el"} -> cond_else(s)
                        [] op \in {"endif", "ei", "fi"} -> cond_endif(s)
                        [] OTHER -> s
Operation(s, op, a) == CASE op = "" -> s
                         [] op = "*=" -> handle_org(s, a)
                         [] op = "inst" -> add_atom(s, "inst", <<234>>)
                         [] Global(op) \in s.structs -> execute_struct(s, Global(op), a)
                         [] OTHER -> directives(s, op, a)
parse(s0, line) ==
    LET s == [s0 EXCEPT !.fresh = NoName, !.req = << >>]
        t == parse_label_field(s, line.lab)
        name == LabelName(t, line.lab)
    IN  IF s.end THEN s
        ELSE IF ~cond_state(s) THEN SkippedLine(s, line.op)
        ELSE IF line.lab # << >> /\ line.op \in Assignments THEN Assign(t, name, line.op, line.a)
        ELSE IF line.lab # << >> /\ line.op \in {"mac", "macro"} THEN Ask(t, "macro", <<Ref(name)>> \o line.a)
        ELSE Operation(IF line.lab = << >> THEN s ELSE JustLabel(t, name), line.op, line.a)
Finish(s) == LET t == cond_check(s) IN IF t.x.dsect_active THEN syntax_error(t, 15) ELSE t
=============================================================================
