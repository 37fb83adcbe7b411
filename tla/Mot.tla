-------------------------------- MODULE Mot --------------------------------
(***************************************************************************)
(* The Motorola syntax module (syntax/mot/syntax.c) on the state of module *)
(* Asm, for the M68k: the high byte comes first, an address has 4 bytes.   *)
(* Conditional assembly with its arrays and limits is in module Cond.      *)
(***************************************************************************)
EXTENDS Asm

\* The name of a section carries its type: sections differ in either.
Sec(name, type) == <<"sec", name, type>>
code_name == Sec("CODE", "code")
data_name == Sec("DATA", "data")
bss_name == Sec("BSS", "bss")
rs_name == Global("__RS")
fo_name == Global("__FO")
INLSTACKSIZE == 100
bytespertaddr == 4

\* Options and static variables.
Statics == [align_data |-> FALSE, devpac_compat |-> FALSE, phxass_compat |-> FALSE,
            inline_stack |-> << >>, local_id |-> 0, saved_last_global |-> Global(""),
            memattr |-> << >>, macros |-> {}, listing |-> TRUE, plen |-> 61, formfeed |-> TRUE,
            msource_disable |-> FALSE, outname |-> << >>, filename |-> "", debugname |-> ""]
syntax_args(x, p) == CASE p = "-align" -> [x EXCEPT !.align_data = TRUE]
                       [] p = "-devpac" -> [x EXCEPT !.align_data = TRUE, !.devpac_compat = TRUE]
                       [] p = "-phxass" -> [x EXCEPT !.phxass_compat = TRUE]
                       [] OTHER -> x
OffsetSymbol == [type |-> "expr", sec |-> NoSection, val |-> 0, flags |-> {"intern"}]
InitSyntax(x) == WithSym(WithSym(Start(code_name, x), rs_name, OffsetSymbol), fo_name, OffsetSymbol)
init_syntax == InitSyntax(Statics)

\* .l and l$ belong to the last global label, g\l to the one it names; __SO is
\* another name of __RS.
get_local_label(s, r) ==
    CASE r[1] = "loc" -> Local(s.last_global, r[2])
      [] r[1] = "qual" -> Local(Global(r[2]), r[3])
      [] r = Global("__SO") -> rs_name
      [] OTHER -> r
Named(s, p) == IF p.t = "ref" THEN Ref(get_local_label(s, p.v)) ELSE p
NumOr(s, p, default) == IF Known(s, Named(s, p)) THEN Value(s, Named(s, p)) ELSE default
\* parse_constexpr
Const(s, p) == IF Known(s, Named(s, p)) THEN s ELSE general_error(s, 30)
DATA_ALIGN(n) == IF n = 1 THEN 1 ELSE 2
AlignOf(s, n) == IF s.x.align_data THEN DATA_ALIGN(n) ELSE 1
-----------------------------------------------------------------------------
\* Structure and frame offsets.  The next multiple of align, or the last one.
Rounded(v, dir, align) == LET w == IF dir > 0 THEN v + (align - 1) ELSE v - (align - 1)
                          IN  w - (w % align)
OffsetOf(s, sym) == s.syms[sym].val
SetOffset(s, sym, v) == [s EXCEPT !.syms[sym].val = v]
setoffset_align(s, sym, dir, align) == SetOffset(s, sym, Rounded(OffsetOf(s, sym), dir, align))
\* A mutant: the label has the offset behind the field.
new_setoffset_size_behind(s, name, sym, a, dir, size) ==
    LET new == OffsetOf(s, sym) + dir * (IF a = << >> THEN 0 ELSE a[1].v * size)
        t == IF name # NoName THEN new_equate(s, name, new) ELSE s
    IN  SetOffset(t, sym, new)
\* The counter goes up for a structure, where a label has the value in front, and
\* down for a stack frame, where it has the value behind.
new_setoffset_size(s, name, sym, a, dir, size) ==
    LET cur == OffsetOf(s, sym)
        old == IF a # << >> /\ s.x.align_data /\ size > 1 THEN Rounded(cur, dir, DATA_ALIGN(size)) ELSE cur
        new == IF a = << >> THEN cur ELSE old + dir * a[1].v * size
        t == IF a = << >> /\ s.x.devpac_compat THEN general_error(s, 9) ELSE s
        u == IF name # NoName THEN new_equate(t, name, IF dir > 0 THEN old ELSE new) ELSE t
    IN  SetOffset(u, sym, new)
SizeOf == [b |-> 1, w |-> 2, l |-> 4, s |-> 4, q |-> 8, d |-> 8, x |-> 12]
new_setoffset(s, name, ext, sym, a, dir) ==
    CASE ext = "" -> new_setoffset_size(s, name, sym, a, dir, 2)
      [] ext \in DOMAIN SizeOf -> new_setoffset_size(s, name, sym, a, dir, SizeOf[ext])
      [] OTHER -> new_setoffset_size(syntax_error(s, 1), name, sym, a, dir, 1)
handle_rsreset(s) == new_abs(s, rs_name, 0)
handle_rsset(s, a) == new_abs(s, rs_name, NumOr(s, a[1], Unknown))
handle_rseven(s) == setoffset_align(s, rs_name, 1, 2)
handle_clrfo(s) == new_abs(s, fo_name, 0)
handle_setfo(s, a) == new_abs(s, fo_name, NumOr(s, a[1], Unknown))
handle_rs(s, a, size) == new_setoffset_size(s, NoName, rs_name, a, 1, size)
handle_fo(s, a, size) == new_setoffset_size(s, NoName, fo_name, a, -1, size)
\* The names of arguments on the stack, with b, w or l as their size.
handle_cargs(s, a) ==
    LET given == a # << >> /\ a[1].t = "offs"
        names == IF given THEN Tail(a) ELSE a
        One(r, p) == LET n == IF p.t = "ref" THEN p.v ELSE p.v.v
                         size == IF p.t = "l" THEN 4 ELSE 2
                         t == IF Type(r.s, n) \in Present THEN general_error(r.s, 67) ELSE new_abs(r.s, n, r.offs)
                     IN  [s |-> IF p.t \in {"ref", "b", "w", "l"} THEN t ELSE syntax_error(t, 1),
                          offs |-> r.offs + size]
    IN  IF names = << >> THEN syntax_error(s, 10)
        ELSE FoldLeft(One, [s |-> s, offs |-> IF given THEN a[1].v ELSE bytespertaddr], names).s
-----------------------------------------------------------------------------
do_space(s, n, count, fill) ==
    add_atom_aligned(s, "space", FlattenSeq([i \in 1..count |-> BE(fill, n)]), AlignOf(s, n))
handle_space(s, a, n) == do_space(s, n, a[1].v, 0)
handle_uspace(s, a, n) == do_space(s, n, a[1].v, 0)
handle_dbss(s, a, n) == do_space(s, n, a[1].v, 0)
handle_block(s, a, n) == do_space(s, n, a[1].v, IF Len(a) > 1 THEN a[2].v ELSE 0)
\* parse_string: no string without its closing delimiter or with one character.
parse_string(p) == p.t = "str" /\ p.closed /\ Len(p.v) # 1
DataAtom(s, bytes, n, name) ==
    LastRefers(add_atom_aligned(s, "datadef", bytes, AlignOf(s, n)), name)
DataOperand(s, p, n) ==
    CASE p.t = "val" \/ (p.t = "str" /\ Len(p.v) = 1) ->
           DataAtom(s, BE(IF p.t = "val" THEN p.v ELSE p.v[1], n), n, NoName)
      [] p.t = "ref" -> LET r == get_local_label(s, p.v) IN DataAtom(new_import(s, r), Zeros(n), n, r)
      [] OTHER -> syntax_error(s, 8)
handle_data(s, a, n) ==
    ForEach(s, a, LAMBDA t, p : Go(IF n = 1 /\ parse_string(p) THEN add_data(t, p.v) ELSE DataOperand(t, p, n)))
\* DR: the operand less the address of the datum, which has a label of its own.
handle_reldata(s, a, n) ==
    ForEachQuiet(s, a, LAMBDA t, p : Go(DataOperand(add_atom(t, "label", << >>), p, n)))
do_alignment(s, align, offset, pad, fill) ==
    LET t == default_section(s)
    IN  add_atom_padded(t, "space", Filled(t, align, BE(fill, pad)), Zeros(offset * pad))
cnop_pad == 20081   \* $4e71
InCode(s) == s.current = NoSection \/ (Cur(s).name[1] = "sec" /\ Cur(s).name[3] = "code")
handle_cnop(s, a) ==
    LET t == IF Len(a) < 2 THEN syntax_error(s, 9) ELSE s
        offset == a[1].v
        align == IF Len(a) < 2 THEN 1 ELSE a[2].v
        u == do_space(do_alignment(t, align, 0, 2, cnop_pad), 2, offset \div 2, cnop_pad)
    IN  IF s.x.devpac_compat \/ align <= 3 \/ ~InCode(s) THEN do_alignment(t, align, offset, 1, 0)
        ELSE IF offset % 2 = 1 THEN do_space(u, 1, 1, 0) ELSE u
handle_align(s, a) == do_alignment(s, Bit(a[1].v), 0, 1, 0)
handle_even(s) == do_alignment(s, 2, 0, 1, 0)
handle_odd(s) == do_alignment(s, 2, 1, 1, 0)
-----------------------------------------------------------------------------
\* A section of this name and memory type; another section ends an ORG block.
MemOf(s, name) == IF name \in DOMAIN s.x.memattr THEN s.x.memattr[name] ELSE 0
WithMemory(s, name, mem) == IF MemOf(s, name) \notin {0, mem} THEN syntax_error(s, 27)
                            ELSE [s EXCEPT !.x.memattr = (name :> mem) @@ @]
motsection(s, name, mem) ==
    WithMemory(IF s.x.devpac_compat THEN s ELSE try_end_rorg(s), name, mem)
nameattrsection(s, name, mem) == switch_to(motsection(new_section(s, name), name, mem), name)
\* read_sec_attr: the type, with _c, _f or _p, and a memory type.
Memory == [none |-> 0, c |-> 2, f |-> 4, p |-> 0, chip |-> 2, fast |-> 4]
read_sec_attr(a) ==
    CASE a[1].v \notin {"code", "text", "data", "bss"} -> [ok |-> FALSE, err |-> 13]
      [] Len(a) > 1 /\ a[2].t = "val" /\ a[2].v = 0 -> [ok |-> TRUE, err |-> 15, type |-> a[1].v, mem |-> 0]
      [] OTHER -> [ok |-> TRUE, err |-> 0, type |-> IF a[1].v = "text" THEN "code" ELSE a[1].v,
                   mem |-> IF Len(a) < 2 THEN 0 ELSE IF a[2].t = "val" THEN a[2].v ELSE Memory[a[2].v]]
handle_section(s, a) ==
    IF a = << >> THEN s
    ELSE IF Len(a) = 1 THEN nameattrsection(s, Sec(a[1].v, "code"), 0)
    ELSE LET r == read_sec_attr(Tail(a))
             t == IF r.err # 0 THEN syntax_error(s, r.err) ELSE s
         IN  IF r.ok THEN nameattrsection(t, Sec(a[1].v, r.type), r.mem) ELSE t
handle_offset(s, a) ==
    LET t == IF s.x.devpac_compat THEN s ELSE try_end_rorg(s)
    IN  IF a = << >> THEN switch_offset_section(t, NoName, Same)
        ELSE switch_offset_section(Const(t, a[1]), NoName, NumOr(s, a[1], 0))
handle_csec(s) == nameattrsection(s, code_name, 0)
handle_dsec(s) == nameattrsection(s, data_name, 0)
handle_bss(s) == nameattrsection(s, bss_name, 0)
handle_codec(s) == nameattrsection(s, Sec("CODE_C", "code"), 2)
handle_codef(s) == nameattrsection(s, Sec("CODE_F", "code"), 4)
handle_datac(s) == nameattrsection(s, Sec("DATA_C", "data"), 2)
handle_dataf(s) == nameattrsection(s, Sec("DATA_F", "data"), 4)
handle_bssc(s) == nameattrsection(s, Sec("BSS_C", "bss"), 2)
handle_bssf(s) == nameattrsection(s, Sec("BSS_F", "bss"), 4)
\* ORG in a relocatable section, or in the ORG block of one, is an RORG.
handle_org(s, a) ==
    IF IsWord(a, "*") THEN syntax_error(s, 7)
    ELSE IF IsWord(a, "*+") THEN handle_uspace(s, Tail(a), 1)
    ELSE LET t == Const(s, a[1])
             v == NumOr(s, a[1], 0)
         IN  IF s.current # NoSection /\ (~Has(s, s.current, "abs") \/ Has(s, s.current, "rorg"))
             THEN start_rorg(t, v) ELSE set_org(t, v)
handle_rorg(s, a) == add_roffs(s, NumOr(s, a[1], 0), IF Len(a) > 1 THEN a[2].v ELSE 0)
handle_pushsect(s) == push_section(s)
handle_popsect(s) == pop_section(s)
-----------------------------------------------------------------------------
\* Bindings: near and weak ones exclude the others.
Exclusive == {"export", "weak", "near"}
do_bind(s, a, bind) ==
    IF a = << >> THEN syntax_error(s, 10) ELSE
    ForEachQuiet(s, a, LAMBDA t, p :
        IF p.t # "ref" THEN Stop(syntax_error(t, 10))
        ELSE LET u == new_import(t, p.v)
                 has == u.syms[p.v].flags \cap Exclusive
             IN  IF has # {} /\ has # bind \cap Exclusive THEN Go(general_error(u, 62))
                 ELSE LET v == [u EXCEPT !.syms[p.v].flags = @ \cup bind]
                      IN  Go(IF "xref" \in bind /\ Type(v, p.v) # "import" THEN general_error(v, 85) ELSE v))
handle_xref(s, a) == do_bind(s, a, {"export", "xref"})
handle_xdef(s, a) == do_bind(s, a, {"export", "xdef"})
handle_global(s, a) == do_bind(s, a, {"export"})
handle_weak(s, a) == do_bind(s, a, {"weak"})
handle_nref(s, a) == do_bind(s, a, {"export", "xref", "near"})
handle_comm(s, a) == IF a = << >> THEN syntax_error(s, 10)
                     ELSE Binding(IF Len(a) > 1 THEN s ELSE syntax_error(s, 9), a[1].v, "common")
-----------------------------------------------------------------------------
\* Without operands IFC, IFD and IFMACROD open no level.
handle_ifb(s, a) == cond_if(s, a = << >>)
handle_ifnb(s, a) == cond_if(s, a # << >>)
ifc(s, a, b) == IF Len(a) < 2 THEN syntax_error(s, 5) ELSE cond_if(s, (a[1] = a[2]) = b)
handle_ifc(s, a) == ifc(s, a, TRUE)
handle_ifnc(s, a) == ifc(s, a, FALSE)
ifdef(s, a, b) == IF a = << >> THEN syntax_error(s, 10)
                  ELSE cond_if(s, (Type(s, get_local_label(s, a[1].v)) \notin {"none", "import"}) = b)
handle_ifd(s, a) == ifdef(s, a, TRUE)
handle_ifnd(s, a) == ifdef(s, a, FALSE)
ifmacro(s, a, b) == IF a = << >> THEN syntax_error(s, 10) ELSE cond_if(s, (a[1].v \in s.x.macros) = b)
handle_ifmacrod(s, a) == ifmacro(s, a, TRUE)
handle_ifmacrond(s, a) == ifmacro(s, a, FALSE)
\* The condition, and the state with the complaint about one that is not constant.
eval_ifexp(s, a, Holds(_)) == Known(s, Named(s, a[1])) /\ Holds(Value(s, Named(s, a[1])))
ifexp(s, a, Holds(_)) == cond_if(Const(s, a[1]), eval_ifexp(s, a, Holds))
NonZero(v) == v # 0
handle_ifeq(s, a) == ifexp(s, a, LAMBDA v : v = 0)
handle_ifne(s, a) == ifexp(s, a, NonZero)
handle_ifgt(s, a) == ifexp(s, a, LAMBDA v : v > 0)
handle_ifge(s, a) == ifexp(s, a, LAMBDA v : v >= 0)
handle_iflt(s, a) == ifexp(s, a, LAMBDA v : v < 0)
handle_ifle(s, a) == ifexp(s, a, LAMBDA v : v <= 0)
handle_ifp1(s) == syntax_error(cond_if(s, TRUE), 25)
handle_ifp2(s) == syntax_error(cond_if(s, FALSE), 26)
handle_else(s) == cond_skipelse(s)
handle_elseif(s) == cond_skipelse(s)
handle_endif(s) == cond_endif(s)
\* IIF: the rest of the line is not there if the condition is false.
handle_iif(s, line) == IF line.iif = << >> \/ eval_ifexp(s, line.iif, NonZero) THEN line.op ELSE ""
-----------------------------------------------------------------------------
handle_end(s) == [s EXCEPT !.end = TRUE]
handle_fail(s) == add_or_save_atom(s, "assert")
handle_assert(s) == add_or_save_atom(s, "assert")
\* Texts and values: one atom for each part and the end of every line.
Printed(s, types) == FoldLeft(add_or_save_atom, s, types)
handle_printt(s, a) == Printed(s, FlattenSeq([i \in DOMAIN a |-> <<"text", "newline">>]))
handle_printv(s, a) ==
    Printed(s, FlattenSeq([i \in DOMAIN a |->
                  <<"text", "expr", "text", "expr", "text", "expr", "text", "expr", "newline">>]))
handle_echo(s, a) ==
    Printed(s, [i \in 1..(IF s.x.phxass_compat /\ a # << >> THEN 1 ELSE Len(a)) |->
                   IF a[i].t = "str" \/ s.x.phxass_compat THEN "text" ELSE "expr"] \o <<"newline">>)
handle_showoffset(s, a) == Printed(s, (IF a = << >> THEN << >> ELSE <<"text">>) \o <<"text", "expr", "newline">>)
handle_idnt(s, a) == IF a = << >> THEN s ELSE [s EXCEPT !.x.filename = a[1].v]
handle_list(s) == [s EXCEPT !.x.listing = TRUE]
handle_nolist(s) == [s EXCEPT !.x.listing = FALSE]
handle_plen(s, a) == [Const(s, a[1]) EXCEPT !.x.plen = IF NumOr(s, a[1], 0) > 12 THEN NumOr(s, a[1], 0) ELSE 12]
handle_page(s) == [s EXCEPT !.x.formfeed = TRUE]
handle_nopage(s) == [s EXCEPT !.x.formfeed = FALSE]
\* A name with a leading dot replaces the extension; others are for the case that
\* the command line has none.
handle_output(s, a) ==
    IF a = << >> THEN s
    ELSE IF a[1].t = "ext" THEN [s EXCEPT !.x.outname = <<IF @ = << >> THEN "in" ELSE @[1], a[1].v>>]
    ELSE IF s.x.outname = << >> THEN [s EXCEPT !.x.outname = <<a[1].v, "">>] ELSE s
handle_dsource(s, a) == IF a = << >> THEN s ELSE [s EXCEPT !.x.debugname = a[1].v]
handle_debug(s, a) == add_atom(s, "line", << >>)
handle_msource(s, a) == [s EXCEPT !.x.msource_disable = ~(IsWord(a, "on") \/ (a[1].t = "val" /\ a[1].v # 0))]
handle_vdebug(s) == add_atom(s, "vdebug", << >>)
handle_noop(s) == syntax_error(s, 11)
handle_comment(s, a) == IF a # << >> /\ a[1].t = "head" THEN new_abs(s, Global("TOSFLAGS"), a[1].v.v) ELSE s

\* What concerns other sources and files is asked of them.
Ask(s, what, a) == [s EXCEPT !.req = <<what, a>>]
handle_incdir(s, a) == IF a = << >> THEN syntax_error(s, 5) ELSE Ask(s, "incdir", a)
handle_include(s, a) == IF a = << >> THEN s ELSE Ask(s, "include", a)
handle_incbin(s, a) ==
    IF a = << >> THEN s
    ELSE IF Len(a) > 1 /\ (s.x.devpac_compat \/ s.x.phxass_compat) THEN Ask(syntax_error(s, 7), "incbin", <<a[1]>>)
    ELSE Ask(s, "incbin", a)
handle_rept(s, a) == Ask(Const(s, a[1]), "rept", <<Val(LET v == NumOr(s, a[1], 0) IN IF v < 0 THEN 0 ELSE v)>> \o Tail(a))
handle_endr(s) == syntax_error(s, 12)
handle_macro(s, a) == IF a = << >> THEN syntax_error(s, 10)
                      ELSE [Ask(s, "macro", a) EXCEPT !.x.macros = @ \cup {a[1].v}]
handle_endm(s) == syntax_error(s, 12)
handle_mexit(s) == Ask(s, "mexit", << >>)
handle_rem(s) == Ask(s, "rept", <<Val(0)>>)
handle_erem(s) == syntax_error(s, 12)
-----------------------------------------------------------------------------
\* LOCAL starts a block of local labels, INLINE one that ends with EINLINE.
InlName(id) == <<"inl", id>>
handle_local(s) == [s EXCEPT !.last_global = InlName(s.x.local_id), !.x.local_id = @ + 1]
handle_inline(s) ==
    IF Len(s.x.inline_stack) >= INLSTACKSIZE THEN syntax_error(s, 22)
    ELSE [s EXCEPT !.last_global = InlName(s.x.local_id), !.x.local_id = @ + 1,
                   !.x.inline_stack = Append(@, s.x.local_id),
                   !.x.saved_last_global = IF s.x.inline_stack = << >> THEN s.last_global ELSE @]
handle_einline(s) ==
    IF s.x.inline_stack = << >> THEN syntax_error(s, 20)
    ELSE LET rest == Front(s.x.inline_stack)
         IN  [s EXCEPT !.x.inline_stack = rest,
                       !.last_global = IF rest = << >> THEN s.x.saved_last_global ELSE InlName(Last(rest)),
                       !.x.saved_last_global = IF rest = << >> THEN Global("") ELSE @]
handle_struct(s, a) ==
    IF a = << >> THEN syntax_error(s, 10)
    ELSE LET t == new_structure(s, a[1].v)
         IN  IF s.cur_struct # NoSection THEN t ELSE WithFlag(t, t.current, "local")
\* The name of the structure becomes a label, at the offset of its end.
handle_endstruct(s) ==
    IF s.cur_struct = NoSection THEN end_structure(s)
    ELSE LET t == new_label(WithoutFlag(end_structure(s), s.current, "local"), Cur(s).name)
         IN  set_section([t EXCEPT !.fresh = NoName], s.struct_prev)
\* A structure as an operation: its data again, with new values where given.
Fitted(bytes, n) == [i \in 1..n |-> IF i <= Len(bytes) THEN bytes[i] ELSE 0]
execute_struct(s, name, a) ==
    LET fields == SelectSeq(s.secs[SectionNamed(s, name)].atoms,
                            LAMBDA x : x.t \in {"data", "space", "datadef", "inst"})
        operands == SelectSeq(fields, LAMBDA x : x.t # "inst")
        Given(i) == i <= Len(a) /\ a[i].t # "word"
        One(t, i) ==
            LET x == operands[i] IN
            CASE ~Given(i) -> add_datadef(t, x.b, x.ref)
              [] Given(i) /\ x.t = "space" -> add_space(t, Len(x.b), a[i].v)
              [] Given(i) /\ x.t = "datadef" -> DataOperand(t, a[i], Len(x.b))
              [] Given(i) /\ x.t = "data" ->
                     IF a[i].t # "str" THEN add_data(t, BE(a[i].v, Len(x.b)))
                     ELSE add_data(IF Len(a[i].v) > Len(x.b) THEN syntax_error(t, 24) ELSE t,
                                   Fitted(a[i].v, Len(x.b)))
        t == FoldLeft(One, s, [i \in DOMAIN operands |-> i])
    IN  IF Len(operands) < Len(fields) THEN syntax_error(t, 23) ELSE t
-----------------------------------------------------------------------------
\* The sizes of DC, DS, DCB, RS and their like by the extension; none means w.
DataOps == [b |-> 1, w |-> 2, l |-> 4, q |-> 8]
SpaceOps == [b |-> 1, w |-> 2, l |-> 4, q |-> 8, s |-> 4, d |-> 8, x |-> 12, p |-> 12]
Sized(op, ext, a, s) ==
    CASE op = "dc" -> handle_data(s, a, DataOps[ext])
      [] op = "ds" -> handle_space(s, a, SpaceOps[ext])
      [] op = "dx" -> handle_dbss(s, a, SpaceOps[ext])
      [] op \in {"dcb", "blk"} -> handle_block(s, a, SpaceOps[ext])
      [] op = "dr" -> handle_reldata(s, a, DataOps[ext])
      [] op \in {"rs", "so"} -> handle_rs(s, a, SpaceOps[ext])
      [] op = "fo" -> handle_fo(s, a, SpaceOps[ext])
Extended == {"dc", "ds", "dx", "dcb", "blk", "dr", "rs", "so", "fo"}
directives(s, op, ext, a) ==
    CASE op = "org" -> handle_org(s, a)
      [] op \in Extended -> Sized(op, IF ext = "" THEN "w" ELSE ext, a, s)
      [] op = "db" -> handle_data(s, a, 1)
      [] op = "dw" -> handle_data(s, a, 2)
      [] op = "dl" -> handle_data(s, a, 4)
      [] op = "rorg" -> handle_rorg(s, a)
      [] op = "section" -> handle_section(s, a)
      [] op = "offset" -> handle_offset(s, a)
      [] op \in {"code", "cseg", "text"} -> handle_csec(s)
      [] op \in {"data", "dseg"} -> handle_dsec(s)
      [] op = "bss" -> handle_bss(s)
      [] op = "code_c" -> handle_codec(s)
      [] op = "code_f" -> handle_codef(s)
      [] op = "data_c" -> handle_datac(s)
      [] op = "data_f" -> handle_dataf(s)
      [] op = "bss_c" -> handle_bssc(s)
      [] op = "bss_f" -> handle_bssf(s)
      [] op \in {"xdef", "export"} -> handle_xdef(s, a)
      [] op \in {"xref", "import"} -> handle_xref(s, a)
      [] op = "nref" -> handle_nref(s, a)
      [] op \in {"public", "entry", "extrn", "global"} -> handle_global(s, a)
      [] op = "weak" -> handle_weak(s, a)
      [] op = "comm" -> handle_comm(s, a)
      [] op \in {"load", "jumperr", "jumpptr", "llen", "spc", "auto"} -> handle_noop(s)
      [] op = "cnop" -> handle_cnop(s, a)
      [] op = "align" -> handle_align(s, a)
      [] op = "even" -> handle_even(s)
      [] op = "odd" -> handle_odd(s)
      [] op = "end" -> handle_end(s)
      [] op = "fail" -> handle_fail(s)
      [] op = "assert" -> handle_assert(s)
      [] op \in {"idnt", "module"} -> handle_idnt(s, a)
      [] op = "list" -> handle_list(s)
      [] op = "nolist" -> handle_nolist(s)
      [] op = "plen" -> handle_plen(s, a)
      [] op = "page" -> handle_page(s)
      [] op = "nopage" -> handle_nopage(s)
      [] op = "output" -> handle_output(s, a)
      [] op = "dsource" -> handle_dsource(s, a)
      [] op = "debug" -> handle_debug(s, a)
      [] op = "msource" -> handle_msource(s, a)
      [] op = "vdebug" -> handle_vdebug(s)
      [] op = "comment" -> handle_comment(s, a)
      [] op = "incdir" -> handle_incdir(s, a)
      [] op = "include" -> handle_include(s, a)
      [] op \in {"incbin", "image"} -> handle_incbin(s, a)
      [] op = "rept" -> handle_rept(s, a)
      [] op = "endr" -> handle_endr(s)
      [] op = "macro" -> handle_macro(s, a)
      [] op = "endm" -> handle_endm(s)
      [] op = "mexit" -> handle_mexit(s)
      [] op = "rem" -> handle_rem(s)
      [] op = "erem" -> handle_erem(s)
      [] op = "ifb" -> handle_ifb(s, a)
      [] op = "ifnb" -> handle_ifnb(s, a)
      [] op = "ifc" -> handle_ifc(s, a)
      [] op = "ifnc" -> handle_ifnc(s, a)
      [] op = "ifd" -> handle_ifd(s, a)
      [] op = "ifnd" -> handle_ifnd(s, a)
      [] op = "ifmacrod" -> handle_ifmacrod(s, a)
      [] op = "ifmacrond" -> handle_ifmacrond(s, a)
      [] op = "ifeq" -> handle_ifeq(s, a)
      [] op \in {"ifne", "if"} -> handle_ifne(s, a)
      [] op = "ifgt" -> handle_ifgt(s, a)
      [] op \in {"ifge", "ifpl"} -> handle_ifge(s, a)
      [] op \in {"iflt", "ifmi"} -> handle_iflt(s, a)
      [] op = "ifle" -> handle_ifle(s, a)
      [] op \in {"ifp1", "if1"} -> handle_ifp1(s)
      [] op = "if2" -> handle_ifp2(s)
      [] op \in {"else", "elseif"} -> handle_else(s)
      [] op = "elif" -> handle_elseif(s)
      [] op \in {"endif", "endc"} -> handle_endif(s)
      [] op \in {"rsreset", "clrso"} -> handle_rsreset(s)
      [] op \in {"rsset", "setso"} -> handle_rsset(s, a)
      [] op = "rseven" -> handle_rseven(s)
      [] op = "clrfo" -> handle_clrfo(s)
      [] op = "setfo" -> handle_setfo(s, a)
      [] op = "cargs" -> handle_cargs(s, a)
      [] op = "echo" -> handle_echo(s, a)
      [] op = "printt" -> handle_printt(s, a)
      [] op = "printv" -> handle_printv(s, a)
      [] op = "showoffset" -> handle_showoffset(s, a)
      [] op = "local" -> handle_local(s)
      [] op = "inline" -> handle_inline(s)
      [] op = "einline" -> handle_einline(s)
      [] op = "struct" -> handle_struct(s, a)
      [] op = "estruct" -> handle_endstruct(s)
      [] op = "pushsection" -> handle_pushsect(s)
      [] op = "popsection" -> handle_popsect(s)
      [] OTHER -> s    \* ttl, mask2, symdebug

Opens == {"ifb", "ifnb", "ifc", "ifnc", "ifd", "ifnd", "ifmacrod", "ifmacrond", "ifeq", "ifne", "ifgt", "ifge",
          "iflt", "ifle", "ifmi", "ifpl", "if", "ifp1", "if1", "if2"}
\* In text that is skipped ELIF is evaluated, whatever block it belongs to.
SkippedLine(s, op, a) ==
    CASE op \in Opens -> cond_skipif(s)
      [] op \in {"else", "elseif"} -> cond_else(s)
      [] op = "elif" -> cond_elseif(Const(s, a[1]), eval_ifexp(s, a, NonZero))
      [] op \in {"endif", "endc"} -> cond_endif(s)
      [] OTHER -> s
\* Labels: what the operation makes of the name in front of it; a label with two
\* colons ("globx") is exported too.
Flagged(s, name, flags) == IF flags = {} THEN s ELSE [s EXCEPT !.syms[name].flags = @ \cup flags]
OffsetOps == {"rs", "so", "fo"}
Assign(s, name, flags, op, ext, a) ==
    LET v == NumOr(s, a[1], Unknown)
        f == IF s.x.devpac_compat \/ s.x.phxass_compat THEN {} ELSE flags
    IN  CASE op \in {"equ", "="} -> Flagged(new_equate(s, name, v), name, f)
          [] op = "set" -> new_abs(s, name, v)
          [] op \in {"rs", "so"} -> Flagged(new_setoffset(s, name, ext, rs_name, a, 1), name, f)
          [] op = "fo" -> Flagged(new_setoffset(s, name, ext, fo_name, a, -1), name, f)
Assignments == {"equ", "=", "set"} \cup OffsetOps
FreshFlagged(s, flags) == Flagged(s, s.fresh, flags)
JustLabel(s, name, flags) == FreshFlagged(new_label(s, name), flags)
Operation(s, op, ext, a) == CASE op = "" -> s
                              [] op = "inst" -> add_atom(s, "inst", <<78, 113>>)
                              [] Global(op) \in s.structs -> execute_struct(s, Global(op), a)
                              [] OTHER -> directives(s, op, ext, a)
parse(s0, line) ==
    LET s == [s0 EXCEPT !.fresh = NoName, !.req = << >>]
        ext == IF "ext" \in DOMAIN line THEN line.ext ELSE ""
        op == handle_iif(s, line)
        lab == line.lab
        name == IF lab # << >> /\ lab[1] = "globx" THEN Global(lab[2]) ELSE get_local_label(s, lab)
        flags == IF lab # << >> /\ lab[1] = "globx" THEN {"export"} ELSE {}
        t == IF line.iif = << >> THEN s ELSE Const(s, line.iif[1])
    IN  IF s.end THEN s
        ELSE IF ~cond_state(s) THEN SkippedLine(s, line.op, line.a)
        ELSE IF lab # << >> /\ op \in Assignments THEN Assign(t, name, flags, op, ext, line.a)
        ELSE IF lab # << >> /\ op = "ttl" THEN [t EXCEPT !.x.filename = name]
        ELSE IF lab # << >> /\ op = "macro" THEN handle_macro(t, <<Ref(name)>>)
        ELSE Operation(IF lab = << >> THEN t ELSE JustLabel(t, name, flags), op, ext, line.a)
Finish(s) == cond_check(s)
=============================================================================
