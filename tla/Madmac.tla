------------------------------- MODULE Madmac -------------------------------
(***************************************************************************)
(* The MadMac syntax module (syntax/madmac/syntax.c) on the state of       *)
(* module Asm, for the M68k: the high byte first, data on even addresses.  *)
(***************************************************************************)
EXTENDS Asm

text_name == <<"sec", ".text">>
data_name == <<"sec", ".data">>
bss_name == <<"sec", ".bss">>
DATA_ALIGN(n) == IF n = 1 THEN 1 ELSE 2
Statics == [listing |-> TRUE, undefined |-> {}]
init_syntax == Start(text_name, Statics)

\* Local labels start with a dot.
get_local_label(s, r) == IF r[1] = "loc" THEN Local(s.last_global, r[2]) ELSE r
Named(s, p) == IF p.t = "ref" THEN Ref(get_local_label(s, p.v)) ELSE p
NumOr(s, p, default) == IF Known(s, Named(s, p)) THEN Value(s, Named(s, p)) ELSE default
Const(s, p) == IF Known(s, Named(s, p)) THEN s ELSE general_error(s, 30)
-----------------------------------------------------------------------------
\* "==" exports the symbol, and a local one too, which is reported.
handle_equ(s, labname, a, exp) ==
    LET t == new_equate(s, labname, NumOr(s, a[1], Unknown))
        u == IF IsLocal(labname) THEN syntax_error(t, 1) ELSE t
    IN  IF exp THEN [u EXCEPT !.syms[labname].flags = @ \cup {"export"}] ELSE t
handle_set(s, labname, a) == new_abs(s, labname, NumOr(s, a[1], Unknown))
do_cond(s, a) == Known(s, Named(s, a[1])) /\ Value(s, Named(s, a[1])) # 0
ifdef(s, a, b) == IF a = << >> THEN syntax_error(s, 10)
                  ELSE cond_if(s, (Type(s, get_local_label(s, a[1].v)) \notin {"none", "import"}) = b)
handle_ifdef(s, a) == ifdef(s, a, TRUE)
handle_ifndef(s, a) == ifdef(s, a, FALSE)
handle_if(s, a) == cond_if(Const(s, a[1]), do_cond(s, a))
handle_else(s) == cond_skipelse(s)
handle_endif(s) == cond_endif(s)
-----------------------------------------------------------------------------
\* A section ends an ORG block.
do_section(s, name) == switch_to(try_end_rorg(s), name)
handle_text(s) == do_section(s, text_name)
handle_data(s) == do_section(s, data_name)
handle_bss(s) == do_section(s, bss_name)
\* A mutant: ORG inside of an ORG block is taken for the first one.
handle_org_nested(s, a) ==
    LET t == Const(s, a[1])
    IN  IF s.current # NoSection /\ ~Has(s, s.current, "abs") THEN start_rorg(t, NumOr(s, a[1], 0))
        ELSE set_org(t, NumOr(s, a[1], 0))
\* ORG in a relocatable section, or in the ORG block of one, is an RORG.
handle_org(s, a) ==
    LET t == Const(s, a[1])
    IN  IF s.current # NoSection /\ (~Has(s, s.current, "abs") \/ Has(s, s.current, "rorg"))
        THEN start_rorg(t, NumOr(s, a[1], 0)) ELSE set_org(t, NumOr(s, a[1], 0))
handle_68000(s) == try_end_rorg(s)
handle_offset(s, a) ==
    switch_offset_section(try_end_rorg(IF a = << >> THEN s ELSE Const(s, a[1])), NoName,
                          IF a = << >> THEN 0 ELSE NumOr(s, a[1], 0))
\* A second export is reported.
handle_globl(s, a) ==
    IF a = << >> THEN syntax_error(s, 10) ELSE
    ForEachQuiet(s, a, LAMBDA t, p :
        IF p.t # "ref" THEN Stop(syntax_error(t, 10))
        ELSE LET u == new_import(t, p.v)
             IN  Go(Binding(IF "export" \in u.syms[p.v].flags THEN general_error(u, 62) ELSE u, p.v, "export")))
handle_assert(s) == add_atom(s, "assert", << >>)
-----------------------------------------------------------------------------
\* parse_string: no string without its closing delimiter or with one character.
parse_string(p) == p.t = "str" /\ p.closed /\ Len(p.v) # 1
\* OPSZ_SWAP: the words of a long word the other way around.
Ordered(bytes, swap) == IF swap THEN SubSeq(bytes, 3, 4) \o SubSeq(bytes, 1, 2) ELSE bytes
DataAtom(s, bytes, n, name) ==
    LastRefers(add_atom_aligned(s, "datadef", bytes, DATA_ALIGN(n)), name)
handle_datadef(s, a, n, swap) ==
    ForEach(s, a, LAMBDA t, p :
        CASE n = 1 /\ parse_string(p) -> Go(add_data(t, p.v))
          [] p.t = "val" -> Go(DataAtom(t, Ordered(BE(p.v, n), swap), n, NoName))
          [] p.t = "str" /\ Len(p.v) = 1 -> Go(DataAtom(t, Ordered(BE(p.v[1], n), swap), n, NoName))
          [] p.t = "ref" -> LET r == get_local_label(t, p.v) IN Go(DataAtom(new_import(t, r), Zeros(n), n, r))
          [] OTHER -> Go(syntax_error(t, 8)))
handle_d8(s, a) == handle_datadef(s, a, 1, FALSE)
handle_d16(s, a) == handle_datadef(s, a, 2, FALSE)
handle_d32(s, a) == handle_datadef(s, a, 4, FALSE)
handle_i32(s, a) == handle_datadef(s, a, 4, TRUE)
do_space(s, n, count, fill) ==
    add_atom_aligned(s, "space", FlattenSeq([i \in 1..count |-> BE(fill, n)]), DATA_ALIGN(n))
handle_space(s, a, n) == do_space(s, n, a[1].v, 0)
handle_block(s, a, n) == do_space(s, n, a[1].v, IF Len(a) > 1 THEN a[2].v ELSE 0)
handle_spc8(s, a) == handle_space(s, a, 1)
handle_spc16(s, a) == handle_space(s, a, 2)
handle_spc32(s, a) == handle_space(s, a, 4)
handle_blk8(s, a) == handle_block(s, a, 1)
handle_blk16(s, a) == handle_block(s, a, 2)
handle_blk32(s, a) == handle_block(s, a, 4)
do_alignment(s, align) == add_atom_aligned(s, "space", << >>, align)
handle_even(s) == do_alignment(s, 2)
handle_long(s) == do_alignment(s, 4)
handle_phrase(s) == do_alignment(s, 8)
handle_dphrase(s) == do_alignment(s, 16)
handle_qphrase(s) == do_alignment(s, 32)
-----------------------------------------------------------------------------
\* What concerns other sources and files is asked of them; END ends the source it
\* is in.
Ask(s, what, a) == [s EXCEPT !.req = <<what, a>>]
handle_end(s) == Ask(s, "end_source", << >>)
handle_include(s, a) == IF a = << >> THEN s ELSE Ask(s, "include", a)
handle_incbin(s, a) == IF a = << >> THEN s ELSE Ask(s, "incbin", a)
handle_rept(s, a) == Ask(Const(s, a[1]), "rept", <<Val(NumOr(s, a[1], 0))>>)
handle_endr(s) == syntax_error(s, 12)
handle_macro(s, a) == IF a = << >> \/ a[1].t # "ref" THEN syntax_error(s, 10) ELSE Ask(s, "macro", a)
handle_macundef(s, a) == [s EXCEPT !.x.undefined = @ \cup {a[i].v : i \in DOMAIN a}]
handle_endm(s) == syntax_error(s, 12)
handle_exitm(s) == Ask(s, "mexit", << >>)
handle_list(s) == [s EXCEPT !.x.listing = TRUE]
handle_nlist(s) == [s EXCEPT !.x.listing = FALSE]
\* Texts that are not empty, values with their formats, and the end of the line.
handle_print(s, a) ==
    LET One(t, p) == CASE p.t = "str" -> IF p.v = << >> THEN t ELSE add_or_save_atom(t, "text")
                       [] p.t = "format" -> syntax_error(t, IF p.v = "" THEN 9 ELSE 7)
                       [] OTHER -> add_or_save_atom(t, "expr")
    IN  add_or_save_atom(FoldLeft(One, s, a), "newline")
-----------------------------------------------------------------------------
directives(s, op, a) ==
    CASE op = "if" -> handle_if(s, a)
      [] op = "else" -> handle_else(s)
      [] op = "endif" -> handle_endif(s)
      [] op = "ifdef" -> handle_ifdef(s, a)
      [] op = "ifndef" -> handle_ifndef(s, a)
      [] op = "rept" -> handle_rept(s, a)
      [] op = "endr" -> handle_endr(s)
      [] op = "macro" -> handle_macro(s, a)
      [] op = "endm" -> handle_endm(s)
      [] op = "exitm" -> handle_exitm(s)
      [] op = "macundef" -> handle_macundef(s, a)
      [] op = "text" -> handle_text(s)
      [] op = "data" -> handle_data(s)
      [] op = "bss" -> handle_bss(s)
      [] op = "org" -> handle_org(s, a)
      [] op = "68000" -> handle_68000(s)
      [] op \in {"globl", "extern"} -> handle_globl(s, a)
      [] op = "assert" -> handle_assert(s)
      [] op \in {"dc", "dc.w"} -> handle_d16(s, a)
      [] op = "dc.b" -> handle_d8(s, a)
      [] op = "dc.l" -> handle_d32(s, a)
      [] op = "dc.i" -> handle_i32(s, a)
      [] op \in {"dcb", "dcb.w"} -> handle_blk16(s, a)
      [] op = "dcb.b" -> handle_blk8(s, a)
      [] op = "dcb.l" -> handle_blk32(s, a)
      [] op \in {"ds", "ds.w"} -> handle_spc16(s, a)
      [] op = "ds.b" -> handle_spc8(s, a)
      [] op = "ds.l" -> handle_spc32(s, a)
      [] op = "end" -> handle_end(s)
      [] op = "even" -> handle_even(s)
      [] op = "long" -> handle_long(s)
      [] op = "phrase" -> handle_phrase(s)
      [] op = "dphrase" -> handle_dphrase(s)
      [] op = "qphrase" -> handle_qphrase(s)
      [] op = "include" -> handle_include(s, a)
      [] op = "incbin" -> handle_incbin(s, a)
      [] op = "list" -> handle_list(s)
      [] op \in {"nlist", "nolist"} -> handle_nlist(s)
      [] op = "print" -> handle_print(s, a)
      [] op \in {"offset", "abs"} -> handle_offset(s, a)

\* Lines that are not assembled: of the conditionals only IF is counted.
SkippedLine(s, op) == CASE op = "if" -> cond_skipif(s)
                        [] op = "else" -> cond_else(s)
                        [] op = "endif" -> cond_endif(s)
                        [] OTHER -> s
Assignments == {"equ", "=", "==", "set"}
Operation(s, op, a) == CASE op = "" -> s
                         [] op = "inst" -> add_atom(s, "inst", <<78, 113>>)
                         [] OTHER -> directives(s, op, a)
\* A label has a colon, or two when it is exported ("globx"); a symbol without one
\* is for an assignment.  IIF stands behind the label and drops the rest of the line.
parse(s0, line) ==
    LET s == [s0 EXCEPT !.fresh = NoName, !.req = << >>]
        lab == line.lab
        exported == lab # << >> /\ lab[1] = "globx"
        name == IF exported THEN Global(lab[2]) ELSE get_local_label(s, lab)
        t == IF line.iif = << >> THEN s ELSE Const(s, line.iif[1])
        u == new_label(t, name)
    IN  IF ~cond_state(s) THEN SkippedLine(s, line.op)
        ELSE IF line.iif # << >> /\ ~do_cond(s, line.iif) THEN IF lab = << >> THEN t ELSE u
        ELSE IF lab # << >> /\ line.op = "set" THEN handle_set(t, name, line.a)
        ELSE IF lab # << >> /\ line.op \in Assignments THEN handle_equ(t, name, line.a, line.op = "==")
        ELSE Operation(IF lab = << >> THEN t ELSE IF exported THEN Binding(u, name, "export") ELSE u, line.op, line.a)
Finish(s) == cond_check(s)
=============================================================================
