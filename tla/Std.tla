-------------------------------- MODULE Std --------------------------------
(***************************************************************************)
(* The standard (GNU as like) syntax module, syntax/std/syntax.c, on the   *)
(* state of module Asm, for the M68k: the high byte comes first.           *)
(***************************************************************************)
EXTENDS Asm

Sec(name) == <<"sec", name>>
textname == Sec(".text")
bssname == Sec(".bss")
sbssname == Sec(".sbss")
bytespertaddr == 4
DATA_ALIGN(n) == IF n <= 1 THEN 1 ELSE 2

\* Options and static variables: local_labno counts the definitions of the labels 0
\* to 9; attr, size and align are kept with sections and symbols.
Statics == [gas_compat |-> FALSE, alloccommon |-> FALSE, align_data |-> FALSE, sdlimit |-> -1,
            local_labno |-> [d \in 0..9 |-> 0], memattr |-> << >>, size |-> << >>, align |-> << >>,
            listing |-> TRUE, filename |-> ""]
syntax_args(x, p) == CASE p[1] = "-ac" -> [x EXCEPT !.alloccommon = TRUE]
                       [] p[1] = "-align" -> [x EXCEPT !.align_data = TRUE]
                       [] p[1] = "-gas" -> [x EXCEPT !.gas_compat = TRUE]
                       [] p[1] = "-sdlimit" -> [x EXCEPT !.sdlimit = IF p[2] <= 0 THEN -1 ELSE p[2]]
                       [] OTHER -> x
InitSyntax(x) == Start(textname, x)
init_syntax == InitSyntax(Statics)

\* .n (not with -gas) and n$ belong to the last global label, nb and nf are the
\* latest and the next one of the labels n.
Digit(d, serno) == Local(<<"digit", d>>, serno)
get_local_label(s, r) ==
    CASE r[1] = "loc" -> Local(s.last_global, r[2])
      [] r[1] = "b" -> Digit(r[2], s.x.local_labno[r[2]])
      [] r[1] = "f" -> Digit(r[2], s.x.local_labno[r[2]] + 1)
      [] OTHER -> r
Named(s, p) == IF p.t = "ref" THEN Ref(get_local_label(s, p.v)) ELSE p
NumOr(s, p, default) == IF Known(s, Named(s, p)) THEN Value(s, Named(s, p)) ELSE default
Const(s, p) == IF Known(s, Named(s, p)) THEN s ELSE general_error(s, 30)
NumArg(s, a, i, default) == IF Len(a) < i THEN default ELSE NumOr(s, a[i], default)
-----------------------------------------------------------------------------
\* The name decides the attributes, or flags that follow it do; a type and memory
\* flags may come behind them.
handle_section(s, a) ==
    IF a = << >> THEN syntax_error(s, 20)
    ELSE LET bad == CASE Len(a) > 1 /\ a[2].t # "str" -> {1007}
                      [] Len(a) > 2 /\ a[3].t = "word" /\ a[3].v \notin {"nobits", "progbits"} -> {1014}
                      [] OTHER -> {}
             t == [s EXCEPT !.errs = @ \cup bad,
                            !.x.memattr = (Sec(a[1].v) :> IF Len(a) > 2 /\ a[3].t = "val" THEN a[3].v ELSE 0) @@ @]
         IN  switch_to(t, Sec(a[1].v))
handle_pushsection(s, a) == handle_section(push_section(s), a)
handle_popsection(s) == pop_section(s)
\* Inside a relocatable section an origin is an offset.
handle_org(s0, a) ==
    LET s == IF s0.x.gas_compat THEN default_section(s0) ELSE s0
    IN  IF IsWord(a, "*") THEN syntax_error(s, 18)
        ELSE IF IsWord(a, "*+") THEN add_space(s, a[2].v, 0)
        ELSE IF s.current # NoSection /\ ~Has(s, s.current, "abs")
             THEN add_roffs(s, NumOr(s, a[1], 0), NumArg(s, a, 2, 0))
        ELSE set_org(Const(s, a[1]), NumOr(s, a[1], 0))
handle_texts(s) == handle_section(s, <<Word(".text")>>)
handle_datas(s) == handle_section(s, <<Word(".data")>>)
handle_sdatas(s) == handle_section(s, <<Word(".sdata")>>)
handle_sdata2s(s) == handle_section(s, <<Word(".sdata2")>>)
handle_rodatas(s) == handle_section(s, <<Word(".rodata")>>)
handle_sbsss(s) == handle_section(s, <<Word(".sbss")>>)
handle_tocds(s) == handle_section(s, <<Word(".tocd")>>)
handle_dpages(s) == handle_section(s, <<Word(".dpage")>>)
-----------------------------------------------------------------------------
\* parse_string: no string without its closing delimiter or with one character.
parse_string(p) == p.t = "str" /\ p.d = 34 /\ p.closed /\ Len(p.v) # 1
DataAtom(s, bytes, align, name) ==
    LastRefers(add_atom_aligned(s, "datadef", bytes, align), name)
handle_data(s, a, n, noalign) ==
    LET align == IF ~s.x.align_data \/ noalign THEN 1 ELSE DATA_ALIGN(n)
        Do(t, p) ==
            IF parse_string(p) THEN Go(add_data(t, FlattenSeq([i \in DOMAIN p.v |-> BE(p.v[i], n)])))
            ELSE CASE p.t = "val" -> Go(DataAtom(t, BE(p.v, n), align, NoName))
                   [] p.t = "str" /\ Len(p.v) = 1 -> Go(DataAtom(t, BE(p.v[1], n), align, NoName))
                   [] p.t = "ref" -> LET r == get_local_label(t, p.v)
                                     IN  Go(DataAtom(new_import(t, r), Zeros(n), align, r))
                   [] OTHER -> Go(syntax_error(t, 8))
    IN  FoldLeft(LAMBDA r, p : IF ~r.go THEN r
                               ELSE IF p = Junk THEN Stop(general_error(r.s, 6)) ELSE Do(r.s, p), Go(s), a).s
handle_8bit(s, a) == handle_data(s, a, 1, FALSE)
handle_16bit(s, a) == handle_data(s, a, 2, FALSE)
handle_32bit(s, a) == handle_data(s, a, 4, FALSE)
handle_64bit(s, a) == handle_data(s, a, 8, FALSE)
handle_taddr(s, a) == handle_data(s, a, bytespertaddr, FALSE)
handle_16bit_noalign(s, a) == handle_data(s, a, 2, TRUE)
handle_32bit_noalign(s, a) == handle_data(s, a, 4, TRUE)
handle_64bit_noalign(s, a) == handle_data(s, a, 8, TRUE)
handle_string(s, a) == add_space(handle_data(s, a, 1, FALSE), 1, 0)
handle_space(s, a) == add_space(s, a[1].v, NumArg(s, a, 2, 0))

\* A gap that is larger than the maximum is not filled.
do_align(s, align, width, fill, max) ==
    LET t == default_section(s)
        pad == IF max > 0 /\ Gap(t, align) > max THEN << >> ELSE Filled(t, align, BE(fill, width))
    IN  add_atom_padded(t, "space", pad, << >>)
\* A power of two beyond the width of an integer is reported, and undefined.
alignment(s, a, bytes, width) ==
    IF ~bytes /\ a[1].v > 63 THEN syntax_error(s, 23)
    ELSE do_align(s, IF bytes THEN a[1].v ELSE Bit(a[1].v), width, NumArg(s, a, 2, 0), NumArg(s, a, 3, 0))
handle_even(s) == do_align(s, 2, 1, 0, 0)
handle_align(s, a) == alignment(s, a, FALSE, 1)
handle_balign(s, a) == alignment(s, a, TRUE, 1)
handle_balignw(s, a) == alignment(s, a, TRUE, 2)
handle_balignl(s, a) == alignment(s, a, TRUE, 4)
handle_p2align(s, a) == alignment(s, a, FALSE, 1)
handle_p2alignw(s, a) == alignment(s, a, FALSE, 2)
handle_p2alignl(s, a) == alignment(s, a, FALSE, 4)
-----------------------------------------------------------------------------
IsName(a) == a # << >> /\ a[1].t = "ref"
Comma(s, a) == IF Len(a) < 2 THEN general_error(s, 6) ELSE s
do_equ(s, a, equiv) ==
    IF ~IsName(a) THEN syntax_error(s, 10)
    ELSE LET t == IF equiv /\ Type(s, a[1].v) \in Present THEN general_error(s, 67) ELSE s
         IN  new_abs(Comma(t, a), a[1].v, IF Len(a) < 2 THEN Unknown ELSE NumOr(s, a[2], Unknown))
handle_set(s, a) == do_equ(s, a, FALSE)
handle_equiv(s, a) == do_equ(s, a, TRUE)
\* A symbol has one binding, and a common one is not local.
do_binding(s, a, bind) ==
    IF a = << >> THEN syntax_error(s, 10) ELSE
    ForEachQuiet(s, a, LAMBDA t, p :
        IF p.t # "ref" THEN Stop(syntax_error(t, 10))
        ELSE LET u == new_import(t, p.v)
                 f == u.syms[p.v].flags
             IN  IF f \cap {"export", "weak", "local"} \notin {{}, {bind}} \/ ("common" \in f /\ bind = "local")
                 THEN Go(general_error(u, 62)) ELSE Go(Binding(u, p.v, bind)))
handle_global(s, a) == do_binding(s, a, "export")
handle_weak(s, a) == do_binding(s, a, "weak")
handle_local(s, a) == do_binding(s, a, "local")
handle_size(s, a) == IF ~IsName(a) THEN syntax_error(s, 10)
                     ELSE [Comma(new_import(s, a[1].v), a) EXCEPT !.x.size = (a[1].v :> NumArg(s, a, 2, 0)) @@ @]
handle_type(s, a) == IF ~IsName(a) THEN syntax_error(s, 10)
                     ELSE IF Len(a) < 2 THEN general_error(new_import(s, a[1].v), 6)
                     ELSE IF IsWord(Tail(a), "@object") THEN Binding(s, a[1].v, "object")
                     ELSE IF IsWord(Tail(a), "@function") THEN Binding(s, a[1].v, "function")
                     ELSE new_import(s, a[1].v)

\* A label and its space, both aligned, in the section for small or for other data;
\* the current section stays.
new_bss(s, a, global) ==
    IF ~IsName(a) THEN syntax_error(s, 10)
    ELSE LET t == Comma(s, a)
             size == NumArg(s, a, 2, 0)
             align == NumArg(s, a, 3, DATA_ALIGN(size))
             sec == IF size <= s.x.sdlimit THEN sbssname ELSE bssname
             u == new_section(t, sec)
             Put(r) == add_atom_aligned(new_label(r, a[1].v), "space", Zeros(size), IF align = 0 THEN 1 ELSE align)
             v == InSection(u, SectionNamed(u, sec), Put)
         IN  [(IF global THEN Binding(v, a[1].v, "export") ELSE v) EXCEPT !.syms[a[1].v].flags = @ \cup {"object"},
                  !.x.size = (a[1].v :> size) @@ @, !.x.align = (a[1].v :> align) @@ @]
handle_lcomm(s, a) == new_bss(s, a, FALSE)
handle_comm(s, a) ==
    IF s.x.alloccommon THEN new_bss(s, a, TRUE)
    ELSE IF ~IsName(a) THEN syntax_error(s, 10)
    ELSE IF Defined(s, a[1].v) /\ "local" \in s.syms[a[1].v].flags THEN new_bss(s, a, FALSE)
    ELSE LET t == Comma(new_import(s, a[1].v), a)
         IN  IF Len(a) < 2 \/ ~Known(s, Named(s, a[2])) THEN general_error(t, 30)
             ELSE [t EXCEPT !.syms[a[1].v].flags = @ \cup {"common", "object"},
                            !.x.size = (a[1].v :> NumOr(s, a[2], 0)) @@ @,
                            !.x.align = (a[1].v :> NumArg(s, a, 3, DATA_ALIGN(NumOr(s, a[2], 0)))) @@ @]
handle_bsss(s, a) == IF a # << >> THEN new_bss(s, a, FALSE) ELSE handle_section(s, <<Word(".bss")>>)
-----------------------------------------------------------------------------
\* Debugging entries of a.out; the texts need their quotes.
handle_stabs(s, a) == IF a = << >> \/ a[1].t # "str" THEN general_error(s, 6)
                      ELSE add_atom(IF Len(a) < 5 THEN general_error(s, 6) ELSE s, "nlist", << >>)
handle_stabn(s, a) == add_atom(IF Len(a) < 4 THEN general_error(s, 6) ELSE s, "nlist", << >>)
handle_stabd(s, a) == add_atom(IF Len(a) < 3 THEN general_error(s, 6) ELSE s, "nlist", << >>)
handle_file(s, a) == IF a = << >> \/ a[1].t # "str" THEN general_error(s, 6) ELSE [s EXCEPT !.x.filename = a[1].v]
handle_ident(s, a) == IF a = << >> THEN s ELSE [s EXCEPT !.x.filename = a[1].v]
handle_title(s, a) == IF a = << >> \/ a[1].t # "str" THEN general_error(s, 6) ELSE s
handle_list(s) == [s EXCEPT !.x.listing = TRUE]
handle_nolist(s) == [s EXCEPT !.x.listing = FALSE]
handle_swbeg(s) == s
handle_abort(s) == [syntax_error(s, 11) EXCEPT !.end = TRUE]
handle_err(s) == add_atom(s, "assert", << >>)
handle_fail(s, a) == IF ~Known(s, Named(s, a[1])) THEN general_error(s, 30)
                     ELSE IF NumOr(s, a[1], 0) >= 500 THEN syntax_error(s, 21) ELSE syntax_error(s, 22)
handle_vdebug(s) == add_atom(s, "vdebug", << >>)

\* What concerns other sources and files is asked of them.
Ask(s, what, a) == [s EXCEPT !.req = <<what, a>>]
handle_incdir(s, a) == IF a = << >> THEN s ELSE Ask(s, "incdir", a)
handle_include(s, a) == IF a = << >> THEN s ELSE Ask(s, "include", a)
handle_incbin(s, a) == IF a = << >> THEN s ELSE Ask(s, "incbin", a)
handle_rept(s, a) == Ask(Const(s, a[1]), "rept", <<Val(NumOr(s, a[1], 0))>>)
do_irp(s, a, type) == IF ~IsName(a) THEN syntax_error(s, 10) ELSE Ask(s, type, a)
handle_irp(s, a) == do_irp(s, a, "irp")
handle_irpc(s, a) == do_irp(s, a, "irpc")
handle_endr(s) == syntax_error(s, 12)
handle_macro(s, a) == IF ~IsName(a) THEN syntax_error(s, 10) ELSE Ask(s, "macro", a)
handle_endm(s) == syntax_error(s, 12)
-----------------------------------------------------------------------------
\* Without operands IFC and IFDEF open no level.
ifdef(s, a, b) == IF a = << >> THEN syntax_error(s, 10)
                  ELSE cond_if(s, (Type(s, get_local_label(s, a[1].v)) \notin {"none", "import"}) = b)
handle_ifd(s, a) == ifdef(s, a, TRUE)
handle_ifnd(s, a) == ifdef(s, a, FALSE)
handle_ifb(s, a) == cond_if(s, a = << >>)
handle_ifnb(s, a) == cond_if(s, a # << >>)
ifc(s, a, b) == IF Len(a) < 2 THEN syntax_error(s, 5) ELSE cond_if(s, (a[1] = a[2]) = b)
handle_ifc(s, a) == ifc(s, a, TRUE)
handle_ifnc(s, a) == ifc(s, a, FALSE)
eval_ifexp(s, a, Holds(_)) == Known(s, Named(s, a[1])) /\ Holds(Value(s, Named(s, a[1])))
ifexp(s, a, Holds(_)) == cond_if(Const(s, a[1]), eval_ifexp(s, a, Holds))
NonZero(v) == v # 0
handle_ifeq(s, a) == ifexp(s, a, LAMBDA v : v = 0)
handle_ifne(s, a) == ifexp(s, a, NonZero)
handle_ifgt(s, a) == ifexp(s, a, LAMBDA v : v > 0)
handle_ifge(s, a) == ifexp(s, a, LAMBDA v : v >= 0)
handle_iflt(s, a) == ifexp(s, a, LAMBDA v : v < 0)
handle_ifle(s, a) == ifexp(s, a, LAMBDA v : v <= 0)
handle_else(s) == cond_skipelse(s)
handle_elseif(s) == cond_skipelse(s)
handle_endif(s) == cond_endif(s)
-----------------------------------------------------------------------------
\* The table, of which the conditionals come first.
Opens == {"ifdef", "ifndef", "ifb", "ifnb", "ifc", "ifnc", "if", "ifeq", "ifne", "ifgt", "ifge", "iflt", "ifle"}
directives(s, op, a) ==
    CASE op = "ifdef" -> handle_ifd(s, a)
      [] op = "ifndef" -> handle_ifnd(s, a)
      [] op = "ifb" -> handle_ifb(s, a)
      [] op = "ifnb" -> handle_ifnb(s, a)
      [] op = "ifc" -> handle_ifc(s, a)
      [] op = "ifnc" -> handle_ifnc(s, a)
      [] op \in {"if", "ifne"} -> handle_ifne(s, a)
      [] op = "ifeq" -> handle_ifeq(s, a)
      [] op = "ifgt" -> handle_ifgt(s, a)
      [] op = "ifge" -> handle_ifge(s, a)
      [] op = "iflt" -> handle_iflt(s, a)
      [] op = "ifle" -> handle_ifle(s, a)
      [] op = "endif" -> handle_endif(s)
      [] op = "else" -> handle_else(s)
      [] op = "elseif" -> handle_elseif(s)
      [] op = "org" -> handle_org(s, a)
      [] op = "section" -> handle_section(s, a)
      [] op = "pushsection" -> handle_pushsection(s, a)
      [] op = "popsection" -> handle_popsection(s)
      [] op \in {"string", "asciz"} -> handle_string(s, a)
      [] op \in {"byte", "ascii"} -> handle_8bit(s, a)
      [] op \in {"short", "half", "word"} -> handle_16bit(s, a)
      [] op = "int" -> handle_taddr(s, a)
      [] op = "long" -> handle_32bit(s, a)
      [] op = "quad" -> handle_64bit(s, a)
      [] op \in {"2byte", "uahalf", "uaword"} -> handle_16bit_noalign(s, a)
      [] op \in {"4byte", "ualong"} -> handle_32bit_noalign(s, a)
      [] op \in {"8byte", "uaquad"} -> handle_64bit_noalign(s, a)
      [] op = "text" -> handle_texts(s)
      [] op = "data" -> handle_datas(s)
      [] op = "bss" -> handle_bsss(s, a)
      [] op = "rodata" -> handle_rodatas(s)
      [] op = "sdata" -> handle_sdatas(s)
      [] op = "sdata2" -> handle_sdata2s(s)
      [] op = "sbss" -> handle_sbsss(s)
      [] op = "tocd" -> handle_tocds(s)
      [] op = "dpage" -> handle_dpages(s)
      [] op \in {"equ", "set"} -> handle_set(s, a)
      [] op = "equiv" -> handle_equiv(s, a)
      [] op \in {"global", "globl", "extern"} -> handle_global(s, a)
      [] op = "weak" -> handle_weak(s, a)
      [] op = "local" -> handle_local(s, a)
      [] op = "even" -> handle_even(s)
      [] op = "align" -> handle_align(s, a)
      [] op = "balign" -> handle_balign(s, a)
      [] op = "balignw" -> handle_balignw(s, a)
      [] op = "balignl" -> handle_balignl(s, a)
      [] op = "p2align" -> handle_p2align(s, a)
      [] op = "p2alignw" -> handle_p2alignw(s, a)
      [] op = "p2alignl" -> handle_p2alignl(s, a)
      [] op \in {"space", "skip", "zero"} -> handle_space(s, a)
      [] op = "comm" -> handle_comm(s, a)
      [] op = "lcomm" -> handle_lcomm(s, a)
      [] op = "size" -> handle_size(s, a)
      [] op = "type" -> handle_type(s, a)
      [] op = "file" -> handle_file(s, a)
      [] op = "stabs" -> handle_stabs(s, a)
      [] op = "stabn" -> handle_stabn(s, a)
      [] op = "stabd" -> handle_stabd(s, a)
      [] op = "incdir" -> handle_incdir(s, a)
      [] op = "include" -> handle_include(s, a)
      [] op = "incbin" -> handle_incbin(s, a)
      [] op = "rept" -> handle_rept(s, a)
      [] op = "irp" -> handle_irp(s, a)
      [] op = "irpc" -> handle_irpc(s, a)
      [] op = "endr" -> handle_endr(s)
      [] op = "macro" -> handle_macro(s, a)
      [] op = "endm" -> handle_endm(s)
      [] op = "abort" -> handle_abort(s)
      [] op = "err" -> handle_err(s)
      [] op = "fail" -> handle_fail(s, a)
      [] op = "title" -> handle_title(s, a)
      [] op = "ident" -> handle_ident(s, a)
      [] op = "list" -> handle_list(s)
      [] op = "nolist" -> handle_nolist(s)
      [] op = "swbeg" -> handle_swbeg(s)
      [] op = "vdebug" -> handle_vdebug(s)

\* The label field: a digit and a colon is the next definition of that label.
parse_stdlabel(s, lab) ==
    IF lab # << >> /\ lab[1] = "digit" THEN [s EXCEPT !.x.local_labno[lab[2]] = @ + 1] ELSE s
LabelName(s, lab) == IF lab[1] = "digit" THEN Digit(lab[2], s.x.local_labno[lab[2]]) ELSE get_local_label(s, lab)
\* Lines that are not assembled: their label field is read too, which counts the
\* labels 0 to 9, and ELSEIF is evaluated, whatever block it belongs to.
SkippedLine(s, line) ==
    LET t == parse_stdlabel(s, line.lab)
    IN  CASE line.op \in Opens -> cond_skipif(t)
          [] line.op = "else" -> cond_else(t)
          [] line.op = "endif" -> cond_endif(t)
          [] line.op = "elseif" -> cond_elseif(Const(t, line.a[1]), eval_ifexp(t, line.a, NonZero))
          [] OTHER -> t
Operation(s, op, a) == CASE op = "" -> s
                         [] op = "inst" -> add_atom(s, "inst", <<78, 113>>)
                         [] OTHER -> directives(s, op, a)
parse(s0, line) ==
    LET s == [s0 EXCEPT !.fresh = NoName, !.req = << >>]
        t == parse_stdlabel(s, line.lab)
    IN  IF s.end THEN s
        ELSE IF ~cond_state(s) THEN SkippedLine(s, line)
        ELSE Operation(IF line.lab = << >> THEN s ELSE new_label(t, LabelName(t, line.lab)), line.op, line.a)
Finish(s) == cond_check(s)
=============================================================================
