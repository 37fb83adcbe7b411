------------------------------- MODULE Merlin -------------------------------
(***************************************************************************)
(* The Merlin syntax module (syntax/merlin/syntax.c): what each directive, *)
(* label and assignment does to the assembler's state.  A line is a record *)
(* of its label field, its operation and its operands (module Asm); the    *)
(* characters of names and blanks between them are abstracted.             *)
(***************************************************************************)
EXTENDS Asm

\* A variable label has the name of its current definition, how often it was
\* defined and the name of the definition that is under way.
NoVar == [unique |-> NoName, pending |-> NoName, count |-> 0]

Statics ==
    [dsect_active |-> FALSE, dsect_offs |-> 0, last_alloc_sect |-> NoSection, anon_labno |-> 0,
     inline_stack |-> << >>, inline_id |-> 0, saved_last_global |-> Global(""),
     merlin_last_global |-> Global(""), varlabels |-> << >>, varlabel_counter |-> 0,
     pending_varlabel |-> "", xc_level |-> 0, cpu |-> "6502", asize |-> 8, xsize |-> 8,
     file_type |-> -1, aux_type |-> -1, cycles |-> FALSE, filename |-> "", usr |-> << >>,
     listing |-> TRUE, memattr |-> 0, align |-> 1]
INLSTACKSIZE == 100
textname == <<"sec", ".text">>
init_syntax == Start(textname, Statics)
-----------------------------------------------------------------------------
Var(s, n) == IF n \in DOMAIN s.x.varlabels THEN s.x.varlabels[n] ELSE NoVar
WithVar(s, n, v) == [s EXCEPT !.x.varlabels = (n :> v) @@ @]
find_or_create_varlabel(s, n) == WithVar(s, n, Var(s, n))
Unid(s) == <<"unid", s.x.varlabel_counter>>
NextUnid(s) == [s EXCEPT !.x.varlabel_counter = @ + 1]

\* A reference ahead of the first definition creates the name for it.
get_varlabel_unique_name(s, n) ==
    LET t == find_or_create_varlabel(s, n)
    IN  IF Var(t, n).unique # NoName THEN t
        ELSE NextUnid(WithVar(t, n, [Var(t, n) EXCEPT !.unique = Unid(t)]))

\* A mutant: the new name is visible at once.
prepare_varlabel_early(s, n) ==
    LET t == NextUnid(find_or_create_varlabel(s, n))
    IN  [WithVar(t, n, [unique |-> Unid(s), pending |-> Unid(s), count |-> Var(t, n).count])
         EXCEPT !.x.pending_varlabel = n]

\* A definition takes that name, every later one a new name, which the
\* references on the same line do not see yet.
prepare_varlabel_definition(s, n) ==
    LET t == find_or_create_varlabel(s, n)
        v == Var(t, n)
        u == IF v.count = 0 /\ v.unique # NoName
             THEN WithVar(t, n, [v EXCEPT !.pending = v.unique])
             ELSE NextUnid(WithVar(t, n, [v EXCEPT !.pending = Unid(t)]))
    IN  [u EXCEPT !.x.pending_varlabel = n]

finalize_varlabel(s) ==
    LET n == s.x.pending_varlabel
        v == Var(s, n)
        t == IF n # "" /\ v.pending # NoName
             THEN WithVar(s, n, [unique |-> v.pending, pending |-> NoName, count |-> v.count + 1])
             ELSE s
    IN  [t EXCEPT !.x.pending_varlabel = ""]
\* A label or reference is a kind and a name: "glob", "loc" (:N), "var" (]N) or
\* "anon", where the name is the run of signs as the sum of its + and -.
\* get_local_label turns it into the name of a symbol.
get_local_label(s, r) ==
    CASE r[1] = "loc" -> Local(s.x.merlin_last_global, r[2])
      [] r[1] = "var" -> Var(get_varlabel_unique_name(s, r[2]), r[2]).unique
      [] r[1] = "anon" -> Local(Global(":"), (IF r[2] > 0 THEN s.x.anon_labno + 1 ELSE s.x.anon_labno) + r[2])
      [] OTHER -> r
\* What reading the reference leaves behind.
Referenced(s, p) == IF p.t = "ref" /\ p.v[1] = "var" THEN get_varlabel_unique_name(s, p.v[2]) ELSE s
Named(s, p) == IF p.t = "ref" THEN Ref(get_local_label(s, p.v)) ELSE p
-----------------------------------------------------------------------------
\* One operand of a data directive of n bytes.
DataOperand(s, p, n) ==
    IF p.t = "val" THEN add_datadef(s, LE(p.v, n), NoName)
    ELSE IF p.t = "ref"
         THEN LET t == Referenced(s, p) IN add_datadef(t, Zeros(n), get_local_label(s, p.v))
    ELSE syntax_error(s, 8)
\* parse_string: no string without its closing delimiter or with one character.
parse_string(p) == p.t = "str" /\ p.closed /\ Len(p.v) # 1
IsChar(p) == p.t = "str" /\ Len(p.v) = 1

handle_data_mod(s, a, n, addend) ==
    ForEach(s, a, LAMBDA t, p :
        Go(IF n = 1 /\ parse_string(p)
           THEN add_data(t, [i \in DOMAIN p.v |-> (p.v[i] + addend) % 256])
           ELSE IF IsChar(p) THEN DataOperand(t, Val(p.v[1] + addend), n)
           ELSE IF p.t = "val" THEN DataOperand(t, Val(p.v + addend), n)
           ELSE DataOperand(t, p, n)))
handle_data(s, a, n) == handle_data_mod(s, a, n, 0)
do_space(s, size, a) == add_space(s, (size \div 8) * a[1].v, IF Len(a) > 1 THEN a[2].v ELSE 0)
handle_space(s, a, size) == do_space(s, size, a)
handle_uspace(s, a, size) == do_space(s, size, <<a[1]>>)
handle_fixedspc(s, n) == add_space(s, n, 0)
handle_d8(s, a) == IF a = << >> THEN handle_fixedspc(s, 1) ELSE handle_data(s, a, 1)
handle_dblbyt(s, a) == IF a = << >> THEN handle_fixedspc(s, 2) ELSE handle_data(s, a, 2)
handle_d16(s, a) == IF a = << >> THEN handle_fixedspc(s, 2) ELSE handle_data(s, a, 2)
handle_d24(s, a) == IF a = << >> THEN handle_fixedspc(s, 3) ELSE handle_data(s, a, 3)
handle_d32(s, a) == IF a = << >> THEN handle_fixedspc(s, 4) ELSE handle_data(s, a, 4)
handle_adrl(s, a) == IF a = << >> THEN handle_fixedspc(s, 4) ELSE handle_data(s, a, 4)
handle_d64(s, a) == IF a = << >> THEN handle_fixedspc(s, 8) ELSE handle_data(s, a, 8)
bytespertaddr(s) == IF s.x.cpu = "65816" THEN 3 ELSE 2
handle_taddr(s, a) == IF a = << >> THEN handle_fixedspc(s, bytespertaddr(s))
                      ELSE handle_data(s, a, bytespertaddr(s))
\* The high byte comes first, on a little endian target.
handle_ddb(s, a) ==
    ForEach(s, a, LAMBDA t, p :
        CASE p.t = "val" -> Go(DataOperand(DataOperand(t, Val(p.v \div 256), 1), p, 1))
          [] p.t = "ref" -> Go(DataOperand(DataOperand(t, p, 1), p, 1))
          [] OTHER -> Stop(syntax_error(t, 8)))
handle_d8_mod(s, a) == IF Len(a) < 2 THEN syntax_error(s, 9) ELSE handle_data_mod(s, Tail(a), 1, a[1].v)

do_text(s, a, add) ==
    IF a = << >> \/ (a[1].v = << >> /\ ~a[1].closed) THEN syntax_error(s, 8)
    ELSE IF a[1].v = << >> THEN s
    ELSE IF parse_string(a[1])
         THEN add_data(s, [a[1].v EXCEPT ![Len(a[1].v)] = (@ + add) % 256])
         ELSE add_data(s, <<(a[1].v[1] + add) % 256>>)
handle_text(s, a) == do_text(s, a, 0)
handle_fcs(s, a) == do_text(s, a, 128)
handle_secdata(s, a) == handle_data(s, a, 1)
handle_secbss(s, a) == handle_space(s, a, 8)
do_alignment(s, align) == add_atom_aligned(s, "space", << >>, align)
\* (Shifts by more than 63 are undefined: no output follows the error.)
handle_align(s, a) == IF a[1].v > 63 THEN syntax_error(s, 21) ELSE do_alignment(s, Bit(a[1].v))
handle_even(s) == do_alignment(s, 2)
handle_spc8(s, a) == IF IsWord(a, "\\") THEN do_alignment(s, 256) ELSE handle_space(s, a, 8)
handle_spc16(s, a) == handle_space(s, a, 16)
handle_spc24(s, a) == handle_space(s, a, 24)
handle_spc32(s, a) == handle_space(s, a, 32)
handle_spc64(s, a) == handle_space(s, a, 64)

\* Delimiters below the apostrophe set bit 7 of every character.
apply_delimiter_highbit(bytes, delim) == [i \in DOMAIN bytes |-> IF delim < 39 THEN SetHigh(bytes[i]) ELSE bytes[i]]
parse_merlin_string(p) == parse_string(p) \/ (p.t = "str" /\ p.closed)
\* The loop all of the string directives share: Encode is what they differ in.
StringList(s, a, Accept(_), Encode(_)) ==
    ForEach(s, a, LAMBDA t, p : IF parse_merlin_string(p) /\ Accept(p)
                                THEN Go(add_data(t, Encode(p))) ELSE Stop(syntax_error(t, 30)))
AnyString(p) == TRUE
Plain(p) == apply_delimiter_highbit(p.v, p.d)
handle_ascii(s, a) == handle_data(s, a, 1)
handle_string(s, a) == add_space(handle_data(s, a, 1), 1, 0)
handle_str_cr(s, a) == add_space(handle_data(s, a, 1), 1, 13)
handle_as(s, a) == StringList(s, a, AnyString, Plain)
handle_az(s, a) == StringList(s, a, AnyString, LAMBDA p : Append(Plain(p), 0))
handle_at(s, a) == StringList(s, a, LAMBDA p : p.v # << >>,
                              LAMBDA p : [Plain(p) EXCEPT ![Len(p.v)] = FlipHigh(@)])
handle_inv(s, a) == StringList(s, a, AnyString, LAMBDA p : [i \in DOMAIN p.v |-> SetHigh(p.v[i])])
handle_fls(s, a) == StringList(s, a, AnyString, LAMBDA p :
                        [i \in DOMAIN p.v |-> IF i % 2 = 0 THEN FlipHigh(Plain(p)[i]) ELSE Plain(p)[i]])
handle_rev(s, a) == StringList(s, a, AnyString, LAMBDA p : Reverse(Plain(p)))
handle_str(s, a) == StringList(s, a, AnyString, LAMBDA p :
                        <<IF Len(p.v) > 255 THEN 255 ELSE Len(p.v)>> \o Plain(p))
handle_strl(s, a) == StringList(s, a, AnyString, LAMBDA p :
                        LE(IF Len(p.v) > 65535 THEN 65535 ELSE Len(p.v), 2) \o Plain(p))
\* HEX: the operand is a sequence of digits and separators (16 and above);
\* pairs of digits may not be torn, and an error discards the whole line.
HexSep == 16
HexBad == 17
handle_hs(s, a) ==
    LET h == a[1].v
        f[i \in 0..Len(h)] ==
            IF i = 0 THEN [b |-> << >>, hi |-> -1, e |-> 0]
            ELSE LET r == f[i - 1] IN
                 IF r.e # 0 THEN r
                 ELSE IF r.hi = -1
                      THEN IF h[i] = HexSep THEN r
                           ELSE IF h[i] = HexBad THEN [r EXCEPT !.e = 15] ELSE [r EXCEPT !.hi = h[i]]
                      ELSE IF h[i] >= HexSep THEN [r EXCEPT !.e = 14]
                           ELSE [r EXCEPT !.b = Append(@, r.hi * 16 + h[i]), !.hi = -1]
        r == f[Len(h)]
    IN  IF a = << >> \/ h = << >> THEN s
        ELSE IF r.e # 0 THEN syntax_error(s, r.e)
        ELSE IF r.hi # -1 THEN syntax_error(s, 14)
        ELSE IF r.b = << >> THEN s ELSE add_data(s, r.b)
-----------------------------------------------------------------------------
set_65816_sizes(s, asize, xsize) == [s EXCEPT !.x.asize = asize, !.x.xsize = xsize]
set_cpu_type(s, n) == [s EXCEPT !.x.cpu = n]
Levels == <<"6502", "65c02", "65816">>
SetLevel(s, n) == set_cpu_type([s EXCEPT !.x.xc_level = n], Levels[n + 1])
handle_op(s, a) ==
    IF a = << >> THEN SetLevel(s, IF s.x.xc_level = 2 THEN 2 ELSE s.x.xc_level + 1)
    ELSE CASE a[1].v = "off" -> set_65816_sizes(SetLevel(s, 0), 8, 8)
           [] a[1].v = "on" -> SetLevel(s, 2)
           [] a[1].v \in Range(Levels) ->
                  SetLevel(s, (CHOOSE i \in 1..3 : Levels[i] = a[1].v) - 1)
           [] OTHER -> syntax_error(s, 24)
\* The other directives of the register sizes leave xc_level as it is.
handle_mx(s, a) == set_65816_sizes(set_cpu_type(s, "65816"), IF (a[1].v \div 2) % 2 = 1 THEN 8 ELSE 16,
                                   IF a[1].v % 2 = 1 THEN 8 ELSE 16)
OnOff(s, a, Set(_, _)) == IF IsWord(a, "on") THEN Set(set_cpu_type(s, "65816"), 16)
                          ELSE IF IsWord(a, "off") THEN Set(set_cpu_type(s, "65816"), 8)
                          ELSE syntax_error(s, 10)
handle_longa(s, a) == OnOff(s, a, LAMBDA t, n : set_65816_sizes(t, n, 8))
handle_longi(s, a) == OnOff(s, a, LAMBDA t, n : set_65816_sizes(t, 8, n))
\* A mutant: the index size follows the flag of the accumulator.
RepSepSwapped(s, op, v) ==
    LET n == IF op = "rep" THEN 16 ELSE 8
    IN  IF s.x.cpu # "65816" THEN s
        ELSE set_65816_sizes(s, IF (v \div 32) % 2 = 1 THEN n ELSE s.x.asize,
                             IF (v \div 32) % 2 = 1 THEN n ELSE s.x.xsize)
\* REP and SEP among the instructions: 32 is the flag M, 16 the flag X.
RepSep(s, op, v) ==
    LET n == IF op = "rep" THEN 16 ELSE 8
    IN  IF s.x.cpu # "65816" THEN s
        ELSE set_65816_sizes(s, IF (v \div 32) % 2 = 1 THEN n ELSE s.x.asize,
                             IF (v \div 16) % 2 = 1 THEN n ELSE s.x.xsize)
-----------------------------------------------------------------------------
handle_end(s) == [s EXCEPT !.end = TRUE]
handle_fail(s) == add_atom(s, "assert", << >>)

\* "*=*+n" reserves space; in a dummy section the origin is an offset.
handle_org(s, a) ==
    IF IsWord(a, "*+") THEN handle_uspace(s, Tail(a), 8)
    ELSE IF ~Known(s, Named(s, a[1])) THEN general_error(s, 30)
    ELSE IF s.x.dsect_active THEN switch_offset_section(s, NoName, Value(s, Named(s, a[1])))
    ELSE set_org(s, Value(s, Named(s, a[1])))
handle_rorg(s, a) == start_rorg(s, a[1].v)
handle_rend(s) == end_rorg(s)
handle_roffs(s, a) == add_roffs(s, a[1].v, 0)
handle_section(s, a) == switch_to(s, <<"sec", a[1].v>>)

\* The empty space keeps the label of the line in its section.
handle_dsect(s, a) ==
    LET t == IF s.x.dsect_active THEN s
             ELSE [s EXCEPT !.x.dsect_active = TRUE, !.x.last_alloc_sect = s.current]
        known == a # << >> /\ Known(t, Named(t, a[1]))
        offs == IF known THEN Value(t, Named(t, a[1])) ELSE t.x.dsect_offs
        u == IF a # << >> /\ ~known THEN general_error(t, 30) ELSE t
    IN  switch_offset_section(add_space(u, 0, 0), NoName, offs)
\* A mutant: the label of the line is not held back.
handle_dend_moves(s) ==
    IF ~s.x.dsect_active THEN syntax_error(s, 21)
    ELSE [set_section([s EXCEPT !.x.dsect_offs = Cur(s).pc], s.x.last_alloc_sect)
          EXCEPT !.x.last_alloc_sect = NoSection, !.x.dsect_active = FALSE]

handle_dend(s) ==
    IF ~s.x.dsect_active THEN syntax_error(s, 21)
    ELSE LET t == add_space([s EXCEPT !.x.dsect_offs = Cur(s).pc], 0, 0)
         IN  [set_section(t, t.x.last_alloc_sect)
              EXCEPT !.x.last_alloc_sect = NoSection, !.x.dsect_active = FALSE]
\* The test for another binding reads flags & (mask != bind), which no mask
\* equals: what it tests is the lowest flag, TYPE_FUNC's, and it never fails here.
do_binding(s, a, bind) == ForEach(s, a, LAMBDA t, p : Go(Binding(t, p.v, bind)))
handle_global(s, a) == do_binding(s, a, "export")
handle_weak(s, a) == do_binding(s, a, "weak")
handle_local(s, a) == do_binding(s, a, "local")
handle_symdepend(s) == add_space(s, 0, 0)
handle_ent(s, a) == ForEach(s, a, LAMBDA t, p : IF p.t = "ref" THEN Go(Binding(t, p.v, "export"))
                                                ELSE Stop(syntax_error(t, 10)))
handle_ext(s, a) == ForEach(s, a, LAMBDA t, p : IF p.t = "ref" THEN Go(new_import(t, p.v))
                                                ELSE Stop(syntax_error(t, 10)))
-----------------------------------------------------------------------------
ifdef(s, a, b) == IF a = << >> THEN syntax_error(s, 10)
                  ELSE cond_if(s, (Type(s, get_local_label(s, a[1].v)) \notin {"none", "import"}) = b)
ifused(s, a, b) == IF a = << >> THEN syntax_error(s, 10)
                   ELSE LET t == Type(s, a[1].v)
                        IN  cond_if(IF t \notin {"none", "import"} THEN syntax_error(s, 22) ELSE s,
                                    (t = "import") = b)
ifblank(s, a, b) == cond_if(s, (a = << >>) = b)
ifexp(s, a, Holds(_)) ==
    LET p == Named(s, a[1])
    IN  IF Known(s, p) THEN cond_if(s, Holds(Value(s, p)))
        ELSE cond_if(general_error(s, 30), FALSE)
handle_ifd(s, a) == ifdef(s, a, TRUE)
handle_ifnd(s, a) == ifdef(s, a, FALSE)
handle_ifused(s, a) == ifused(s, a, TRUE)
handle_ifnused(s, a) == ifused(s, a, FALSE)
handle_ifblank(s, a) == ifblank(s, a, TRUE)
handle_ifnblank(s, a) == ifblank(s, a, FALSE)
handle_ifeq(s, a) == ifexp(s, a, LAMBDA v : v = 0)
handle_ifne(s, a) == ifexp(s, a, LAMBDA v : v # 0)
handle_ifgt(s, a) == ifexp(s, a, LAMBDA v : v > 0)
handle_ifge(s, a) == ifexp(s, a, LAMBDA v : v >= 0)
handle_iflt(s, a) == ifexp(s, a, LAMBDA v : v < 0)
handle_ifle(s, a) == ifexp(s, a, LAMBDA v : v <= 0)
handle_else(s) == cond_skipelse(s)
handle_endif(s) == cond_endif(s)
handle_fin(s) == IF clev(s) > 0 THEN cond_endif(s) ELSE syntax_error(s, 18)
handle_assert(s) == add_atom(s, "assert", << >>)

\* What concerns other sources and files is asked of them.
Ask(s, what, a) == [s EXCEPT !.req = <<what, a>>]
handle_include(s, a) == Ask(s, "include", a)
handle_use(s, a) == IF a[1].v = "prefix" THEN general_error(s, 37) ELSE Ask(s, "include", a)
handle_incbin(s, a) == Ask(s, "incbin", a)
handle_rept(s, a) == Ask(s, "rept", <<Val(IF a[1].v < 0 THEN 0 ELSE a[1].v)>>)
handle_endr(s) == syntax_error(s, 12)
handle_macro(s, a) == IF a = << >> THEN syntax_error(s, 10) ELSE Ask(s, "macro", a)
handle_endm(s) == syntax_error(s, 12)
handle_exitmacro(s) == Ask(s, "mexit", << >>)
handle_pmc(s, a) == IF a = << >> THEN syntax_error(s, 10)
                    ELSE IF a[1].v = "unknown" THEN syntax_error(s, 42) ELSE Ask(s, "call", a)
handle_defc(s, a) == IF a[1].t # "ref" THEN syntax_error(s, 10)
                     ELSE IF Len(a) > 1 THEN new_abs(s, a[1].v, a[2].v) ELSE s

handle_struct(s, a) ==
    IF a = << >> THEN syntax_error(s, 10)
    ELSE LET t == new_structure(s, a[1].v)
         IN  IF s.cur_struct # NoSection THEN t ELSE WithFlag(t, t.current, "local")
\* The name of the structure becomes a label, at the offset of its end.
handle_endstruct(s) ==
    IF s.cur_struct = NoSection THEN end_structure(s)
    ELSE LET sec == s.current
             t == new_label(WithoutFlag(end_structure(s), sec, "local"), Cur(s).name)
         IN  set_section([t EXCEPT !.fresh = NoName], s.struct_prev)

InlName(id) == <<"inl", id>>
handle_inline(s) ==
    IF Len(s.x.inline_stack) >= INLSTACKSIZE THEN syntax_error(s, 16)
    ELSE [s EXCEPT !.last_global = InlName(s.x.inline_id), !.x.inline_id = @ + 1,
                   !.x.inline_stack = Append(@, s.x.inline_id),
                   !.x.saved_last_global = IF s.x.inline_stack = << >> THEN s.last_global ELSE @]
handle_einline(s) ==
    IF s.x.inline_stack = << >> THEN syntax_error(s, 17)
    ELSE LET rest == Front(s.x.inline_stack)
         IN  [s EXCEPT !.x.inline_stack = rest,
                       !.last_global = IF rest = << >> THEN s.x.saved_last_global ELSE InlName(Last(rest)),
                       !.x.saved_last_global = IF rest = << >> THEN Global("") ELSE @]
-----------------------------------------------------------------------------
handle_sav(s, a) == IF a = << >> THEN syntax_error(s, 10) ELSE [s EXCEPT !.x.filename = a[1].v]
handle_err(s, a) == IF a # << >> /\ (a[1].t = "val" \/ (a[1].t = "str" /\ Len(a[1].v) \in 1..254))
                    THEN general_error(s, 19) ELSE syntax_error(s, 43)
handle_typ(s, a) == IF a[1].v \in 0..255 THEN [s EXCEPT !.x.file_type = a[1].v] ELSE syntax_error(s, 8)
handle_aux(s, a) == IF a[1].v \in 0..65535 THEN [s EXCEPT !.x.aux_type = a[1].v] ELSE syntax_error(s, 8)
handle_exp(s, a) == [s EXCEPT !.x.listing = IF IsWord(a, "off") THEN FALSE
                                            ELSE IF IsWord(a, "on") \/ IsWord(a, "only") THEN TRUE ELSE @]
handle_obj(s, a) == [s EXCEPT !.x.listing = IF IsWord(a, "off") THEN FALSE ELSE IF IsWord(a, "on") THEN TRUE ELSE @]
handle_cyc(s, a) == [s EXCEPT !.x.cycles = IF IsWord(a, "off") THEN FALSE ELSE IF IsWord(a, "on") THEN TRUE ELSE @]
handle_knd(s, a) == IF s.current = NoSection THEN s ELSE [s EXCEPT !.x.memattr = a[1].v % 65536]
\* ALI in front of every section dereferences the section that is not there.
Crash == 9999
handle_ali(s, a) == IF s.current = NoSection /\ a # << >> THEN general_error(s, Crash) ELSE
                    [s EXCEPT !.x.align = CASE IsWord(a, "bank") -> 65536 [] IsWord(a, "page") -> 256
                                            [] IsWord(a, "none") -> 1 [] OTHER -> @]
handle_chk(s) == add_data(s, <<0>>)
handle_usr(s, a) == IF Len(a) < 4 \/ \E i \in 1..3 : ~Known(s, a[i]) THEN syntax_error(s, 16)
                    ELSE [s EXCEPT !.x.usr = [i \in 1..3 |-> Value(s, a[i])] \o << >>]
handle_list(s) == [s EXCEPT !.x.listing = TRUE]
handle_nolist(s) == [s EXCEPT !.x.listing = FALSE]
handle_noop(s) == s
-----------------------------------------------------------------------------
\* Structures as operations: their data again, with new values where given.
Fitted(bytes, n) == [i \in 1..n |-> IF i <= Len(bytes) THEN bytes[i] ELSE 0]
execute_struct(s, name, a) ==
    LET IsField(x) == x.t \in {"data", "space", "datadef"}
        fields == SelectSeq(s.secs[SectionNamed(s, name)].atoms, IsField)
        Given(i) == i <= Len(a) /\ a[i].t # "word"
        Init(t, i) ==
            LET x == fields[i] IN
            CASE ~Given(i) -> add_datadef(t, x.b, x.ref)
              [] Given(i) /\ x.t = "space" -> add_space(t, Len(x.b), a[i].v)
              [] Given(i) /\ x.t = "datadef" -> DataOperand(t, a[i], Len(x.b))
              [] Given(i) /\ x.t = "data" -> add_data(t, IF a[i].t = "str" THEN Fitted(a[i].v, Len(x.b))
                                                         ELSE LE(a[i].v, Len(x.b)))
        t == FoldLeft(LAMBDA r, i : Init(r, i), s, [i \in DOMAIN fields |-> i])
    IN  IF \E i \in DOMAIN fields : Given(i) /\ a[i].t = "str" /\ fields[i].t = "data"
                                    /\ Len(a[i].v) > Len(fields[i].b)
        THEN syntax_error(t, 24) ELSE t

\* The label field: the name of the symbol, and what its reading changes.
parse_label_field(s, lab) ==
    CASE lab = << >> -> s
      [] lab[1] = "anon" -> [s EXCEPT !.x.anon_labno = @ + 1]
      [] lab[1] = "var" -> prepare_varlabel_definition(s, lab[2])
      [] OTHER -> s
LabelName(s, lab) ==
    CASE lab[1] = "loc" -> Local(s.x.merlin_last_global, lab[2])
      [] lab[1] = "anon" -> Local(Global(":"), s.x.anon_labno)
      [] lab[1] = "var" -> Var(s, lab[2]).pending
      [] OTHER -> lab
Assignments == {"=", "equ", "eq", "set"}
\* EQU and SET with the value of an operand; only ORG may be given to "*".
Assign(s, lab, op, a) ==
    IF lab = Global("*")
    THEN IF op = "set" THEN syntax_error(s, 10) ELSE handle_org(s, a)
    ELSE LET t == Referenced(s, a[1])
             p == Named(s, a[1])
             v == IF Known(t, p) THEN Value(t, p) + (IF Len(a) > 1 THEN a[2].v ELSE 0) ELSE Unknown
         IN  IF op = "set" THEN new_abs(t, LabelName(s, lab), v) ELSE new_equate(t, LabelName(s, lab), v)
\* Only what is neither local nor variable opens a scope.
JustLabel(s, lab) ==
    LET t == finalize_varlabel(new_label(s, LabelName(s, lab)))
    IN  IF lab[1] = "glob" THEN [t EXCEPT !.x.merlin_last_global = LabelName(s, lab)] ELSE t
-----------------------------------------------------------------------------
\* The table: of two entries with one name the later one counts.
directives(s, op, a) ==
    CASE op \in {"org", "or"} -> handle_org(s, a)
      [] op \in {"rorg", "phase", "ph"} -> handle_rorg(s, a)
      [] op \in {"rend", "dephase", "ep"} -> handle_rend(s)
      [] op = "roffs" -> handle_roffs(s, a)
      [] op = "align" -> handle_align(s, a)
      [] op = "even" -> handle_even(s)
      [] op = "data" -> handle_secdata(s, a)
      [] op = "bss" -> handle_secbss(s, a)
      [] op = "abyte" -> handle_d8_mod(s, a)
      [] op = "ascii" -> handle_ascii(s, a)
      [] op \in {"asciiz", "string"} -> handle_string(s, a)
      [] op \in {"defm", "fcc"} -> handle_text(s, a)
      [] op = "fcs" -> handle_fcs(s, a)
      [] op \in {"fcb", "byt", "byte", "db", "dfb", "defb", "di8"} -> handle_d8(s, a)
      [] op = "fdb" -> handle_dblbyt(s, a)
      [] op = "ddb" -> handle_ddb(s, a)
      [] op \in {"wrd", "wor", "word", "dw", "dfw", "defw", "di16"} -> handle_d16(s, a)
      [] op = "di24" -> handle_d24(s, a)
      [] op \in {"dl", "defl", "dd", "di32"} -> handle_d32(s, a)
      [] op = "di64" -> handle_d64(s, a)
      [] op \in {"addr", "da", "defp"} -> handle_taddr(s, a)
      [] op = "adrl" -> handle_adrl(s, a)
      [] op \in {"ds", "dsb", "fill", "reserve", "spc", "defs", "bsz", "zmb", "dc", "blk", "ds8", "bs"} -> handle_spc8(s, a)
      [] op \in {"dsw", "blkw", "ds16"} -> handle_spc16(s, a)
      [] op = "ds24" -> handle_spc24(s, a)
      [] op \in {"dsl", "blkl", "ds32"} -> handle_spc32(s, a)
      [] op = "ds64" -> handle_spc64(s, a)
      [] op = "assert" -> handle_assert(s)
      [] op \in {"ifdef", "ifd"} -> handle_ifd(s, a)
      [] op \in {"ifndef", "ifnd"} -> handle_ifnd(s, a)
      [] op = "ifblank" -> handle_ifblank(s, a)
      [] op = "ifnblank" -> handle_ifnblank(s, a)
      [] op = "ifeq" -> handle_ifeq(s, a)
      [] op \in {"ifne", "if", "do"} -> handle_ifne(s, a)
      [] op = "ifgt" -> handle_ifgt(s, a)
      [] op = "ifge" -> handle_ifge(s, a)
      [] op = "iflt" -> handle_iflt(s, a)
      [] op = "ifle" -> handle_ifle(s, a)
      [] op = "ifused" -> handle_ifused(s, a)
      [] op = "ifnused" -> handle_ifnused(s, a)
      [] op \in {"else", "el"} -> handle_else(s)
      [] op \in {"endif", "ei", "fi"} -> handle_endif(s)
      [] op = "fin" -> handle_fin(s)
      [] op \in {"incbin", "mdat", "binary", "inb"} -> handle_incbin(s, a)
      [] op \in {"include", "put"} -> handle_include(s, a)
      [] op = "use" -> handle_use(s, a)
      [] op \in {"rept", "repeat", "lup"} -> handle_rept(s, a)
      [] op \in {"endr", "endrep", "endrepeat"} -> handle_endr(s)
      [] op \in {"mac", "ma", "macro"} -> handle_macro(s, a)
      [] op \in {"em", "endm", "endmac", "endmacro"} -> handle_endm(s)
      [] op = "exitmacro" -> handle_exitmacro(s)
      [] op = "pmc" -> handle_pmc(s, a)
      [] op = "end" -> handle_end(s)
      [] op = "fail" -> handle_fail(s)
      [] op = "section" -> handle_section(s, a)
      [] op \in {"dsect", "dum", "dummy"} -> handle_dsect(s, a)
      [] op \in {"dend", "ed"} -> handle_dend(s)
      [] op = "defc" -> handle_defc(s, a)
      [] op \in {"xdef", "xref", "lib", "xlib", "global", "extern"} -> handle_global(s, a)
      [] op = "local" -> handle_local(s, a)
      [] op = "weak" -> handle_weak(s, a)
      [] op \in {"needs", "symdepend"} -> handle_symdepend(s)
      [] op \in {"list", "lst", "lstdo"} -> handle_list(s)
      [] op = "nolist" -> handle_nolist(s)
      [] op \in {"struct", "structure"} -> handle_struct(s, a)
      [] op \in {"endstruct", "endstructure"} -> handle_endstruct(s)
      [] op = "inline" -> handle_inline(s)
      [] op = "einline" -> handle_einline(s)
      [] op \in {"asc", "as"} -> handle_as(s, a)
      [] op \in {"dci", "at"} -> handle_at(s, a)
      [] op = "inv" -> handle_inv(s, a)
      [] op = "fls" -> handle_fls(s, a)
      [] op = "rev" -> handle_rev(s, a)
      [] op = "str" -> handle_str(s, a)
      [] op = "strl" -> handle_strl(s, a)
      [] op = "az" -> handle_az(s, a)
      [] op \in {"hex", "hs"} -> handle_hs(s, a)
      [] op \in {"op", "xc"} -> handle_op(s, a)
      [] op = "mx" -> handle_mx(s, a)
      [] op = "longa" -> handle_longa(s, a)
      [] op = "longi" -> handle_longi(s, a)
      [] op = "ent" -> handle_ent(s, a)
      [] op = "ext" -> handle_ext(s, a)
      [] op = "sav" -> handle_sav(s, a)
      [] op = "err" -> handle_err(s, a)
      [] op = "typ" -> handle_typ(s, a)
      [] op = "aux" -> handle_aux(s, a)
      [] op = "exp" -> handle_exp(s, a)
      [] op = "obj" -> handle_obj(s, a)
      [] op = "cyc" -> handle_cyc(s, a)
      [] op = "knd" -> handle_knd(s, a)
      [] op = "ali" -> handle_ali(s, a)
      [] op = "chk" -> handle_chk(s)
      [] op = "usr" -> handle_usr(s, a)
      [] OTHER -> handle_noop(s)

\* Lines of a branch that is not assembled: every name with if in front counts.
Opens == {"ifdef", "ifd", "ifndef", "ifnd", "ifblank", "ifnblank", "ifeq", "ifne", "if", "ifgt",
          "ifge", "iflt", "ifle", "ifused", "ifnused", "do"}
\* A mutant: DO is not counted.
SkippedLineDo(s, op) == CASE op \in Opens \ {"do"} -> cond_skipif(s)
                          [] op \in {"else", "el"} -> cond_else(s)
                          [] op \in {"endif", "ei", "fi", "fin"} -> cond_endif(s)
                          [] OTHER -> s
SkippedLine(s, op) == CASE op \in Opens -> cond_skipif(s)
                        [] op \in {"else", "el"} -> cond_else(s)
                        [] op \in {"endif", "ei", "fi", "fin"} -> cond_endif(s)
                        [] OTHER -> s
Operation(s, op, a) ==
    CASE op = "" -> s
      [] op \in {"rep", "sep"} -> add_data(RepSep(s, op, a[1].v), <<IF op = "rep" THEN 194 ELSE 226, a[1].v>>)
      [] op = "inst" -> add_atom(s, "inst", <<234>>)
      [] Global(op) \in s.structs -> execute_struct(s, Global(op), a)
      [] OTHER -> directives(s, op, a)

\* One turn of the loop.
parse(s0, line) ==
    LET s == [s0 EXCEPT !.fresh = NoName, !.req = << >>]
        t == parse_label_field(s, line.lab)
    IN  IF s.end THEN s
        ELSE IF ~cond_state(s) THEN SkippedLine(s, line.op)
        ELSE IF line.lab = << >> THEN Operation(s, line.op, line.a)
        ELSE IF line.op \in Assignments THEN finalize_varlabel(Assign(t, line.lab, line.op, line.a))
        ELSE IF line.op = "mac" THEN Ask(t, "macro", <<Ref(line.lab)>> \o line.a)
        ELSE Operation(JustLabel(t, line.lab), line.op, line.a)
\* Behind the last line.
Finish(s) == LET t == cond_check(s) IN IF t.x.dsect_active THEN syntax_error(t, 23) ELSE t
=============================================================================
