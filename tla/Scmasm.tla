------------------------------- MODULE Scmasm -------------------------------
(***************************************************************************)
(* The S-C Macro Assembler syntax (syntax/scmasm/syntax.c), in the style   *)
(* of module Merlin.  Directives have a dot, which the names here leave    *)
(* out; everything behind the operands is a comment (igntrail), so that a  *)
(* list of operands ends at what is no operand without a message.          *)
(***************************************************************************)
EXTENDS Asm

NoGlobal == NoName
Statics ==
    [dsect_active |-> FALSE, dsect_offs |-> 0, last_alloc_sect |-> NoSection, anon_labno |-> 0,
     inline_stack |-> << >>, inline_id |-> 0, saved_last_global |-> Global(""),
     last_global_label |-> NoGlobal, private_context |-> 0,
     ac_table1 |-> << >>, ac_table2 |-> << >>, ac_table3 |-> << >>,
     ac_nibble_flag |-> 0, ac_pending_nibble |-> 0,
     cpu |-> "6502", target_file |-> "", source_file |-> "", listing |-> TRUE]
INLSTACKSIZE == 100
textname == <<"sec", ".text">>
init_syntax == Start(textname, Statics)
Crash == 9999
-----------------------------------------------------------------------------
\* Labels and references: "glob", "priv" (:N), "loc" (.N), "anon".  A private
\* label belongs to a context that every global label and every macro changes.
Private(s, n) == Local(<<"priv", s.x.private_context>>, n)
LocalError(s, n) == IF n > 255 THEN syntax_error(s, 11) ELSE syntax_error(s, 12)
LocalFits(s, n) == n <= 255 /\ s.x.last_global_label # NoGlobal
get_local_label(s, r) ==
    CASE r[1] = "priv" -> Private(s, r[2])
      [] r[1] = "loc" -> IF LocalFits(s, r[2]) THEN Local(s.x.last_global_label, r[2]) ELSE NoName
      [] r[1] = "anon" -> Local(Global(":"), (IF r[2] > 0 THEN s.x.anon_labno + 1 ELSE s.x.anon_labno) + r[2])
      [] OTHER -> r
Named(s, p) == IF p.t = "ref" THEN Ref(get_local_label(s, p.v)) ELSE p
my_exec_macro(s) == [s EXCEPT !.x.private_context = @ + 1]
-----------------------------------------------------------------------------
\* Delimiters below the apostrophe set bit 7 of every character.
apply_delimiter_highbit(bytes, delim) == [i \in DOMAIN bytes |-> IF delim < 39 THEN SetHigh(bytes[i]) ELSE bytes[i]]
Plain(p) == apply_delimiter_highbit(p.v, p.d)
\* parse_string: no string without its closing delimiter or with one character.
parse_string(p) == p.t = "str" /\ p.closed /\ Len(p.v) # 1
IsChar(p) == p.t = "str" /\ Len(p.v) = 1

\* One operand of a data directive of n bytes; the parts of a symbol are bytes.
DataOperand(s, p, n) ==
    IF p.t = "val" \/ IsChar(p) THEN add_datadef(s, LE(IF p.t = "val" THEN p.v ELSE p.v[1], n), NoName)
    ELSE IF p.t = "ref" /\ Named(s, p).v # NoName THEN add_datadef(s, Zeros(n), get_local_label(s, p.v))
    ELSE IF p.t = "ref" THEN syntax_error(LocalError(s, p.v[2]), 8)
    ELSE syntax_error(s, 8)
handle_data_mod(s, a, n, addend) ==
    ForEachQuiet(s, a, LAMBDA t, p :
        Go(IF n = 1 /\ parse_string(p)
           THEN add_data(t, [i \in DOMAIN p.v |-> (Plain(p)[i] + addend) % 256])
           ELSE DataOperand(t, IF IsChar(p) THEN Val(p.v[1] + addend)
                               ELSE IF p.t = "val" THEN Val(p.v + addend) ELSE p, n)))
handle_data(s, a, n) == handle_data_mod(s, a, n, 0)
do_space(s, size, a) == add_space(s, (size \div 8) * a[1].v, IF Len(a) > 1 THEN a[2].v ELSE 0)
\* A count that is not positive reserves nothing.  The evaluation needs a
\* section, and dereferences the one that is not there.
handle_space(s, a, size) ==
    IF s.current = NoSection THEN general_error(s, Crash)
    ELSE IF a[1].v <= 0 THEN s ELSE do_space(s, size, a)
handle_uspace(s, a, size) == do_space(s, size, <<a[1]>>)
handle_fixedspc(s, n) == add_space(s, n, 0)
handle_d8(s, a) == IF a = << >> THEN handle_fixedspc(s, 1) ELSE handle_data(s, a, 1)
handle_dblbyt(s, a) == IF a = << >> THEN handle_fixedspc(s, 2) ELSE handle_data(s, a, 2)
handle_d16(s, a) == IF a = << >> THEN handle_fixedspc(s, 2) ELSE handle_data(s, a, 2)
handle_d24(s, a) == IF a = << >> THEN handle_fixedspc(s, 3) ELSE handle_data(s, a, 3)
handle_d32(s, a) == IF a = << >> THEN handle_fixedspc(s, 4) ELSE handle_data(s, a, 4)
handle_d64(s, a) == IF a = << >> THEN handle_fixedspc(s, 8) ELSE handle_data(s, a, 8)
bytespertaddr(s) == IF s.x.cpu = "65816" THEN 3 ELSE 2
\* DA: "#" takes the low and "/" the high byte of an operand.
handle_taddr(s, a) ==
    LET Width(p) == IF p.t \in {"lo", "hi"} THEN 1 ELSE bytespertaddr(s)
        Taken(p) == CASE p.t = "lo" -> p.v
                      [] p.t = "hi" /\ p.v.t = "val" -> Val(p.v.v \div 256)
                      [] p.t = "hi" /\ p.v.t # "val" -> p.v
                      [] OTHER -> p
        Valid(p) == Taken(p).t = "val" \/ IsChar(Taken(p))
                    \/ (Taken(p).t = "ref" /\ Named(s, Taken(p)).v # NoName)
    IN  IF a = << >> THEN handle_fixedspc(s, bytespertaddr(s))
        ELSE ForEachQuiet(s, a, LAMBDA t, p : [s |-> DataOperand(t, Taken(p), Width(p)), go |-> Valid(p)])
handle_d8_mod(s, a) == IF Len(a) < 2 THEN syntax_error(s, 9) ELSE handle_data_mod(s, Tail(a), 1, a[1].v)
do_text(s, a, add) ==
    IF a = << >> \/ (a[1].v = << >> /\ ~a[1].closed) THEN syntax_error(s, 8)
    ELSE IF a[1].v = << >> THEN s
    ELSE IF parse_string(a[1])
         THEN add_data(s, [a[1].v EXCEPT ![Len(a[1].v)] = (@ + add) % 256])
         ELSE add_data(s, <<(a[1].v[1] + add) % 256>>)
handle_text(s, a) == do_text(s, a, 0)
handle_fcs(s, a) == do_text(s, a, 128)
handle_secdata(s, a) == handle_data(s, a, 1)
handle_secbss(s, a) == handle_space(s, a, 8)
do_alignment(s, align) == add_atom_aligned(s, "space", << >>, align)
handle_align(s, a) == IF a[1].v > 63 THEN syntax_error(s, 21) ELSE do_alignment(s, Bit(a[1].v))
handle_pg(s) == s
handle_even(s) == do_alignment(s, 2)
handle_spc8(s, a) == handle_space(s, a, 8)
handle_spc16(s, a) == handle_space(s, a, 16)
handle_spc24(s, a) == handle_space(s, a, 24)
handle_spc32(s, a) == handle_space(s, a, 32)
handle_spc64(s, a) == handle_space(s, a, 64)
handle_ascii(s, a) == handle_data(s, a, 1)

\* HS: the operand is a sequence of digits and, above them, of separators (a dot
\* or one blank), of two and more blanks, of dashes and of other characters.
HexDot == 16
HexBlank == 17
HexGap == 18
HexDash == 19
HexOther == 20
HexSeparators == {HexDot, HexBlank, HexGap}
HexData(s, r) == IF ~r.ok THEN syntax_error(s, 14) ELSE IF r.b = << >> THEN s ELSE add_data(s, r.b)
\* All of the digits up to another character are counted, those of a comment
\* as well: an odd number gives the first byte one digit.
handle_hs(s, a) ==
    LET h == IF a = << >> THEN << >> ELSE a[1].v
        n == Len(h)
        Digit(i) == i <= n /\ h[i] < 16
        skip[i \in 1..(n + 2)] == IF i <= n /\ h[i] \in HexSeparators THEN skip[i + 1] ELSE i
        digits[i \in 1..(n + 2)] == IF Digit(i) THEN digits[i + 1] ELSE i
        stop == IF \E i \in 1..n : h[i] >= HexDash
                THEN CHOOSE i \in 1..n : h[i] >= HexDash /\ \A j \in 1..(i - 1) : h[j] < HexDash
                ELSE n + 1
        odd == Cardinality({i \in 1..(stop - 1) : Digit(i)}) % 2 = 1
        Comment(i) == i <= n /\ \/ h[i] = HexGap
                                \/ /\ h[i] = HexBlank /\ Digit(i + 1)
                                   /\ digits[i + 1] <= n /\ h[digits[i + 1]] = HexDash
        pairs[i \in 1..(n + 2)] ==
            LET j == skip[i]
                k == IF j <= n THEN skip[j + 1] ELSE j
            IN  IF ~Digit(j) THEN [b |-> << >>, ok |-> TRUE]
                ELSE IF ~Digit(k) THEN [b |-> << >>, ok |-> FALSE]
                ELSE [(IF Comment(k + 1) THEN [b |-> << >>, ok |-> TRUE] ELSE pairs[k + 1])
                          EXCEPT !.b = <<h[j] * 16 + h[k]>> \o @]
        r == IF odd THEN [pairs[skip[1] + 1] EXCEPT !.b = <<h[skip[1]]>> \o @] ELSE pairs[1]
    IN  IF h = << >> THEN s ELSE HexData(s, r)

handle_string(s, a) == add_space(handle_data(s, a, 1), 1, 0)
\* A string without its end writes nothing, and what follows it is a comment.
handle_as(s, a) ==
    ForEachQuiet(s, a, LAMBDA t, p :
        IF ~p.closed THEN Stop(t)
        ELSE Go(add_data(t, IF p.force THEN [i \in DOMAIN p.v |-> SetHigh(p.v[i])] ELSE Plain(p))))
handle_az(s, a) ==
    ForEachQuiet(s, a, LAMBDA t, p : IF ~p.closed THEN Stop(t) ELSE Go(add_space(add_data(t, Plain(p)), 1, 0)))
\* A string of one character writes nothing, as in the original assembler.
handle_at(s, a) ==
    ForEachQuiet(s, a, LAMBDA t, p :
        IF ~p.closed THEN Stop(t)
        ELSE IF Len(p.v) < 2 THEN Go(t)
        ELSE Go(add_data(t, [Plain(p) EXCEPT ![Len(p.v)] = FlipHigh(@)])))
\* AC: texts packed as nibbles.  The characters of the first table take one, those
\* of the others an escape of one or two zeros; a digit that is in no table is a
\* number of blanks.  A nibble that is left over waits for the next directive.
Find(table, c) == IF \E i \in DOMAIN table : table[i] = c
                  THEN CHOOSE i \in DOMAIN table : table[i] = c /\ \A j \in 1..(i - 1) : table[j] # c
                  ELSE 0
Blank == 32
Digits == 48..57
Nibbles(s, c) ==
    LET one == Find(s.x.ac_table1, c)
        two == Find(s.x.ac_table2, c)
        three == Find(s.x.ac_table3, c)
        blank == Find(s.x.ac_table1, Blank)
    IN  CASE one > 0 -> <<one>>
          [] one = 0 /\ two > 0 -> <<0, two>>
          [] one = 0 /\ two = 0 /\ three > 0 -> <<0, 0, three>>
          [] one = 0 /\ two = 0 /\ three = 0 /\ c \in Digits /\ blank > 0 ->
                 [i \in 1..(IF c = 48 THEN 10 ELSE c - 48) |-> blank]
          [] OTHER -> << >>
\* A mutant: the escape of the next message overwrites a nibble that waits.
EmitNibbleFresh(r, nib) ==
    IF r.x.ac_nibble_flag = 0 \/ (r.out = << >> /\ nib = 0)
    THEN [r EXCEPT !.x.ac_pending_nibble = nib % 16, !.x.ac_nibble_flag = 1]
    ELSE [r EXCEPT !.x.ac_nibble_flag = 0, !.out = Append(@, r.x.ac_pending_nibble * 16 + (nib % 16))]
EmitNibble(r, nib) ==
    IF r.x.ac_nibble_flag = 0
    THEN [r EXCEPT !.x.ac_pending_nibble = nib % 16, !.x.ac_nibble_flag = 1]
    ELSE [r EXCEPT !.x.ac_nibble_flag = 0, !.out = Append(@, r.x.ac_pending_nibble * 16 + (nib % 16))]
Compress(s, text) ==
    LET codes == [i \in DOMAIN text |-> Nibbles(s, text[i])]
        r == FoldLeft(EmitNibble, [x |-> s.x, out |-> << >>], FlattenSeq(codes))
        t == [s EXCEPT !.x = r.x]
        u == IF \E i \in DOMAIN text : codes[i] = << >> THEN general_error(t, 38) ELSE t
    IN  IF r.out = << >> THEN u ELSE add_data(u, r.out)
handle_ac(s, a) ==
    LET table == IF a # << >> /\ a[1].t = "val" THEN a[1].v ELSE -1
        text == IF table # -1 THEN Tail(a) ELSE a
    IN  CASE a = << >> -> s
          [] table = 0 -> [s EXCEPT !.x.ac_nibble_flag = 0, !.x.ac_pending_nibble = 0]
          [] table \in 1..3 /\ text # << >> ->
                 IF ~parse_string(text[1]) \/ text[1].v = << >> THEN s
                 ELSE [s EXCEPT !.x.ac_table1 = IF table = 1 THEN text[1].v ELSE @,
                                !.x.ac_table2 = IF table = 2 THEN text[1].v ELSE @,
                                !.x.ac_table3 = IF table = 3 THEN text[1].v ELSE @]
          [] OTHER -> IF text = << >> \/ ~text[1].closed \/ text[1].v = << >> THEN s
                      ELSE Compress(s, text[1].v)
\* CS: a backslash and a letter, or an x and two digits, are one character.
Escapes == (97 :> 7) @@ (98 :> 8) @@ (101 :> 27) @@ (102 :> 12) @@ (110 :> 10) @@ (114 :> 13)
           @@ (116 :> 9) @@ (118 :> 11) @@ (48 :> 0)
IsHex(c) == c \in (48..57) \cup (65..70) \cup (97..102)
HexOf(c) == IF c <= 57 THEN c - 48 ELSE (c % 32) + 9
Unescape(v) ==
    LET n == Len(v)
        f[i \in 1..(n + 1)] ==
            IF i > n THEN << >>
            ELSE IF v[i] # 92 \/ i = n THEN <<v[i]>> \o f[i + 1]
            ELSE IF v[i + 1] = 120 /\ i + 3 <= n /\ IsHex(v[i + 2]) /\ IsHex(v[i + 3])
                 THEN <<HexOf(v[i + 2]) * 16 + HexOf(v[i + 3])>> \o f[i + 4]
            ELSE <<IF v[i + 1] \in DOMAIN Escapes THEN Escapes[v[i + 1]] ELSE v[i + 1]>> \o f[i + 2]
    IN  f[1]
\* The strings of a list are one block; the last one may lack its end.
Bare(p) == p.v = << >> /\ ~p.closed
Texts(a, Of(_)) == FlattenSeq([i \in DOMAIN a |-> Of(a[i].v)])
handle_cs(s, a) ==
    IF \E i \in DOMAIN a : Bare(a[i]) THEN syntax_error(s, 30)
    ELSE LET b == Texts(a, Unescape) IN IF b = << >> THEN s ELSE add_data(s, b)
handle_cz(s, a) == add_space(handle_cs(s, a), 1, 0)
handle_hx(s, a) ==
    LET h == IF a = << >> THEN << >> ELSE a[1].v
        f[i \in 1..(Len(h) + 1)] == IF i > Len(h) \/ (h[i] >= HexDash) THEN << >>
                                    ELSE IF h[i] < 16 THEN <<h[i]>> \o f[i + 1] ELSE f[i + 1]
    IN  IF f[1] = << >> THEN s ELSE add_data(s, f[1])
handle_ps(s, a) ==
    IF \E i \in DOMAIN a : Bare(a[i]) THEN syntax_error(s, 30)
    ELSE LET b == Texts(a, LAMBDA v : v)
         IN  IF b = << >> THEN s ELSE add_data(s, <<IF Len(b) > 255 THEN 255 ELSE Len(b)>> \o b)
handle_ta(s, a) == IF a = << >> THEN s ELSE syntax_error(s, 42)
Processors == {"6502", "65c02", "65816"}
handle_op(s, a) == IF a # << >> /\ a[1].v \in Processors THEN [s EXCEPT !.x.cpu = a[1].v] ELSE syntax_error(s, 24)
handle_str(s, a) == add_space(handle_data(s, a, 1), 1, 13)
handle_end(s) == [s EXCEPT !.end = TRUE]
handle_fail(s) == add_atom(s, "assert", << >>)
-----------------------------------------------------------------------------
handle_org(s, a) ==
    IF a = << >> THEN syntax_error(s, 10)
    ELSE IF IsWord(a, "*+") THEN handle_uspace(s, Tail(a), 8)
    ELSE IF ~Known(s, Named(s, a[1])) THEN syntax_error(s, 31)
    ELSE IF s.x.dsect_active THEN switch_offset_section(s, NoName, Value(s, Named(s, a[1])))
    ELSE set_org(s, Value(s, Named(s, a[1])))
handle_rorg(s, a) == start_rorg(s, a[1].v)
handle_rend(s) == end_rorg(s)
handle_roffs(s, a) == add_roffs(s, a[1].v, 0)
handle_section(s, a) == switch_to(s, <<"sec", a[1].v>>)
\* A second DUMMY is an error, and opens an offset section all the same.
handle_dsect(s) ==
    LET t == IF s.x.dsect_active THEN syntax_error(s, 35)
             ELSE [s EXCEPT !.x.dsect_active = TRUE, !.x.last_alloc_sect = s.current]
    IN  switch_offset_section(t, NoName, t.x.dsect_offs)
handle_dend(s) ==
    IF ~s.x.dsect_active THEN syntax_error(s, 21)
    ELSE [set_section([s EXCEPT !.x.dsect_offs = Cur(s).pc], s.x.last_alloc_sect)
          EXCEPT !.x.last_alloc_sect = NoSection, !.x.dsect_active = FALSE]

do_binding(s, a, bind) == ForEachQuiet(s, a, LAMBDA t, p : Go(Binding(t, p.v, bind)))
handle_global(s, a) == do_binding(s, a, "export")
handle_weak(s, a) == do_binding(s, a, "weak")
handle_local(s, a) == do_binding(s, a, "local")
handle_symdepend(s) == add_space(s, 0, 0)
-----------------------------------------------------------------------------
ifdef(s, a, b) == IF a = << >> THEN syntax_error(s, 10)
                  ELSE cond_if(s, (Type(s, get_local_label(s, a[1].v)) \notin {"none", "import"}) = b)
ifused(s, a, b) == IF a = << >> THEN syntax_error(s, 10)
                   ELSE LET t == Type(s, a[1].v)
                        IN  cond_if(IF t \notin {"none", "import"} THEN syntax_error(s, 22) ELSE s,
                                    (t = "import") = b)
ifblank(s, a, b) == cond_if(s, (a = << >>) = b)
ifexp(s, a, Holds(_)) ==
    LET p == Named(s, a[1])
    IN  IF Known(s, p) THEN cond_if(s, Holds(Value(s, p)))
        ELSE cond_if(general_error(s, 30), FALSE)
handle_ifd(s, a) == ifdef(s, a, TRUE)
handle_ifnd(s, a) == ifdef(s, a, FALSE)
handle_ifused(s, a) == ifused(s, a, TRUE)
handle_ifnused(s, a) == ifused(s, a, FALSE)
handle_ifblank(s, a) == ifblank(s, a, TRUE)
handle_ifnblank(s, a) == ifblank(s, a, FALSE)
handle_ifeq(s, a) == ifexp(s, a, LAMBDA v : v = 0)
handle_ifne(s, a) == ifexp(s, a, LAMBDA v : v # 0)
handle_ifgt(s, a) == ifexp(s, a, LAMBDA v : v > 0)
handle_ifge(s, a) == ifexp(s, a, LAMBDA v : v >= 0)
handle_iflt(s, a) == ifexp(s, a, LAMBDA v : v < 0)
handle_ifle(s, a) == ifexp(s, a, LAMBDA v : v <= 0)
handle_else(s) == cond_skipelse(s)
handle_endif(s) == cond_endif(s)
handle_assert(s) == add_atom(s, "assert", << >>)

Ask(s, what, a) == [s EXCEPT !.req = <<what, a>>]
handle_incdir(s, a) == Ask(s, "incdir", a)
handle_include(s, a) == Ask(s, "include", a)
\* A binary that can be found as a source is included as one.
Sources == {"source"}
handle_incbin(s, a) == IF a[1].v \in Sources THEN Ask(s, "include", a) ELSE Ask(s, "incbin", a)
handle_rept(s, a) == Ask(s, "rept", <<Val(IF a[1].v < 0 THEN 0 ELSE a[1].v)>>)
handle_endr(s) == syntax_error(s, 12)
handle_macro(s, a) == IF a = << >> THEN syntax_error(s, 10) ELSE Ask(s, "macro", a)
handle_endm(s) == syntax_error(s, 12)
handle_exitmacro(s) == Ask(s, "mexit", << >>)
handle_defc(s, a) == IF a[1].t # "ref" THEN syntax_error(s, 10)
                     ELSE IF Len(a) > 1 THEN new_abs(s, a[1].v, a[2].v) ELSE s
handle_list(s) == [s EXCEPT !.x.listing = TRUE]
handle_nolist(s) == [s EXCEPT !.x.listing = FALSE]

handle_struct(s, a) ==
    IF a = << >> THEN syntax_error(s, 10)
    ELSE LET t == new_structure(s, a[1].v)
         IN  IF s.cur_struct # NoSection THEN t ELSE WithFlag(t, t.current, "local")
handle_endstruct(s) ==
    IF s.cur_struct = NoSection THEN end_structure(s)
    ELSE LET sec == s.current
             t == new_label(WithoutFlag(end_structure(s), sec, "local"), Cur(s).name)
         IN  set_section([t EXCEPT !.fresh = NoName], s.struct_prev)
InlName(id) == <<"inl", id>>
handle_inline(s) ==
    IF Len(s.x.inline_stack) >= INLSTACKSIZE THEN syntax_error(s, 16)
    ELSE [s EXCEPT !.last_global = InlName(s.x.inline_id), !.x.inline_id = @ + 1,
                   !.x.inline_stack = Append(@, s.x.inline_id),
                   !.x.saved_last_global = IF s.x.inline_stack = << >> THEN s.last_global ELSE @]
handle_einline(s) ==
    IF s.x.inline_stack = << >> THEN syntax_error(s, 17)
    ELSE LET rest == Front(s.x.inline_stack)
         IN  [s EXCEPT !.x.inline_stack = rest,
                       !.last_global = IF rest = << >> THEN s.x.saved_last_global ELSE InlName(Last(rest)),
                       !.x.saved_last_global = IF rest = << >> THEN Global("") ELSE @]
handle_tf(s, a) == IF a = << >> THEN s ELSE [s EXCEPT !.x.target_file = a[1].v]
handle_text_directive(s, a) == IF a = << >> THEN s ELSE [s EXCEPT !.x.source_file = a[1].v]
handle_noop(s) == s
-----------------------------------------------------------------------------
\* Structures as operations: their data again, with new values where given.
Fitted(bytes, n) == [i \in 1..n |-> IF i <= Len(bytes) THEN bytes[i] ELSE 0]
execute_struct(s, name, a) ==
    LET IsField(x) == x.t \in {"data", "space", "datadef"}
        fields == SelectSeq(s.secs[SectionNamed(s, name)].atoms, IsField)
        Given(i) == i <= Len(a) /\ a[i].t # "word"
        Init(t, i) ==
            LET x == fields[i] IN
            CASE ~Given(i) -> add_datadef(t, x.b, x.ref)
              [] Given(i) /\ x.t = "space" -> add_space(t, Len(x.b), a[i].v)
              [] Given(i) /\ x.t = "datadef" -> DataOperand(t, a[i], Len(x.b))
              [] Given(i) /\ x.t = "data" -> add_data(t, IF a[i].t = "str" THEN Fitted(a[i].v, Len(x.b))
                                                         ELSE LE(a[i].v, Len(x.b)))
        t == FoldLeft(LAMBDA r, i : Init(r, i), s, [i \in DOMAIN fields |-> i])
    IN  IF \E i \in DOMAIN fields : Given(i) /\ a[i].t = "str" /\ fields[i].t = "data"
                                    /\ Len(a[i].v) > Len(fields[i].b)
        THEN syntax_error(t, 24) ELSE t

\* The label field: the name of the symbol (none if it is not valid), and what
\* its reading changes.
parse_label_field(s, lab) ==
    CASE lab = << >> -> s
      [] lab # << >> /\ lab[1] = "anon" -> [s EXCEPT !.x.anon_labno = @ + 1]
      [] lab # << >> /\ lab[1] = "loc" -> IF LocalFits(s, lab[2]) THEN s ELSE LocalError(s, lab[2])
      [] OTHER -> s
LabelName(s, lab) ==
    CASE lab = << >> -> NoName
      [] lab # << >> /\ lab[1] = "anon" -> Local(Global(":"), s.x.anon_labno)
      [] OTHER -> get_local_label(s, lab)
Assignments == {"=", "equ", "eq", "se", "set"}
Assign(s, name, op, a) ==
    IF name = Global("*")
    THEN IF op \in {"se", "set"} THEN syntax_error(s, 10) ELSE handle_org(s, a)
    ELSE LET p == Named(s, a[1])
             v == IF Known(s, p) THEN Value(s, p) ELSE Unknown
         IN  IF op \in {"se", "set"} THEN new_abs(s, name, v) ELSE new_equate(s, name, v)

\* The table: of two entries with one name the later one counts.
directives(s, op, a) ==
    CASE op \in {"org", "or"} -> handle_org(s, a)
      [] op \in {"rorg", "phase", "ph"} -> handle_rorg(s, a)
      [] op \in {"rend", "dephase", "ep"} -> handle_rend(s)
      [] op = "roffs" -> handle_roffs(s, a)
      [] op = "align" -> handle_align(s, a)
      [] op = "even" -> handle_even(s)
      [] op = "pg" -> handle_pg(s)
      [] op = "data" -> handle_secdata(s, a)
      [] op = "bss" -> handle_secbss(s, a)
      [] op = "abyte" -> handle_d8_mod(s, a)
      [] op \in {"asc", "ascii"} -> handle_ascii(s, a)
      [] op \in {"asciiz", "string"} -> handle_string(s, a)
      [] op = "str" -> handle_str(s, a)
      [] op \in {"defm", "fcc"} -> handle_text(s, a)
      [] op = "fcs" -> handle_fcs(s, a)
      [] op \in {"fcb", "byt", "byte", "db", "dfb", "defb", "di8"} -> handle_d8(s, a)
      [] op = "fdb" -> handle_dblbyt(s, a)
      [] op \in {"wrd", "wor", "word", "dw", "dfw", "defw", "di16"} -> handle_d16(s, a)
      [] op = "di24" -> handle_d24(s, a)
      [] op \in {"dl", "defl", "dd", "di32"} -> handle_d32(s, a)
      [] op = "di64" -> handle_d64(s, a)
      [] op \in {"addr", "da", "defp"} -> handle_taddr(s, a)
      [] op \in {"ds", "dsb", "fill", "reserve", "spc", "defs", "bsz", "zmb", "dc", "blk", "ds8", "bs"} -> handle_spc8(s, a)
      [] op \in {"dsw", "blkw", "ds16"} -> handle_spc16(s, a)
      [] op = "ds24" -> handle_spc24(s, a)
      [] op \in {"dsl", "blkl", "ds32"} -> handle_spc32(s, a)
      [] op = "ds64" -> handle_spc64(s, a)
      [] op = "assert" -> handle_assert(s)
      [] op \in {"ifdef", "ifd"} -> handle_ifd(s, a)
      [] op \in {"ifndef", "ifnd"} -> handle_ifnd(s, a)
      [] op = "ifblank" -> handle_ifblank(s, a)
      [] op = "ifnblank" -> handle_ifnblank(s, a)
      [] op = "ifeq" -> handle_ifeq(s, a)
      [] op \in {"ifne", "if", "do"} -> handle_ifne(s, a)
      [] op = "ifgt" -> handle_ifgt(s, a)
      [] op = "ifge" -> handle_ifge(s, a)
      [] op = "iflt" -> handle_iflt(s, a)
      [] op = "ifle" -> handle_ifle(s, a)
      [] op = "ifused" -> handle_ifused(s, a)
      [] op = "ifnused" -> handle_ifnused(s, a)
      [] op \in {"else", "el"} -> handle_else(s)
      [] op \in {"endif", "ei", "fi", "fin"} -> handle_endif(s)
      [] op \in {"incbin", "mdat", "binary"} -> handle_incbin(s, a)
      [] op = "incdir" -> handle_incdir(s, a)
      [] op \in {"include", "in", "inb"} -> handle_include(s, a)
      [] op \in {"rept", "repeat", "lu"} -> handle_rept(s, a)
      [] op \in {"endr", "endrep", "endrepeat", "endu"} -> handle_endr(s)
      [] op \in {"mac", "ma", "macro"} -> handle_macro(s, a)
      [] op \in {"em", "endm", "endmac", "endmacro"} -> handle_endm(s)
      [] op = "exitmacro" -> handle_exitmacro(s)
      [] op = "end" -> handle_end(s)
      [] op = "fail" -> handle_fail(s)
      [] op = "section" -> handle_section(s, a)
      [] op \in {"dsect", "dummy"} -> handle_dsect(s)
      [] op \in {"dend", "ed"} -> handle_dend(s)
      [] op = "defc" -> handle_defc(s, a)
      [] op \in {"xdef", "xref", "lib", "xlib", "global", "extern"} -> handle_global(s, a)
      [] op = "local" -> handle_local(s, a)
      [] op = "weak" -> handle_weak(s, a)
      [] op \in {"needs", "symdepend"} -> handle_symdepend(s)
      [] op = "list" -> handle_list(s)
      [] op = "nolist" -> handle_nolist(s)
      [] op \in {"struct", "structure"} -> handle_struct(s, a)
      [] op \in {"endstruct", "endstructure"} -> handle_endstruct(s)
      [] op = "inline" -> handle_inline(s)
      [] op = "einline" -> handle_einline(s)
      [] op = "hs" -> handle_hs(s, a)
      [] op = "as" -> handle_as(s, a)
      [] op = "ac" -> handle_ac(s, a)
      [] op = "az" -> handle_az(s, a)
      [] op = "at" -> handle_at(s, a)
      [] op = "cs" -> handle_cs(s, a)
      [] op = "cz" -> handle_cz(s, a)
      [] op = "hx" -> handle_hx(s, a)
      [] op = "ps" -> handle_ps(s, a)
      [] op = "ta" -> handle_ta(s, a)
      [] op = "op" -> handle_op(s, a)
      [] op = "tf" -> handle_tf(s, a)
      [] op = "text" -> handle_text_directive(s, a)
      [] OTHER -> handle_noop(s)

\* A label stands behind the section its directive opens or closes.  What is left
\* of that directive's operands is then read as an operation.
Switching == {"ed", "ep", "dummy", "ph"}
Switch(s, op, a) == CASE op = "ed" -> handle_dend(s) [] op = "ep" -> handle_rend(s)
                      [] op = "dummy" -> handle_dsect(s) [] op = "ph" -> handle_rorg(s, a) [] OTHER -> s
InContext(s, name) == IF IsLocal(name) THEN s
                      ELSE [s EXCEPT !.x.last_global_label = name, !.x.private_context = @ + 1]
Unread(s, op, a) == IF op \in Switching /\ a # << >> THEN syntax_error(s, 10) ELSE s
JustLabel(s, name, op, a) == Unread(InContext(new_label(Switch(s, op, a), name), name), op, a)
\* Lines of a branch that is not assembled.
Opens == {"ifdef", "ifd", "ifndef", "ifnd", "ifblank", "ifnblank", "ifeq", "ifne", "if", "ifgt",
          "ifge", "iflt", "ifle", "ifused", "ifnused", "do"}
SkippedLine(s, op) == CASE op \in Opens -> cond_skipif(s)
                        [] op \in {"else", "el"} -> cond_else(s)
                        [] op \in {"endif", "ei", "fi", "fin"} -> cond_endif(s)
                        [] OTHER -> s
\* A macro is called by ">" and its name, which has to be defined.
Call(s, a) == IF a[1].v = "unknown" THEN syntax_error(s, 41) ELSE Ask(my_exec_macro(s), "call", a)
Operation(s, op, a) ==
    CASE op = "" -> s
      [] op = "inst" -> add_atom(s, "inst", <<234>>)
      [] op = ">" -> Call(s, a)
      [] Global(op) \in s.structs -> execute_struct(s, Global(op), a)
      [] OTHER -> directives(s, op, a)

\* One turn of the loop; the commands of the editor stand in the label field.
Editor == {Global("new"), Global("auto"), Global("text")}
parse(s0, line) ==
    LET s == [s0 EXCEPT !.fresh = NoName, !.req = << >>]
        t == parse_label_field(s, line.lab)
        name == LabelName(t, line.lab)
    IN  IF s.end \/ (line.lab \in Editor /\ line.op = "") THEN s
        ELSE IF ~cond_state(s) THEN SkippedLine(s, line.op)
        ELSE IF name # NoName /\ line.op \in Assignments THEN Assign(t, name, line.op, line.a)
        ELSE IF name # NoName /\ line.op = "ma" /\ line.a = << >> THEN Ask(t, "macro", <<Ref(name)>>)
        ELSE Operation(IF name = NoName THEN t ELSE JustLabel(t, name, line.op, line.a),
                       IF name # NoName /\ line.op \in Switching THEN "" ELSE line.op, line.a)
Finish(s) == LET t == cond_check(s) IN IF t.x.dsect_active THEN syntax_error(t, 23) ELSE t
=============================================================================
