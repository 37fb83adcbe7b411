------------------------------- MODULE Edtasm -------------------------------
(***************************************************************************)
(* The EDTASM+ syntax module for the 6809 (syntax/edtasm/syntax.c): the    *)
(* directives of its table; the handlers that no entry of the table names  *)
(* are dead code.  A line has a label field, an operation, operands and,   *)
(* when an IIF stands in front of the operation, its condition.            *)
(***************************************************************************)
EXTENDS Asm

Statics == [opt_mc |-> 0, opt_md |-> 0, opt_mex |-> 0, opt_list |-> 0, memattr |-> << >>,
            listing |-> TRUE, filename |-> "", hung |-> FALSE]
code_name == <<"sec", "CODE">>
syntax_defsect == code_name
init_syntax == Start(syntax_defsect, Statics)
syntax_warnings == {1002, 1003, 1004, 1006, 1009, 1011, 1018, 1021, 1023, 1024, 1025, 1026}
-----------------------------------------------------------------------------
\* Labels and references: "glob", "loc" for .N and N$, "qual" for glob\loc.
get_local_label(s, r) == CASE r[1] = "loc" -> Local(s.last_global, r[2])
                           [] r[1] = "qual" -> Local(Global(r[2]), r[3])
                           [] OTHER -> r
Named(s, p) == IF p.t = "ref" THEN Ref(get_local_label(s, p.v)) ELSE p

\* #'x becomes the hexadecimal value of the character, and a semicolon ends the
\* line, everywhere but between quotes.  Only ' and " are quotes: a text of FCC
\* between other delimiters is converted and cut like everything else.
Quote == 39
DoubleQuote == 34
Semicolon == 59
Hash == 35
HexDigit(n) == IF n < 10 THEN 48 + n ELSE 87 + n
HexLiteral(c) == <<Hash, 36, HexDigit(c \div 16), HexDigit(c % 16)>>
Ends == {32, 44, 41, Semicolon}
convert_char_literals(line) ==
    LET At(i) == IF i <= Len(line) THEN line[i] ELSE 0
        IsLiteral(i) == At(i) = Hash /\ At(i + 1) = Quote /\ At(i + 2) # 0 /\ At(i + 3) \in Ends \cup {0, Quote}
        Copied(r, i) == [r EXCEPT !.out = Append(@, line[i])]
        Step(r, i) ==
            CASE r.done -> r
              [] r.skip > 0 -> [r EXCEPT !.skip = @ - 1]
              [] r.q # 0 -> [Copied(r, i) EXCEPT !.q = IF line[i] = r.q THEN 0 ELSE @]
              [] line[i] \in {Quote, DoubleQuote} -> [Copied(r, i) EXCEPT !.q = line[i]]
              [] line[i] = Semicolon -> [r EXCEPT !.done = TRUE]
              [] IsLiteral(i) -> [r EXCEPT !.out = @ \o HexLiteral(line[i + 2]),
                                           !.skip = IF At(i + 3) = Quote THEN 3 ELSE 2]
              [] OTHER -> Copied(r, i)
    IN  FoldLeft(Step, [out |-> << >>, q |-> 0, skip |-> 0, done |-> FALSE],
                 [i \in DOMAIN line |-> i]).out
\* What reaches a string directive of the text it was written with.
Text(p) == LET w == convert_char_literals(<<p.d>> \o p.v \o (IF p.closed THEN <<p.d>> ELSE << >>))
           IN  IF w = << >> THEN << >> ELSE Tail(w)
-----------------------------------------------------------------------------
do_space(s, size, n) == add_space(s, (size \div 8) * n, 0)
handle_space(s, a, size) == do_space(s, size, a[1].v)
handle_uspace(s, a, size) == do_space(s, size, a[1].v)

\* The type of a section, and its memory type where one is given.
read_sec_attr(a) == CASE Len(a) = 2 -> [mem |-> 0, e |-> IF a[2].v \in {"code", "data", "bss"} THEN 0 ELSE 13]
                      [] Len(a) = 3 -> [mem |-> a[3].v,
                                        e |-> IF a[2].v \notin {"code", "data", "bss"} THEN 13
                                              ELSE IF a[3].v = 0 THEN 15 ELSE 0]
                      [] OTHER -> [mem |-> 0, e |-> 0]
MemAttr(s, name) == IF name \in DOMAIN s.x.memattr THEN s.x.memattr[name] ELSE 0
edtasmsection(s, name, mem) ==
    LET t == try_end_rorg(s)
    IN  IF MemAttr(t, name) \notin {0, mem} THEN syntax_error(t, 27)
        ELSE [t EXCEPT !.x.memattr = (name :> mem) @@ @]
\* (An illegal type leaves the section alone, an illegal memory type does not.)
handle_section(s, a) ==
    LET name == <<"sec", a[1].v>>
        r == read_sec_attr(a)
        t == IF r.e = 0 THEN s ELSE syntax_error(s, r.e)
    IN  IF r.e = 13 THEN t ELSE switch_to(edtasmsection(new_section(t, name), name, r.mem), name)

\* ORG relocates the code within a section that is not absolute.
parse_constexpr(s, p) == IF Known(s, Named(s, p)) THEN Value(s, Named(s, p)) ELSE 0
ConstError(s, p) == IF Known(s, Named(s, p)) THEN s ELSE general_error(s, 30)
handle_org(s, a) ==
    IF IsWord(a, "*+") THEN handle_uspace(s, Tail(a), 8)
    ELSE IF IsWord(a, "*") THEN syntax_error(s, 7)
    ELSE LET t == ConstError(s, a[1])
             v == parse_constexpr(s, a[1])
         IN  IF s.current # NoSection /\ (Has(s, s.current, "rorg") \/ ~Has(s, s.current, "abs"))
             THEN start_rorg(t, v) ELSE set_org(t, v)

parse_string(p) == p.t = "str" /\ p.closed /\ Len(p.v) # 1
handle_data(s, a, n) ==
    ForEachQuiet(s, a, LAMBDA t, p :
        Go(CASE n = 1 /\ parse_string(p) -> add_data(t, p.v)
             [] p.t = "val" -> add_datadef(t, BE(p.v, n), NoName)
             [] p.t = "str" /\ Len(p.v) = 1 -> add_datadef(t, BE(p.v[1], n), NoName)
             [] p.t = "ref" -> add_datadef(t, Zeros(n), get_local_label(t, p.v))
             [] OTHER -> syntax_error(t, 8)))
handle_d8(s, a) == handle_data(s, a, 1)
handle_d16(s, a) == handle_data(s, a, 2)
handle_rmb(s, a) == handle_space(s, a, 8)

\* A text without its closing delimiter is warned about and emits nothing.
handle_fcc(s, a) ==
    IF a = << >> \/ Text(a[1]) = << >> THEN syntax_error(s, IF a = << >> THEN 5 ELSE 21)
    ELSE LET w == Text(a[1])
         IN  IF \A i \in DOMAIN w : w[i] # a[1].d THEN syntax_error(s, 21)
             ELSE add_data(s, SubSeq(w, 1, (CHOOSE i \in DOMAIN w : w[i] = a[1].d
                                            /\ \A j \in 1..i - 1 : w[j] # a[1].d) - 1))
LastHigh(bytes) == IF bytes = << >> THEN bytes ELSE [bytes EXCEPT ![Len(bytes)] = SetHigh(@)]
handle_fcs(s, a) ==
    LET t == handle_fcc(s, a)
        n == IF t.current = NoSection THEN 0 ELSE Len(Cur(t).atoms)
    IN  IF t.errs # s.errs \/ a = << >> \/ Text(a[1]) = << >> \/ \A i \in DOMAIN Text(a[1]) : Text(a[1])[i] # a[1].d
        THEN t ELSE [t EXCEPT !.secs[t.current].atoms[n].b = LastHigh(@)]
handle_mod(s) == s

\* OPT: what is neither a word nor a comma is never passed, so the loop stays.
Switches == {"mc", "md", "mex", "l"}
Field == [mc |-> "opt_mc", md |-> "opt_md", mex |-> "opt_mex", l |-> "opt_list"]
handle_opt(s, a) ==
    FoldLeft(LAMBDA t, p :
        CASE t.x.hung -> t
          [] p = Junk -> [syntax_error(t, 9) EXCEPT !.x.hung = TRUE]
          [] p.t = "word" /\ p.v \in Switches -> [t EXCEPT !.x[Field[p.v]] = 1]
          [] p.t = "no" /\ p.v \in Switches -> [t EXCEPT !.x[Field[p.v]] = 0]
          [] OTHER -> syntax_error(t, 11), s, a)

handle_end(s) == [s EXCEPT !.end = TRUE]
handle_list(s) == [s EXCEPT !.x.listing = TRUE]
handle_nolist(s) == [s EXCEPT !.x.listing = FALSE]
handle_edtasm_title(s) == s
handle_edtasm_page(s) == s
handle_dummy_expr(s) == syntax_error(s, 11)
Ask(s, what, a) == [s EXCEPT !.req = <<what, a>>]
handle_include(s, a) == Ask(s, "include", a)
handle_macro(s, a) == IF a = << >> THEN syntax_error(s, 10) ELSE Ask(s, "macro", a)
handle_endm(s) == syntax_error(s, 12)
-----------------------------------------------------------------------------
eval_ifexp(s, p, Holds(_)) == Known(s, Named(s, p)) /\ Holds(Value(s, Named(s, p)))
ifexp(s, a, Holds(_)) == cond_if(ConstError(s, a[1]), eval_ifexp(s, a[1], Holds))
handle_cond(s, a) == ifexp(s, a, LAMBDA v : v # 0)
handle_ifeq(s, a) == ifexp(s, a, LAMBDA v : v = 0)
handle_ifne(s, a) == ifexp(s, a, LAMBDA v : v # 0)
handle_ifgt(s, a) == ifexp(s, a, LAMBDA v : v > 0)
handle_ifge(s, a) == ifexp(s, a, LAMBDA v : v >= 0)
handle_iflt(s, a) == ifexp(s, a, LAMBDA v : v < 0)
handle_ifle(s, a) == ifexp(s, a, LAMBDA v : v <= 0)
handle_else(s) == cond_skipelse(s)
handle_endif(s) == cond_endif(s)

Ifs == {"if", "cond", "ifeq", "ifne", "ifgt", "ifge", "iflt", "ifle"}
Endifs == {"endc", "endif"}
Names == Ifs \cup Endifs \cup
         {"org", "end", "equ", "set", "fcb", "fdb", "fcc", "fcs", "rmb", "section", "mod", "else", "macro",
          "endm", "include", "emod", "opt", "page", "title", "list", "nolist"}
directives(s, op, a) ==
    CASE op = "org" -> handle_org(s, a)
      [] op \in {"end", "emod"} -> handle_end(s)
      [] op \in {"equ", "set"} -> handle_dummy_expr(s)
      [] op = "fcb" -> handle_d8(s, a)
      [] op = "fdb" -> handle_d16(s, a)
      [] op = "fcc" -> handle_fcc(s, a)
      [] op = "fcs" -> handle_fcs(s, a)
      [] op = "rmb" -> handle_rmb(s, a)
      [] op = "section" -> handle_section(s, a)
      [] op = "mod" -> handle_mod(s)
      [] op \in {"if", "cond"} -> handle_cond(s, a)
      [] op = "ifeq" -> handle_ifeq(s, a)
      [] op = "ifne" -> handle_ifne(s, a)
      [] op = "ifgt" -> handle_ifgt(s, a)
      [] op = "ifge" -> handle_ifge(s, a)
      [] op = "iflt" -> handle_iflt(s, a)
      [] op = "ifle" -> handle_ifle(s, a)
      [] op = "else" -> handle_else(s)
      [] op \in Endifs -> handle_endif(s)
      [] op = "macro" -> handle_macro(s, a)
      [] op = "endm" -> handle_endm(s)
      [] op = "include" -> handle_include(s, a)
      [] op = "opt" -> handle_opt(s, a)
      [] op = "page" -> handle_edtasm_page(s)
      [] op = "title" -> handle_edtasm_title(s)
      [] op = "list" -> handle_list(s)
      [] op = "nolist" -> handle_nolist(s)
check_directive(op) == op \in Names
handle_directive(s, op, a) == IF check_directive(op) THEN directives(s, op, a)
                              ELSE add_atom(s, "inst", <<18>>)

\* Lines that are not assembled: a word in the first column is taken for a label
\* here, even where it would be a directive elsewhere.
SkippedLine(s, line) == CASE line.iif # << >> -> s
                          [] line.op \in Ifs -> cond_skipif(s)
                          [] line.op = "else" -> cond_else(s)
                          [] line.op \in Endifs -> cond_endif(s)
                          [] OTHER -> s
\* A false IIF hides the rest of its line.
handle_iif(s, line) ==
    IF line.iif = << >> \/ eval_ifexp(s, line.iif[1], LAMBDA v : v # 0) THEN line
    ELSE [line EXCEPT !.op = "", !.a = << >>]
IifError(s, line) == IF line.iif = << >> THEN s ELSE ConstError(s, line.iif[1])

Exported(s, name, exp) == IF exp THEN [s EXCEPT !.syms[name].flags = @ \cup {"export"}] ELSE s
Operand(s, p) == LET q == Named(s, p) IN IF Known(s, q) THEN Value(s, q) ELSE Unknown
\* EQU and = define once, SET does not (and forgets the double colon).
Assign(s, line) ==
    LET name == get_local_label(s, line.lab)
        v == Operand(s, line.a[1])
    IN  IF line.op = "set" THEN new_abs(s, name, v) ELSE Exported(new_equate(s, name, v), name, line.exp)
JustLabel(s, line) ==
    LET name == get_local_label(s, line.lab) IN Exported(new_label(s, name), name, line.exp)
Rest(s, op, a) == IF op = "" THEN s ELSE handle_directive(s, op, a)
\* One turn of the loop.
parse(s0, l) ==
    LET s == [s0 EXCEPT !.fresh = NoName, !.req = << >>]
        line == handle_iif(s, l)
        t == IifError(s, l)
        labelled == l.lab # << >>
        bare == labelled /\ line.op = "" /\ check_directive(l.lab[2])   \* a directive in the label field
    IN  IF s.end \/ s.x.hung THEN s
        ELSE IF ~cond_state(s) THEN SkippedLine(s, l)
        ELSE IF labelled /\ line.op \in {"equ", "=", "set"} THEN Assign(t, line)
        ELSE IF labelled /\ line.op = "ttl" THEN [t EXCEPT !.x.filename = line.lab[2]]
        ELSE IF labelled /\ line.op = "macro" THEN Ask(t, "macro", <<Ref(line.lab)>>)
        ELSE Rest(IF labelled /\ ~bare THEN JustLabel(t, line) ELSE t, IF bare THEN l.lab[2] ELSE line.op, line.a)
Finish(s) == cond_check(s)
-----------------------------------------------------------------------------
\* The body of a macro: its parameters, an id and labels of the macro's own.
\* A token is <<kind, what>>; what cannot be expanded stays as it is.
expand_macro(src, tok) ==
    CASE tok[1] = "par" -> IF tok[2] <= Len(src.param) THEN src.param[tok[2]] ELSE << >>
      [] tok[1] = "id" -> <<<<"id", src.id>>>>
      [] tok[1] = "lab" -> <<Local(Global(src.macro), tok[2])>>
      [] OTHER -> <<tok>>
\* Numbers: digits to a base, given by a prefix or by the suffix B.
binary_suffix(digits, suffix) == digits # << >> /\ suffix = "B" /\ \A i \in DOMAIN digits : digits[i] < 2
const_prefix(prefix, digits, suffix) ==
    CASE prefix = "$" -> 16 [] prefix = "@" -> 8 [] prefix = "%" -> 2
      [] OTHER -> IF binary_suffix(digits, suffix) THEN 2 ELSE 10
Number(prefix, digits, suffix) == FoldLeft(LAMBDA v, d : v * const_prefix(prefix, digits, suffix) + d, 0, digits)
=============================================================================
