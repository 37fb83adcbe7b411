----------------------------- MODULE EdtasmM80 -----------------------------
(***************************************************************************)
(* The EDTASM-M80 syntax module for the Z80 (syntax/edtasm-m80/syntax.c).  *)
(* It grew out of the EDTASM+ module: what is the same code again is       *)
(* E!name here.  Its own are the segments, more conditionals, the labels   *)
(* of LOCAL, iterations and two passes over the characters of a line.      *)
(*                                                                         *)
(* A name is a sequence of letters, since LOCAL replaces inside of names.  *)
(* line.src is the source a line comes from: its id and the name of its    *)
(* macro, NoName for a file.  A word in the first column that is no name   *)
(* of letters is <<"word", w>>.                                             *)
(***************************************************************************)
EXTENDS Asm
E == INSTANCE Edtasm

Statics == [opt_mc |-> 0, opt_md |-> 0, opt_mex |-> 0, opt_list |-> 0, memattr |-> << >>,
            listing |-> TRUE, filename |-> "", hung |-> FALSE,
            local_label_counter |-> 0, current_local_labels |-> << >>, current_macro_name |-> NoName,
            macro_local |-> << >>, invocation_locals |-> << >>]
syntax_defsect == <<"sec", "CODE">>
init_syntax == Start(syntax_defsect, Statics)
syntax_warnings == {1002, 1003, 1004, 1006, 1009, 1011, 1018, 1021, 1023, 1024, 1025, 1026}
\* The last two messages have the numbers 28 and 29, and the code says 29 and 30:
\* the second one is behind the end of the table.
BehindTable == 30

get_local_label(s, r) == E!get_local_label(s, r)
Named(s, p) == IF p.t = "ref" THEN Ref(get_local_label(s, p.v)) ELSE p
-----------------------------------------------------------------------------
convert_char_literals(line) == E!convert_char_literals(line)
Blanks == {32, 9}
Amp == 38

\* Outside of quotes an & joins what it stands between.
TrimEnd(out) == SubSeq(out, 1, CHOOSE n \in 0..Len(out) : (n = 0 \/ out[n] \notin Blanks)
                                                          /\ \A i \in n + 1..Len(out) : out[i] \in Blanks)
Quotes == {34, 39}
\* A mutant: quotes are not looked at.
preprocess_everywhere(line) ==
    FoldLeft(LAMBDA r, c :
        CASE c = Amp -> [r EXCEPT !.out = TrimEnd(@), !.joining = TRUE]
          [] r.joining /\ c \in Blanks -> r
          [] OTHER -> [r EXCEPT !.out = Append(@, c), !.joining = FALSE],
        [out |-> << >>, joining |-> FALSE], line).out
preprocess_concatenation(line) ==
    FoldLeft(LAMBDA r, c :
        CASE r.q # 0 -> [r EXCEPT !.out = Append(@, c), !.q = IF c = r.q THEN 0 ELSE @]
          [] c \in Quotes -> [r EXCEPT !.out = Append(@, c), !.q = c, !.joining = FALSE]
          [] c = Amp -> [r EXCEPT !.out = TrimEnd(@), !.joining = TRUE]
          [] r.joining /\ c \in Blanks -> r
          [] OTHER -> [r EXCEPT !.out = Append(@, c), !.joining = FALSE],
        [out |-> << >>, q |-> 0, joining |-> FALSE], line).out

\* nnH becomes $nn, wherever digits begin: at the end of a name as well.
Digits == 48..57
HexDigits == Digits \cup 65..70 \cup 97..102
Delims == {0, 32, 9, 44, 41, 93, 43, 45, 42, 47, 38, 124, 94, 126, 60, 62, 61, 33, 59}
convert_hex_suffix(line) ==
    LET At(i) == IF i <= Len(line) THEN line[i] ELSE 0
        EndOf(i) == CHOOSE e \in i..Len(line) + 1 :
                        At(e) \notin HexDigits /\ \A j \in i..e - 1 : line[j] \in HexDigits
        IsHex(i) == line[i] \in Digits /\ At(EndOf(i)) \in {72, 104} /\ At(EndOf(i) + 1) \in Delims
        Step(r, i) ==
            CASE i < r.next -> r
              [] r.q # 0 -> [r EXCEPT !.out = Append(@, line[i]), !.q = IF line[i] = r.q THEN 0 ELSE @]
              [] line[i] \in Quotes -> [r EXCEPT !.out = Append(@, line[i]), !.q = line[i]]
              [] IsHex(i) -> [r EXCEPT !.out = @ \o <<36>> \o SubSeq(line, i, EndOf(i) - 1), !.next = EndOf(i) + 1]
              [] OTHER -> [r EXCEPT !.out = Append(@, line[i])]
    IN  FoldLeft(Step, [out |-> << >>, q |-> 0, next |-> 1], [i \in DOMAIN line |-> i]).out
\* All that happens to the characters of a line; in macros less.
Preprocessed(src, line) ==
    convert_hex_suffix(preprocess_concatenation(IF src.macro # NoName THEN line ELSE convert_char_literals(line)))
-----------------------------------------------------------------------------
\* LOCAL.  A list has its newest entry in front; the stored one has no names yet.
Unique(n) == <<"_L", ToString(n)>>
add_local_label(s, name) == [s EXCEPT !.x.local_label_counter = @ + 1,
                                      !.x.current_local_labels = <<name>> \o @]
free_local_labels(s) == [s EXCEPT !.x.current_local_labels = << >>]
store_macro_locals(s, macro, list) ==
    IF list = << >> THEN s ELSE [s EXCEPT !.x.macro_local = (macro :> list) @@ @]
get_macro_locals(s, macro) == IF macro \in DOMAIN s.x.macro_local THEN s.x.macro_local[macro] ELSE << >>
finalize_current_macro_locals(s) ==
    LET t == IF s.x.current_macro_name = NoName THEN s
             ELSE store_macro_locals(s, s.x.current_macro_name, s.x.current_local_labels)
    IN  free_local_labels([t EXCEPT !.x.current_macro_name = NoName])

\* The first use in a source that a macro call opened gives all of them names.
generate_invocation_locals(s, src) ==
    LET list == get_macro_locals(s, src.macro)
    IN  IF src.macro = NoName \/ list = << >> \/ src.id \in DOMAIN s.x.invocation_locals THEN s
        ELSE [s EXCEPT !.x.local_label_counter = @ + Len(list),
                       !.x.invocation_locals = (src.id :> [i \in DOMAIN list |->
                           <<list[i], Unique(s.x.local_label_counter + i - 1)>>]) @@ @]
Substitutions(s, src) == IF src.id \in DOMAIN s.x.invocation_locals THEN s.x.invocation_locals[src.id] ELSE << >>
find_local_label(list, name) == \E i \in DOMAIN list : list[i][1] = name
find_invocation_local(s, src, name) ==
    LET list == Substitutions(s, src)
    IN  IF find_local_label(list, name)
        THEN list[CHOOSE i \in DOMAIN list : list[i][1] = name /\ \A j \in 1..i - 1 : list[j][1] # name][2]
        ELSE name
substitute_local_label(s, src, name) ==
    IF src.macro = NoName THEN name ELSE find_invocation_local(generate_invocation_locals(s, src), src, name)

\* What no directive has read is garbage at the end of its line.
eol(s, rest) == IF rest = << >> THEN s ELSE syntax_error(s, 6)
\* While a macro expands, its first LOCAL counts; elsewhere the names are kept
\* for the macro that was defined last.
handle_m80_local(s, a, src) ==
    LET names == FoldLeft(LAMBDA r, p : IF ~r.go \/ p.t # "ref" THEN [r EXCEPT !.go = FALSE]
                                        ELSE [r EXCEPT !.l = <<p.v[2]>> \o @], [l |-> << >>, go |-> TRUE], a)
        t == IF names.go /\ a # << >> THEN s ELSE eol(syntax_error(s, BehindTable), SubSeq(a, Len(names.l) + 1, Len(a)))
    IN  IF src.macro # NoName
        THEN IF get_macro_locals(s, src.macro) # << >> THEN eol(s, a)
             ELSE store_macro_locals([t EXCEPT !.x.local_label_counter = @ + Len(names.l)], src.macro, names.l)
        ELSE IF s.x.current_macro_name # NoName
             THEN FoldLeft(add_local_label, t, Reverse(names.l))
             ELSE syntax_error(s, 29)

\* An identifier is looked up at each of its letters, so LOCAL A takes BA, too.
ReplaceTail(list, name) ==
    LET At(i) == find_local_label(list, SubSeq(name, i, Len(name)))
        Found == {i \in DOMAIN name : At(i)}
        i == CHOOSE n \in Found : \A m \in Found : n <= m
    IN  IF Found = {} THEN name
        ELSE SubSeq(name, 1, i - 1) \o list[CHOOSE j \in DOMAIN list : list[j][1] = SubSeq(name, i, Len(name))][2]
\* A token of a macro's text: LOCAL's own line keeps its names.
expand_macro(s, src, tok) ==
    CASE tok[1] = "name" -> <<"name", ReplaceTail(Substitutions(generate_invocation_locals(s, src), src), tok[2])>>
      [] tok[1] = "par" -> IF tok[2] <= Len(src.param) THEN src.param[tok[2]] ELSE <<"name", << >>>>
      [] tok[1] = "id" -> <<"id", src.id>>
      [] tok[1] = "lab" -> Local(Global(src.macro), tok[2])
      [] OTHER -> tok
ExpandOperand(s, src, p) ==
    IF p.t = "ref" /\ p.v[1] = "glob" THEN Ref(Global(expand_macro(s, src, <<"name", p.v[2]>>)[2])) ELSE p
ExpandLine(s, line) ==
    IF line.src.macro = NoName \/ line.op = "local" THEN line
    ELSE [line EXCEPT !.a = [i \in DOMAIN @ |-> ExpandOperand(s, line.src, line.a[i])],
                      !.lab = IF @ # << >> /\ @[1] = "glob"
                              THEN Global(expand_macro(s, line.src, <<"name", @[2]>>)[2]) ELSE @]
-----------------------------------------------------------------------------
do_space(s, size, n) == E!do_space(s, size, n)
handle_rmb(s, a) == do_space(s, 8, a[1].v)
handle_section(s, a) == E!handle_section(s, a)
handle_org(s, a) == E!handle_org(s, a)
handle_fcc(s, a) == E!handle_fcc(s, a)
handle_fcs(s, a) == E!handle_fcs(s, a)
handle_opt(s, a) == E!handle_opt(s, a)
handle_end(s) == E!handle_end(s)
handle_cond(s, a) == E!handle_cond(s, a)
handle_list(s) == [s EXCEPT !.x.listing = TRUE]
handle_nolist(s) == [s EXCEPT !.x.listing = FALSE]
handle_dummy_expr(s) == syntax_error(s, 11)
handle_edtasm_page(s) == s

\* The Z80 is little endian.
handle_data(s, a, n) ==
    ForEachQuiet(s, a, LAMBDA t, p :
        Go(CASE n = 1 /\ E!parse_string(p) -> add_data(t, p.v)
             [] p.t = "val" -> add_datadef(t, LE(p.v, n), NoName)
             [] p.t = "str" /\ Len(p.v) = 1 -> add_datadef(t, LE(p.v[1], n), NoName)
             [] p.t = "ref" -> add_datadef(t, Zeros(n), get_local_label(t, p.v))
             [] OTHER -> syntax_error(t, 8)))
handle_d8(s, a) == handle_data(s, a, 1)
handle_d16(s, a) == handle_data(s, a, 2)

\* The section is entered before it is made absolute.
Segment(s, name) == LET t == switch_to(s, <<"sec", name>>) IN WithFlag(t, t.current, "abs")
handle_aseg(s) == Segment(s, "ASEG")
handle_cseg(s) == Segment(s, "CSEG")
handle_dseg(s) == Segment(s, "DSEG")

\* Conditionals that miss their operand open no level, and their ENDIF is one too many.
ifdef(s, a, b) == IF a = << >> THEN syntax_error(s, 10)
                  ELSE cond_if(s, (Type(s, get_local_label(s, a[1].v)) \notin {"none", "import"}) = b)
ifc(s, a, b) == IF Len(a) < 2 THEN syntax_error(s, 5) ELSE cond_if(s, (a[1] = a[2]) = b)
handle_ifd(s, a) == ifdef(s, a, TRUE)
handle_ifnd(s, a) == ifdef(s, a, FALSE)
handle_ifidn(s, a) == ifc(s, a, TRUE)
handle_ifdif(s, a) == ifc(s, a, FALSE)
handle_ifb(s, a) == cond_if(s, a = << >>)
handle_ifnb(s, a) == cond_if(s, a # << >>)
handle_ifp1(s) == syntax_error(cond_if(s, TRUE), 25)
handle_ifp2(s) == syntax_error(cond_if(s, FALSE), 26)
handle_ifeq(s, a) == E!handle_ifeq(s, a)
handle_ife(s, a) == E!handle_ifeq(s, a)
handle_ifne(s, a) == E!handle_ifne(s, a)
handle_ifgt(s, a) == E!handle_ifgt(s, a)
handle_ifge(s, a) == E!handle_ifge(s, a)
handle_iflt(s, a) == E!handle_iflt(s, a)
handle_ifle(s, a) == E!handle_ifle(s, a)
handle_else(s) == cond_skipelse(s)
handle_endif(s) == cond_endif(s)

Ask(s, what, a) == [s EXCEPT !.req = <<what, a>>]
handle_rept(s, a) == Ask(s, "rept", <<Val(IF a[1].v < 0 THEN 0 ELSE a[1].v)>>)
handle_endr(s) == syntax_error(s, 12)
do_irp(s, type, a) == IF a = << >> THEN syntax_error(s, 10) ELSE Ask(s, type, a)
handle_irp(s, a) == do_irp(s, "irp", a)
handle_irpc(s, a) == do_irp(s, "irpc", a)
handle_exitm(s) == Ask(s, "mexit", << >>)
handle_include(s, a) == Ask(s, "include", a)
handle_endm(s) == syntax_error(s, 12)
\* The scan for LOCAL behind new_macro sees no text yet: it is read afterwards.
DefineMacro(s, name) == Ask([finalize_current_macro_locals(s) EXCEPT !.x.current_macro_name = name],
                            "macro", <<Word(name)>>)
handle_macro(s, a) == IF a = << >> THEN syntax_error(finalize_current_macro_locals(s), 10) ELSE DefineMacro(s, a[1].v)
-----------------------------------------------------------------------------
Ifs == {"if", "cond", "ifeq", "ifne", "ifgt", "ifge", "iflt", "ifle", "ife", "if1", "if2", "ifdef", "ifndef",
        "ifb", "ifnb", "ifidn", "ifdif"}
Endifs == {"endc", "endif"}
Bytes == {"fcb", "defb", "db", "dc"}
Words == {"fdb", "defw", "defh", "dw"}
Spaces == {"rmb", "defs", "ds"}
Names == Ifs \cup Endifs \cup Bytes \cup Words \cup Spaces \cup
         {"org", "end", "equ", "set", "defl", "fcc", "defm", "fcs", "aseg", "cseg", "dseg", "section", "else",
          "macro", "endm", "exitm", "local", "rept", "endr", "irp", "irpc", "include", "opt", "page", "title",
          "list", "nolist"}
directives(s, op, a, src) ==
    CASE op = "org" -> handle_org(s, a)
      [] op = "end" -> handle_end(s)
      [] op \in {"equ", "set", "defl"} -> handle_dummy_expr(s)
      [] op \in Bytes -> handle_d8(s, a)
      [] op \in Words -> handle_d16(s, a)
      [] op \in {"fcc", "defm"} -> handle_fcc(s, a)
      [] op = "fcs" -> handle_fcs(s, a)
      [] op \in Spaces -> handle_rmb(s, a)
      [] op = "aseg" -> handle_aseg(s)
      [] op = "cseg" -> handle_cseg(s)
      [] op = "dseg" -> handle_dseg(s)
      [] op = "section" -> handle_section(s, a)
      [] op \in {"if", "cond"} -> handle_cond(s, a)
      [] op = "ifeq" -> handle_ifeq(s, a)
      [] op = "ife" -> handle_ife(s, a)
      [] op = "ifne" -> handle_ifne(s, a)
      [] op = "ifgt" -> handle_ifgt(s, a)
      [] op = "ifge" -> handle_ifge(s, a)
      [] op = "iflt" -> handle_iflt(s, a)
      [] op = "ifle" -> handle_ifle(s, a)
      [] op = "if1" -> handle_ifp1(s)
      [] op = "if2" -> handle_ifp2(s)
      [] op = "ifdef" -> handle_ifd(s, a)
      [] op = "ifndef" -> handle_ifnd(s, a)
      [] op = "ifb" -> handle_ifb(s, a)
      [] op = "ifnb" -> handle_ifnb(s, a)
      [] op = "ifidn" -> handle_ifidn(s, a)
      [] op = "ifdif" -> handle_ifdif(s, a)
      [] op = "else" -> handle_else(s)
      [] op \in Endifs -> handle_endif(s)
      [] op = "macro" -> handle_macro(s, a)
      [] op = "endm" -> handle_endm(s)
      [] op = "exitm" -> handle_exitm(s)
      [] op = "local" -> handle_m80_local(s, a, src)
      [] op = "rept" -> handle_rept(s, a)
      [] op = "endr" -> handle_endr(s)
      [] op = "irp" -> handle_irp(s, a)
      [] op = "irpc" -> handle_irpc(s, a)
      [] op = "include" -> handle_include(s, a)
      [] op = "opt" -> handle_opt(s, a)
      [] op = "list" -> handle_list(s)
      [] op = "nolist" -> handle_nolist(s)
      [] OTHER -> handle_edtasm_page(s)
handle_directive(s, op, a, src) == IF op \in Names THEN directives(s, op, a, src)
                                   ELSE add_atom(s, "inst", <<0>>)

handle_iif(s, line) == E!handle_iif(s, line)
SkippedLine(s, line) == CASE line.iif # << >> -> s
                          [] line.op \in Ifs -> cond_skipif(s)
                          [] line.op = "else" -> cond_else(s)
                          [] line.op \in Endifs -> cond_endif(s)
                          [] OTHER -> s
Assign(s, line) == E!Assign(s, [line EXCEPT !.op = IF @ = "defl" THEN "set" ELSE @])
JustLabel(s, line) ==
    LET t == generate_invocation_locals(s, line.src)
        r == get_local_label(t, line.lab)
        name == IF r[1] = "glob" THEN Global(substitute_local_label(t, line.src, r[2])) ELSE r
    IN  E!Exported(new_label(t, name), name, line.exp)

Rest(s, op, a, src) == IF op = "" THEN s ELSE handle_directive(s, op, a, src)
\* One turn of the loop.
parse(s0, l0) ==
    LET s == [s0 EXCEPT !.fresh = NoName, !.req = << >>]
        g == generate_invocation_locals(s, l0.src)
        l == ExpandLine(g, l0)
        line == handle_iif(g, l)
        t == E!IifError(g, l)
        labelled == l.lab # << >>
        bare == labelled /\ line.op = "" /\ l.lab[1] = "word" /\ l.lab[2] \in Names
    IN  IF s.end \/ s.x.hung THEN s
        ELSE IF ~cond_state(s) THEN SkippedLine(g, l)
        ELSE IF labelled /\ line.op \in {"equ", "=", "set", "defl"} THEN Assign(t, line)
        ELSE IF labelled /\ line.op = "ttl" THEN [t EXCEPT !.x.filename = line.lab[2]]
        ELSE IF labelled /\ line.op = "macro" THEN DefineMacro(t, line.lab[2])
        ELSE Rest(IF labelled /\ ~bare THEN JustLabel(t, line) ELSE t, IF bare THEN l.lab[2] ELSE line.op, line.a, l.src)
Finish(s) == finalize_current_macro_locals(cond_check(s))
=============================================================================
