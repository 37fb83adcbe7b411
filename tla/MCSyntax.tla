------------------------------ MODULE MCSyntax ------------------------------
(***************************************************************************)
(* Programs of a few lines, one line at a time, for the syntax modules.    *)
(* What a program should do is defined here on its lines alone, by looking *)
(* back and forth in them, and compared with what the modules have done.   *)
(***************************************************************************)
EXTENDS Asm

CONSTANTS Themes     \* the groups of programs that are checked
VARIABLES theme,     \* the syntax and the lines the program is made of
          hist,      \* the lines so far
          n,         \* how many steps that took (a macro call is one)
          st         \* the assembler
vars == <<theme, hist, n, st>>

M == INSTANCE Merlin
S == INSTANCE Scmasm
E == INSTANCE Edtasm
E80 == INSTANCE EdtasmM80
O == INSTANCE Oldstyle
Mo == INSTANCE Mot
St == INSTANCE Std
Ma == INSTANCE Madmac

File == [id |-> 0, macro |-> NoName]
Line(lab, op, a) == [lab |-> lab, op |-> op, a |-> a, iif |-> << >>, exp |-> FALSE, src |-> File]
Op(op, a) == Line(<< >>, op, a)

\* "motalign" is the Motorola syntax with -align.
FirstState(syn) == CASE syn = "merlin" -> M!init_syntax [] syn = "scmasm" -> S!init_syntax
                      [] syn = "edtasm" -> E!init_syntax [] syn = "m80" -> E80!init_syntax
                      [] syn = "oldstyle" -> O!init_syntax [] syn = "mot" -> Mo!init_syntax
                      [] syn = "motalign" -> Mo!InitSyntax(Mo!syntax_args(Mo!Statics, "-align"))
                      [] syn = "std" -> St!InitSyntax(St!syntax_args(St!Statics, <<"-sdlimit", 2>>))
                      [] syn = "madmac" -> Ma!init_syntax
AfterLine(syn, s, l) == CASE syn = "merlin" -> M!parse(s, l) [] syn = "scmasm" -> S!parse(s, l)
                      [] syn = "edtasm" -> E!parse(s, l) [] syn = "m80" -> E80!parse(s, l)
                      [] syn = "oldstyle" -> O!parse(s, l) [] syn \in {"mot", "motalign"} -> Mo!parse(s, l)
                      [] syn = "std" -> St!parse(s, l) [] syn = "madmac" -> Ma!parse(s, l)
AfterText(syn, s) == CASE syn = "merlin" -> M!Finish(s) [] syn = "scmasm" -> S!Finish(s)
                    [] syn = "edtasm" -> E!Finish(s) [] syn = "m80" -> E80!Finish(s)
                    [] syn = "oldstyle" -> O!Finish(s) [] syn = "mot" -> Mo!Finish(s)
                    [] syn = "std" -> St!Finish(s) [] syn = "madmac" -> Ma!Finish(s)
-----------------------------------------------------------------------------
\* The lines of each theme; k is the number of the step.
AddressOp == [merlin |-> "dw", scmasm |-> "da", edtasm |-> "fdb", m80 |-> "dw", oldstyle |-> "word",
              mot |-> "dw", std |-> "word", madmac |-> "dc.w"]
ByteOp == [merlin |-> "db", scmasm |-> "db", edtasm |-> "fcb", m80 |-> "defb", oldstyle |-> "db",
           mot |-> "db", std |-> "byte", madmac |-> "dc.b"]
Label(lab) == Line(lab, "inst", << >>)
Refer(syn, r) == Op(AddressOp[syn], <<Ref(r)>>)
A == Global("a")
B == Global("b")
Loc == <<"loc", 1>>
Var == <<"var", "v">>
Priv == <<"priv", 1>>

LabelLines(syn) ==
    {Label(A), Label(B), Label(Loc), Refer(syn, Loc)} \cup
    CASE syn = "merlin" -> {Label(Var), Refer(syn, Var), Line(Var, "dw", <<Ref(Var)>>)}
      [] syn = "scmasm" -> {Label(Priv), Refer(syn, Priv), Op(">", <<Word("known")>>)}
      [] syn = "edtasm" -> {Refer(syn, <<"qual", "a", 1>>), Line(Global("c"), "equ", <<Ref(Loc)>>)}
      [] syn = "mot" -> {Op("inline", << >>), Op("einline", << >>), Op("local", << >>), Refer(syn, <<"qual", "a", 1>>)}
      [] syn = "oldstyle" -> {Op("inline", << >>), Op("einline", << >>), Refer(syn, <<"qual", "a", 1>>)}
      [] syn = "std" -> {Label(<<"digit", 1>>), Refer(syn, <<"b", 1>>), Line(<<"digit", 1>>, "word", <<Ref(<<"f", 1>>)>>)}
      [] syn = "madmac" -> {Line(Loc, "dc.w", <<Ref(Loc)>>)}
\* Anonymous labels, and references some labels back or ahead.
AnonLines == {Op("if", <<Val(0)>>), Op("endif", << >>), Label(<<"anon">>), Line(<<"anon">>, "word", <<Ref(<<"anon", "-", 0>>)>>)}
             \cup {Refer("oldstyle", <<"anon", "+", v>>) : v \in {0, 1}}
             \cup {Refer("oldstyle", <<"anon", "-", v>>) : v \in {0, -1}}

\* Macros of the M80 syntax with a LOCAL label, one of which calls the other.
Name(l) == Global(<<l>>)
In(id, m, l) == [l EXCEPT !.src = [id |-> id, macro |-> m]]
Inner(id) == <<In(id, <<"m">>, Op("local", <<Ref(Name("a"))>>)), In(id, <<"m">>, Label(Name("a"))),
               In(id, <<"m">>, Refer("m80", Name("a")))>>
Outer(id) == <<In(id, <<"n">>, Op("local", <<Ref(Name("c")), Ref(Name("a"))>>)),
               In(id, <<"n">>, Refer("m80", Name("a")))>>
             \o Inner(id + 1) \o
             <<In(id, <<"n">>, Label(Name("a"))), In(id, <<"n">>, Label(Name("c"))),
               In(id, <<"n">>, Refer("m80", Name("c")))>>
Calls(id) == {Inner(id), Outer(id), <<Label(Name("a"))>>, <<Refer("m80", Name("a"))>>,
             <<Line(Name("p"), "macro", << >>)>>, <<Op("local", <<Ref(Name("a"))>>)>>}

CondLines(syn, k) ==
    {Op(ByteOp[syn], <<Val(k)>>), Op("if", <<Val(0)>>), Op("else", << >>), Op("endif", << >>)} \cup
    CASE syn \in {"merlin", "scmasm"} -> {Op("do", <<Val(1)>>), Op("do", <<Val(0)>>)}
      [] syn = "edtasm" -> {Op("ifge", <<Val(0)>>), [Op("fcb", <<Val(k)>>) EXCEPT !.iif = <<Val(0)>>]}
      [] syn = "m80" -> {Op("ifdif", <<Word("a"), Word("b")>>), Op("ifb", <<Word("a")>>)}
      [] syn = "oldstyle" -> {Op("ifge", <<Val(0)>>), Op("ifnblank", << >>)}
      [] syn = "mot" -> {Op("ifge", <<Val(0)>>), [Op("db", <<Val(k)>>) EXCEPT !.iif = <<Val(0)>>]}
      [] syn = "std" -> {Op("ifge", <<Val(0)>>), Op("ifnb", << >>)}
      [] syn = "madmac" -> {Op("if", <<Val(1)>>), [Op("dc.b", <<Val(k)>>) EXCEPT !.iif = <<Val(0)>>]}

DummyLines(syn, k) ==
    {Op("db", <<Val(k)>>), Line(<<"glob", ToString(k)>>, "", << >>), Op("dend", << >>)} \cup
    CASE syn = "merlin" -> {Op("dummy", << >>), Line(<<"glob", ToString(k)>>, "ed", << >>), Op("dum", <<Val(64)>>),
                            Op("org", <<Val(256)>>)}
      [] syn = "scmasm" -> {Op("dummy", << >>), Line(<<"glob", ToString(k)>>, "ed", << >>)}
      [] syn = "oldstyle" -> {Op("dsect", << >>), Op("org", <<Val(256)>>)}

\* Structure and frame offsets.
Field(k, op, ext, count) == [lab |-> <<"glob", ToString(k)>>, op |-> op, a |-> <<Val(count)>>, iif |-> << >>,
                             exp |-> FALSE, src |-> File, ext |-> ext]
FieldLines(k) == {Field(k, op, ext, 1) : op \in {"rs", "fo"}, ext \in {"b", "w", "l"}}
                 \cup {Field(k, "rs", "b", 3), Op("rseven", << >>), Op("rsset", <<Val(7)>>)}

\* Sections, blocks for other addresses, and data of which some are aligned.
SectionLines(syn, k) ==
    {Op(ByteOp[syn], <<Val(k)>>), Line(<<"glob", ToString(k)>>, ByteOp[syn], <<Val(k)>>), Op("data", << >>)} \cup
    CASE syn = "mot" -> {Op("text", << >>), Op("pushsection", << >>), Op("popsection", << >>), Op("org", <<Val(256)>>)}
      [] syn = "madmac" -> {Op("text", << >>), Op("org", <<Val(256)>>), Op("68000", << >>)}
      [] syn = "std" -> {Op("pushsection", <<Word(".data")>>), Op("popsection", << >>)}
                        \cup {Op("lcomm", <<Ref(<<"glob", ToString(k)>>), Val(v)>>) : v \in {1, 2, 3}}

Chars == {65, 48, 90}
TextsUpTo(max) == UNION {[1..k -> Chars] : k \in 1..max}
StringOps(syn) == CASE syn = "merlin" -> {"asc", "dci", "inv", "rev", "str", "strl", "az"}
                    [] syn = "scmasm" -> {"as", "az", "at", "ps", "cs"}
                    [] syn \in {"edtasm", "m80"} -> {"fcc", "fcs"}
                    [] syn = "oldstyle" -> {"ascii", "string", "str", "fcs"}
                    [] syn = "std" -> {"ascii", "asciz"}
                    [] syn = "mot" -> {"db"}
                    [] syn = "madmac" -> {"dc.b"}
Delims(syn) == CASE syn \in {"edtasm", "m80"} -> {47, 39} [] syn = "std" -> {34} [] OTHER -> {34, 39}
StringLines(syn) == {Op(op, <<Str(d, t)>>) : op \in StringOps(syn), d \in Delims(syn), t \in TextsUpTo(3)}
\* Packed texts: the tables, and messages of their characters.
Table1 == <<65, 66, 32>>
PackLines == {Op("ac", <<Val(1), Str(39, Table1)>>), Op("ac", <<Val(2), Str(39, <<88, 89>>)>>),
              Op("ac", <<Val(3), Str(39, <<90, 48>>)>>), Op("ac", <<Val(0)>>)}
             \cup {Op("ac", <<Str(39, t)>>) : t \in {<<65>>, <<66, 88>>, <<90, 65>>, <<50, 66>>}}

Sizes == {0, 16, 32, 48}
SizeLines == {Op("rep", <<Val(v)>>) : v \in Sizes} \cup {Op("sep", <<Val(v)>>) : v \in Sizes}
             \cup {Op("mx", <<Val(v)>>) : v \in {0, 1, 2}} \cup {Op("xc", << >>), Op("xc", <<Word("off")>>)}

\* Characters: a quote, a letter, a digit, H, an ampersand and a blank.
LineChars == {39, 65, 49, 72, 38, 32}
TextLines == {Op("chars", <<c>>) : c \in LineChars}

Items(k) ==
    LET One(lines) == {<<l>> : l \in lines} IN
    CASE theme.kind = "labels" -> One(LabelLines(theme.syn))
      [] theme.kind = "anon" -> One(AnonLines)
      [] theme.kind = "fields" -> One(FieldLines(k))
      [] theme.kind = "sections" -> One(SectionLines(theme.syn, k))
      [] theme.kind = "calls" -> Calls(2 * k)
      [] theme.kind = "cond" -> One(CondLines(theme.syn, k))
      [] theme.kind = "dummy" -> One(DummyLines(theme.syn, k))
      [] theme.kind = "strings" -> One(StringLines(theme.syn))
      [] theme.kind = "pack" -> One(PackLines)
      [] theme.kind = "sizes" -> One(SizeLines)
      [] theme.kind = "text" -> One(TextLines)

Theme(syn, kind, first, len) == [syn |-> syn, kind |-> kind, first |-> first, len |-> len]
AllThemes ==
    {Theme(syn, "labels", <<Label(A)>>, 5) : syn \in {"merlin", "scmasm", "edtasm", "oldstyle", "mot", "std", "madmac"}}
    \cup {Theme("m80", "calls", << >>, 4), Theme("oldstyle", "anon", << >>, 5)}
    \cup {Theme(syn, "cond", << >>, 5) :
              syn \in {"merlin", "scmasm", "edtasm", "m80", "oldstyle", "mot", "std", "madmac"}}
    \cup {Theme(syn, "dummy", <<Op("db", <<Val(9)>>)>>, 5) : syn \in {"merlin", "scmasm", "oldstyle"}}
    \cup {Theme(syn, "strings", << >>, 1) :
              syn \in {"merlin", "scmasm", "edtasm", "m80", "oldstyle", "mot", "std", "madmac"}}
    \cup {Theme(syn, "fields", << >>, 4) : syn \in {"mot", "motalign"}}
    \cup {Theme(syn, "sections", <<Op("text", << >>)>>, 5) : syn \in {"mot", "std", "madmac"}}
    \cup {Theme("scmasm", "pack", << >>, 4), Theme("merlin", "sizes", << >>, 4), Theme("m80", "text", << >>, 5)}

Assembled(syn, s, lines) == FoldLeft(LAMBDA r, l : IF l.op = "chars" THEN r ELSE AfterLine(syn, r, l), s, lines)
Init == /\ n = 0 /\ hist = << >>
        /\ \E t \in Themes : theme = t /\ st = FirstState(t.syn)
\* The next line, or the next call with all of its lines; behind the first line
\* of the theme.
Unbegun == hist = << >> /\ theme.first # << >>
Read == /\ n < theme.len
        /\ n' = IF Unbegun THEN 0 ELSE n + 1
        /\ \E it \in (IF Unbegun THEN {theme.first} ELSE Items(n + 1)) :
               hist' = hist \o it /\ st' = Assembled(theme.syn, st, it)
        /\ UNCHANGED theme
Spec == Init /\ [][Read]_vars
-----------------------------------------------------------------------------
Lines == DOMAIN hist
Is(kind) == theme.kind = kind
Bytes(s) == FlattenSeq([i \in DOMAIN s.secs |-> IF Has(s, i, "unalloc") THEN << >>
                                               ELSE FlattenSeq([k \in DOMAIN s.secs[i].atoms |-> s.secs[i].atoms[k].b])])

-----------------------------------------------------------------------------
Opening == {"if", "do", "ifge", "ifdif", "ifb", "ifnb", "ifnblank"}
CondHolds(l) == CASE l.op = "ifge" -> TRUE [] l.op = "ifdif" -> TRUE [] l.op \in {"ifb", "ifnb", "ifnblank"} -> FALSE
                  [] OTHER -> l.a[1].v # 0
Depth(i) == Cardinality({j \in 1..i : hist[j].op \in Opening}) - Cardinality({j \in 1..i : hist[j].op = "endif"})
Balanced == \A i \in Lines : Depth(i) >= (IF hist[i].op = "else" THEN 1 ELSE 0)
\* The conditionals a line is inside of, and how many ELSE lie in between.
Around(i) == {j \in 1..i - 1 : hist[j].op \in Opening /\ \A k \in j..i : Depth(k) >= Depth(j)}
Elses(j, i) == Cardinality({k \in j..i : hist[k].op = "else" /\ Depth(k) = Depth(j)})
Chosen(i) == \A j \in Around(i) : Elses(j, i) = (IF CondHolds(hist[j]) THEN 0 ELSE 1)
\* Lines that conditional assembly leaves out have no labels and no references.
Live(i) == ~Is("anon") \/ Chosen(i)

AddressOps == {"dw", "da", "fdb", "word", "dc.w"}
Size(l) == IF l.op = "inst" THEN IF theme.syn \in {"mot", "std", "madmac"} THEN 2 ELSE 1
           ELSE IF l.op \in AddressOps THEN 2 ELSE 0
Addr(i) == FoldLeft(LAMBDA v, j : v + (IF Live(j) THEN Size(hist[j]) ELSE 0), 0, [j \in 1..i - 1 |-> j])
References == {i \in Lines : hist[i].op \in AddressOps /\ Live(i)}
Target(i) == hist[i].a[1].v
Defines(i, lab) == hist[i].lab = lab /\ hist[i].op # "macro" /\ Live(i)
MaxOf(set) == CHOOSE i \in set : \A j \in set : j <= i
MinOf(set) == CHOOSE i \in set : \A j \in set : i <= j
\* The INLINE blocks a line is in, outermost first.
Inlines[i \in Nat] ==
    IF i = 0 THEN << >>
    ELSE CASE hist[i].op = "inline" -> Append(Inlines[i - 1], i)
           [] hist[i].op = "einline" /\ Inlines[i - 1] # << >> -> Front(Inlines[i - 1])
           [] OTHER -> Inlines[i - 1]
\* The scope of a line starts at the last global label, on the line itself too, or
\* the last LOCAL or INLINE.  EINLINE returns to the block around it, or to the scope
\* in front of the outermost one.
ScopeOf[i \in Nat] ==
    CASE i = 0 -> 0
      [] i > 0 /\ hist[i].op \in {"inline", "local"} /\ ~Is("calls") -> i
      [] i > 0 /\ hist[i].lab # << >> /\ hist[i].lab[1] = "glob" /\ hist[i].op # "equ" -> i
      [] i > 0 /\ hist[i].op = "einline" /\ Inlines[i - 1] # << >> ->
             IF Inlines[i] # << >> THEN Last(Inlines[i]) ELSE ScopeOf[Last(Inlines[i - 1]) - 1]
      [] OTHER -> ScopeOf[i - 1]
\* Private labels also end their scope at a macro call.
PrivateScope(i) == MaxOf({ScopeOf[i]} \cup {j \in 1..i : hist[j].op = ">"})
\* The k-th of a set of lines, from its start or from its end.
Ahead(set, k) == {j \in set : Cardinality({x \in set : x <= j}) = k}
Back(set, k) == {j \in set : Cardinality({x \in set : x >= j}) = k}
Candidates(i) ==
    LET r == Target(i)
        all == {j \in Lines : Defines(j, r)}
        before == {j \in all : j <= i}
        digits == {j \in Lines : Defines(j, <<"digit", r[2]>>)}
        anons == {j \in Lines : Defines(j, <<"anon">>)}
    IN  CASE r[1] = "loc" -> {j \in all : ScopeOf[j] = ScopeOf[i]}
          [] r[1] = "priv" -> {j \in all : PrivateScope(j) = PrivateScope(i)}
          [] r[1] = "qual" -> {j \in Lines : Defines(j, <<"loc", r[3]>>) /\ ScopeOf[j] # 0
                                             /\ hist[ScopeOf[j]].lab = Global(r[2])}
          [] r[1] = "var" -> IF before # {} THEN {MaxOf(before)} ELSE IF all # {} THEN {MinOf(all)} ELSE {}
          [] r[1] = "b" -> Back({j \in digits : j <= i}, 1)
          [] r[1] = "f" -> Ahead({j \in digits : j > i}, 1)
          [] r[1] = "anon" -> IF r[2] = "+" THEN Ahead({j \in anons : j > i}, 1 + r[3])
                              ELSE Back({j \in anons : j <= i}, 1 - r[3])
          [] OTHER -> {j \in all : hist[j].src = hist[i].src}
\* The symbol the assembler took: the k-th reference is the k-th datum.
Taken(i) == LET IsRef(x) == x.t = "datadef"
                data == SelectSeq(FlattenSeq([k \in DOMAIN st.secs |-> st.secs[k].atoms]), IsRef)
            IN  data[Cardinality({j \in References : j <= i})].ref

\* Two labels of one name in one scope (variable labels may be defined again).
ScopeFor(j) == CASE hist[j].lab[1] = "loc" -> ScopeOf[j]
                 [] hist[j].lab[1] = "priv" -> PrivateScope(j)
                 [] OTHER -> hist[j].src.id
Labels == {j \in Lines : hist[j].lab # << >> /\ hist[j].lab[1] \notin {"var", "anon", "digit"} /\ hist[j].op # "macro"}
Clash == \E i, j \in Labels : i # j /\ hist[i].lab = hist[j].lab /\ ScopeFor(i) = ScopeFor(j)

\* A reference takes the label of its own scope: the local label of the global one
\* in front of it, the latest variable label or, ahead of the first, the first one,
\* the LOCAL label of its own macro call.  If there is none the symbol stays
\* undefined; labels of one scope that clash, and only they, are reported.
ReferencesBind ==
    Is("labels") \/ (Is("anon") /\ Balanced) \/ Is("calls") =>
        /\ (st.errs \cap {67, 74} # {}) <=> Clash
        /\ ~Clash => \A i \in References :
               LET c == Candidates(i)
               IN  IF c = {} THEN Type(st, Taken(i)) # "label"
                   ELSE Type(st, Taken(i)) = "label" /\ st.syms[Taken(i)].val = Addr(CHOOSE j \in c : TRUE)

-----------------------------------------------------------------------------
Dummies == {"dummy", "dum", "dsect"}
InDummy(i) == LET marks == {j \in 1..i : hist[j].op \in Dummies \cup {"dend", "ed"}}
              IN  marks # {} /\ hist[MaxOf(marks)].op \in Dummies
IsByte(i) == hist[i].op \in {"db", "fcb", "defb", "byte", "dc.b"}
Written(i) == IsByte(i) /\ hist[i].iif = << >>
              /\ IF Is("cond") THEN Chosen(i) ELSE ~InDummy(i)

\* The section behind a line; a pop returns to the one in front of its push.
Pushes[i \in Nat] ==
    IF i = 0 THEN << >>
    ELSE CASE hist[i].op = "pushsection" -> Append(Pushes[i - 1], i)
           [] hist[i].op = "popsection" /\ Pushes[i - 1] # << >> -> Front(Pushes[i - 1])
           [] OTHER -> Pushes[i - 1]
SectionAt[i \in Nat] ==
    CASE hist[i].op \in {"text", "data"} -> hist[i].op
      [] hist[i].op = "pushsection" /\ hist[i].a # << >> -> "data"
      [] hist[i].op = "popsection" /\ Pushes[i - 1] # << >> -> SectionAt[Last(Pushes[i - 1]) - 1]
      [] OTHER -> SectionAt[i - 1]
SectionName(key) == CASE theme.syn = "mot" -> IF key = "text" THEN Mo!code_name ELSE Mo!data_name
                      [] OTHER -> <<"sec", "." \o key>>
BytesIn(key) == IF ~Exists(st, SectionName(key)) THEN << >>
                ELSE LET atoms == st.secs[SectionNamed(st, SectionName(key))].atoms
                     IN  FlattenSeq([k \in DOMAIN atoms |-> atoms[k].b])

\* The output is what the data lines say that conditional assembly chooses and no
\* dummy section holds, in their order, every section with its own; and the end of the
\* source is complained about if and only if a conditional or a dummy section is open
\* there.
OutputAsWritten ==
    /\ (Is("cond") /\ Balanced) \/ Is("dummy") =>
           /\ Bytes(st) = FlattenSeq([i \in Lines |-> IF Written(i) THEN LE(hist[i].a[1].v, 1) ELSE << >>])
           /\ (AfterText(theme.syn, st).errs # st.errs)
                <=> (Is("cond") /\ Depth(Len(hist)) > 0) \/ (Is("dummy") /\ InDummy(Len(hist)))
    /\ Is("sections") => \A key \in {"text", "data"} :
           BytesIn(key) = FlattenSeq([i \in Lines |-> IF IsByte(i) /\ SectionAt[i] = key
                                                      THEN LE(hist[i].a[1].v, 1) ELSE << >>])

\* The offset in front of a line of a dummy section: it starts where DUM or ORG
\* says, or where the last dummy section was ended.
Offset[i \in Nat] ==
    LET d == MaxOf({j \in 1..i : hist[j].op \in Dummies \cup {"org"}})
        ends == {j \in 2..d - 1 : hist[j].op \in {"dend", "ed"} /\ InDummy(j - 1)}
        start == CASE hist[d].op = "dum" -> 64 [] hist[d].op = "org" -> 256
                   [] OTHER -> IF ends = {} THEN 0 ELSE Offset[MaxOf(ends)]
    IN  start + Cardinality({j \in d..i - 1 : hist[j].op = "db"})
DummyLabels == {i \in Lines : hist[i].lab # << >> /\ hist[i].op = "" /\ InDummy(i)}
\* The address in a section: bytes since its start, or from the address of the ORG
\* whose block is still open (the next section, ORG or .68000 given there ends it).
BytesBetween(j, i) == Cardinality({k \in j + 1..i - 1 : IsByte(k) /\ SectionAt[k] = SectionAt[i]})
OrgBefore(i) ==
    {j \in 2..i - 1 : /\ hist[j].op = "org" /\ SectionAt[j] = SectionAt[i]
                      /\ \A k \in j + 1..i - 1 : hist[k].op \in {"org", "text", "data", "68000"}
                                                => SectionAt[k - 1] # SectionAt[i]}
AddressOf(i) == IF OrgBefore(i) = {} THEN BytesBetween(0, i)
                ELSE 256 + BytesBetween(CHOOSE j \in OrgBefore(i) : TRUE, i)

\* Fields one behind the other: each at the least offset that is free and aligned.
ValueAt(i) == st.syms[hist[i].lab].val
Least(v, align) == v + ((align - (v % align)) % align)
FieldSize(i) == hist[i].a[1].v * (CASE hist[i].ext = "b" -> 1 [] hist[i].ext = "w" -> 2 [] OTHER -> 4)
FieldAlign(i) == IF theme.syn = "motalign" /\ hist[i].ext # "b" THEN 2 ELSE 1
RsEnd[i \in Nat] == IF i = 0 THEN 0
                    ELSE CASE hist[i].op = "rs" -> ValueAt(i) + FieldSize(i)
                           [] hist[i].op = "rsset" -> 7
                           [] hist[i].op = "rseven" -> Least(RsEnd[i - 1], 2)
                           [] OTHER -> RsEnd[i - 1]
FoEnd(i) == LET f == {j \in 1..i - 1 : hist[j].op = "fo"} IN IF f = {} THEN 0 ELSE ValueAt(MaxOf(f))
\* Uninitialised data, of two bytes at most in the section for small data.
Commons == {i \in Lines : hist[i].op = "lcomm"}
CommonSize(i) == hist[i].a[2].v
CommonEnd(i) == LET c == {j \in Commons : j < i /\ (CommonSize(j) <= 2) = (CommonSize(i) <= 2)}
                IN  IF c = {} THEN 0 ELSE st.syms[hist[MaxOf(c)].a[1].v].val + CommonSize(MaxOf(c))

-----------------------------------------------------------------------------
Low(bytes) == [i \in DOMAIN bytes |-> bytes[i] % 128]
FirstWhere(bytes, P(_)) == MinOf({i \in DOMAIN bytes : P(bytes[i])})
\* How a program reads the text again: to its length, to a zero, to the character
\* whose bit 7 differs.
ReadBack(op, b) ==
    CASE theme.syn = "oldstyle" /\ op = "str" -> Low(SubSeq(b, 1, FirstWhere(b, LAMBDA c : c = 13) - 1))
      [] op \in {"str", "ps"} -> Low(SubSeq(b, 2, 1 + b[1]))
      [] op = "strl" -> Low(SubSeq(b, 3, 2 + b[1] + 256 * b[2]))
      [] op \in {"az", "string", "asciz"} -> Low(SubSeq(b, 1, FirstWhere(b, LAMBDA c : c = 0) - 1))
      [] op \in {"dci", "at"} -> IF Len(b) < 2 THEN Low(b)
                                 ELSE Low(SubSeq(b, 1, FirstWhere(b, LAMBDA c : HighBit(c) # HighBit(b[1]))))
      [] op = "fcs" -> Low(SubSeq(b, 1, FirstWhere(b, LAMBDA c : HighBit(c))))
      [] op = "rev" -> Low(Reverse(b))
      [] OTHER -> Low(b)
\* Reading packed texts: one nibble, or zeros and one, with the tables of the time.
NibblesOf(b) == FlattenSeq([i \in DOMAIN b |-> <<b[i] \div 16, b[i] % 16>>])
Unpack(ns) ==
    FoldLeft(LAMBDA r, v : IF v = 0 THEN [r EXCEPT !.z = @ + 1]
                           ELSE [z |-> 0, out |-> Append(r.out, <<r.z + 1, v>>)],
             [z |-> 0, out |-> << >>], ns).out
PackCode(c) == IF c = 50 THEN <<<<1, 3>>, <<1, 3>>>>
               ELSE <<CASE c = 65 -> <<1, 1>> [] c = 66 -> <<1, 2>> [] c = 88 -> <<2, 1>> [] c = 90 -> <<3, 1>>>>
Known3 == \A i \in Lines : hist[i].a[1].t = "str" =>
              \A k \in 1..3 : \E j \in 1..i : hist[j].a[1] = Val(k)
NoReset == \A i \in Lines : hist[i].a[1] # Val(0)

\* What a string directive writes, read the way such strings are read, is the text
\* again; packed texts of several directives are one text, up to a nibble that waits.
StringsReadBack ==
    /\ Is("strings") =>
           \A i \in Lines : LET p == hist[i].a[1] IN
               \/ ReadBack(hist[i].op, Bytes(st)) = p.v
               \/ hist[i].op = "at" /\ Len(p.v) = 1 /\ Bytes(st) = << >>
    /\ Is("pack") /\ Known3 /\ NoReset =>
           LET text == FlattenSeq([i \in Lines |-> IF hist[i].a[1].t = "str" THEN hist[i].a[1].v ELSE << >>])
               left == IF st.x.ac_nibble_flag = 1 THEN <<st.x.ac_pending_nibble>> ELSE << >>
           IN  Unpack(NibblesOf(Bytes(st)) \o left) = FlattenSeq([i \in DOMAIN text |-> PackCode(text[i])])
-----------------------------------------------------------------------------
\* The line that decided a register size last: MX and XC OFF both, REP and SEP those
\* whose flag is in the mask, if the processor is a 65816 by then.
XCs(i) == LET offs == {0} \cup {j \in 1..i - 1 : hist[j].op = "xc" /\ hist[j].a # << >>}
          IN  Cardinality({j \in MaxOf(offs) + 1..i - 1 : hist[j].op = "xc"})
Is65816(i) == LET sets == {j \in 1..i - 1 : hist[j].op \in {"mx", "xc"}}
              IN  sets # {} /\ LET l == hist[MaxOf(sets)] IN
                  l.op = "mx" \/ (l.a = << >> /\ XCs(i) >= 2)
Decides(i, flag) == \/ hist[i].op = "mx" \/ (hist[i].op = "xc" /\ hist[i].a # << >>)
                    \/ hist[i].op \in {"rep", "sep"} /\ (hist[i].a[1].v \div flag) % 2 = 1 /\ Is65816(i)
SizeBy(i, flag) == CASE hist[i].op = "mx" -> IF (hist[i].a[1].v \div (flag \div 16)) % 2 = 1 THEN 8 ELSE 16
                     [] hist[i].op = "rep" -> 16
                     [] OTHER -> 8
ExpectedSize(flag) == LET d == {i \in Lines : Decides(i, flag)} IN IF d = {} THEN 8 ELSE SizeBy(MaxOf(d), flag)
\* The sizes of accumulator and index registers follow the last line that set them.
RegisterSizes == Is("sizes") => st.x.asize = ExpectedSize(32) /\ st.x.xsize = ExpectedSize(16)
-----------------------------------------------------------------------------
Typed == [i \in Lines |-> hist[i].a[1]] \o << >>
QuotedAt(line, i) == Cardinality({j \in 1..i - 1 : line[j] = 39}) % 2 = 1
Inside(line) == SelectSeq([i \in DOMAIN line |-> IF QuotedAt(line, i) \/ line[i] = 39 THEN line[i] ELSE 0] \o << >>,
                          LAMBDA c : c # 0)
\* The passes of the M80 syntax over the characters of a line leave what is between
\* quotes alone, and nothing of an ampersand or of an H behind digits is left outside.
QuotedTextKept ==
    Is("text") => LET out == E80!convert_hex_suffix(E80!preprocess_concatenation(Typed)) IN
                  /\ Inside(out) = Inside(Typed)
                  /\ \A i \in DOMAIN out : out[i] = 38 => QuotedAt(out, i)
                  /\ \A i \in 1..Len(out) - 1 :
                         out[i] = 49 /\ out[i + 1] = 72 /\ i + 1 = Len(out) => QuotedAt(out, i)
=============================================================================
