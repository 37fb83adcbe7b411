------------------------------ MODULE MCSource ------------------------------
(***************************************************************************)
(* Structured programs for the source stack, their lines, and what they    *)
(* should assemble to: Exec is the meaning of a program by its structure,  *)
(* without a stack of instances, pointers or counters.                     *)
(***************************************************************************)
EXTENDS Source

Num(v) == [t |-> "num", v |-> v]
Arg(i) == [t |-> "arg", v |-> i]
Name(n) == [t |-> "name", v |-> n]
Reptn == [t |-> "reptn", v |-> 0]

D(x) == [op |-> "data", x |-> x]
IfDo(x, body) == [op |-> "if", x |-> x, body |-> body]
Def(m, names, defaults, vararg, body) ==
    [op |-> "macro", name |-> m, argnames |-> names, defaults |-> defaults, vararg |-> vararg, body |-> body]
Call(m, xs) == [op |-> "call", name |-> m, args |-> [i \in DOMAIN xs |-> [key |-> "", x |-> xs[i]]]]
CallKey(m, k, x) == [op |-> "call", name |-> m, args |-> <<[key |-> k, x |-> x]>>]
Rept(x, body) == [op |-> "rept", name |-> "", x |-> x, vals |-> << >>, body |-> body]
Irp(n, xs, body) == [op |-> "irp", name |-> n, x |-> Num(0), vals |-> xs, body |-> body]
Mexit == [op |-> "mexit"]
Undef(m) == [op |-> "undef", name |-> m]
Inc(f) == [op |-> "include", name |-> f]
Empty == [op |-> "blank"]

EndOf == [macro |-> "endm", rept |-> "endr", irp |-> "endr", if |-> "endif"]

RECURSIVE Lines(_)
Lines(body) ==
    IF body = << >> THEN << >>
    ELSE LET s == Head(body) IN
         (IF s.op \in DOMAIN EndOf /\ "body" \in DOMAIN s
          THEN <<s>> \o Lines(s.body) \o <<[op |-> EndOf[s.op]]>> ELSE <<s>>) \o Lines(Tail(body))

-----------------------------------------------------------------------------
\* Programs with two macros, the second of which is called by the first, and a
\* file that is included from everywhere and may redefine or remove them.
Stmts == <<D(Arg(1)), D(Reptn), Mexit, Inc("f"), Call("n", <<Arg(1)>>),
           IfDo(Arg(1), <<D(Num(1)), Mexit>>),
           Rept(Num(2), <<D(Arg(1)), Mexit>>),
           Rept(Num(2), <<Rept(Arg(1), <<D(Reptn)>>), D(Reptn)>>),
           Rept(Arg(1), <<Inc("f"), Call("n", <<Reptn>>)>>),
           Irp("x", <<Num(3), Arg(1)>>, <<D(Name("x")), Call("n", <<Name("x")>>)>>),
           IfDo(Arg(1), <<Call("m", <<Num(0)>>)>>)>>
Plain(m, body) == Def(m, << >>, << >>, -1, body)
FBodies == <<<<D(Num(7))>>, <<Plain("m", <<D(Num(9))>>), D(Reptn)>>,
             <<Undef("n"), Mexit>>, <<Plain("n", <<D(Reptn), D(Arg(1))>>)>>>>
NBody == <<Rept(Num(2), <<D(Arg(1))>>), D(Reptn)>>
Mains == <<<<Call("m", <<Num(1)>>), Call("m", <<Num(0)>>)>>,
           <<Rept(Num(2), <<Call("m", <<Reptn>>)>>), Inc("f"), Call("m", <<Num(2)>>)>>>>

Nested ==
    LET ns == Len(Stmts)
        nf == Len(FBodies)
    IN  [i \in 1..(ns * ns * nf * Len(Mains)) |->
           LET a == (i - 1) % ns
               b == ((i - 1) \div ns) % ns
               c == ((i - 1) \div (ns * ns)) % nf
               d == (i - 1) \div (ns * ns * nf)
           IN  [main |-> <<Plain("m", <<Stmts[a + 1], Stmts[b + 1]>>), Plain("n", NBody)>>
                           \o Mains[d + 1] \o <<D(Reptn)>>,
                f |-> FBodies[c + 1]]]

\* Arguments by position, by keyword, too many, too few and the variable one.
Defaults == <<<<<<4>>, Required>>, <<<< >>, <<5>>>>>>
Calls == <<Call("m", << >>), Call("m", <<Num(1)>>), Call("m", <<Num(1), Num(2), Num(3)>>),
           CallKey("m", "b", Num(8)), CallKey("m", "c", Num(8))>>
Named ==
    [i \in 1..20 |->
       [main |-> <<Def("m", <<"a", "b">>, Defaults[1 + (i % 2)], IF i > 10 THEN 1 ELSE -1,
                       <<Empty, D(Name("b")), D(Arg(2)), Empty, D(Name("a")), D(Arg(3))>>),
                   Calls[1 + (i % 5)], D(Name("a"))>>,
        f |-> << >>]]

\* What is wrong: recursion without an end, definitions in a macro or a
\* repetition, directives that are out of place, a file that is not there,
\* repetitions without an end, macros with the names of other things.
Opening == [op |-> "rept", name |-> "", x |-> Num(2), vals |-> << >>]
Wrong == <<
    [main |-> <<Plain("m", <<D(Num(1)), Call("m", << >>)>>), Call("m", << >>)>>, f |-> << >>],
    [main |-> <<Rept(Num(2), <<D(Num(1)), Plain("m", <<D(Num(2))>>)>>)>>, f |-> << >>],
    [main |-> <<IfDo(Num(0), <<IfDo(Num(1), <<Plain("m", <<D(Num(2))>>)>>), Mexit>>),
                Mexit, Undef("m"), [op |-> "endm"], [op |-> "endr"], [op |-> "endif"], D(Num(1))>>, f |-> << >>],
    [main |-> <<D(Num(1)), Inc("f")>>, f |-> << >>],
    [main |-> <<Opening, D(Num(1))>>, f |-> << >>],
    [main |-> <<D(Num(1)), Opening, Empty>>, f |-> << >>],
    [main |-> <<D(Num(1)), Opening, Empty, Empty, Empty>>, f |-> << >>],
    [main |-> <<Plain("m", <<Call("n", << >>)>>), Plain("nop", <<D(Num(1))>>), Plain("org", <<D(Num(2))>>),
                Undef("nop"), Call("m", << >>), Plain("n", <<D(Num(3))>>), Call("m", << >>)>>, f |-> << >>]>>

\* A program is its number here; f may be missing.
AllFiles == Nested \o Named \o Wrong
AllLines == [i \in DOMAIN AllFiles |-> [main |-> Lines(AllFiles[i].main), f |-> Lines(AllFiles[i].f)]] \o << >>
MCPrograms == DOMAIN AllFiles
MCAvailable(p) == {"main"} \cup (IF AllFiles[p].f = << >> THEN {} ELSE {"f"})
MCIgnore(p) == p % 2 = 0
MCText(p, f) == AllLines[p][f]

\* A definition without an end can be the last thing in the main source.
EndsOpen(q) == \E i \in DOMAIN q : q[i] = Opening /\ ~Nonblank(q, i + 1, Len(q))
ASSUME MCProgramsAssumption ==
    \A p \in Programs : \A f \in FilesOf(p) :
        DefinitionsInOneText(Text(p, f)) \/ (f = Main /\ EndsOpen(Text(p, f)))
-----------------------------------------------------------------------------
\* The context of a statement: where it is, what its arguments are.
Top == [where |-> "file", args |-> << >>, names |-> << >>, irp |-> "", irpval |-> << >>,
        reptn |-> -1, active |-> << >>]

Meaning(ctx, x) ==
    CASE x.t = "num" -> <<x.v>>
      [] x.t = "arg" -> IF x.v <= Len(ctx.args) THEN ctx.args[x.v] ELSE << >>
      [] x.t = "name" -> IF x.v \in ToSet(ctx.names) THEN ctx.args[Index(ctx.names, x.v)]
                         ELSE IF x.v = ctx.irp THEN ctx.irpval ELSE Undefined
      [] x.t = "reptn" -> <<ctx.reptn>>

\* The value of argument i of a call: by keyword or by position, else the default.
ArgOf(m, texts, args, i) ==
    LET n == IF i <= Len(m.argnames) THEN m.argnames[i] ELSE ""
        keyed == {j \in DOMAIN args : args[j].key # "" /\ args[j].key = n}
        default == IF i <= Len(m.defaults) /\ m.defaults[i] # Required THEN m.defaults[i] ELSE << >>
        plain == \A j \in DOMAIN args : args[j].key = ""
    IN  IF keyed # {} THEN texts[CHOOSE j \in keyed : TRUE]
        ELSE IF plain /\ m.vararg = i - 1 /\ i <= Len(texts)
        THEN FlattenSeq(SubSeq(texts, i, Len(texts)))
        ELSE IF plain /\ i <= Len(texts) /\ texts[i] # << >> THEN texts[i] ELSE default

RECURSIVE Exec(_, _, _), Do(_, _, _), Iterate(_, _, _, _)
Exec(ctx, body, st) ==
    IF body = << >> \/ st.status # "ok" THEN st
    ELSE IF Head(body) = Opening
    THEN IF Len(Tail(body)) <= enddir_minlen /\ \A i \in DOMAIN Tail(body) : Tail(body)[i] = Empty
         THEN st ELSE [st EXCEPT !.status = "fatal"]
    ELSE Exec(ctx, Tail(body), Do(ctx, Head(body), st))

Iterate(ctx, s, k, st) ==
    LET cnt == IF s.op = "irp" THEN Len(s.vals) ELSE CountOf(Meaning(ctx, s.x))
        inner == [ctx EXCEPT !.where = "rept", !.reptn = k, !.irp = s.name,
                             !.irpval = IF s.op = "irp" THEN Meaning(ctx, s.vals[k + 1]) ELSE << >>]
    IN  IF k >= cnt THEN st ELSE Iterate(ctx, s, k + 1, Exec(inner, s.body, st))

Do(ctx, s, st) ==
    CASE s.op = "data" -> [st EXCEPT !.out = Append(@, Meaning(ctx, s.x))]
      [] s.op = "if"   -> IF Meaning(ctx, s.x) = Zero THEN st ELSE Exec(ctx, s.body, st)
      [] s.op = "macro" -> IF ctx.where # "file" THEN [st EXCEPT !.status = "fatal"]
                           ELSE IF s.name \in mnemonics \cup directives THEN st
                           ELSE [st EXCEPT !.macros = (s.name :> s) @@ @]
      [] s.op = "undef" -> [st EXCEPT !.macros = Restrict(@, DOMAIN @ \ {s.name})]
      [] s.op = "mexit" -> IF ctx.where = "macro" THEN [st EXCEPT !.status = "exit"] ELSE st
      [] s.op \in {"blank", "endm", "endr", "endif"} -> st
      [] s.op \in {"rept", "irp"} -> Iterate(ctx, s, 0, st)
      [] s.op = "include" ->
            IF s.name \notin MCAvailable(prog) THEN [st EXCEPT !.status = "fatal"]
            ELSE IF ignore_multinc(prog) /\ s.name \in st.read THEN st
            ELSE Exec([Top EXCEPT !.reptn = ctx.reptn, !.active = ctx.active],
                      AllFiles[prog][s.name], [st EXCEPT !.read = @ \cup {s.name}])
      [] s.op = "call" ->
            IF s.name \notin DOMAIN st.macros THEN st
            ELSE LET m == st.macros[s.name]
                     texts == [i \in DOMAIN s.args |-> Meaning(ctx, s.args[i].x)]
                     n == IF m.argnames # << >> THEN Len(m.argnames) ELSE Len(texts)
                     inner == [Top EXCEPT !.where = "macro", !.reptn = ctx.reptn, !.names = m.argnames,
                                          !.args = [i \in 1..n |-> ArgOf(m, texts, s.args, i)],
                                          !.active = Append(ctx.active, m)]
                     r == Exec(inner, m.body, st)
                 IN  IF Len(SelectSeq(ctx.active, LAMBDA x : x = m)) >= maxmacrecurs
                     THEN [st EXCEPT !.status = "fatal"]
                     ELSE [r EXCEPT !.status = IF @ = "exit" THEN "ok" ELSE @]

Expected == Exec(Top, AllFiles[prog][Main], [out |-> << >>, macros |-> << >>, read |-> {Main}, status |-> "ok"])

\* A program assembles to what its structure says, and is given up exactly when
\* a macro is defined in a macro or a repetition or recurs too deep, a file is
\* missing, or a definition has no end (unless nothing is left to look in): whatever
\* the order in which instances are pushed, repeated, left early and popped.
ExpansionRight ==
    /\ phase = "end" => emitted = Expected.out /\ Expected.status = "ok"
    /\ phase = "fatal" => emitted = Expected.out /\ Expected.status = "fatal"
=============================================================================
