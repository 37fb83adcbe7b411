------------------------------ MODULE MCFront ------------------------------
(* The front end for TLC: the driver, the symbol table, and samples of what  *)
(* expressions are made of.  A behaviour is about one of them; "job" says    *)
(* which, and holds the sample.                                            *)
EXTENDS Driver, Symtab, Expr, TLC

\* Names of one and two characters; 9 is the upper case of 1.
MCNames == { << 1 >>, << 9 >>, << 1, 2 >> }

VARIABLE job

-----------------------------------------------------------------------------
(* Texts: operands and binary operators, some operands with a sign.        *)

Num(base, hex, digits) == [ch |-> "num", base |-> base, hex |-> hex, digits |-> digits]
One1 == Num(2, FALSE, << 1 >>)
Two == Num(2, FALSE, << 1, 0 >>)
Id(name) == [ch |-> "id", name |-> name]
Chars(spelling) == [i \in DOMAIN spelling |-> [ch |-> spelling[i]]]

\* The operators as they are written, what they mean, and their priority in the
\* documentation (vasm_main.texi), 2 the highest of the binary ones.
Documented == {
    << << "<", "<" >>, "LSH", 2 >>, << << ">", ">" >>, "RSH", 2 >>, << << "&" >>, "BAND", 3 >>,
    << << "^" >>, "XOR", 4 >>, << << "~" >>, "XOR", 4 >>, << << "|" >>, "BOR", 5 >>, << << "!" >>, "BOR", 5 >>,
    << << "*" >>, "MUL", 6 >>, << << "/" >>, "DIV", 6 >>, << << "%" >>, "MOD", 6 >>, << << "/", "/" >>, "MOD", 6 >>,
    << << "+" >>, "ADD", 7 >>, << << "-" >>, "SUB", 7 >>,
    << << "<" >>, "LT", 8 >>, << << ">" >>, "GT", 8 >>, << << "<", "=" >>, "LEQ", 8 >>, << << ">", "=" >>, "GEQ", 8 >>,
    << << "=", "=" >>, "EQ", 9 >>, << << "=" >>, "EQ", 9 >>, << << "!", "=" >>, "NEQ", 9 >>, << << "<", ">" >>, "NEQ", 9 >>,
    << << "&", "&" >>, "LAND", 10 >>, << << "|", "|" >>, "LOR", 11 >> }
Spelling(o) == o[1]
Meaning(o) == o[2]
Priority(o) == o[3]
Signs == { << >>, << "-" >>, << "!" >>, << "~" >> }
SignMeaning(sign) == CASE sign = << "-" >> -> "NEG" [] sign = << "!" >> -> "NOT" [] OTHER -> "CPL"

\* The tree the documentation describes: the last operator of the lowest
\* priority is at the root.
RECURSIVE DocTree(_, _)
DocTree(leaves, ops) ==
    IF ops = << >> THEN leaves[1]
    ELSE LET root == CHOOSE i \in DOMAIN ops :
                        /\ \A j \in DOMAIN ops : Priority(ops[j]) <= Priority(ops[i])
                        /\ \A j \in i + 1 .. Len(ops) : Priority(ops[j]) < Priority(ops[i])
         IN  make_expr(Meaning(ops[root]),
                       DocTree(SubSeq(leaves, 1, root), SubSeq(ops, 1, root - 1)),
                       DocTree(SubSeq(leaves, root + 1, Len(leaves)), SubSeq(ops, root + 1, Len(ops))))

\* A chain with <= or >= in front of < or >: relational_expr reads both alike.
Sticky(ops) == \E i, j \in DOMAIN ops : i < j /\ Meaning(ops[i]) \in { "LEQ", "GEQ" } /\ Meaning(ops[j]) \in { "LT", "GT" }
\* additive_expr takes no minus in front of another.
TwoMinus(o, sign) == Meaning(o) = "SUB" /\ sign = << "-" >>

\* The texts a sample stands for.
PlainNames == << "a", "b", "i", "o" >>
SignedLeaf(i, sign) == LET s == new_sym_expr(PlainNames[i])
                       IN  IF sign = << >> THEN s ELSE make_expr(SignMeaning(sign), s, s)
OpText(signs, ops) ==
    LET Part(i) == Chars(signs[i]) \o << Id(PlainNames[i]) >> \o (IF i > Len(ops) THEN << >> ELSE Chars(Spelling(ops[i])))
    IN  FlattenSeq([i \in DOMAIN signs |-> Part(i)])
OpJobs == { [kind |-> "ops", ops |-> << p, q, r >>, signs |-> << << >>, s, << >>, << >> >>] :
              p \in Documented, q \in Documented, r \in { o \in Documented : Priority(o) \in { 2, 7, 8 } }, s \in Signs }
CarefulOpJobs == { j \in OpJobs : ~Sticky(j.ops) /\ ~TwoMinus(j.ops[1], j.signs[2]) }

-----------------------------------------------------------------------------
(* The environment of the samples: two relocatable sections t and d, two    *)
(* absolute ones g and h, an offset section f; labels in each, an imported  *)
(* and a weak symbol, equates.                                             *)

Label(sec, pc, abs) == [type |-> "LABSYM", sec |-> sec, pc |-> pc, abs |-> abs, weak |-> FALSE, expr |-> number_expr(0)]
Equate(e) == [type |-> "EXPRESSION", sec |-> NULL, pc |-> 0, abs |-> FALSE, weak |-> FALSE, expr |-> e]
Section(org, abs, unalloc) == [org |-> org, abs |-> abs, unalloc |-> unalloc]
Secs == "t" :> Section(0, FALSE, FALSE) @@ "d" :> Section(0, FALSE, FALSE) @@ "g" :> Section(4, TRUE, FALSE)
        @@ "h" :> Section(1, TRUE, FALSE) @@ "f" :> Section(0, FALSE, TRUE)
Syms == "a" :> Label("t", 1, FALSE) @@ "a2" :> Label("t", 3, FALSE) @@ "b" :> Label("d", 2, FALSE)
        @@ "o" :> Label("g", 5, TRUE) @@ "o2" :> Label("h", 2, TRUE) @@ "u" :> Label("f", 2, FALSE)
        @@ "i" :> [Label(NULL, 0, FALSE) EXCEPT !.type = "IMPORT"] @@ "w" :> [Label("d", 1, FALSE) EXCEPT !.weak = TRUE]
        @@ "e" :> Equate(make_expr("ADD", new_sym_expr("a"), number_expr(1))) @@ "k" :> Equate(number_expr(2))
At(sec, pc) == [syms |-> Syms, secs |-> Secs, sec |-> sec, pc |-> pc]
Sites == { At("t", 2), At("g", 6) }

\* Texts of three operands and two operators, one pair in parentheses.
Operands3 == { Id("a"), Id("a2"), Id("b"), Id("o"), Id("o2"), Id("u"), Id("i"), Id("w"), Id("e"), Id("k"), Id(cpc), One1 }
ExprJobs == [kind : { "expr" }, x : Operands3, y : Operands3, z : Operands3,
             p : { "+", "-", "*" }, q : { "+", "-" }, left : BOOLEAN]
ExprText(j) == IF j.left THEN Chars(<< "(" >>) \o << j.x >> \o Chars(<< j.p >>) \o << j.y >> \o Chars(<< ")", j.q >>) \o << j.z >>
               ELSE << j.x >> \o Chars(<< j.p, "(" >>) \o << j.y >> \o Chars(<< j.q >>) \o << j.z >> \o Chars(<< ")" >>)

\* Where a linker may put the relocatable sections and what it finds for the
\* imported and weak symbols.
Placements == { "t" :> 0 @@ "d" :> 0 @@ "i" :> 0 @@ "w" :> 1, "t" :> 1 @@ "d" :> 3 @@ "i" :> 5 @@ "w" :> 6,
                "t" :> 2 @@ "d" :> 2 @@ "i" :> 1 @@ "w" :> 4, "t" :> 5 @@ "d" :> 1 @@ "i" :> 7 @@ "w" :> 0 }
Moved(place, sec) == IF sec \in DOMAIN place THEN place[sec] ELSE 0

\* The value of an expression once everything has its place.
RECURSIVE Linked(_, _, _)
Linked(e, env, place) ==
    CASE e.type = "NUM" -> e.val
      [] e.type = "SYM" -> LET s == Sym(env, e.sym)
                           IN  CASE s.type = "EXPRESSION" -> Linked(s.expr, env, place)
                                 [] LOCREF(s) -> taddr(s.pc + Moved(place, s.sec))
                                 [] OTHER -> taddr(place[e.sym])
      [] OTHER -> NumOp(e.type, Linked(e.left, env, place), Linked(e.right, env, place))

\* Three shapes simplify_expr and eval_expr get wrong: constant - symbol - symbol;
\* an expression without a base, less an absolute label; and one with a base, less
\* an absolute label of the current section, whose addend is made for BASE_PCREL
\* while find_base returns BASE_OK.
RECURSIVE Nodes(_)
Nodes(e) == IF e.type \in Leaves THEN { e } ELSE { e } \cup Nodes(e.left) \cup Nodes(e.right)
Triple(n, env) ==
    /\ n.type = "SUB" /\ simplify_expr(n.right, env).type = "SYM" /\ n.left.type = "SUB"
    /\ simplify_expr(n.left.right, env).type = "SYM" /\ simplify_expr(n.left.left, env).type # "SYM"
Baseless(n, env) ==
    /\ n.type = "SUB" /\ ~eval_expr(n.left, env).cnst /\ find_base(n.left, env).ret # BASE_OK
    /\ find_base(n.right, env).ret = BASE_OK /\ Sym(env, find_base(n.right, env).base).abs
PcBased(n, env) ==
    /\ n.type = "SUB" /\ ~eval_expr(n.left, env).cnst /\ eval_expr(n.right, env).cnst
    /\ find_base(n.right, env).ret = BASE_OK /\ Sym(env, find_base(n.right, env).base).sec = env.sec
Careful(e, env) == \A n \in Nodes(e) : ~Triple(n, env) /\ ~Baseless(n, env) /\ ~PcBased(n, env)

\* A text as the value of an equate q.  The pc has been replaced by a label then
\* (new_equate), and a label that fix_labels makes from a weak one loses its offset.
Raw(j, env) == Parsed(ExprText(j), env, "NUM").e
Equated(raw, at) == [at EXCEPT !.syms = Syms @@ "q" :> Equate(simplify_expr(raw, at))]
LabelMeans(f, raw, env) ==
    f.type = "LABSYM" =>
        \A place \in Placements : Linked(raw, env, place) = taddr(f.pc + Moved(place, f.sec))
FixedRight(raw, env) == Careful(raw, env) => LabelMeans(Fixed("q", env), raw, env)
EquateKept(j) ==
    { j.x, j.y, j.z } \cap { Id(cpc), Id("w") } = {} =>
        LET raw == Raw(j, At(NULL, 0)) IN FixedRight(raw, Equated(raw, At(NULL, 0)))

\* Numbers and characters.
ConstJobs == { [kind |-> "const", text |-> << Num(2, hex, d) >>] : hex \in BOOLEAN, d \in UNION { [1 .. n -> 0 .. 1] : n \in 1 .. 8 } }
             \cup { [kind |-> "const", text |-> << Num(3, FALSE, d) >>] : d \in UNION { [1 .. n -> 0 .. 2] : n \in 1 .. 3 } }
             \cup { [kind |-> "const", text |-> << [ch |-> "chr", bytes |-> d] >>] : d \in UNION { [1 .. n -> 0 .. 1] : n \in 1 .. 3 } }
Value(t) == LET v[i \in 0 .. Len(t.digits)] == IF i = 0 THEN 0 ELSE t.base * v[i - 1] + t.digits[i] IN v[Len(t.digits)]
ReadsAs(t, e) ==
    IF t.ch = "chr" THEN huge_to_mem(BIGENDIAN, Len(t.bytes), huge_from_int(e.val)) = t.bytes
    ELSE IF Value(t) < 2^TADDR_BITS THEN e = number_expr(Value(t))
    ELSE t.base = 2 => e = huge_expr(Huge(Value(t) \div WORD, Value(t)))
ReadsConstant(t) == ReadsAs(t, parse_expr(<< t >>, At("t", 2)))

-----------------------------------------------------------------------------
(* Huge integers as numbers.                                               *)

ALL == WORD * WORD
U(h) == h.hi * WORD + h.lo
S(h) == IF U(h) >= ALL \div 2 THEN U(h) - ALL ELSE U(h)
Of(i) == Huge((i % ALL) \div WORD, i)
Sign(i) == IF i < 0 THEN -1 ELSE IF i = 0 THEN 0 ELSE 1

-----------------------------------------------------------------------------
(* Symbols.                                                                *)

Idle(what) == [kind |-> what]
DrvIdle == /\ phase = "exit" /\ opts = [NoOptions EXCEPT !.depend = TRUE] /\ disabled = {}
           /\ errors = 0 /\ warnings = 0 /\ last_err = [no |-> "message", line |-> 0] /\ line = 1
           /\ outfile = "none" /\ status = "success" /\ raised = {} /\ count = 0
SymIdle == SymInit /\ nocase = FALSE

Init ==
    \/ job = Idle("driver") /\ DrvInit /\ SymIdle
    \/ job = Idle("symbols") /\ DrvIdle /\ SymInit
    \/ job \in CarefulOpJobs \cup ConstJobs \cup ExprJobs \cup [kind : { "huge" }, a : thuge] /\ DrvIdle /\ SymIdle

Next ==
    \/ job.kind = "driver" /\ DrvNext /\ UNCHANGED << job, symvars >>
    \/ job.kind = "symbols" /\ SymNext /\ UNCHANGED << job, drvvars >>

Spec == Init /\ [][Next]_<< job, drvvars, symvars >>

-----------------------------------------------------------------------------
\* An expression is read as documented: the tree of a text is the one that the
\* priorities and left associativity of vasm_main.texi give, in each spelling of
\* the operators, and a constant has its value, as a number if it fits a target
\* address and as a huge integer if not; characters keep their order in memory.
ReadAsDocumented ==
    /\ job.kind = "ops" =>
          LET r == Parsed(OpText(job.signs, job.ops), At("t", 2), "NUM")
          IN  r.p = Len(OpText(job.signs, job.ops)) + 1 /\ ~r.err
              /\ r.e = DocTree([i \in 1 .. 4 |-> SignedLeaf(i, job.signs[i])], job.ops)
    /\ job.kind = "const" => ReadsConstant(job.text[1])

\* The value v of the tree e is the one its text has, and moves only with the
\* sections it depends on.
Stays(raw, e, v, env) ==
    v.cnst =>
        /\ \A place \in Placements : Linked(raw, env, place) = v.val
        /\ \A l \in DOMAIN Syms : Syms[l].sec \notin v.deps \cup { env.sec } =>
               eval_expr(e, [env EXCEPT !.syms[l].pc = @ + 1]) = v
StaysAt(raw, e, env) == Careful(raw, env) => Stays(raw, e, eval_expr(e, env), env)

\* A value that eval_expr calls constant stays: it is the value the text has
\* wherever a linker puts the relocatable sections, and no label of a section
\* that add_dep does not mention changes it.  The resolver relies on the second
\* (vasm.c:390), the output on the first: no relocation is written.
ConstantsStay ==
    job.kind = "expr" =>
        \A env \in Sites : LET raw == Raw(job, env) IN StaysAt(raw, simplify_expr(raw, env), env)

\* What a linker makes of the value val, the base b and its symbol.
Base(b, base, place) == IF EXTREF(base) THEN place[b.base] ELSE Moved(place, base.sec)
Start(b, base, place, env) ==
    IF ~EXTREF(base) /\ base.abs THEN env.secs[base.sec].org ELSE Base(b, base, place)
Relocates(raw, val, b, base, env) ==
    \A place \in Placements :
        /\ b.ret = BASE_OK => Linked(raw, env, place) = taddr(val + Base(b, base, place))
        /\ b.ret = BASE_PCREL /\ base.sec # "f" =>
              Linked(raw, env, place)
                = taddr(val + Start(b, base, place, env) - Moved(place, env.sec) - env.pc)
BasedOn(b, raw, val, env) == Relocates(raw, val, b, Sym(env, b.base), env)
RelocatedAt(raw, e, v, env) == Careful(raw, env) /\ ~v.cnst => BasedOn(find_base(e, env), raw, v.val, env)
EvaluatedAt(raw, e, env) == RelocatedAt(raw, e, eval_expr(e, env), env)

\* A relocation gives the right value: for an expression that is not constant,
\* the base that find_base returns and the value of eval_expr as the addend, with
\* the pc for BASE_PCREL, make what the text means wherever things are placed;
\* and an equate that fix_labels turns into a label still means the same.
RelocatedByBase ==
    job.kind = "expr" =>
        /\ EquateKept(job)
        /\ \A env \in Sites : LET raw == Raw(job, env) IN EvaluatedAt(raw, simplify_expr(raw, env), env)

\* Huge integers are integers modulo 2^HUGEBITS: quotients and remainders by
\* Algorithm D, sums, comparisons, shifts, the range test, and what is written to
\* memory is read back.  Left out is what the code gets wrong: a negative second
\* operand of +, - and comparisons, a negative divisor of the remainder, and
\* products of words that do not fit a word.
HugeAgrees ==
    job.kind = "huge" =>
        LET a == job.a
        IN  /\ hneg(a) = Of(-S(a)) /\ hcpl(a) = Of(-S(a) - 1) /\ hnot(a) = Of(One(S(a) = 0))
            /\ \A n \in 0 .. HUGEBITS - 1 :
                  hshl(a, n) = Of(U(a) * 2^n) /\ hshr(a, n) = Of(U(a) \div 2^n) /\ hshra(a, n) = Of(S(a) \div 2^n)
            /\ \A n \in 1 .. HUGEBITS - 1 :
                  n # WORDBITS => (huge_chkrange(a, n) <=> S(a) >= -(2^(n - 1)) /\ S(a) < 2^n)
            /\ \A be \in BOOLEAN : huge_from_mem(be, huge_to_mem(be, HUGEBITS \div BYTE_BITS, a)) = a
            /\ \A b \in thuge :
                  /\ haddi(a, Int64(b.lo)) = Of(S(a) + Int64(b.lo))
                  /\ S(b) >= 0 => hadd(a, b) = Of(S(a) + S(b)) /\ hsub(a, b) = Of(S(a) - S(b))
                  /\ S(b) >= 0 /\ S(a) - S(b) >= -(ALL \div 2) => hcmp(a, b) = Sign(S(a) - S(b))
                  /\ a.lo * b.lo < WORD => hmul(a, b) = Of(S(a) * S(b))
                  /\ S(b) # 0 => hdiv(a, b) = Of(Quot(S(a), S(b)))
                  /\ S(b) > 0 => hmod(a, b) = Of(Rem(S(a), S(b)))
=============================================================================
