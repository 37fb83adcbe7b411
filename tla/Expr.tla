-------------------------------- MODULE Expr --------------------------------
(* Expressions: expr.c.  The parser with its levels of precedence, the      *)
(* simplifier, the evaluators for target addresses and huge integers, and  *)
(* the search for the symbol a relocation is based on.                     *)
(*                                                                         *)
(* A text is a sequence of tokens: a record with the character ch of an    *)
(* operator or a parenthesis, or an operand: [ch |-> "num", base, hex,   *)
(* digits], [ch |-> "chr", bytes] or [ch |-> "id", name]. Blanks and comments are  *)
(* gone, and floating point, unary operators of a backend and merlin's dot *)
(* are left out.  Target addresses are the signed TADDR_BITS-bit integers.  *)
(*                                                                         *)
(* An environment holds what the program keeps in symbols and sections:    *)
(* syms maps a name to [type, sec, pc, abs, weak, expr], secs a section    *)
(* to [org, abs, unalloc]; sec and pc are the place of evaluation.         *)
EXTENDS Hugeint, SequencesExt

CONSTANTS TADDR_BITS,       \* sizeof(taddr) * 8
          BIGENDIAN,        \* the order of the bytes of the target
          unsigned_shift    \* option -unsshift

ASSUME ExprAssumption == /\ TADDR_BITS \in 1 .. WORDBITS - 1
                         /\ BIGENDIAN \in BOOLEAN
                         /\ unsigned_shift \in BOOLEAN

taddrmin == -(2^(TADDR_BITS - 1))
utaddr(x) == x % 2^TADDR_BITS
taddr(x) == IF utaddr(x) >= 2^(TADDR_BITS - 1) THEN utaddr(x) - 2^TADDR_BITS ELSE utaddr(x)
BOOLEAN_(p) == IF p THEN -1 ELSE 0

-----------------------------------------------------------------------------
(* Trees.                                                                  *)

Leaves == { "NUM", "HUG", "SYM" }
Constants == { "NUM", "HUG" }           \* the types below SYM
Unary == { "NEG", "CPL", "NOT" }

number_expr(v) == [type |-> "NUM", val |-> taddr(v)]
huge_expr(h) == [type |-> "HUG", huge |-> h]
new_sym_expr(name) == [type |-> "SYM", sym |-> name]
make_expr(type, left, right) == [type |-> type, left |-> left, right |-> right]
Children(e) == IF e.type \in Leaves THEN << >>
               ELSE IF e.type \in Unary THEN << e.left >> ELSE << e.left, e.right >>

NULL == "no section"
cpc == " *current pc dummy*"

\* The symbol of a name.  The current pc is a label that update_curpc moves to
\* the place of evaluation.
Sym(env, name) ==
    IF name = cpc
    THEN [type |-> "LABSYM", sec |-> env.sec, pc |-> env.pc, weak |-> FALSE,
          abs |-> env.sec # NULL /\ env.secs[env.sec].abs, expr |-> number_expr(0)]
    ELSE env.syms[name]
LOCREF(s) == s.type = "LABSYM" /\ ~s.weak
EXTREF(s) == s.type = "IMPORT" \/ s.weak

-----------------------------------------------------------------------------
(* Constants.                                                              *)

\* Reads digits as a number of type exp_type: NUM becomes HUG when the product
\* does not fit; the sum with the next digit is not looked at.
\* A hexadecimal constant is tested after the sum.
ReadNum(base, hex, digits, exp_type) ==
    LET n == Len(digits)
        Step(v, d) == utaddr(base * v + d)
        Fits(v, d) == IF hex THEN Step(v, d) \div base = v ELSE utaddr(base * v) \div base = v
        num[i \in 0 .. n] == IF i = 0 THEN 0 ELSE Step(num[i - 1], digits[i])
        huge[i \in 0 .. n] == IF i = 0 THEN huge_zero ELSE haddi(hmuli(huge[i - 1], base), digits[i])
        isnum == exp_type = "NUM" /\ \A i \in 1 .. n : Fits(num[i - 1], digits[i])
    IN  IF isnum THEN number_expr(num[n]) ELSE huge_expr(huge[n])

\* A character constant: as many bytes as a target address has.
charspertaddr == TADDR_BITS \div BYTE_BITS
ReadChars(bytes) ==
    LET used == SubSeq(bytes, 1, IF Len(bytes) > charspertaddr THEN charspertaddr ELSE Len(bytes))
        n == Len(used)
        Place(i) == IF BIGENDIAN THEN n - i ELSE i - 1
    IN  number_expr(MapThenSumSet(LAMBDA i : used[i] * 2^(BYTE_BITS * Place(i)), 1 .. n))

-----------------------------------------------------------------------------
(* The parser.  A state is [e, p, exp_type, err]: the tree read, the place  *)
(* of the next token, the type of constants and whether an error was met.  *)

Ch(text, p) == IF p \in 1 .. Len(text) THEN text[p].ch ELSE "end"

\* The operator at p of the loop at a level of precedence, or a length of 0.
\* level: 1 expression ... 10 shift_expr.
Op(type, len) == [type |-> type, len |-> len]
NoOp == Op("none", 0)
Operator(level, text, p) ==
    LET c == Ch(text, p)
        d == Ch(text, p + 1)
    IN CASE level = 1 /\ c = "|" /\ d = "|" -> Op("LOR", 2)
         [] level = 2 /\ c = "&" /\ d = "&" -> Op("LAND", 2)
         [] level = 3 /\ c = "=" -> Op("EQ", IF d = "=" THEN 2 ELSE 1)
         [] level = 3 /\ (<< c, d >> \in { << "!", "=" >>, << "<", ">" >> }) -> Op("NEQ", 2)
         [] level = 4 /\ c = "<" /\ d \notin { "<", ">" } -> IF d = "=" THEN Op("LEQ", 2) ELSE Op("LT", 1)
         [] level = 4 /\ c = ">" /\ d # ">" -> IF d = "=" THEN Op("GEQ", 2) ELSE Op("GT", 1)
         [] level = 5 /\ c = "+" /\ d # "+" -> Op("ADD", 1)
         [] level = 5 /\ c = "-" /\ d # "-" -> Op("SUB", 1)
         [] level = 6 /\ c = "*" -> Op("MUL", 1)
         [] level = 6 /\ c = "/" -> IF d = "/" THEN Op("MOD", 2) ELSE Op("DIV", 1)
         [] level = 6 /\ c = "%" -> Op("MOD", 1)
         [] level = 7 /\ ((c = "|" /\ d # "|") \/ (c = "!" /\ d # "=")) -> Op("BOR", 1)
         [] level = 8 /\ c \in { "^", "~" } -> Op("XOR", 1)
         [] level = 9 /\ c = "&" /\ d # "&" -> Op("BAND", 1)
         [] level = 10 /\ c = "<" /\ d = "<" -> Op("LSH", 2)
         [] level = 10 /\ c = ">" /\ d = ">" -> Op(IF unsigned_shift THEN "RSHU" ELSE "RSH", 2)
         [] OTHER -> NoOp

\* m2 of relational_expr is set by the first <= or >= and never reset.
OrEqual(type) == CASE type = "LT" -> "LEQ" [] type = "GT" -> "GEQ" [] OTHER -> type

RECURSIVE expression(_, _, _, _), Loop(_, _, _, _, _)

\* primary_expr.  A symbol that stands for an expression is replaced by it.
primary_expr(text, env, st) ==
    LET c == Ch(text, st.p)
        Read(e) == [st EXCEPT !.e = e, !.p = st.p + 1]
        Const(e) == [Read(e) EXCEPT !.exp_type = e.type]
    IN CASE c = "(" ->
              LET in == expression(1, text, env, [st EXCEPT !.p = st.p + 1])
              IN  IF Ch(text, in.p) = ")" THEN [in EXCEPT !.p = in.p + 1] ELSE [in EXCEPT !.err = TRUE]
         [] c = "num" -> Const(ReadNum(text[st.p].base, text[st.p].hex, text[st.p].digits, st.exp_type))
         [] c = "chr" -> Read(ReadChars(text[st.p].bytes))
         [] c = "id" -> LET s == Sym(env, text[st.p].name)
                        IN  Read(IF s.type = "EXPRESSION" THEN s.expr ELSE new_sym_expr(text[st.p].name))
         [] OTHER -> [st EXCEPT !.e = number_expr(-1), !.err = TRUE]

\* A node with one operand holds it twice.
UnaryOperator == "-" :> "NEG" @@ "!" :> "NOT" @@ "~" :> "CPL"
Applied(c, in) == IF c = "+" THEN in ELSE [in EXCEPT !.e = make_expr(UnaryOperator[c], in.e, in.e)]
unary_expr(text, env, st) ==
    LET c == Ch(text, st.p)
    IN  IF c \in { "+" } \cup DOMAIN UnaryOperator
        THEN Applied(c, primary_expr(text, env, [st EXCEPT !.p = st.p + 1]))
        ELSE primary_expr(text, env, st)

\* The functions from expression() to shift_expr(), one for each level.
expression(level, text, env, st) ==
    IF level = 11 THEN unary_expr(text, env, st)
    ELSE Loop(level, text, env, expression(level + 1, text, env, st), FALSE)

\* A mutant: the rest of the level becomes the right operand.
Loop_right(level, text, env, st, m2) ==
    LET o == Operator(level, text, st.p)
        right == expression(level, text, env, [st EXCEPT !.p = st.p + o.len])
    IN  IF o.len = 0 THEN st ELSE [right EXCEPT !.e = make_expr(o.type, st.e, right.e)]

Loop(level, text, env, st, m2) ==
    LET o == Operator(level, text, st.p)
        right == expression(level + 1, text, env, [st EXCEPT !.p = st.p + o.len])
        eq == m2 \/ o.type \in { "LEQ", "GEQ" }
    IN  IF o.len = 0 THEN st
        ELSE Loop(level, text, env,
                  [right EXCEPT !.e = make_expr(IF eq THEN OrEqual(o.type) ELSE o.type, st.e, right.e)], eq)

\* The tree of a text before it is simplified.
Parsed(text, env, exp_type) ==
    expression(1, text, env, [e |-> number_expr(0), p |-> 1, exp_type |-> exp_type, err |-> FALSE])

-----------------------------------------------------------------------------
(* Operations.  A shift count below zero is undefined in C; the machines    *)
(* take it modulo the width.                                               *)

Abs(x) == IF x < 0 THEN -x ELSE x
Quot(x, y) == IF (x < 0) # (y < 0) THEN -(Abs(x) \div Abs(y)) ELSE Abs(x) \div Abs(y)
Rem(x, y) == x - y * Quot(x, y)
Count(sh) == IF sh < 0 THEN sh % TADDR_BITS ELSE sh
lshift(v, sh) == IF Count(sh) >= TADDR_BITS THEN 0 ELSE v * 2^Count(sh)
rshift(v, sh) == IF Count(sh) >= TADDR_BITS THEN BOOLEAN_(v < 0) ELSE v \div 2^Count(sh)
urshift(v, sh) == IF Count(sh) >= TADDR_BITS THEN 0 ELSE utaddr(v) \div 2^Count(sh)

\* Division by zero, and the quotient that does not fit, raise an error.
DivError(type, l, r) == type \in { "DIV", "MOD" } /\ (r = 0 \/ (l = taddrmin /\ r = -1))

NumOp(type, l, r) ==
    taddr(CASE DivError(type, l, r) -> IF r = 0 THEN 0 ELSE taddrmin
            [] type = "ADD" -> l + r
            [] type = "SUB" -> l - r
            [] type = "MUL" -> l * r
            [] type = "DIV" -> Quot(l, r)
            [] type = "MOD" -> Rem(l, r)
            [] type = "NEG" -> -l
            [] type = "CPL" -> -l - 1
            [] type = "NOT" -> BOOLEAN_(l = 0)
            [] type = "LAND" -> BOOLEAN_(l # 0 /\ r # 0)
            [] type = "LOR" -> BOOLEAN_(l # 0 \/ r # 0)
            [] type = "BAND" -> Bitwise(utaddr(l), utaddr(r), And)
            [] type = "BOR" -> Bitwise(utaddr(l), utaddr(r), Or)
            [] type = "XOR" -> Bitwise(utaddr(l), utaddr(r), Xor)
            [] type = "LSH" -> lshift(l, r)
            [] type = "RSH" -> rshift(l, r)
            [] type = "RSHU" -> urshift(l, r)
            [] type = "LT" -> BOOLEAN_(l < r)
            [] type = "GT" -> BOOLEAN_(l > r)
            [] type = "LEQ" -> BOOLEAN_(l <= r)
            [] type = "GEQ" -> BOOLEAN_(l >= r)
            [] type = "NEQ" -> BOOLEAN_(l # r)
            [] type = "EQ" -> BOOLEAN_(l = r))

HugeBool(p) == huge_from_int(BOOLEAN_(p))
Zero(h) == hcmp(h, huge_zero) = 0
HugeOp(type, l, r) ==
    CASE type \in { "DIV", "MOD" } /\ Zero(r) -> huge_zero
      [] type = "ADD" -> hadd(l, r)
      [] type = "SUB" -> hsub(l, r)
      [] type = "MUL" -> hmul(l, r)
      [] type = "DIV" -> hdiv(l, r)
      [] type = "MOD" -> hmod(l, r)
      [] type = "NEG" -> hneg(l)
      [] type = "CPL" -> hcpl(l)
      [] type = "NOT" -> HugeBool(Zero(l))
      [] type = "LAND" -> HugeBool(~Zero(l) /\ ~Zero(r))
      [] type = "LOR" -> HugeBool(~Zero(l) \/ ~Zero(r))
      [] type = "BAND" -> hand(l, r)
      [] type = "BOR" -> hor(l, r)
      [] type = "XOR" -> hxor(l, r)
      [] type = "LSH" -> hshl(l, huge_to_int(r))
      [] type = "RSH" -> hshra(l, huge_to_int(r))
      [] type = "RSHU" -> hshr(l, huge_to_int(r))
      [] type = "LT" -> HugeBool(hcmp(l, r) < 0)
      [] type = "GT" -> HugeBool(hcmp(l, r) > 0)
      [] type = "LEQ" -> HugeBool(hcmp(l, r) <= 0)
      [] type = "GEQ" -> HugeBool(hcmp(l, r) >= 0)
      [] type = "NEQ" -> HugeBool(hcmp(l, r) # 0)
      [] type = "EQ" -> HugeBool(hcmp(l, r) = 0)

-----------------------------------------------------------------------------
(* simplify_expr replaces every part of a tree that holds constants only.  *)

HugeOf(e) == IF e.type = "NUM" THEN huge_from_int(e.val) ELSE e.huge

\* The constant for a node whose children are constants: a huge result that
\* fits a target address becomes one.
Constant(h) == IF huge_chkrange(h, TADDR_BITS) THEN number_expr(huge_to_int(h)) ELSE huge_expr(h)
Folded(type, l, r) ==
    IF l.type = "NUM" /\ r.type = "NUM" THEN number_expr(NumOp(type, l.val, r.val))
    ELSE Constant(HugeOp(type, HugeOf(l), HugeOf(r)))

\* "const-symbol-symbol" becomes const-(symbol-symbol).
Rearranged(e) ==
    IF /\ e.type = "SUB" /\ e.right.type = "SYM"
       /\ e.left.type = "SUB" /\ e.left.right.type = "SYM" /\ e.left.left.type # "SYM"
    THEN make_expr("SUB", e.left.left, make_expr("SUB", e.left.right, e.right))
    ELSE e

RECURSIVE simplify_expr(_, _)
simplify_expr(e, env) ==
    CASE e.type \in Constants -> e
      [] e.type = "SYM" -> LET s == Sym(env, e.sym)
                           IN  IF s.type = "EXPRESSION" /\ s.expr.type \in Constants THEN s.expr ELSE e
      [] OTHER -> LET n == Rearranged(make_expr(e.type, simplify_expr(e.left, env), simplify_expr(e.right, env)))
                  IN  IF n.left.type \in Constants /\ n.right.type \in Constants
                      THEN Folded(n.type, n.left, n.right) ELSE n

parse_expr(text, env) == simplify_expr(Parsed(text, env, "NUM").e, env)
parse_expr_huge(text, env) == simplify_expr(Parsed(text, env, "HUG").e, env)

\* parse_constexpr: the value, or 0 and an error for anything but a number.
parse_constexpr(text, env) ==
    LET e == parse_expr(text, env)
    IN  IF e.type = "NUM" THEN [val |-> e.val, err |-> FALSE] ELSE [val |-> 0, err |-> TRUE]

\* The type of a tree as far as it is known: labels count as numbers.
RECURSIVE type_of_expr(_, _)
type_of_expr(e, env) ==
    CASE e.type \in Constants -> e.type
      [] e.type = "SYM" -> LET s == Sym(env, e.sym)
                           IN  IF s.type = "EXPRESSION" THEN type_of_expr(s.expr, env) ELSE "NUM"
      [] OTHER -> IF "HUG" \in { type_of_expr(e.left, env), type_of_expr(e.right, env) } THEN "HUG" ELSE "NUM"

-----------------------------------------------------------------------------
(* eval_expr: the value, whether it is constant, and the sections whose     *)
(* layout it depends on (add_dep).  find_base: the symbol a relocation may  *)
(* be based on.                                                            *)

BASE_ILLEGAL == 0
BASE_OK == 1
BASE_PCREL == 2
NoBase == [ret |-> BASE_ILLEGAL, base |-> cpc]

\* A mutant: the test of add_dep the wrong way round.
Dep_inverted(env, sec) == IF env.sec # NULL /\ env.sec = sec THEN { sec } ELSE {}

\* add_dep
Dep(env, sec) == IF env.sec = NULL \/ env.sec = sec \/ sec = NULL THEN {} ELSE { sec }

RECURSIVE eval_expr(_, _), find_base(_, _)

\* eval_expr, SYM
SymValue(name, env) ==
    LET s == Sym(env, name)
        cnst == s.abs \/ (s.sec # NULL /\ env.secs[s.sec].unalloc)
    IN CASE s.type = "EXPRESSION" -> eval_expr(s.expr, env)
         [] LOCREF(s) -> [val |-> taddr(s.pc), cnst |-> cnst, deps |-> IF cnst THEN Dep(env, s.sec) ELSE {}]
         [] OTHER -> [val |-> 0, cnst |-> FALSE, deps |-> {}]

\* A mutant: the start of an absolute section is counted twice.
PcrelAddend_org(l, r, ls, env) == env.pc - r.val + l.val

\* The value that works with a pc-relative relocation.
PcrelAddend(l, r, ls, env) == env.pc - r.val + l.val - (IF ls.sec = NULL THEN 0 ELSE env.secs[ls.sec].org)

\* eval_expr, SUB: differences that are constant although a part is not, and
\* those a pc-relative relocation can stand for.
SymbolDifference(e, l, r, env) ==
    LET rb == find_base(e.right, env)
        lb == find_base(e.left, env)
        rs == Sym(env, rb.base)
        ls == Sym(env, lb.base)
        lbok == lb.ret = BASE_OK
        Result(val, cnst, more) == [val |-> taddr(val), cnst |-> cnst, deps |-> l.deps \cup r.deps \cup more]
    IN CASE (l.cnst /\ r.cnst) \/ rb.ret # BASE_OK \/ ~LOCREF(rs) -> Result(l.val - r.val, l.cnst /\ r.cnst, {})
         [] OTHER ->
            CASE lbok /\ LOCREF(ls) /\ ls.sec = rs.sec -> Result(l.val - r.val, TRUE, Dep(env, ls.sec))
              [] lbok /\ ~(LOCREF(ls) /\ ls.sec = rs.sec) /\ rs.sec = env.sec /\ (EXTREF(ls) \/ LOCREF(ls)) ->
                   IF rs.abs /\ ls.abs
                   THEN Result(l.val - r.val, TRUE, Dep(env, ls.sec) \cup Dep(env, rs.sec))
                   ELSE Result(PcrelAddend(l, r, ls, env), FALSE, {})
              [] ~lbok /\ rs.abs -> Result(l.val - r.val, TRUE, Dep(env, rs.sec))
              [] OTHER -> Result(l.val - r.val, FALSE, {})

eval_expr(e, env) ==
    CASE e.type = "NUM" -> [val |-> e.val, cnst |-> TRUE, deps |-> {}]
      [] e.type = "HUG" -> [val |-> taddr(huge_to_int(e.huge)), cnst |-> TRUE, deps |-> {}]
      [] e.type = "SYM" -> SymValue(e.sym, env)
      [] OTHER -> LET l == eval_expr(e.left, env)
                      r == eval_expr(e.right, env)
                  IN  IF e.type = "SUB" THEN SymbolDifference(e, l, r, env)
                      ELSE [val |-> NumOp(e.type, l.val, r.val), cnst |-> l.cnst /\ r.cnst,
                            deps |-> l.deps \cup r.deps]

find_base(e, env) ==
    LET Cnst(x) == eval_expr(x, env).cnst
        l == find_base(e.left, env)
        r == find_base(e.right, env)
        pcsym == Sym(env, r.base)
        base == Sym(env, l.base)
    IN CASE e.type = "SYM" -> IF Sym(env, e.sym).type = "EXPRESSION" THEN find_base(Sym(env, e.sym).expr, env)
                              ELSE [ret |-> BASE_OK, base |-> e.sym]
         [] e.type = "ADD" -> IF Cnst(e.left) /\ r.ret = BASE_OK THEN r
                              ELSE IF Cnst(e.right) /\ l.ret = BASE_OK THEN l ELSE NoBase
         [] e.type = "SUB" -> IF Cnst(e.right) /\ l.ret = BASE_OK THEN l
                              ELSE IF /\ l.ret = BASE_OK /\ r.ret = BASE_OK
                                      /\ LOCREF(pcsym) /\ pcsym.sec = env.sec /\ (LOCREF(base) \/ EXTREF(base))
                              THEN [ret |-> BASE_PCREL, base |-> l.base] ELSE NoBase
         [] OTHER -> NoBase

\* eval_expr_huge: absolute labels are allowed, everything else must be constant.
RECURSIVE eval_expr_huge(_, _)
eval_expr_huge(e, env) ==
    CASE e.type \in Constants -> [ok |-> TRUE, huge |-> HugeOf(e)]
      [] e.type = "SYM" ->
           LET s == Sym(env, e.sym)
           IN  IF s.type = "EXPRESSION" THEN eval_expr_huge(s.expr, env)
               ELSE [ok |-> s.type = "LABSYM" /\ s.abs, huge |-> huge_from_int(s.pc)]
      [] OTHER -> LET l == eval_expr_huge(e.left, env)
                      r == eval_expr_huge(e.right, env)
                  IN  IF l.ok /\ r.ok THEN [ok |-> TRUE, huge |-> HugeOp(e.type, l.huge, r.huge)]
                      ELSE [ok |-> FALSE, huge |-> huge_zero]

-----------------------------------------------------------------------------
(* fix_labels of vasm.c: what becomes of a symbol before the output.        *)

Fixed(name, env) ==
    LET s == env.syms[name]
        at == [env EXCEPT !.sec = NULL, !.pc = 0]
        v == eval_expr(s.expr, at)
        b == find_base(s.expr, at)
        base == Sym(at, b.base)
    IN CASE s.type = "LABSYM" /\ s.abs ->
              [s EXCEPT !.type = "EXPRESSION", !.sec = NULL, !.expr = number_expr(s.pc)]
         [] s.type = "EXPRESSION" /\ type_of_expr(s.expr, at) = "NUM" /\ ~v.cnst ->
              IF b.ret # BASE_OK THEN [s EXCEPT !.type = "ERROR"]          \* non-relocatable equate
              ELSE IF base.type = "IMPORT" THEN [s EXCEPT !.type = "REMOVED"]   \* or an indirection
              ELSE [s EXCEPT !.type = base.type, !.sec = base.sec, !.pc = v.val]
         [] OTHER -> s
=============================================================================
