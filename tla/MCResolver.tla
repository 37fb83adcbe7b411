----------------------------- MODULE MCResolver -----------------------------
(***************************************************************************)
(* Programs for the resolver: sequences of atoms from a pool, in one or in *)
(* both of two sections.  Instructions are sized by the 6502               *)
(* backend with its page and branch distance scaled down; "opt" is an      *)
(* instruction whose optimizer reverses its decision whenever its operand  *)
(* moves by one, until RESOLVE_WARN tells it to stop, as m68k and ARM do.  *)
(***************************************************************************)
EXTENDS Resolver

CONSTANTS One, Two,         \* names of atoms to take, in programs of one or two sections
          MaxOne, MaxTwo    \* bounds: atoms of a section in each of them

Cpu == INSTANCE Cpu6502 WITH PAGE <- 8, REACH <- 4, dpage <- 0,
                             cpu_type <- {"6502", "65C02"}, branchopt <- TRUE

Base(kind) == CASE kind = "const"     -> "none"
                [] kind = "local"     -> "here"
                [] kind = "foreign"   -> "there"
                [] kind = "undefined" -> "extern"

MCInstSize(a, v, u, warn) ==
    IF a.e = "opt"
    THEN IF warn \/ v.val % 2 = 1 THEN 2 ELSE 3
    ELSE Cpu!instruction_size(
            [code |-> a.e,
             op   |-> <<[type |-> Cpu!mnemonics[a.e].op[1], flags |-> {}]>>],
            <<[val |-> v.val, base |-> Base(v.kind)]>>, u.pc, "ABSOLUTE" \in u.flags)

MCExprVal(e, v) == CASE e = "odd"  -> v % 2
                     [] e = "even" -> 1 - (v % 2)
                     [] e = "half" -> v \div 2
                     [] e = "none" -> 0

A(t, ref, e, n, align) == [t |-> t, ref |-> ref, e |-> e, n |-> n, align |-> align,
                           max |-> IF e = "none" THEN 1 ELSE 0]

AtomOf(x) ==
    CASE x = "la:"     -> A("label", "la", "", 0, 1)
      [] x = "lb:"     -> A("label", "lb", "", 0, 1)
      [] x = "lb: dw"  -> A("label", "lb", "", 0, 2)
      [] x = "beq la"  -> A("inst", "la", "beq", 0, 1)
      [] x = "beq lb"  -> A("inst", "lb", "beq", 0, 1)
      [] x = "bra lb"  -> A("inst", "lb", "bra", 0, 1)
      [] x = "lda la"  -> A("inst", "la", "lda", 0, 1)
      [] x = "lda lb"  -> A("inst", "lb", "lda", 0, 1)
      [] x = "lda *"   -> A("inst", CurPc, "lda", 0, 1)
      [] x = "opt la"  -> A("inst", "la", "opt", 0, 1)
      [] x = "opt lb"  -> A("inst", "lb", "opt", 0, 1)
      [] x = "db 3"    -> A("data", NoRef, "", 3, 1)
      [] x = "dw"      -> A("data", NoRef, "", 2, 2)
      [] x = "blk la&1"   -> A("space", "la", "odd", 1, 1)
      [] x = "blk lb&1"   -> A("space", "lb", "odd", 1, 1)
      [] x = "blk 1-lb&1" -> A("space", "lb", "even", 1, 1)
      [] x = "blk 1-la&1" -> A("space", "la", "even", 1, 1)
      [] x = "blk la/2"   -> A("space", "la", "half", 2, 1)
      [] x = "cnop 0,4,1" -> A("space", NoRef, "none", 1, 4)
      [] x = "rorg 2"  -> A("rorg", NoRef, "", 2, 1)
      [] x = "rend"    -> A("rorgend", NoRef, "", 0, 1)
      [] x = "roffs 5" -> A("roffs", NoRef, "", 5, 1)

SeqsUpTo(S, n) == UNION {[1..m -> S] : m \in 0..n}

Program(abs, text1, text2, lb) ==
    [org   |-> [s \in Sections |-> IF s \in abs THEN 5 ELSE 0],
     abs   |-> abs,
     home  |-> [l \in Labels |-> IF l = "lb" THEN lb ELSE 1],
     atoms |-> [s \in Sections |-> LET text == <<text1, text2>>[s] IN [i \in 1..Len(text) |-> AtomOf(text[i])]]]

\* A label is defined at most once in a text; RORG blocks are closed.
Once(text, x) == \A i, j \in 1..Len(text) : text[i] = x /\ text[j] = x => i = j
Texts(pool, n) == {text \in SeqsUpTo(pool, n) : Once(text, "la:") /\ Once(text, "lb:")}

Has(p, s, types, refs) == \E i \in 1..Len(p.atoms[s]) : /\ p.atoms[s][i].t \in types
                                                        /\ p.atoms[s][i].ref \in refs

\* One section; the longest programs define a label.
OneSection == {p \in {Program(abs, text, << >>, 1) : abs \in SUBSET {1}, text \in Texts(One, MaxOne)} :
                 IsProgram(p) /\ (Len(p.atoms[1]) = MaxOne => Has(p, 1, {"label"}, Labels))}

\* Two sections; section 1 is the home of la and section 2 that of lb.
TwoSections == {p \in {Program(abs, text1, text2, 2) : abs \in SUBSET Sections,
                          text1 \in Texts(Two \ {"lb:"}, MaxTwo), text2 \in Texts(Two \ {"la:"}, MaxTwo)} :
                  IsProgram(p)}

\* No RORG block in an ORG section, no branch from an ORG section into a
\* relocatable one, and no optimizer that looks at the number of a label which
\* only the linker knows.
Careful(p) ==
    \A s \in Sections :
       LET Foreign(a) == a.ref \in Labels /\ p.home[a.ref] # s
           Instructions == {a \in {p.atoms[s][i] : i \in 1..Len(p.atoms[s])} : a.t = "inst" /\ Foreign(a)}
       IN  /\ s \in p.abs => /\ ~Has(p, s, {"rorg"}, {NoRef})
                             /\ \A a \in Instructions : a.e \in {"beq", "bra"} => p.home[a.ref] \in p.abs
           /\ \A a \in Instructions : a.e = "opt" => {s, p.home[a.ref]} \subseteq p.abs

MCPrograms == {p \in OneSection \cup TwoSections : Careful(p)}
=============================================================================
