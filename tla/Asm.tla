-------------------------------- MODULE Asm --------------------------------
(***************************************************************************)
(* What the syntax modules work on while they parse: sections with their   *)
(* atoms (vasm.c, atom.c), symbols (symbol.c), conditional assembly        *)
(* (cond.c), structures (parse.c) and the messages (error.c).              *)
(*                                                                         *)
(* All of it is one record, and an operation of the C code is an operator  *)
(* from records to records; a syntax module keeps its own static variables *)
(* in field x.  What a directive asks of the stack of sources (macros,     *)
(* repetitions, includes) is left in field req: module Source models it.   *)
(***************************************************************************)
EXTENDS Integers, Sequences, FiniteSets, SequencesExt

Bit(n) == 2 ^ n
HighBit(b) == b >= 128
SetHigh(b) == (b % 128) + 128
FlipHigh(b) == (b + 128) % 256
Zeros(n) == [i \in 1..n |-> 0]

\* setval: the n bytes of a value, the first one of the lowest significance on
\* a little endian target, of the highest on the others.
LE(v, n) == [i \in 1..n |-> (v \div Bit(8 * (i - 1))) % 256]
BE(v, n) == Reverse(LE(v, n))

\* The operands of a line: values, texts with their delimiter (and whether the
\* closing one is there, and whether a sign in front forces bit 7), references to
\* symbols, "lo" and "hi" parts of an operand, words, and what is no operand.
Val(v) == [t |-> "val", v |-> v]
Str(delim, chars) == [t |-> "str", d |-> delim, v |-> chars, closed |-> TRUE, force |-> FALSE]
Forced(p) == [p EXCEPT !.force = TRUE]
Part(which, p) == [t |-> which, v |-> p]
Open(delim, chars) == [Str(delim, chars) EXCEPT !.closed = FALSE]
Ref(name) == [t |-> "ref", v |-> name]
Word(w) == [t |-> "word", v |-> w]
Junk == [t |-> "junk"]
IsWord(a, w) == a # << >> /\ a[1].t = "word" /\ a[1].v = w

\* The names of symbols: make_local_label puts a local one into a context.
Global(n) == <<"glob", n>>
Local(context, n) == <<"loc", context, n>>
IsLocal(name) == name[1] = "loc"
NoName == << >>

\* The messages, by number: those of the syntax modules have 1000 added.
general_error(s, n) == [s EXCEPT !.errs = @ \cup {n}]
syntax_error(s, n) == [s EXCEPT !.errs = @ \cup {1000 + n}]

\* A list of operands: Do takes them one by one and says whether to go on; an
\* operand that no comma introduces ends the list.
Go(s) == [s |-> s, go |-> TRUE]
Stop(s) == [s |-> s, go |-> FALSE]
ForEach(s, a, Do(_, _)) ==
    FoldLeft(LAMBDA r, p : IF ~r.go THEN r
                           ELSE IF p = Junk THEN Stop(syntax_error(r.s, 9)) ELSE Do(r.s, p),
             Go(s), a).s
\* The same where what follows an operand is a comment.
ForEachQuiet(s, a, Do(_, _)) ==
    FoldLeft(LAMBDA r, p : IF ~r.go THEN r ELSE IF p = Junk THEN Stop(r.s) ELSE Do(r.s, p), Go(s), a).s
-----------------------------------------------------------------------------
NewSection(name) == [name |-> name, org |-> 0, pc |-> 0, flags |-> {}, saved_pc |-> 0,
                     rorg_pc |-> 0, atoms |-> << >>]
NoSection == 0

\* The record as init_syntax finds it; defsect is the default section's name.
Start(defsect, x) ==
    [secs |-> << >>, current |-> NoSection, defsect |-> defsect, orgs |-> 0, offsets |-> 0,
     fresh |-> NoName, syms |-> << >>, last_global |-> Global(""), cond |-> <<1>>, ifnesting |-> 0,
     cur_struct |-> NoSection, struct_prev |-> NoSection, structs |-> {},
     secstack |-> << >>, saved |-> 0, req |-> << >>, errs |-> {}, end |-> FALSE, x |-> x]

Cur(s) == s.secs[s.current]
Defined(s, name) == name \in DOMAIN s.syms
Type(s, name) == IF Defined(s, name) THEN s.syms[name].type ELSE "none"
Has(s, i, flag) == flag \in s.secs[i].flags
WithFlag(s, i, flag) == [s EXCEPT !.secs[i].flags = @ \cup {flag}]
WithoutFlag(s, i, flag) == [s EXCEPT !.secs[i].flags = @ \ {flag}]

\* find_section and new_section
SectionNamed(s, name) == CHOOSE i \in DOMAIN s.secs : s.secs[i].name = name
Exists(s, name) == \E i \in DOMAIN s.secs : s.secs[i].name = name
new_section(s, name) == IF Exists(s, name) THEN s
                        ELSE [s EXCEPT !.secs = Append(@, NewSection(name))]

\* move_label_to_sec: the label of the line goes with the section; sections that
\* differ in kind keep it apart.
Kind(sec) == sec.flags \cap {"local", "abs"}
move_label(s, to) ==
    IF Kind(Cur(s)) # Kind(s.secs[to]) THEN general_error(s, 82)
    ELSE [s EXCEPT !.secs[s.current].atoms = Front(@),
                   !.secs[to].atoms = Append(@, Last(Cur(s).atoms)),
                   !.syms[s.fresh].sec = to, !.syms[s.fresh].val = s.secs[to].pc,
                   !.errs = @ \cup {83}]

\* set_section
set_section(s, to) ==
    IF to = s.current THEN s
    ELSE [(IF to # NoSection /\ s.current # NoSection /\ s.fresh # NoName
           THEN move_label(s, to) ELSE s) EXCEPT !.current = to, !.fresh = NoName]

SetSectionNamed(s, name) == set_section(s, SectionNamed(s, name))
switch_to(s, name) == SetSectionNamed(new_section(s, name), name)

\* new_org: a section of its own for every ORG.
OrgName(n) == <<"org", n>>
new_org(s, addr) ==
    [s EXCEPT !.orgs = @ + 1,
              !.secs = Append(@, [NewSection(OrgName(s.orgs + 1)) EXCEPT !.org = addr, !.pc = addr, !.flags = {"abs"}])]
set_org(s, addr) == set_section(new_org(s, addr), Len(s.secs) + 1)

\* switch_offset_section, with a name or without; Same keeps the offset.
Same == -1
OffsetSection(s, i, offs) ==
    set_section([s EXCEPT !.secs[i].flags = @ \cup {"unalloc"}, !.secs[i].org = IF offs = Same THEN @ ELSE offs,
                          !.secs[i].pc = IF offs = Same THEN @ ELSE offs], i)
SetOffsetNamed(s, n, offs) == OffsetSection(s, SectionNamed(s, n), offs)
switch_offset_section(s, name, offs) ==
    LET id == IF name = << >> /\ offs # Same THEN s.offsets + 1 ELSE s.offsets
    IN  SetOffsetNamed(new_section([s EXCEPT !.offsets = id], IF name = << >> THEN <<"offset", id>> ELSE name),
                       IF name = << >> THEN <<"offset", id>> ELSE name, offs)

\* default_section
default_section(s) ==
    IF s.current # NoSection THEN s
    ELSE IF s.defsect # << >> THEN switch_to(s, s.defsect) ELSE set_org(s, 0)

\* add_atom: behind the padding for its alignment.  The label of the same line gets
\* the alignment, and so the address, of the datum.
AppendAtom(s, type, bytes) ==
    [s EXCEPT !.secs[s.current].atoms = Append(@, [t |-> type, b |-> bytes, ref |-> NoName]),
              !.secs[s.current].pc = @ + Len(bytes), !.fresh = NoName]
add_atom_padded(s, type, pad, bytes) ==
    AppendAtom(IF s.fresh # NoName /\ type \in {"inst", "datadef", "space"} /\ Type(s, s.fresh) = "label"
               THEN [s EXCEPT !.syms[s.fresh].val = @ + Len(pad)] ELSE s, type, pad \o bytes)
Gap(s, align) == (align - (Cur(s).pc % align)) % align
AlignedIn(s, type, bytes, align) == add_atom_padded(s, type, Zeros(Gap(s, align)), bytes)
add_atom_aligned(s, type, bytes, align) == AlignedIn(default_section(s), type, bytes, align)
\* The gap filled with a pattern of some bytes, from its end.
Filled(s, align, pattern) ==
    LET gap == Gap(s, align)
        w == Len(pattern)
    IN  [i \in 1..gap |-> pattern[((i - 1 + w - (gap % w)) % w) + 1]]
add_atom(s, type, bytes) == add_atom_aligned(s, type, bytes, 1)
add_data(s, bytes) == add_atom(s, "data", bytes)
LastRefers(s, name) == [s EXCEPT !.secs[s.current].atoms[Len(Cur(s).atoms)].ref = name]
add_datadef(s, bytes, name) == LastRefers(add_atom(s, "datadef", bytes), name)
\* roffs_size: to an offset in the section that lies ahead.
add_roffs(s, offs, fill) == LET t == default_section(s)
                            IN  add_atom(t, "roffs", [i \in 1..(Cur(t).org + offs - Cur(t).pc) |-> fill])
add_space(s, n, fill) == add_atom(s, "space", [i \in 1..n |-> fill])

\* add_or_save_atom: what must not open a section waits for the first one.
add_or_save_atom(s, type) == IF s.current = NoSection THEN [s EXCEPT !.saved = @ + 1]
                             ELSE add_atom(s, type, << >>)
SECSTACKSIZE == 64
push_section(s) == IF s.current = NoSection THEN general_error(s, 3)
                   ELSE IF Len(s.secstack) >= SECSTACKSIZE THEN general_error(s, 76)
                   ELSE [s EXCEPT !.secstack = Append(@, s.current)]
pop_section(s) == IF s.secstack = << >> THEN general_error(s, 77)
                  ELSE set_section([s EXCEPT !.secstack = Front(@)], Last(s.secstack))

\* What goes to a section other than the current one.
InSection(s, i, Do(_)) == [Do([s EXCEPT !.current = i]) EXCEPT !.current = s.current, !.fresh = s.fresh]

\* start_rorg, end_rorg:
RorgOff(c) == [c EXCEPT !.pc = c.saved_pc + (c.pc - c.rorg_pc),
                        !.flags = (@ \ {"rorg", "prevabs", "abs"}) \cup (IF "prevabs" \in @ THEN {"abs"} ELSE {})]
RorgOn(c, addr) == [c EXCEPT !.flags = @ \cup {"rorg", "abs"} \cup (IF "abs" \in @ THEN {"prevabs"} ELSE {}),
                             !.saved_pc = c.pc, !.rorg_pc = addr, !.pc = addr]
WithCur(s, c) == [s EXCEPT !.secs[s.current] = c]
EndRorgIn(s) == WithCur(s, RorgOff(Cur(s)))
StartRorgIn(s, addr) == WithCur(s, RorgOn(Cur(s), addr))
reset_rorg(s) == EndRorgIn(add_atom(s, "rorgend", << >>))
InRorg(s) == s.current # NoSection /\ Has(s, s.current, "rorg")
end_rorg(s) == IF InRorg(s) THEN reset_rorg(s) ELSE general_error(default_section(s), 44)
try_end_rorg(s) == IF InRorg(s) THEN reset_rorg(s) ELSE s
start_rorg(s, addr) == StartRorgIn(add_atom(try_end_rorg(s), "rorg", << >>), addr)
-----------------------------------------------------------------------------
WithSym(s, name, sym) == [s EXCEPT !.syms = (name :> sym) @@ @]

\* eval_expr: the value of an operand, if it is a constant by now.
Known(s, e) == \/ e.t = "val"
               \/ /\ e.t = "ref"
                  /\ \/ Type(s, e.v) = "expr"
                     \/ Type(s, e.v) = "label" /\ s.secs[s.syms[e.v].sec].flags \cap {"abs", "unalloc"} # {}
Value(s, e) == IF e.t = "val" THEN e.v ELSE s.syms[e.v].val

\* new_import: the symbol, which may exist in any type.
new_import(s, name) ==
    IF Defined(s, name) THEN s
    ELSE WithSym(s, name, [type |-> "import", sec |-> NoSection, val |-> 0, flags |-> {}])
Binding(s, name, flag) == LET t == new_import(s, name) IN [t EXCEPT !.syms[name].flags = @ \cup {flag}]

\* new_abs, and new_equate for what may be defined once.  An expression whose
\* value is not known yet is an open one.
Unknown == -99999
Present == {"expr", "open", "label"}
new_abs(s, name, val) ==
    LET t == IF Defined(s, name) /\ "equate" \in s.syms[name].flags THEN general_error(s, 67) ELSE s
        u == IF Type(s, name) = "label" THEN general_error(t, 5) ELSE t
    IN  WithSym(u, name, [type |-> IF val = Unknown THEN "open" ELSE "expr", sec |-> NoSection, val |-> val,
                          flags |-> IF Defined(s, name) THEN s.syms[name].flags ELSE {}])
new_equate(s, name, val) ==
    LET t == new_abs(IF Type(s, name) \in Present THEN general_error(s, 67) ELSE s, name, val)
    IN  [t EXCEPT !.syms[name].flags = @ \cup {"equate"}]

\* new_labsym with the label atom that always follows it.
new_labsym(s, name) ==
    IF Type(s, name) \in Present THEN general_error(s, 74)
    ELSE WithSym(s, name, [type |-> "label", sec |-> s.current, val |-> Cur(s).pc,
                           flags |-> IF Defined(s, name) THEN s.syms[name].flags ELSE {}])
LabelAs(s, name) ==
    [AppendAtom(new_labsym(s, name), "label", << >>)
         EXCEPT !.last_global = IF IsLocal(name) THEN @ ELSE name, !.fresh = name]
LabelIn(s, n) == LabelAs(s, IF Has(s, s.current, "local") THEN Local(Cur(s).name, n) ELSE n)
new_label(s, n) == LabelIn(default_section(s), n)
-----------------------------------------------------------------------------
\* cond.c (module Cond has it with its arrays and limits): a level is 1 when its
\* branch is assembled, 0 when it was not yet and -1 when it is over.
clev(s) == Len(s.cond) - 1
cond_state(s) == Last(s.cond) = 1
cond_if(s, flag) == [s EXCEPT !.cond = Append(@, IF flag THEN 1 ELSE 0)]
cond_skipif(s) == [s EXCEPT !.ifnesting = @ + 1]
cond_else(s) == IF s.ifnesting # 0 THEN s
                ELSE [s EXCEPT !.cond[Len(s.cond)] = IF @ = 0 THEN 1 ELSE -1]
cond_skipelse(s) == IF clev(s) = 0 THEN general_error(s, 63)
                    ELSE [s EXCEPT !.cond[Len(s.cond)] = -1]
\* An else-if does not look at the nesting of what is skipped.
cond_elseif(s, flag) == IF clev(s) = 0 THEN general_error(s, 63)
                        ELSE [s EXCEPT !.cond[Len(s.cond)] = IF @ # 0 THEN -1 ELSE IF flag THEN 1 ELSE 0]
cond_endif(s) == IF s.ifnesting > 0 THEN [s EXCEPT !.ifnesting = @ - 1]
                 ELSE IF clev(s) = 0 THEN general_error(s, 64)
                 ELSE [s EXCEPT !.cond = Front(@)]
cond_check(s) == IF clev(s) > 0 THEN general_error(s, 66) ELSE s
-----------------------------------------------------------------------------
\* new_structure and end_structure: a structure is an offset section.
InStructure(s, name) == [s EXCEPT !.cur_struct = s.current, !.structs = @ \cup {name}]
new_structure(s, name) ==
    IF s.cur_struct # NoSection THEN general_error(s, 48)
    ELSE InStructure(switch_offset_section([s EXCEPT !.struct_prev = s.current], name, Same), name)
end_structure(s) ==
    IF s.cur_struct = NoSection THEN general_error(s, 49)
    ELSE [s EXCEPT !.cur_struct = NoSection, !.struct_prev = NoSection]
=============================================================================
