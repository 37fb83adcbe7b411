------------------------------- MODULE Source -------------------------------
(***************************************************************************)
(* The stack of source text instances (source.c) and the macros,           *)
(* repetitions and inclusions that push and pop them (parse.c), under a    *)
(* parser that reads one line at a time and executes it.                   *)
(*                                                                         *)
(* A text is a sequence of lines, a line a record whose op names what the  *)
(* parser finds there.  An operand is a term: a number, a macro argument   *)
(* by position or by name (also the name of an iterator), or REPTN.        *)
(***************************************************************************)
EXTENDS Integers, Sequences, FiniteSets, SequencesExt

CONSTANTS Programs,          \* the sources to assemble
          Text(_, _),        \* Text(p, f): the lines of file f of program p
          Available(_),      \* the names of the files of a program
          Main,              \* the name of the main source file
          maxmacrecurs, maxmacparams, MAXCONDLEV,
          enddir_minlen,     \* the length of the shortest end directive
          mnemonics,         \* the names of instructions of this CPU
          directives,        \* and of directives, in mnemohash and dirhash
          ignore_multinc(_), \* the program is assembled with -ignore-mult-inc
          DottedLists        \* the lists of end directives are given with a dot

ASSUME SourceAssumption ==
    /\ maxmacrecurs \in Nat \ {0} /\ maxmacparams \in Nat /\ MAXCONDLEV \in Nat \ {0}
    /\ DottedLists \in BOOLEAN /\ enddir_minlen \in Nat

FilesOf(p) == Available(p) \cup {Main}

\* Texts are sequences of lines, and so are the values of IRP.
IsSequence(q) == Len(q) \in Nat /\ DOMAIN q = 1..Len(q)
ASSUME TextsAssumption ==
    \A p \in Programs : \A f \in FilesOf(p) :
        /\ IsSequence(Text(p, f))
        /\ \A i \in DOMAIN Text(p, f) : Text(p, f)[i].op = "irp" => IsSequence(Text(p, f)[i].vals)

\* What begins with the name of an instruction or a directive is no call.
ASSUME CallsAssumption ==
    \A p \in Programs : \A f \in FilesOf(p) : \A i \in DOMAIN Text(p, f) :
        Text(p, f)[i].op = "call" => Text(p, f)[i].name \notin mnemonics \cup directives

\* Of the lines from a to b one is not blank.  A blank line is one character
\* long, every other one longer than an end directive.
Nonblank(q, a, b) == \E j \in a..b : q[j].op # "blank"

\* A definition begins and ends in one text: no text and no macro ends with the
\* line that opens one, or has only blank lines after it.  Where it does,
\* add_macro and start_repeat subtract pointers into different texts.
DefinitionsInOneText(q) ==
    \A i \in 1..Len(q) :
        q[i].op \in {"macro", "rept", "irp"} =>
            \E j \in i + 1..Len(q) : /\ q[j].op # "blank" /\ ~Nonblank(q, i + 1, j - 1)
                                     /\ q[i].op # "macro" => q[j].op # "endm"

VARIABLES prog,
          srcs,       \* cur_src and its parents, cur_src last
          files,      \* first_source and its successors: the files that were read
          objects,    \* every macro ever defined
          macrohash,  \* name -> macro, for the ones that can be found
          defn,       \* the definition being read: cur_macro or rept_start
          cond, clev, ifnesting,  \* see module Cond
          REPTN,      \* the internal symbol of that name
          emitted,    \* the data the assembled lines made
          errs,
          phase

vars == <<prog, srcs, files, objects, macrohash, defn, cond, clev, ifnesting, REPTN,
          emitted, errs, phase>>
condvars == <<cond, clev, ifnesting>>

NoDefinition == [op |-> "none"]
Ops == {"blank", "data", "if", "endif", "macro", "endm", "undef", "call", "mexit", "rept", "irp", "endr", "include"}

\* Operands are texts, sequences of words.  A name that means nothing to the
\* assembler is reported much later, as an undefined symbol.
Zero == <<0>>
Undefined == <<-99>>
Required == <<-98>>
CountOf(text) == IF text # << >> /\ text[1] \in Nat THEN text[1] ELSE 0

cur_src == Last(srcs)
Line(src) == Text(prog, src.file)[src.ptr]
AtEnd(src) == src.ptr > src.to

\* What is left of the text of src is not longer than an end directive.
ShortRest(src) == /\ ~Nonblank(Text(prog, src.file), src.ptr, src.to)
                  /\ src.to - src.ptr + 1 <= enddir_minlen
cond_state == cond[clev]

\* A message of general_errors.h; the fatal ones leave the assembler.
FATAL == {12, 25, 26, 32, 56, 65}
Report(es) == /\ errs' = errs \cup es
              /\ phase' = IF es \cap FATAL # {} THEN "fatal" ELSE phase

ReplaceCur(src) == [srcs EXCEPT ![Len(srcs)] = src]

\* Mutant: a MEXIT that is refused is read again.
AdvanceStuck == [cur_src EXCEPT !.ptr = IF Line(cur_src).op = "mexit" THEN @ ELSE @ + 1]

\* The line that is executed has been read.
Advance == [cur_src EXCEPT !.ptr = @ + 1]
-----------------------------------------------------------------------------
\* new_source: an instance that is read once; it inherits REPTN from its parent.
new_source(file, from, to, parents) ==
    [file |-> file, from |-> from, to |-> to, ptr |-> from, repeat |-> 1,
     macro |-> 0, defsrc |-> FALSE, num_params |-> -1, param |-> << >>,
     argnames |-> << >>, irpname |-> "", irpvals |-> << >>,
     cond_level |-> clev,
     reptn |-> IF parents = << >> THEN -1 ELSE Last(parents).reptn]

file_source(file, parents) == new_source(file, 1, Len(Text(prog, file)), parents)

Index(seq, x) == CHOOSE i \in DOMAIN seq : seq[i] = x

\* find_macarg_name with the copy_macro_param that follows: the names of a
\* macro's arguments are known in the macro's own text only.
find_macarg_value(src, n) ==
    IF src.macro # 0 /\ n \in ToSet(src.argnames)
    THEN src.param[Index(src.argnames, n)]
    ELSE IF src.irpname = n THEN src.irpvals[1]
    ELSE Undefined

\* What a term of a line of src stands for: expand_macro, then the parser.
Value(src, term) ==
    CASE term.t = "num"   -> <<term.v>>
      [] term.t = "arg"   -> IF term.v <= src.num_params THEN src.param[term.v] ELSE << >>
      [] term.t = "name"  -> find_macarg_value(src, term.v)
      [] term.t = "reptn" -> <<REPTN>>
-----------------------------------------------------------------------------
\* read_next_line, the end of an instance: it is read again, or left for its
\* parent; the end of the main source ends the assembly.
ReadAgain ==
    /\ phase = "parsing" /\ AtEnd(cur_src) /\ cur_src.repeat > 1
    /\ srcs' = ReplaceCur([cur_src EXCEPT !.ptr = cur_src.from, !.repeat = @ - 1,
                              !.irpvals = IF @ # << >> THEN Tail(@) ELSE @,
                              !.reptn = @ + 1])
    /\ REPTN' = cur_src.reptn + 1
    /\ UNCHANGED <<prog, files, objects, macrohash, defn, condvars, emitted, errs, phase>>

\* Mutant: a macro that was redefined meanwhile keeps its count.
EndRecursionHashed(src) ==
    [o \in DOMAIN objects |->
        IF o = src.macro /\ o \in Range(macrohash)
        THEN [objects[o] EXCEPT !.recursions = @ - 1] ELSE objects[o]]

\* --cur_src->macro->recursions
EndRecursion(src) ==
    [o \in DOMAIN objects |->
        IF o = src.macro THEN [objects[o] EXCEPT !.recursions = @ - 1] ELSE objects[o]]

\* Mutant: REPTN is left at the value of the repetition that ended.
RestoredStale(parents) == REPTN

\* The REPTN of the instance that is returned to.
Restored(parents) == Last(parents).reptn

LeaveSource ==
    /\ phase = "parsing" /\ AtEnd(cur_src) /\ cur_src.repeat <= 1
    /\ objects' = EndRecursion(cur_src)
    /\ IF Len(srcs) = 1
       THEN /\ phase' = "end" /\ UNCHANGED <<srcs, REPTN>>
            /\ errs' = errs \cup (IF clev > 0 THEN {66} ELSE {})
       ELSE /\ srcs' = Front(srcs) /\ REPTN' = Restored(Front(srcs))
            /\ UNCHANGED <<errs, phase>>
    /\ UNCHANGED <<prog, files, macrohash, defn, condvars, emitted>>
-----------------------------------------------------------------------------
\* dirlist_match: the name at this place is compared without its leading dot.
dirlist_match(line, dirs) == line.op \in dirs /\ ~DottedLists

\* The line with the end directive of the definition, 0 for none: the nesting
\* of repetitions is counted, the first end of a macro counts.
EndLine(lines, from, to) ==
    LET Nest(i) == 1 + Cardinality({j \in from..i : dirlist_match(lines[j], {"rept", "irp"})})
                     - Cardinality({j \in from..i : dirlist_match(lines[j], {"endr"})})
        ends == IF defn.op = "macro"
                THEN {i \in from..to : dirlist_match(lines[i], {"endm"})}
                ELSE {i \in from..to : Nest(i) = 0}
    IN  IF ends = {} THEN 0 ELSE CHOOSE i \in ends : \A j \in ends : i <= j

\* add_macro: a macro whose name has another meaning is not kept.
add_macro(end) ==
    /\ \/ defn.kept = FALSE /\ UNCHANGED <<objects, macrohash>>
       \/ /\ defn.kept = TRUE
          /\ objects' = Append(objects, [name |-> defn.name, vararg |-> defn.vararg,
                                         file |-> defn.file, from |-> defn.from, to |-> end - 1,
                                         argnames |-> defn.argnames, defaults |-> defn.defaults,
                                         recursions |-> 0])
          /\ macrohash' = [n \in DOMAIN macrohash \cup {defn.name} |->
                              IF n = defn.name THEN Len(objects) + 1 ELSE macrohash[n]]
    /\ srcs' = ReplaceCur([cur_src EXCEPT !.ptr = end + 1])
    /\ UNCHANGED REPTN

\* Mutant: a repetition in a macro does not know the macro's arguments.
start_repeat_bare(src, end) ==
    [new_source(defn.file, defn.from, end - 1, srcs) EXCEPT
        !.repeat = defn.cnt, !.reptn = 0, !.defsrc = TRUE,
        !.irpname = defn.name, !.irpvals = defn.vals]

\* start_repeat: the new instance, with the parameters of the macro it is in.
start_repeat(src, end) ==
    [new_source(defn.file, defn.from, end - 1, srcs) EXCEPT
        !.repeat = defn.cnt, !.reptn = 0, !.defsrc = TRUE,
        !.irpname = defn.name, !.irpvals = defn.vals,
        !.num_params = src.num_params, !.param = src.param, !.argnames = src.argnames]

\* read_next_line, the lines of a definition: they are skipped up to the end
\* directive, for which there must be room.
ReadDefinition ==
    /\ phase = "parsing" /\ defn # NoDefinition /\ ~AtEnd(cur_src) /\ ~ShortRest(cur_src)
    /\ LET end == EndLine(Text(prog, cur_src.file), cur_src.ptr, cur_src.to)
           past == ReplaceCur([cur_src EXCEPT !.ptr = end + 1])
       IN  IF end = 0
           THEN /\ Report({IF defn.op = "macro" THEN 25 ELSE 32})
                /\ UNCHANGED <<srcs, objects, macrohash, REPTN, defn>>
           ELSE /\ defn' = NoDefinition
                /\ UNCHANGED <<errs, phase>>
                /\ \/ defn.op = "macro" /\ add_macro(end)
                   \/ /\ defn.op = "rept" /\ defn.cnt > 0
                      /\ srcs' = Append(past, start_repeat(cur_src, end))
                      /\ REPTN' = 0
                      /\ UNCHANGED <<objects, macrohash>>
                   \/ /\ defn.op = "rept" /\ defn.cnt = 0
                      /\ srcs' = past
                      /\ UNCHANGED <<objects, macrohash, REPTN>>
    /\ UNCHANGED <<prog, files, condvars, emitted>>
-----------------------------------------------------------------------------
\* The parser has a line of kind op to execute.
Read(op) == /\ phase = "parsing" /\ defn = NoDefinition /\ ~AtEnd(cur_src)
            /\ Line(cur_src).op = op
            /\ UNCHANGED prog
Execute(op) == Read(op) /\ cond_state

\* cond_if
If ==
    /\ Execute("if")
    /\ srcs' = ReplaceCur(Advance)
    /\ clev' = clev + 1
    /\ IF clev + 1 >= MAXCONDLEV THEN Report({65}) /\ UNCHANGED cond
       ELSE /\ cond' = [cond EXCEPT ![clev + 1] = Value(cur_src, Line(cur_src).x) # Zero]
            /\ UNCHANGED <<errs, phase>>
    /\ UNCHANGED <<files, objects, macrohash, defn, ifnesting, REPTN, emitted>>

\* cond_endif
Endif ==
    /\ Read("endif")
    /\ srcs' = ReplaceCur(Advance)
    /\ IF ifnesting > 0
       THEN ifnesting' = ifnesting - 1 /\ UNCHANGED <<clev, errs, phase>>
       ELSE /\ UNCHANGED ifnesting
            /\ IF clev > 0 THEN clev' = clev - 1 /\ UNCHANGED <<errs, phase>>
               ELSE Report({64}) /\ UNCHANGED clev
    /\ UNCHANGED <<files, objects, macrohash, defn, cond, REPTN, emitted>>

\* Whatever else is on a line of a disabled block is passed over; an IF there
\* is counted, cond_skipif.
Skip ==
    /\ \E op \in Ops \ {"blank", "endif"} : Read(op)
    /\ ~cond_state
    /\ srcs' = ReplaceCur(Advance)
    /\ ifnesting' = ifnesting + (IF Line(cur_src).op = "if" THEN 1 ELSE 0)
    /\ UNCHANGED <<files, objects, macrohash, defn, cond, clev, REPTN, emitted, errs, phase>>

\* A blank line, also in a disabled block and where the text is too short to
\* end the definition that is read.
Blank ==
    /\ phase = "parsing" /\ ~AtEnd(cur_src) /\ Line(cur_src).op = "blank"
    /\ defn = NoDefinition \/ ShortRest(cur_src)
    /\ srcs' = ReplaceCur(Advance)
    /\ UNCHANGED <<prog, files, objects, macrohash, defn, condvars, REPTN, emitted, errs, phase>>

\* A line that makes an atom.
Data ==
    /\ Execute("data")
    /\ srcs' = ReplaceCur(Advance)
    /\ emitted' = Append(emitted, Value(cur_src, Line(cur_src).x))
    /\ UNCHANGED <<files, objects, macrohash, defn, condvars, REPTN, errs, phase>>

\* ENDM and ENDR where no definition is read.
UnexpectedEnd ==
    /\ \E op \in {"endm", "endr"} : Execute(op)
    /\ srcs' = ReplaceCur(Advance)
    /\ Report({IF Line(cur_src).op = "endm" THEN 1012 ELSE 1011})
    /\ UNCHANGED <<files, objects, macrohash, defn, condvars, REPTN, emitted>>

\* The warning for a macro with the name of an instruction or a directive.
Conflict(name) == IF name \in mnemonics THEN {51} ELSE IF name \in directives THEN {52} ELSE {}

\* new_macro: an old definition of the name is taken out of the hash table, and
\* a definition in a macro or a repetition is fatal.
new_macro ==
    /\ Execute("macro")
    /\ LET l == Line(cur_src) IN
       /\ Report((IF l.name \in DOMAIN macrohash THEN {88} ELSE {})
                   \cup (IF cur_src.defsrc THEN {26} ELSE Conflict(l.name)))
       /\ macrohash' = Restrict(macrohash, DOMAIN macrohash \ {l.name})
       /\ defn' = [op |-> "macro", name |-> l.name, argnames |-> l.argnames,
                   defaults |-> l.defaults, vararg |-> l.vararg, kept |-> Conflict(l.name) = {},
                   file |-> cur_src.file, from |-> cur_src.ptr + 1]
    /\ srcs' = ReplaceCur(Advance)
    /\ UNCHANGED <<files, objects, condvars, REPTN, emitted>>

\* undef_macro
undef_macro ==
    /\ Execute("undef")
    /\ LET l == Line(cur_src) IN
       /\ Report(IF l.name \in DOMAIN macrohash THEN {} ELSE {68})
       /\ macrohash' = Restrict(macrohash, DOMAIN macrohash \ {l.name})
    /\ srcs' = ReplaceCur(Advance)
    /\ UNCHANGED <<files, objects, defn, condvars, REPTN, emitted>>

\* new_repeat, by REPT with a count and by IRP with values.
new_repeat ==
    /\ \E op \in {"rept", "irp"} : Execute(op)
    /\ LET l == Line(cur_src)
           vals == [i \in DOMAIN l.vals |-> Value(cur_src, l.vals[i])]
       IN defn' = [op |-> "rept", name |-> l.name, vals |-> IF l.op = "irp" THEN vals ELSE << >>,
                   cnt |-> IF l.op = "irp" THEN Len(vals) ELSE CountOf(Value(cur_src, l.x)),
                   file |-> cur_src.file, from |-> cur_src.ptr + 1]
    /\ srcs' = ReplaceCur(Advance)
    /\ UNCHANGED <<files, objects, macrohash, condvars, REPTN, emitted, errs, phase>>
-----------------------------------------------------------------------------
\* The arguments of a call, one after the other: by position or by keyword, but
\* not both.  n is the number of the next positional argument, -1 once keywords
\* are used; the variable argument takes all that is left.
TakeArg(m, acc, args, i) ==
    LET arg == args[i] IN
    IF acc.done \/ acc.n >= maxmacparams THEN acc
    ELSE IF acc.n >= 0 /\ acc.n = m.vararg
    THEN [acc EXCEPT !.param[acc.n + 1] = FlattenSeq([j \in 1..Len(args) - i + 1 |-> args[i + j - 1].text]),
                     !.n = @ + 1, !.done = TRUE]
    ELSE IF arg.key # ""
    THEN IF acc.n > 0 THEN [acc EXCEPT !.errs = @ \cup {71}]
         ELSE IF arg.key \in ToSet(m.argnames)
         THEN [acc EXCEPT !.param[Index(m.argnames, arg.key)] = arg.text, !.n = -1]
         ELSE [acc EXCEPT !.errs = @ \cup {72}, !.n = -1]
    ELSE IF acc.n < 0 THEN [acc EXCEPT !.errs = @ \cup {71}]
    ELSE [acc EXCEPT !.n = @ + 1,
                     !.param[acc.n + 1] = IF arg.text # << >> THEN arg.text ELSE @]

\* The parameters of a call: the defaults, then the arguments that are given.
\* Names of arguments define their number.
Parameters(m, args) ==
    LET base == [n |-> 0, done |-> FALSE, errs |-> {},
                 param |-> [i \in 1..maxmacparams |->
                              IF i <= Len(m.defaults) THEN m.defaults[i] ELSE << >>]]
        acc == FoldLeft(LAMBDA a, i : TakeArg(m, a, args, i), base, [i \in 1..Len(args) |-> i])
    IN  [num |-> IF m.argnames # << >> THEN Len(m.argnames) ELSE acc.n,
         param |-> [i \in 1..maxmacparams |-> IF acc.param[i] = Required THEN << >> ELSE acc.param[i]],
         errs |-> acc.errs
                    \cup (IF m.argnames # << >> /\ acc.n > Len(m.argnames) THEN {87} ELSE {})
                    \cup (IF \E i \in 1..maxmacparams : acc.param[i] = Required THEN {73} ELSE {})]

\* The limit of recursions is reached.
AtLimit(m) == m.recursions >= maxmacrecurs

\* execute_macro: the arguments were expanded where the call is, as every line.
execute_macro ==
    /\ Execute("call")
    /\ LET l == Line(cur_src)
           args == [i \in DOMAIN l.args |-> [key |-> l.args[i].key, text |-> Value(cur_src, l.args[i].x)]]
       IN  IF l.name \notin DOMAIN macrohash
           THEN Report({1}) /\ srcs' = ReplaceCur(Advance) /\ UNCHANGED objects
           ELSE LET o == macrohash[l.name]
                    m == objects[o]
                    p == Parameters(m, args)
                IN  IF AtLimit(m)
                    THEN Report({56}) /\ UNCHANGED <<srcs, objects>>
                    ELSE /\ Report(p.errs)
                         /\ objects' = [objects EXCEPT ![o].recursions = @ + 1]
                         /\ srcs' = Append(ReplaceCur(Advance),
                                      [new_source(m.file, m.from, m.to, srcs) EXCEPT
                                          !.macro = o, !.defsrc = TRUE, !.argnames = m.argnames,
                                          !.num_params = p.num, !.param = p.param])
    /\ UNCHANGED <<files, macrohash, defn, condvars, REPTN, emitted>>

\* Mutant: the last line is counted twice.
end_source_past(src) == /\ srcs' = ReplaceCur([src EXCEPT !.ptr = src.to + 2, !.repeat = 1])
                        /\ clev' = src.cond_level

\* end_source: nothing more is read, and the level of conditional assembly is
\* the one the instance began with.
end_source(src) == /\ srcs' = ReplaceCur([src EXCEPT !.ptr = src.to + 1, !.repeat = 1])
                   /\ clev' = src.cond_level

\* leave_macro, by MEXIT: only where the macro's own text is read.
leave_macro ==
    /\ Execute("mexit")
    /\ IF cur_src.macro # 0
       THEN end_source(cur_src) /\ UNCHANGED <<errs, phase>>
       ELSE Report({36}) /\ srcs' = ReplaceCur(Advance) /\ UNCHANGED clev
    /\ UNCHANGED <<files, objects, macrohash, defn, cond, ifnesting, REPTN, emitted>>

\* The file was read before.
KnownFile(f) == f \in files

\* include_source
include_source ==
    /\ Execute("include")
    /\ LET f == Line(cur_src).name IN
       IF f \notin Available(prog)
       THEN Report({12}) /\ UNCHANGED <<srcs, files>>
       ELSE /\ srcs' = IF KnownFile(f) /\ ignore_multinc(prog) THEN ReplaceCur(Advance)
                       ELSE Append(ReplaceCur(Advance), file_source(f, srcs))
            /\ files' = files \cup {f}
            /\ UNCHANGED <<errs, phase>>
    /\ UNCHANGED <<objects, macrohash, defn, condvars, REPTN, emitted>>
-----------------------------------------------------------------------------
\* include_main_source, with cond_init.
Init ==
    /\ prog \in Programs
    /\ cond = [i \in 0..MAXCONDLEV |-> TRUE] /\ clev = 0 /\ ifnesting = 0
    /\ srcs = <<file_source(Main, << >>)>>
    /\ files = {Main}
    /\ objects = << >> /\ macrohash = << >> /\ defn = NoDefinition
    /\ REPTN = -1 /\ emitted = << >> /\ errs = {} /\ phase = "parsing"

Next ==
    \/ ReadAgain \/ LeaveSource \/ ReadDefinition
    \/ If \/ Endif \/ Skip \/ Blank \/ Data \/ UnexpectedEnd
    \/ new_macro \/ undef_macro \/ execute_macro \/ leave_macro \/ new_repeat \/ include_source

\* The parser reads until the end of the main source or a fatal error.
Spec == Init /\ [][Next]_vars /\ WF_vars(Next)
-----------------------------------------------------------------------------
\* Type invariant.
TypeOK ==
    /\ prog \in Programs
    /\ srcs # << >> /\ \A i \in DOMAIN srcs :
          /\ srcs[i].ptr \in srcs[i].from .. (srcs[i].to + 1)
          /\ srcs[i].macro \in 0..Len(objects) /\ srcs[i].repeat \in Nat
          /\ srcs[i].cond_level \in 0..MAXCONDLEV
    /\ Range(macrohash) \subseteq DOMAIN objects
    /\ clev \in 0..MAXCONDLEV /\ ifnesting \in Nat /\ cond \in [0..MAXCONDLEV -> BOOLEAN]
    /\ phase \in {"parsing", "end", "fatal"}

\* The count of recursions of a macro is the number of instances of it that are
\* being read, whatever is redefined, removed, included or left by MEXIT
\* meanwhile (execute_macro, read_next_line); it is never above the limit.
RecursionsBalanced ==
    phase # "end" =>
      \A o \in DOMAIN objects :
        /\ objects[o].recursions = Cardinality({i \in DOMAIN srcs : srcs[i].macro = o})
        /\ objects[o].recursions <= maxmacrecurs

\* REPTN is the iteration of the innermost repetition that is being read, also
\* in macros and files that are entered from there and after one was left, and
\* -1 outside of all repetitions (new_source, start_repeat, read_next_line).
ReptnIsInnermost ==
    LET rept == {i \in DOMAIN srcs : srcs[i].macro = 0 /\ srcs[i].defsrc}
    IN  REPTN = IF rept = {} THEN -1
                ELSE srcs[CHOOSE i \in rept : \A j \in rept : j <= i].reptn

\* The assembly ends, at the end of the source or with a fatal error, when no
\* file includes itself: only macros are protected by a limit.
Terminates == <>(phase # "parsing")
=============================================================================
