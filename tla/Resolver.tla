------------------------------ MODULE Resolver ------------------------------
(***************************************************************************)
(* The heart of vasm: how labels and atom sizes are brought to a fixpoint  *)
(* and then assembled (vasm.c: resolve_section, resolve, assemble, with    *)
(* internal_add_atom of atom.c for the parser's first guess and eval_expr, *)
(* add_dep, update_curpc of expr.c for the values sizes depend on).        *)
(*                                                                         *)
(* One step reads or visits one atom of one section.  A program gives for  *)
(* each section its origin, whether it is absolute (ORG), and its atoms in *)
(* order; the source may switch between its sections as it likes.  The     *)
(* size of an instruction is the CPU module's business and a parameter,    *)
(* InstSize; so is the arithmetic in a SPACE directive, ExprVal.           *)
(***************************************************************************)
EXTENDS Naturals, Sequences

CONSTANTS NumSecs,          \* sections are 1..NumSecs, in list order
          Labels,
          Programs,         \* the sources to assemble
          InstSize(_, _, _, _),  \* instruction, operand's value, place, warn flag
          ExprVal(_, _),    \* expression of a SPACE atom, value of its symbol
          MAXPASSES, FASTOPTPHASE, MAXSIZECHANGES

Sections == 1..NumSecs

\* An atom's expression refers to a label, to the current pc, or to nothing.
CurPc == "*"
NoRef == "-"

AtomTypes == {"label", "inst", "space", "data", "rorg", "rorgend", "roffs"}

IsAtom(a) == /\ a.t \in AtomTypes
             /\ a.ref \in IF a.t = "label" THEN Labels ELSE Labels \cup {CurPc, NoRef}
             /\ a.n \in Nat            \* data size, unit size, RORG address or ROFFS offset
             /\ a.align \in Nat \ {0}
             /\ a.max \in Nat          \* maxalignbytes; a.e: the mnemonic or the expression

\* start_rorg closes an open RORG block and cleanup_parse the last one, so the
\* RORG and RORGEND atoms of a section alternate; a label is defined once, in
\* its home section.
IsProgram(p) ==
    /\ p.org \in [Sections -> Nat]
    /\ p.abs \subseteq Sections        \* the ORG sections
    /\ p.home \in [Labels -> Sections]
    /\ \A s \in Sections :
         LET as == p.atoms[s]
         IN  /\ Len(as) \in Nat /\ \A i \in 1..Len(as) : IsAtom(as[i])
             /\ \A i \in 1..Len(as) : as[i].t = "rorgend" =>
                  \E j \in 1..i - 1 : /\ as[j].t = "rorg"
                                      /\ \A k \in j + 1..i - 1 : as[k].t \notin {"rorg", "rorgend"}
             /\ \A i \in 1..Len(as) : as[i].t = "rorg" =>
                  \E j \in i + 1..Len(as) : /\ as[j].t = "rorgend"
                                            /\ \A k \in i + 1..j - 1 : as[k].t # "rorg"
             /\ \A i \in 1..Len(as) : as[i].t = "label" =>
                  /\ p.home[as[i].ref] = s
                  /\ \A j \in 1..Len(as) : as[j].t = "label" /\ as[j].ref = as[i].ref => j = i

ASSUME ResolverAssumption ==
    /\ NumSecs \in Nat \ {0}
    /\ CurPc \notin Labels /\ NoRef \notin Labels
    /\ \A p \in Programs : IsProgram(p)
    /\ MAXPASSES \in Nat \ {0, 1}
    /\ FASTOPTPHASE \in Nat
    /\ MAXSIZECHANGES \in Nat

VARIABLES prog,
          phase,        \* "parse", "resolve", "assemble", "done" or "fatal"
          errs,         \* errors # 0; then only a listing is wanted
          parsed,       \* atoms of each section the parser has read
          sec,          \* pc, saved_pc, rorg_pc and flags of each section
          lab,          \* symbol->pc of every label
          defd,         \* labels the parser has seen
          abslab,       \* labels with the ABSLABEL flag
          lastsize,     \* atom->lastsize
          changes,      \* atom->changes
          deps,         \* section->deps: the sections to visit again with it
          todo,         \* resolve(): sections still to be resolved
          cur, idx,     \* the section being walked, and its next atom
          pass, fastphase, extrapass, done,   \* locals of resolve_section
          walk,         \* history: sec[s] before each atom in the last walk of s
          moved         \* history: instructions resized in this pass

vars == <<prog, phase, errs, parsed, sec, lab, defd, abslab, lastsize, changes, deps,
          todo, cur, idx, pass, fastphase, extrapass, done, walk, moved>>

Section == [pc : Nat, saved_pc : Nat, rorg_pc : Nat,
            flags : SUBSET {"ABSOLUTE", "PREVABS", "IN_RORG"}]

Atoms(s) == prog.atoms[s]
Here == Atoms(cur)[idx]
-----------------------------------------------------------------------------
\* pcalign: an alignment directive may give up when too many bytes are needed.
PcAlign(a, pc) == LET n == (a.align - (pc % a.align)) % a.align
                  IN  IF a.t = "space" /\ a.max # 0 /\ n > a.max THEN pc ELSE pc + n
Align(a, u) == [u EXCEPT !.pc = PcAlign(a, @)]

\* Entering and leaving a relocated ORG block.  resolve_section and assemble
\* leave it with the section relocatable.
EnterRorg(u, rorg) == [u EXCEPT !.saved_pc = u.pc, !.pc = rorg, !.rorg_pc = rorg,
                                !.flags = @ \cup {"ABSOLUTE", "IN_RORG"}]

\* Mutant: the length of the block is taken off instead of added.
LeaveRorgBack(u) == IF "IN_RORG" \in u.flags
                    THEN [u EXCEPT !.pc = u.saved_pc + (u.rorg_pc - u.pc),
                                   !.flags = @ \ {"ABSOLUTE", "IN_RORG"}]
                    ELSE u

LeaveRorg(u) == IF "IN_RORG" \in u.flags
                THEN [u EXCEPT !.pc = u.saved_pc + (u.pc - u.rorg_pc),
                               !.flags = @ \ {"ABSOLUTE", "IN_RORG"}]
                ELSE u

\* The parser saves the flag in PREVABS (start_rorg) and restores it (reset_rorg).
SaveAbs(u) == [u EXCEPT !.flags = IF "ABSOLUTE" \in @ THEN @ \cup {"PREVABS"} ELSE @ \ {"PREVABS"}]
RestoreAbs(u) == [u EXCEPT !.flags = IF "PREVABS" \in @ THEN @ \cup {"ABSOLUTE"} ELSE @ \ {"ABSOLUTE"}]

ParseRorg(a, u) == IF a.t = "rorg" THEN EnterRorg(SaveAbs(u), a.n)
                   ELSE IF a.t = "rorgend" THEN RestoreAbs(LeaveRorg(u))
                   ELSE u

Rorg(a, u) == IF a.t = "rorg" THEN EnterRorg(u, a.n)
              ELSE IF a.t = "rorgend" THEN LeaveRorg(u)
              ELSE u

\* Where resolve_section and assemble place an atom.
Place(a, u) == Rorg(a, Align(a, u))

\* eval_expr of a symbol: its value, and whether it is constant, an address of
\* this section or of another one, or of an (as yet) undefined symbol.
Kind(ref, s, u) ==
    IF ref = NoRef \/ (ref = CurPc /\ "ABSOLUTE" \in u.flags) \/ ref \in abslab THEN "const"
    ELSE IF ref = CurPc THEN "local"
    ELSE IF ref \notin defd THEN "undefined"
    ELSE IF prog.home[ref] = s THEN "local" ELSE "foreign"

Eval(ref, s, u) == [val  |-> IF ref = CurPc THEN u.pc ELSE IF ref \in defd THEN lab[ref] ELSE 0,
                    kind |-> Kind(ref, s, u)]

\* add_dep: reading a constant label of another section makes this section
\* depend on that one.
DepOn(a, s) == IF a.t \in {"inst", "space"} /\ a.ref \in defd \cap abslab
               THEN {prog.home[a.ref]} \ {s}
               ELSE {}
\* Mutant: the dependency is noted at the section that reads the label.
AddDepsReversed(a, s) == [d \in Sections |-> IF d = s THEN deps[d] \cup DepOn(a, s) ELSE deps[d]]

AddDeps(a, s) == [d \in Sections |-> IF d \in DepOn(a, s) THEN deps[d] \cup {s} ELSE deps[d]]

\* What an instruction's size may depend on of the section it is in.
Spot(u) == [pc |-> u.pc, flags |-> u.flags \cap {"ABSOLUTE"}]

\* atom_size of the atom placed at u.
AtomSize(a, s, u, warn) ==
    IF a.t = "data" THEN a.n
    ELSE IF a.t = "inst" THEN InstSize(a, Eval(a.ref, s, u), Spot(u), warn)
    ELSE IF a.t = "space" THEN a.n * ExprVal(a.e, Eval(a.ref, s, u).val)
    ELSE IF a.t = "roffs" /\ prog.org[s] + a.n > u.pc THEN prog.org[s] + a.n - u.pc
    ELSE 0

Advance(u, size) == [u EXCEPT !.pc = @ + size]

Warn(s, i) == changes[s][i] > MAXSIZECHANGES

\* sec->pc = sec->org, at the start of every walk.
Rewind(u, s) == [u EXCEPT !.pc = prog.org[s]]
-----------------------------------------------------------------------------
NewSection(s) == [pc |-> prog.org[s], saved_pc |-> 0, rorg_pc |-> 0,
                  flags |-> IF s \in prog.abs THEN {"ABSOLUTE"} ELSE {}]
PerAtom(v) == [s \in Sections |-> [i \in 1..Len(prog.atoms[s]) |-> v]]

Init == /\ prog \in Programs
        /\ phase = "parse"
        /\ errs \in BOOLEAN
        /\ parsed = [s \in Sections |-> 0]
        /\ sec = [s \in Sections |-> NewSection(s)]
        /\ lab = [l \in Labels |-> 0]
        /\ defd = {} /\ abslab = {}
        /\ lastsize = PerAtom(0) /\ changes = PerAtom(0)
        /\ deps = [s \in Sections |-> {}]
        /\ todo = {}
        /\ cur = 1 /\ idx = 1
        /\ pass = 0 /\ fastphase = FASTOPTPHASE /\ extrapass = FALSE /\ done = TRUE
        /\ walk = [s \in Sections |-> [i \in 1..Len(prog.atoms[s]) + 1 |-> NewSection(s)]]
        /\ moved = 0

resolver_vars == <<todo, cur, idx, pass, fastphase, extrapass, done, walk, moved>>

\* The parser appends a label atom, after new_labsym gave the label the pc of
\* its section; the label's alignment is copied from the next atom later.
AddLabel(s) ==
    LET i == parsed[s] + 1
        a == Atoms(s)[i]
    IN  /\ phase = "parse" /\ i <= Len(Atoms(s)) /\ a.t = "label"
        /\ lab' = [lab EXCEPT ![a.ref] = sec[s].pc]
        /\ defd' = defd \cup {a.ref}
        /\ abslab' = IF "ABSOLUTE" \in sec[s].flags THEN abslab \cup {a.ref} ELSE abslab
        /\ parsed' = [parsed EXCEPT ![s] = i]
        /\ UNCHANGED <<prog, phase, errs, sec, lastsize, changes, deps, resolver_vars>>

\* The parser appends any other atom (internal_add_atom, start_rorg,
\* reset_rorg), sized with the symbols known so far.
AddAtom(s) ==
    LET i == parsed[s] + 1
        a == Atoms(s)[i]
        u == Align(a, sec[s])
    IN  /\ phase = "parse" /\ i <= Len(Atoms(s)) /\ a.t # "label"
        /\ lastsize' = [lastsize EXCEPT ![s][i] = AtomSize(a, s, u, FALSE)]
        /\ sec' = [sec EXCEPT ![s] = ParseRorg(a, Advance(u, AtomSize(a, s, u, FALSE)))]
        /\ deps' = AddDeps(a, s)
        /\ parsed' = [parsed EXCEPT ![s] = i]
        /\ UNCHANGED <<prog, phase, errs, lab, defd, abslab, changes, resolver_vars>>

\* Pass n over section s starts: the head of the loop in resolve_section.
\* Reaching the maximum is a fatal error.
StartPass(s, n, fast, secs) ==
    /\ pass' = n
    /\ fastphase' = fast
    /\ IF n >= MAXPASSES
       THEN /\ phase' = "fatal"
            /\ sec' = secs
            /\ UNCHANGED <<cur, idx, walk, extrapass, done, moved>>
       ELSE /\ phase' = "resolve"
            /\ cur' = s /\ idx' = 1
            /\ done' = TRUE /\ extrapass' = (n <= fast) /\ moved' = 0
            /\ sec' = [secs EXCEPT ![s] = Rewind(@, s)]
            /\ walk' = [walk EXCEPT ![s][1] = Rewind(secs[s], s)]

\* assemble() starts on section s, or everything is assembled.
StartAssemble(s, secs) ==
    /\ IF s <= NumSecs
       THEN /\ phase' = "assemble"
            /\ cur' = s /\ idx' = 1
            /\ sec' = [secs EXCEPT ![s] = Rewind(@, s)]
       ELSE /\ phase' = "done"
            /\ sec' = secs
            /\ UNCHANGED <<cur, idx>>
    /\ UNCHANGED <<pass, fastphase, extrapass, done, walk, moved>>

\* The source is read: resolve() starts with every section to do.
EndParse ==
    /\ phase = "parse" /\ \A s \in Sections : parsed[s] = Len(Atoms(s))
    /\ todo' = Sections
    /\ StartPass(1, 1, FASTOPTPHASE, sec)
    /\ UNCHANGED <<prog, errs, parsed, lab, defd, abslab, lastsize, changes, deps>>

\* Mutant: a label that moved does not ask for another pass.
VisitLabelQuiet ==
    /\ phase = "resolve" /\ idx <= Len(Atoms(cur)) /\ Here.t = "label"
    /\ LET u == Place(Here, sec[cur])
       IN  /\ lab' = [lab EXCEPT ![Here.ref] = u.pc]
           /\ sec' = [sec EXCEPT ![cur] = u]
           /\ walk' = [walk EXCEPT ![cur][idx + 1] = u]
    /\ idx' = idx + 1
    /\ UNCHANGED <<prog, phase, errs, parsed, defd, abslab, lastsize, changes, deps,
                   todo, cur, pass, fastphase, extrapass, done, moved>>

\* One atom in resolve_section, a label: it moves when its section's pc did.
VisitLabel ==
    /\ phase = "resolve" /\ idx <= Len(Atoms(cur)) /\ Here.t = "label"
    /\ LET u == Place(Here, sec[cur])
       IN  /\ lab' = [lab EXCEPT ![Here.ref] = u.pc]
           /\ done' = (done /\ lab[Here.ref] = u.pc)
           /\ sec' = [sec EXCEPT ![cur] = u]
           /\ walk' = [walk EXCEPT ![cur][idx + 1] = u]
    /\ idx' = idx + 1
    /\ UNCHANGED <<prog, phase, errs, parsed, defd, abslab, lastsize, changes, deps,
                   todo, cur, pass, fastphase, extrapass, moved>>

\* Mutant: safe mode looks at the pass only for atoms that already changed.
KeepInstLater ==
    /\ phase = "resolve" /\ idx <= Len(Atoms(cur)) /\ Here.t = "inst"
    /\ pass > fastphase /\ ~done
    /\ LET u    == Place(Here, sec[cur])
           size == IF changes[cur][idx] > 0
                   THEN lastsize[cur][idx]
                   ELSE AtomSize(Here, cur, u, Warn(cur, idx))
       IN  /\ sec' = [sec EXCEPT ![cur] = Advance(u, size)]
           /\ walk' = [walk EXCEPT ![cur][idx + 1] = Advance(u, size)]
           /\ moved' = IF size # lastsize[cur][idx] THEN moved + 1 ELSE moved
           /\ lastsize' = [lastsize EXCEPT ![cur][idx] = size]
    /\ idx' = idx + 1
    /\ UNCHANGED <<prog, phase, errs, parsed, lab, defd, abslab, changes, deps,
                   todo, cur, pass, fastphase, extrapass, done>>

\* Safe mode: after the first change in a pass, instructions keep their size.
KeepInst ==
    /\ phase = "resolve" /\ idx <= Len(Atoms(cur)) /\ Here.t = "inst"
    /\ pass > fastphase /\ ~done
    /\ LET u == Advance(Place(Here, sec[cur]), lastsize[cur][idx])
       IN  /\ sec' = [sec EXCEPT ![cur] = u]
           /\ walk' = [walk EXCEPT ![cur][idx + 1] = u]
    /\ idx' = idx + 1
    /\ UNCHANGED <<prog, phase, errs, parsed, lab, defd, abslab, lastsize, changes, deps,
                   todo, cur, pass, fastphase, extrapass, done, moved>>

\* Any other atom is sized again.
VisitAtom ==
    /\ phase = "resolve" /\ idx <= Len(Atoms(cur)) /\ Here.t # "label"
    /\ Here.t = "inst" => pass <= fastphase \/ done
    /\ LET u    == Place(Here, sec[cur])
           size == AtomSize(Here, cur, u, Warn(cur, idx))
           old  == lastsize[cur][idx]
       IN  /\ lastsize' = [lastsize EXCEPT ![cur][idx] = size]
           /\ done' = (done /\ size = old)
           /\ changes' = IF size # old /\ pass > fastphase
                         THEN [changes EXCEPT ![cur][idx] = @ + 1]
                         ELSE changes
           /\ extrapass' = (extrapass /\ ~(size > old /\ pass <= fastphase))
           /\ moved' = IF size # old /\ Here.t = "inst" THEN moved + 1 ELSE moved
           /\ sec' = [sec EXCEPT ![cur] = Advance(u, size)]
           /\ walk' = [walk EXCEPT ![cur][idx + 1] = Advance(u, size)]
    /\ deps' = AddDeps(Here, cur)
    /\ idx' = idx + 1
    /\ UNCHANGED <<prog, phase, errs, parsed, lab, defd, abslab, todo, cur, pass, fastphase>>

\* resolve() visits the sections to do in list order, over and over.
NextSec(ts, s) == LET later == {t \in ts : t > s}
                      from  == IF later # {} THEN later ELSE ts
                  IN  CHOOSE t \in from : \A r \in from : r >= t

\* Mutants: a section that was resolved stays on the set; what depends on it is
\* put back only after a third pass.
EndPassVariant(gone, again) ==
    /\ phase = "resolve" /\ idx > Len(Atoms(cur))
    /\ LET fast == IF extrapass THEN fastphase + 1 ELSE fastphase
           more == (todo \ gone) \cup (IF again THEN deps[cur] ELSE {})
           secs == [sec EXCEPT ![cur] = LeaveRorg(@)]
       IN  IF ~errs /\ ~done
           THEN StartPass(cur, pass + 1, fast, secs) /\ UNCHANGED todo
           ELSE /\ todo' = more
                /\ IF more # {}
                   THEN StartPass(NextSec(more, cur), 1, FASTOPTPHASE, secs)
                   ELSE StartAssemble(1, secs)
    /\ UNCHANGED <<prog, errs, parsed, lab, defd, abslab, lastsize, changes, deps>>
EndPassLingers == EndPassVariant({}, pass > 1)
EndPassThird == EndPassVariant({cur}, pass > 2)

\* The end of a pass: another one while something changed and there are no
\* errors; otherwise resolve() takes the section off the set and, when it
\* needed a second pass, puts on the sections that depend on it.
EndPass ==
    /\ phase = "resolve" /\ idx > Len(Atoms(cur))
    /\ LET fast == IF extrapass THEN fastphase + 1 ELSE fastphase
           more == (todo \ {cur}) \cup (IF pass > 1 THEN deps[cur] ELSE {})
           secs == [sec EXCEPT ![cur] = LeaveRorg(@)]
       IN  IF ~errs /\ ~done
           THEN StartPass(cur, pass + 1, fast, secs) /\ UNCHANGED todo
           ELSE /\ todo' = more
                /\ IF more # {}
                   THEN StartPass(NextSec(more, cur), 1, FASTOPTPHASE, secs)
                   ELSE StartAssemble(1, secs)
    /\ UNCHANGED <<prog, errs, parsed, lab, defd, abslab, lastsize, changes, deps>>

\* One atom in assemble(): placed and sized for good.  A SPACE whose size is
\* not a constant is an error now.
AssembleAtom ==
    /\ phase = "assemble" /\ idx <= Len(Atoms(cur))
    /\ LET u == Place(Here, sec[cur])
       IN  /\ sec' = [sec EXCEPT ![cur] =
                        Advance(u, AtomSize(Here, cur, u, Warn(cur, idx)))]
           /\ errs' = (errs \/ (Here.t = "space" /\ Eval(Here.ref, cur, u).kind # "const"))
    /\ deps' = AddDeps(Here, cur)
    /\ idx' = idx + 1
    /\ UNCHANGED <<prog, phase, parsed, lab, defd, abslab, lastsize, changes,
                   todo, cur, pass, fastphase, extrapass, done, walk, moved>>

EndAssemble ==
    /\ phase = "assemble" /\ idx > Len(Atoms(cur))
    /\ StartAssemble(cur + 1, [sec EXCEPT ![cur] = LeaveRorg(@)])
    /\ UNCHANGED <<prog, errs, parsed, lab, defd, abslab, lastsize, changes, deps, todo>>

Next == \/ \E s \in Sections : AddLabel(s) \/ AddAtom(s)
        \/ EndParse
        \/ VisitLabel \/ KeepInst \/ VisitAtom \/ EndPass
        \/ AssembleAtom \/ EndAssemble

Spec == Init /\ [][Next]_vars

\* The assembler is one thread that runs until it stops.
FairSpec == Spec /\ WF_vars(Next)
-----------------------------------------------------------------------------
\* The walk stays inside the section's atoms, the pass counter within its limit
\* (resolve_section), and every pc, size and set of sections is one.
TypeOK ==
    /\ IsProgram(prog)
    /\ phase \in {"parse", "resolve", "assemble", "done", "fatal"}
    /\ errs \in BOOLEAN
    /\ \A s \in Sections : parsed[s] \in 0..Len(Atoms(s))
    /\ sec \in [Sections -> Section]
    /\ lab \in [Labels -> Nat]
    /\ defd \in SUBSET Labels /\ abslab \in SUBSET defd
    /\ \A s \in Sections : /\ lastsize[s] \in [1..Len(Atoms(s)) -> Nat]
                           /\ changes[s] \in [1..Len(Atoms(s)) -> Nat]
                           /\ walk[s] \in [1..Len(Atoms(s)) + 1 -> Section]
    /\ deps \in [Sections -> SUBSET Sections]
    /\ todo \in SUBSET Sections
    /\ cur \in Sections /\ idx \in 1..Len(Atoms(cur)) + 1
    /\ pass \in 0..MAXPASSES /\ fastphase \in Nat
    /\ extrapass \in BOOLEAN /\ done \in BOOLEAN
    /\ moved \in Nat

\* What the resolver is for: as long as no error is reported, assemble() meets
\* every atom at the address it had in the section's last resolver pass (so
\* all sizes are the ones the resolver saw), and every label has the address
\* at which assemble() meets it.  Otherwise code already assembled, in this section or
\* another, refers to wrong addresses without any message.
AssemblyConsistent ==
    phase = "assemble" /\ ~errs =>
        /\ sec[cur].pc = walk[cur][idx].pc
        /\ idx <= Len(Atoms(cur)) /\ Here.t = "label" =>
             lab[Here.ref] = PcAlign(Here, sec[cur].pc)

\* An atom whose size at its last address is its last size; a label that has
\* its address.  (A SPACE without a constant size is an error in the end.)
Settled(s, i) ==
    LET a == Atoms(s)[i]
        u == Place(a, walk[s][i])
    IN  IF a.t = "label"
        THEN walk[s][i + 1] = u /\ lab[a.ref] = u.pc
        ELSE /\ walk[s][i + 1] = Advance(u, lastsize[s][i])
             /\ \/ AtomSize(a, s, u, Warn(s, i)) = lastsize[s][i]
                \/ a.t = "space" /\ Eval(a.ref, s, u).kind # "const"

\* Sections in the same state: what was saved matters in a RORG block only.
Like(u, v) == /\ u.pc = v.pc
              /\ \A f \in {"ABSOLUTE", "IN_RORG"} : f \in u.flags <=> f \in v.flags
              /\ "IN_RORG" \in u.flags => u.saved_pc = v.saved_pc /\ u.rorg_pc = v.rorg_pc

Stable(s) == /\ Like(walk[s][1], Rewind(sec[s], s))
             /\ \A i \in 1..Len(Atoms(s)) : Settled(s, i)

\* resolve() forgets no section: one that is not to do is stable, or depends on
\* the current one, which has changed and will put it back.  In the current
\* section everything up to here is settled if nothing has changed.
WorklistSound ==
    phase = "resolve" /\ ~errs =>
        /\ \A s \in Sections \ (todo \cup {cur}) :
              Stable(s) \/ (s \in deps[cur] /\ ~(pass = 1 /\ done))
        /\ done => \A i \in 1..idx - 1 : Settled(cur, i)

\* "Thereafter the resolver enters a safe mode, where only a single
\* instruction is changed in every pass" (vasm.c), even when the instruction
\* that changes moves others out of their ranges.
SafeMode == phase = "resolve" /\ pass > fastphase => moved <= 1

\* A section whose sizes may depend on a label of another one.
Reads(s, other) == \E i \in 1..Len(Atoms(s)) : /\ Atoms(s)[i].t \in {"inst", "space"}
                                              /\ Atoms(s)[i].ref \in Labels
                                              /\ prog.home[Atoms(s)[i].ref] = other

\* Sections do not read each other's labels, not even through further ones.
OneWay == \E rank \in [Sections -> Sections] :
              \A s, other \in Sections : s # other /\ Reads(s, other) => rank[other] < rank[s]

\* The assembler stops, with a result or with error 7 after MAXPASSES, unless
\* sections read each other's labels: resolve_section starts to count the passes
\* at each visit, so nothing limits how often they bring each other back.
Terminates == OneWay => <>(phase \in {"done", "fatal"})
=============================================================================
