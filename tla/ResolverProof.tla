--------------------------- MODULE ResolverProof ---------------------------
(***************************************************************************)
(* Proofs about the resolver, for every number of sections, every set of   *)
(* programs and every backend: the layout the last passes found is the one *)
(* that is assembled.                                                      *)
(***************************************************************************)
EXTENDS Resolver, Wellorder, SequenceTheorems, TLAPS

Kinds == {"const", "local", "foreign", "undefined"}
Operand == [val : Nat, kind : Kinds]
Spots == [pc : Nat, flags : SUBSET {"ABSOLUTE"}]

\* What is asked of a backend and of expressions: sizes are numbers of bytes.
SizesAreNat ==
    \A p \in Programs, s \in Sections : \A i \in 1..Len(p.atoms[s]) :
      /\ p.atoms[s][i].t = "inst" =>
           \A v \in Operand, u \in Spots, w \in BOOLEAN : InstSize(p.atoms[s][i], v, u, w) \in Nat
      /\ p.atoms[s][i].t = "space" =>
           \A v \in Nat : ExprVal(p.atoms[s][i].e, v) \in Nat

\* In a RORG block the pc is behind the block's address.
IsSec(u) == u \in Section /\ ("IN_RORG" \in u.flags => u.rorg_pc <= u.pc)
-----------------------------------------------------------------------------
(* The operators                                                           *)

\* pcalign only moves forward.
LEMMA PcAlignUp ==
    ASSUME NEW a, IsAtom(a), NEW pc \in Nat
    PROVE  PcAlign(a, pc) \in Nat /\ pc <= PcAlign(a, pc)
  <1>1. PICK n \in Nat \ {0} : n = a.align
    BY DEF IsAtom
  <1>2. pc % n \in 0..n - 1
    BY <1>1
  <1>3. PICK m \in Nat : m = n - (pc % n)
    BY <1>1, <1>2
  <1>4. m % n \in Nat
    BY <1>1
  <1>5. PcAlign(a, pc) = IF a.t = "space" /\ a.max # 0 /\ m % n > a.max THEN pc ELSE pc + (m % n)
    BY <1>1, <1>3 DEF PcAlign
  <1> QED BY <1>4, <1>5

\* Each part of a visit keeps IsSec: aligning,
LEMMA AlignIsSec ==
    ASSUME NEW a, IsAtom(a), NEW u, IsSec(u)
    PROVE  IsSec(Align(a, u)) /\ Align(a, u).flags = u.flags
  <1>1. PICK x \in Nat : x = PcAlign(a, u.pc) /\ u.pc <= x
    BY PcAlignUp DEF IsSec, Section
  <1>2. Align(a, u) = [u EXCEPT !.pc = x]
    BY <1>1 DEF Align
  <1> QED BY <1>1, <1>2 DEF IsSec, Section

\* entering a RORG block,
LEMMA EnterIsSec ==
    ASSUME NEW u, IsSec(u), NEW n \in Nat
    PROVE  IsSec(EnterRorg(u, n)) /\ EnterRorg(u, n).flags = u.flags \cup {"ABSOLUTE", "IN_RORG"}
  <1>1. u \in Section
    BY DEF IsSec
  <1>2. PICK v : v = EnterRorg(u, n)
    OBVIOUS
  <1>3. v \in Section /\ v.flags = u.flags \cup {"ABSOLUTE", "IN_RORG"}
    BY <1>1, <1>2 DEF Section, EnterRorg
  <1>4. v.pc = n /\ v.rorg_pc = n
    BY <1>1, <1>2 DEF Section, EnterRorg
  <1> QED BY <1>2, <1>3, <1>4 DEF IsSec

\* leaving it,
LEMMA LeaveIsSec ==
    ASSUME NEW u, IsSec(u)
    PROVE  /\ IsSec(LeaveRorg(u)) /\ "IN_RORG" \notin LeaveRorg(u).flags
           /\ LeaveRorg(u).flags = IF "IN_RORG" \in u.flags THEN u.flags \ {"ABSOLUTE", "IN_RORG"} ELSE u.flags
  <1>1. u \in Section /\ u.pc \in Nat /\ u.rorg_pc \in Nat /\ u.saved_pc \in Nat
    BY DEF IsSec, Section
  <1>2. CASE "IN_RORG" \in u.flags
    <2>1. PICK x \in Nat : x = u.saved_pc + (u.pc - u.rorg_pc)
      BY <1>1, <1>2 DEF IsSec
    <2>2. LeaveRorg(u) = [u EXCEPT !.pc = x, !.flags = u.flags \ {"ABSOLUTE", "IN_RORG"}]
      BY <1>1, <1>2, <2>1 DEF LeaveRorg, Section
    <2>3. LeaveRorg(u) \in Section /\ LeaveRorg(u).flags = u.flags \ {"ABSOLUTE", "IN_RORG"}
      BY <1>1, <2>1, <2>2 DEF Section
    <2> QED BY <1>2, <2>3 DEF IsSec
  <1>3. CASE "IN_RORG" \notin u.flags
    BY <1>1, <1>3 DEF LeaveRorg, IsSec
  <1> QED BY <1>2, <1>3

\* adding the size of the atom,
LEMMA AdvanceIsSec ==
    ASSUME NEW u, IsSec(u), NEW n \in Nat
    PROVE  IsSec(Advance(u, n)) /\ Advance(u, n).flags = u.flags
  BY DEF IsSec, Section, Advance

\* the three of them as the resolver does them,
LEMMA PlaceIsSec ==
    ASSUME NEW a, IsAtom(a), NEW u, IsSec(u)
    PROVE  /\ IsSec(Place(a, u))
           /\ a.t # "rorg" /\ a.t # "rorgend" => Place(a, u) = Align(a, u)
  <1>1. PICK v : v = Align(a, u) /\ IsSec(v)
    BY AlignIsSec
  <1>2. a.n \in Nat
    BY DEF IsAtom
  <1>3. IsSec(EnterRorg(v, a.n)) /\ IsSec(LeaveRorg(v))
    BY <1>1, <1>2, EnterIsSec, LeaveIsSec
  <1> QED BY <1>1, <1>3 DEF Place, Rorg

\* and as the parser does them.
LEMMA ParseRorgIsSec ==
    ASSUME NEW a, IsAtom(a), NEW u, IsSec(u)
    PROVE  /\ IsSec(ParseRorg(a, u))
           /\ a.t = "rorg" => "IN_RORG" \in ParseRorg(a, u).flags
           /\ a.t = "rorgend" => "IN_RORG" \notin ParseRorg(a, u).flags
           /\ a.t \notin {"rorg", "rorgend"} => ParseRorg(a, u) = u
  <1>1. a.n \in Nat
    BY DEF IsAtom
  <1>2. IsSec(SaveAbs(u))
    BY DEF SaveAbs, IsSec, Section
  <1>3. PICK v : v = LeaveRorg(u) /\ IsSec(v) /\ "IN_RORG" \notin v.flags
    BY LeaveIsSec
  <1>4. IsSec(RestoreAbs(v)) /\ "IN_RORG" \notin RestoreAbs(v).flags
    BY <1>3 DEF RestoreAbs, IsSec, Section
  <1>5. IsSec(EnterRorg(SaveAbs(u), a.n)) /\ "IN_RORG" \in EnterRorg(SaveAbs(u), a.n).flags
    BY <1>1, <1>2, EnterIsSec
  <1> QED BY <1>3, <1>4, <1>5 DEF ParseRorg

\* A walk starts outside of RORG blocks.
LEMMA RewindIsSec ==
    ASSUME NEW u, IsSec(u), "IN_RORG" \notin u.flags, NEW s, prog.org[s] \in Nat
    PROVE  /\ IsSec(Rewind(u, s)) /\ Rewind(u, s).flags = u.flags
           /\ Rewind(u, s).pc = prog.org[s]
  BY DEF IsSec, Section, Rewind

\* f becomes g when its value for index i of section s becomes x.
Sets(f, g, s, i, x) ==
    /\ DOMAIN g = DOMAIN f
    /\ \A t \in DOMAIN f : t # s => g[t] = f[t]
    /\ DOMAIN g[s] = DOMAIN f[s]
    /\ g[s][i] = x
    /\ \A j \in DOMAIN f[s] : j # i => g[s][j] = f[s][j]
-----------------------------------------------------------------------------
(* Types                                                                   *)

\* While a section is parsed it is in a RORG block exactly when the last RORG
\* atom has no RORGEND yet.
Blocks(s) ==
    LET as == Atoms(s)
        i == parsed[s]
    IN  /\ "IN_RORG" \in sec[s].flags =>
             \E j \in 1..i : /\ as[j].t = "rorg"
                             /\ \A k \in j + 1..i : as[k].t \notin {"rorg", "rorgend"}
        /\ "IN_RORG" \notin sec[s].flags =>
             \A j \in 1..i : as[j].t = "rorg" => \E k \in j + 1..i : as[k].t = "rorgend"

\* The inductive invariant for the types: a section that is not being walked is
\* outside of RORG blocks.
BInv == /\ TypeOK /\ prog \in Programs
        /\ DOMAIN parsed = Sections /\ DOMAIN lastsize = Sections
        /\ DOMAIN changes = Sections /\ DOMAIN walk = Sections
        /\ \A s \in Sections : IsSec(sec[s])
        /\ phase = "parse" => \A s \in Sections : Blocks(s)
        /\ phase \in {"resolve", "assemble"} =>
             \A s \in Sections : s # cur => "IN_RORG" \notin sec[s].flags
        /\ phase = "resolve" => 1 <= pass /\ pass < MAXPASSES

\* The atoms of the program.
LEMMA ProgramFacts ==
    ASSUME TypeOK, NEW s \in Sections
    PROVE  /\ prog.org[s] \in Nat /\ Len(Atoms(s)) \in Nat
           /\ \A i \in 1..Len(Atoms(s)) :
                /\ IsAtom(Atoms(s)[i])
                /\ Atoms(s)[i].t = "label" => /\ Atoms(s)[i].ref \in Labels
                                              /\ prog.home[Atoms(s)[i].ref] = s
  <1>1. IsProgram(prog)
    BY DEF TypeOK
  <1>2. parsed[s] \in 0..Len(Atoms(s))
    BY DEF TypeOK
  <1>3. Len(Atoms(s)) \in Nat
    BY <1>2
  <1>4. /\ prog.org[s] \in Nat /\ prog.home \in [Labels -> Sections]
        /\ \A i \in 1..Len(Atoms(s)) : IsAtom(Atoms(s)[i])
        /\ \A i \in 1..Len(Atoms(s)) : Atoms(s)[i].t = "label" => prog.home[Atoms(s)[i].ref] = s
    BY <1>1 DEF IsProgram, Atoms
  <1>5. \A i \in 1..Len(Atoms(s)) : Atoms(s)[i].t = "label" => Atoms(s)[i].ref \in Labels
    BY <1>4 DEF IsAtom
  <1> QED BY <1>3, <1>4, <1>5

\* Its RORG blocks are closed and do not nest.
LEMMA ProgramBlocks ==
    ASSUME TypeOK, NEW s \in Sections, NEW i \in 1..Len(Atoms(s))
    PROVE  /\ Atoms(s)[i].t = "rorgend" =>
                \E j \in 1..i - 1 :
                   /\ Atoms(s)[j].t = "rorg"
                   /\ \A k \in j + 1..i - 1 : Atoms(s)[k].t \notin {"rorg", "rorgend"}
           /\ Atoms(s)[i].t = "rorg" =>
                \E j \in i + 1..Len(Atoms(s)) :
                   /\ Atoms(s)[j].t = "rorgend"
                   /\ \A k \in i + 1..j - 1 : Atoms(s)[k].t # "rorg"
  BY DEF TypeOK, IsProgram, Atoms

\* What an operand evaluates to.
LEMMA EvalType ==
    ASSUME TypeOK, NEW a, IsAtom(a), NEW s \in Sections, NEW u, IsSec(u)
    PROVE  Eval(a.ref, s, u) \in Operand /\ Spot(u) \in Spots
  <1>1. u.pc \in Nat /\ lab \in [Labels -> Nat] /\ defd \subseteq Labels
    BY DEF TypeOK, IsSec, Section
  <1>2. PICK x : x = IF a.ref = CurPc THEN u.pc ELSE IF a.ref \in defd THEN lab[a.ref] ELSE 0
    OBVIOUS
  <1>3. x \in Nat
    BY <1>1, <1>2
  <1>4. PICK k : k = Kind(a.ref, s, u)
    OBVIOUS
  <1>5. k \in Kinds
    BY <1>4 DEF Kind, Kinds
  <1>6. Eval(a.ref, s, u) = [val |-> x, kind |-> k]
    BY <1>2, <1>4 DEF Eval
  <1>7. Spot(u) \in Spots
    BY <1>1 DEF Spot, Spots
  <1> QED BY <1>3, <1>5, <1>6, <1>7 DEF Operand

\* The size of an atom is a number, of an instruction by assumption.
LEMMA AtomSizeType ==
    ASSUME TypeOK, prog \in Programs, SizesAreNat, NEW s \in Sections, NEW i \in 1..Len(Atoms(s)),
           NEW u, IsSec(u), NEW w \in BOOLEAN
    PROVE  AtomSize(Atoms(s)[i], s, u, w) \in Nat
  <1>1. PICK a : a = Atoms(s)[i] /\ a = prog.atoms[s][i] /\ IsAtom(a)
    BY ProgramFacts DEF Atoms
  <1>2. a.n \in Nat /\ prog.org[s] \in Nat /\ u.pc \in Nat
    BY <1>1, ProgramFacts DEF IsAtom, IsSec, Section
  <1>3. PICK v \in Operand, q \in Spots : v = Eval(a.ref, s, u) /\ q = Spot(u)
    BY <1>1, EvalType
  <1>4. a.t = "inst" => InstSize(a, v, q, w) \in Nat
    BY <1>1 DEF SizesAreNat, Atoms
  <1>5. a.t = "space" => a.n * ExprVal(a.e, v.val) \in Nat
    <2>1. SUFFICES ASSUME a.t = "space" PROVE a.n * ExprVal(a.e, v.val) \in Nat
      OBVIOUS
    <2>2. v.val \in Nat
      BY <1>3 DEF Operand
    <2>3. PICK y \in Nat : y = ExprVal(a.e, v.val)
      BY <1>1, <2>1, <2>2 DEF SizesAreNat, Atoms
    <2> QED BY <1>2, <2>3
  <1>6. AtomSize(a, s, u, w) = IF a.t = "data" THEN a.n
                               ELSE IF a.t = "inst" THEN InstSize(a, v, q, w)
                               ELSE IF a.t = "space" THEN a.n * ExprVal(a.e, v.val)
                               ELSE IF a.t = "roffs" /\ prog.org[s] + a.n > u.pc THEN prog.org[s] + a.n - u.pc
                               ELSE 0
    BY <1>3 DEF AtomSize
  <1>7. prog.org[s] + a.n > u.pc => prog.org[s] + a.n - u.pc \in Nat
    BY <1>2
  <1>8. a.t = "inst" \/ a.t = "space" => AtomSize(a, s, u, w) \in Nat
    BY <1>4, <1>5, <1>6
  <1>9. a.t \notin {"inst", "space"} => AtomSize(a, s, u, w) \in Nat
    BY <1>2, <1>6, <1>7
  <1> QED BY <1>1, <1>8, <1>9

\* Where a walk is: its section, its next atom.
LEMMA Walking ==
    ASSUME BInv
    PROVE  /\ cur \in Sections /\ idx \in Nat \ {0} /\ idx \in 1..Len(Atoms(cur)) + 1
           /\ IsSec(sec[cur]) /\ DOMAIN sec = Sections
           /\ idx <= Len(Atoms(cur)) =>
                /\ idx \in 1..Len(Atoms(cur)) /\ IsAtom(Here) /\ Here = Atoms(cur)[idx]
                /\ idx + 1 \in 1..Len(Atoms(cur)) + 1
                /\ IsSec(Place(Here, sec[cur]))
  <1>1. TypeOK /\ cur \in Sections /\ idx \in 1..Len(Atoms(cur)) + 1
    BY DEF BInv, TypeOK
  <1>2. PICK n \in Nat : n = Len(Atoms(cur))
    BY <1>1, ProgramFacts
  <1>3. idx \in Nat \ {0} /\ (idx <= n => idx \in 1..n /\ idx + 1 \in 1..n + 1)
    BY <1>1, <1>2
  <1>4. IsSec(sec[cur]) /\ DOMAIN sec = Sections
    BY <1>1 DEF BInv, TypeOK
  <1>5. idx <= n => IsAtom(Here) /\ Here = Atoms(cur)[idx]
    BY <1>1, <1>2, <1>3, ProgramFacts DEF Here
  <1> QED BY <1>1, <1>2, <1>3, <1>4, <1>5, PlaceIsSec

\* The warning flag is one.
LEMMA WarnType ==
    ASSUME NEW s, NEW i
    PROVE  Warn(s, i) \in BOOLEAN
  BY DEF Warn

\* What the visits of an atom have in common: the section is at v now.
Steps(v) ==
    /\ sec' = [sec EXCEPT ![cur] = v]
    /\ walk' = [walk EXCEPT ![cur][idx + 1] = v]
    /\ idx' = idx + 1
    /\ UNCHANGED <<prog, phase, errs, parsed, defd, abslab, todo, cur, pass, fastphase>>

\* A visit moves the section it is in and nothing else.
LEMMA StepsKeep ==
    ASSUME BInv, phase = "resolve", idx <= Len(Atoms(cur)), NEW v, IsSec(v), Steps(v)
    PROVE  /\ sec' \in [Sections -> Section] /\ \A s \in Sections : IsSec(sec'[s])
           /\ \A s \in Sections : s # cur => sec'[s] = sec[s]
           /\ sec'[cur] = v
           /\ Sets(walk, walk', cur, idx + 1, v)
           /\ \A s \in Sections : walk'[s] \in [1..Len(Atoms(s)) + 1 -> Section]
           /\ idx' \in 1..Len(Atoms(cur)) + 1
           /\ \A s : Atoms(s)' = Atoms(s)
  <1>1. v \in Section /\ cur \in Sections /\ DOMAIN walk = Sections
    BY Walking DEF IsSec, BInv
  <1>2. idx + 1 \in 1..Len(Atoms(cur)) + 1
    BY Walking
  <1>3. sec \in [Sections -> Section] /\ \A s \in Sections : IsSec(sec[s])
    BY DEF BInv, TypeOK
  <1>4. /\ sec' \in [Sections -> Section] /\ sec'[cur] = v
        /\ \A s \in Sections : s # cur => sec'[s] = sec[s]
    BY <1>1, <1>3 DEF Steps
  <1>5. \A s \in Sections : walk[s] \in [1..Len(Atoms(s)) + 1 -> Section]
    BY DEF BInv, TypeOK
  <1>6. Sets(walk, walk', cur, idx + 1, v) /\ walk'[cur] \in [1..Len(Atoms(cur)) + 1 -> Section]
    <2>1. walk' = [walk EXCEPT ![cur][idx + 1] = v]
      BY DEF Steps
    <2> QED BY <1>1, <1>2, <1>5, <2>1 DEF Sets
  <1>7. \A s \in Sections : walk'[s] \in [1..Len(Atoms(s)) + 1 -> Section]
    BY <1>1, <1>5, <1>6 DEF Sets
  <1>8. \A s \in Sections : IsSec(sec'[s])
    BY <1>3, <1>4
  <1>9. \A s : Atoms(s)' = Atoms(s)
    BY DEF Steps, Atoms
  <1>10. idx' \in 1..Len(Atoms(cur)) + 1
    BY <1>2 DEF Steps
  <1> QED BY <1>4, <1>6, <1>7, <1>8, <1>9, <1>10

\* The data of the atoms.
AtomData == /\ DOMAIN lastsize = Sections /\ DOMAIN changes = Sections
            /\ \A s \in Sections : /\ lastsize[s] \in [1..Len(Atoms(s)) -> Nat]
                                   /\ changes[s] \in [1..Len(Atoms(s)) -> Nat]

\* So it keeps BInv, whatever it does to the data of its atom:
LEMMA VisitBInv ==
    ASSUME BInv, phase = "resolve", idx <= Len(Atoms(cur)), NEW v, IsSec(v), Steps(v),
           lab' \in [Labels -> Nat], AtomData', deps' \in [Sections -> SUBSET Sections],
           done' \in BOOLEAN, extrapass' \in BOOLEAN, moved' \in Nat
    PROVE  BInv'
  <1>1. /\ UNCHANGED <<prog, phase, errs, parsed, defd, abslab, todo, cur, pass, fastphase>>
        /\ phase' = "resolve" /\ DOMAIN walk' = DOMAIN walk
    BY StepsKeep DEF Steps, Sets
  <1>2. /\ (phase \in {"parse", "resolve", "assemble", "done", "fatal"})'
        /\ (defd \in SUBSET Labels /\ abslab \in SUBSET defd /\ todo \in SUBSET Sections /\ cur \in Sections)'
        /\ (pass \in 0..MAXPASSES /\ fastphase \in Nat)'
    BY <1>1 DEF BInv, TypeOK
  <1>3. IsProgram(prog)' /\ (errs \in BOOLEAN)'
    <2>1. IsProgram(prog) /\ errs \in BOOLEAN
      BY DEF BInv, TypeOK
    <2> QED BY <1>1, <2>1
  <1>4. \A s \in Sections : parsed'[s] \in 0..Len(Atoms(s)')
    BY <1>1, StepsKeep DEF BInv, TypeOK
  <1>5. TypeOK'
    BY <1>1, <1>2, <1>3, <1>4, StepsKeep DEF AtomData, TypeOK
  <1> QED BY <1>1, <1>5, StepsKeep DEF BInv, AtomData

\* a label,
LEMMA BInvVisitLabel ==
    ASSUME BInv, VisitLabel
    PROVE  BInv' /\ Steps(Place(Here, sec[cur]))
  <1>1. PICK v : v = Place(Here, sec[cur])
    OBVIOUS
  <1>2. phase = "resolve" /\ idx <= Len(Atoms(cur)) /\ Steps(v)
    BY <1>1 DEF VisitLabel, Steps
  <1>3. IsSec(v) /\ v.pc \in Nat
    BY <1>1, <1>2, Walking DEF IsSec, Section
  <1>4. lab' \in [Labels -> Nat]
    <2>1. lab' = [lab EXCEPT ![Here.ref] = v.pc] /\ lab \in [Labels -> Nat]
      BY <1>1 DEF VisitLabel, BInv, TypeOK
    <2> QED BY <1>3, <2>1
  <1>5. AtomData' /\ deps' \in [Sections -> SUBSET Sections] /\ moved' \in Nat
    BY <1>2, StepsKeep, <1>3 DEF VisitLabel, AtomData, BInv, TypeOK
  <1>6. done' \in BOOLEAN /\ extrapass' \in BOOLEAN
    BY DEF VisitLabel, BInv, TypeOK
  <1> QED BY <1>1, <1>2, <1>3, <1>4, <1>5, <1>6, VisitBInv

\* an instruction that may not change any more,
LEMMA BInvKeepInst ==
    ASSUME BInv, KeepInst
    PROVE  BInv' /\ Steps(Advance(Place(Here, sec[cur]), lastsize[cur][idx]))
  <1>1. PICK v : v = Advance(Place(Here, sec[cur]), lastsize[cur][idx])
    OBVIOUS
  <1>2. phase = "resolve" /\ idx <= Len(Atoms(cur)) /\ Steps(v)
    BY <1>1 DEF KeepInst, Steps
  <1>3. IsSec(v)
    <2>1. lastsize[cur][idx] \in Nat
      BY <1>2, Walking DEF BInv, TypeOK
    <2> QED BY <1>1, <1>2, <2>1, Walking, AdvanceIsSec
  <1>4. lab' \in [Labels -> Nat]
    BY DEF KeepInst, BInv, TypeOK
  <1>5. AtomData' /\ deps' \in [Sections -> SUBSET Sections] /\ moved' \in Nat
    BY <1>2, StepsKeep, <1>3 DEF KeepInst, AtomData, BInv, TypeOK
  <1>6. done' \in BOOLEAN /\ extrapass' \in BOOLEAN
    BY DEF KeepInst, BInv, TypeOK
  <1> QED BY <1>1, <1>2, <1>3, <1>4, <1>5, <1>6, VisitBInv

\* add_dep notes sections only.
LEMMA AddDepsType ==
    ASSUME TypeOK, NEW a, IsAtom(a), NEW s \in Sections
    PROVE  /\ AddDeps(a, s) \in [Sections -> SUBSET Sections]
           /\ \A d \in Sections : deps[d] \subseteq AddDeps(a, s)[d]
  BY DEF AddDeps, TypeOK

\* and every other atom.
LEMMA BInvVisitAtom ==
    ASSUME BInv, SizesAreNat, VisitAtom
    PROVE  /\ BInv'
           /\ Steps(Advance(Place(Here, sec[cur]), AtomSize(Here, cur, Place(Here, sec[cur]), Warn(cur, idx))))
  <1>1. PICK u : u = Place(Here, sec[cur])
    OBVIOUS
  <1>2. PICK size : size = AtomSize(Here, cur, u, Warn(cur, idx))
    OBVIOUS
  <1>3. PICK v : v = Advance(u, size)
    OBVIOUS
  <1>4. phase = "resolve" /\ idx <= Len(Atoms(cur)) /\ Steps(v)
    BY <1>1, <1>2, <1>3 DEF VisitAtom, Steps
  <1>5. size \in Nat /\ IsSec(v)
    <2>1. IsSec(u) /\ idx \in 1..Len(Atoms(cur)) /\ Here = Atoms(cur)[idx] /\ cur \in Sections
      BY <1>1, <1>4, Walking
    <2>2. size \in Nat
      BY <1>2, <2>1, WarnType, AtomSizeType DEF BInv
    <2> QED BY <1>3, <2>1, <2>2, AdvanceIsSec
  <1>6. lab' \in [Labels -> Nat]
    BY DEF VisitAtom, BInv, TypeOK
  <1>7. deps' \in [Sections -> SUBSET Sections]
    BY <1>4, Walking, AddDepsType DEF VisitAtom, BInv
  <1>8. moved' \in Nat
    <2>1. moved \in Nat /\ (moved' = moved \/ moved' = moved + 1)
      BY DEF VisitAtom, BInv, TypeOK
    <2> QED BY <2>1
  <1>9. AtomData'
    <2>1. \A s : Atoms(s)' = Atoms(s)
      BY <1>4, <1>5, StepsKeep
    <2>2. AtomData /\ cur \in Sections /\ idx \in 1..Len(Atoms(cur))
      BY <1>4, Walking DEF AtomData, BInv, TypeOK
    <2>3. lastsize' = [lastsize EXCEPT ![cur][idx] = size]
      BY <1>1, <1>2 DEF VisitAtom
    <2>4. changes' = changes \/ changes' = [changes EXCEPT ![cur][idx] = @ + 1]
      BY DEF VisitAtom
    <2>5. DOMAIN lastsize' = Sections /\ \A s \in Sections : lastsize'[s] \in [1..Len(Atoms(s)) -> Nat]
      BY <1>5, <2>2, <2>3 DEF AtomData
    <2>6. DOMAIN changes' = Sections /\ \A s \in Sections : changes'[s] \in [1..Len(Atoms(s)) -> Nat]
      <3>1. PICK x \in Nat : x = changes[cur][idx] + 1
        BY <2>2 DEF AtomData
      <3>2. changes' = changes \/ changes' = [changes EXCEPT ![cur][idx] = x]
        BY <2>4, <3>1
      <3>3. CASE changes' = changes
        BY <2>2, <3>3 DEF AtomData
      <3>4. CASE changes' = [changes EXCEPT ![cur][idx] = x]
        BY <2>2, <3>1, <3>4 DEF AtomData
      <3> QED BY <3>2, <3>3, <3>4
    <2> QED BY <2>1, <2>5, <2>6 DEF AtomData
  <1>10. done' \in BOOLEAN /\ extrapass' \in BOOLEAN
    BY DEF VisitAtom, BInv, TypeOK
  <1> QED BY <1>1, <1>2, <1>3, <1>4, <1>5, <1>6, <1>7, <1>8, <1>9, <1>10, VisitBInv

\* resolve() goes on with a section of its set.
LEMMA NextSecIn ==
    ASSUME NEW ts, ts \subseteq Sections, ts # {}, NEW s
    PROVE  NextSec(ts, s) \in ts
  <1> DEFINE later == {t \in ts : t > s}
  <1>1. PICK from : from = IF later # {} THEN later ELSE ts
    OBVIOUS
  <1>2. from \subseteq ts /\ from # {} /\ from \subseteq Nat
    <2>1. ts \subseteq Nat
      BY DEF Sections
    <2>2. later \subseteq ts
      OBVIOUS
    <2> HIDE DEF later
    <2> QED BY <1>1, <2>1, <2>2
  <1>3. \E t \in from : \A r \in from : t <= r
    BY <1>2, Least
  <1>4. \E t \in from : \A r \in from : r >= t
    BY <1>2, <1>3
  <1>5. NextSec(ts, s) = CHOOSE t \in from : \A r \in from : r >= t
    BY <1>1 DEF NextSec
  <1> HIDE DEF later
  <1> QED BY <1>2, <1>4, <1>5

\* What the steps between two walks leave alone.
Between == /\ UNCHANGED <<prog, errs, parsed, lab, defd, abslab, lastsize, changes, deps>>
           /\ todo' \subseteq Sections

\* The sections when no walk is under way.
AtRest(secs) == /\ secs \in [Sections -> Section]
                /\ \A t \in Sections : IsSec(secs[t]) /\ "IN_RORG" \notin secs[t].flags

\* Between two walks only the place of the walk changes.
LEMMA BetweenKeeps ==
    ASSUME BInv, Between
    PROVE  /\ IsProgram(prog)' /\ (prog \in Programs)' /\ (\A s : Atoms(s)' = Atoms(s))
           /\ (errs \in BOOLEAN)' /\ (\A s \in Sections : parsed'[s] \in 0..Len(Atoms(s)))
           /\ lab' \in [Labels -> Nat] /\ defd' \in SUBSET Labels /\ abslab' \in SUBSET defd'
           /\ \A s \in Sections : /\ lastsize'[s] \in [1..Len(Atoms(s)) -> Nat]
                                  /\ changes'[s] \in [1..Len(Atoms(s)) -> Nat]
           /\ deps' \in [Sections -> SUBSET Sections] /\ todo' \in SUBSET Sections
           /\ DOMAIN parsed' = Sections /\ DOMAIN lastsize' = Sections /\ DOMAIN changes' = Sections
  <1>1. /\ UNCHANGED <<prog, parsed, lab, defd, abslab, lastsize, changes, deps>> /\ errs' = errs
        /\ todo' \in SUBSET Sections
    BY DEF Between
  <1>2. IsProgram(prog)' /\ (prog \in Programs)'
    <2>1. IsProgram(prog) /\ prog \in Programs
      BY DEF BInv, TypeOK
    <2> QED BY <1>1, <2>1
  <1>3. \A s : Atoms(s)' = Atoms(s)
    BY <1>1 DEF Atoms
  <1>4. (errs \in BOOLEAN)'
    BY <1>1 DEF BInv, TypeOK
  <1> QED BY <1>1, <1>2, <1>3, <1>4 DEF BInv, TypeOK

\* A new pass begins at the section's start,
LEMMA BInvStartPass ==
    ASSUME BInv, Between, NEW s \in Sections, NEW n \in Nat \ {0}, n <= MAXPASSES, NEW fast \in Nat,
           NEW secs, AtRest(secs), StartPass(s, n, fast, secs)
    PROVE  BInv'
  <1>1. pass' = n /\ fastphase' = fast /\ pass' \in 0..MAXPASSES /\ MAXPASSES \in Nat
    BY ResolverAssumption DEF StartPass
  <1>2. CASE n >= MAXPASSES
    <2>1. /\ phase' = "fatal" /\ sec' = secs /\ UNCHANGED <<cur, idx, walk, moved>>
      BY <1>2 DEF StartPass
    <2>2. done' \in BOOLEAN /\ extrapass' \in BOOLEAN
      BY <1>2 DEF StartPass, BInv, TypeOK
    <2>3. /\ cur' \in Sections /\ idx' \in 1..Len(Atoms(cur')) + 1 /\ moved' \in Nat
          /\ DOMAIN walk' = Sections
          /\ \A t \in Sections : walk'[t] \in [1..Len(Atoms(t)) + 1 -> Section]
      BY <2>1 DEF BInv, TypeOK
    <2>4. TypeOK'
      BY <1>1, <2>1, <2>2, <2>3, BetweenKeeps DEF TypeOK, AtRest
    <2> QED BY <2>1, <2>3, <2>4, BetweenKeeps DEF BInv, AtRest
  <1>3. CASE ~(n >= MAXPASSES)
    <2> DEFINE v == Rewind(secs[s], s)
    <2>1. IsSec(v) /\ "IN_RORG" \notin v.flags /\ v \in Section
      BY RewindIsSec, ProgramFacts DEF AtRest, BInv, IsSec
    <2> HIDE DEF v
    <2>2. /\ phase' = "resolve" /\ cur' = s /\ idx' = 1 /\ moved' = 0
          /\ sec' = [secs EXCEPT ![s] = v]
          /\ walk' = [walk EXCEPT ![s][1] = v]
      BY <1>3 DEF StartPass, v
    <2>3. done' \in BOOLEAN /\ extrapass' \in BOOLEAN
      BY <1>3 DEF StartPass
    <2>4. /\ sec' \in [Sections -> Section]
          /\ \A t \in Sections : IsSec(sec'[t]) /\ "IN_RORG" \notin sec'[t].flags
      BY <2>1, <2>2 DEF AtRest
    <2>5. PICK m \in Nat : m = Len(Atoms(s))
      BY ProgramFacts DEF BInv
    <2>6. 1 \in 1..m + 1
      BY <2>5
    <2>7. /\ DOMAIN walk' = Sections
          /\ \A t \in Sections : walk'[t] \in [1..Len(Atoms(t)) + 1 -> Section]
      <3>1. DOMAIN walk = Sections /\ \A t \in Sections : walk[t] \in [1..Len(Atoms(t)) + 1 -> Section]
        BY DEF BInv, TypeOK
      <3> QED BY <2>1, <2>2, <2>5, <2>6, <3>1
    <2>8. idx' \in 1..Len(Atoms(cur')) + 1 /\ cur' \in Sections /\ moved' \in Nat
      BY <2>2, <2>5, <2>6
    <2>9. TypeOK'
      BY <1>1, <2>2, <2>3, <2>4, <2>7, <2>8, BetweenKeeps DEF TypeOK
    <2>10. 1 <= pass' /\ pass' < MAXPASSES
      BY <1>1, <1>3
    <2> QED BY <2>2, <2>4, <2>7, <2>9, <2>10, BetweenKeeps DEF BInv
  <1> QED BY <1>2, <1>3

\* assemble() likewise.
LEMMA BInvStartAssemble ==
    ASSUME BInv, Between, NEW s \in Nat \ {0}, NEW secs, AtRest(secs), StartAssemble(s, secs)
    PROVE  BInv'
  <1>1. /\ UNCHANGED <<pass, fastphase, walk, moved>>
    BY DEF StartAssemble
  <1>2. done' \in BOOLEAN /\ extrapass' \in BOOLEAN
    BY DEF StartAssemble, BInv, TypeOK
  <1>3. /\ pass' \in 0..MAXPASSES /\ fastphase' \in Nat /\ moved' \in Nat /\ DOMAIN walk' = Sections
        /\ \A t \in Sections : walk'[t] \in [1..Len(Atoms(t)) + 1 -> Section]
    BY <1>1 DEF BInv, TypeOK
  <1>4. CASE s <= NumSecs
    <2>1. s \in Sections
      BY <1>4, ResolverAssumption DEF Sections
    <2> DEFINE v == Rewind(secs[s], s)
    <2>2. IsSec(v) /\ "IN_RORG" \notin v.flags /\ v \in Section
      BY <2>1, RewindIsSec, ProgramFacts DEF AtRest, BInv, IsSec
    <2> HIDE DEF v
    <2>3. phase' = "assemble" /\ cur' = s /\ idx' = 1 /\ sec' = [secs EXCEPT ![s] = v]
      BY <1>4 DEF StartAssemble, v
    <2>4. /\ sec' \in [Sections -> Section]
          /\ \A t \in Sections : IsSec(sec'[t]) /\ "IN_RORG" \notin sec'[t].flags
      BY <2>1, <2>2, <2>3 DEF AtRest
    <2>5. PICK m \in Nat : m = Len(Atoms(s))
      BY <2>1, ProgramFacts DEF BInv
    <2>6. idx' \in 1..Len(Atoms(cur')) + 1 /\ cur' \in Sections
      BY <2>1, <2>3, <2>5
    <2>7. TypeOK'
      BY <1>2, <1>3, <2>3, <2>4, <2>6, BetweenKeeps DEF TypeOK
    <2> QED BY <1>3, <2>3, <2>4, <2>7, BetweenKeeps DEF BInv
  <1>5. CASE ~(s <= NumSecs)
    <2>1. phase' = "done" /\ sec' = secs /\ UNCHANGED <<cur, idx>>
      BY <1>5 DEF StartAssemble
    <2>2. cur' \in Sections /\ idx' \in 1..Len(Atoms(cur')) + 1
      BY <2>1 DEF BInv, TypeOK
    <2>3. TypeOK'
      BY <1>2, <1>3, <2>1, <2>2, BetweenKeeps DEF TypeOK, AtRest
    <2> QED BY <1>3, <2>1, <2>3, BetweenKeeps DEF BInv, AtRest
  <1> QED BY <1>4, <1>5

\* The parser closed every RORG block.
LEMMA BInvEndParse ==
    ASSUME BInv, EndParse
    PROVE  BInv' /\ AtRest(sec) /\ Between
  <1>1. /\ phase = "parse" /\ (\A s \in Sections : parsed[s] = Len(Atoms(s)))
        /\ todo' = Sections /\ StartPass(1, 1, FASTOPTPHASE, sec)
    BY DEF EndParse
  <1>2. Between
    BY <1>1 DEF EndParse, Between
  <1>3. ASSUME NEW s \in Sections, "IN_RORG" \in sec[s].flags PROVE FALSE
    <2>1. PICK n \in Nat : n = Len(Atoms(s)) /\ parsed[s] = n
      BY <1>1, ProgramFacts DEF BInv
    <2>2. PICK j \in 1..n : /\ Atoms(s)[j].t = "rorg"
                            /\ \A k \in j + 1..n : Atoms(s)[k].t \notin {"rorg", "rorgend"}
      BY <1>1, <1>3, <2>1 DEF BInv, Blocks
    <2>3. \E k \in j + 1..n : Atoms(s)[k].t = "rorgend"
      BY <2>1, <2>2, ProgramBlocks DEF BInv
    <2> QED BY <2>2, <2>3
  <1>4. AtRest(sec)
    BY <1>3 DEF AtRest, BInv, TypeOK
  <1>5. 1 \in Sections /\ 1 <= MAXPASSES /\ FASTOPTPHASE \in Nat
    BY ResolverAssumption DEF Sections
  <1> QED BY <1>1, <1>2, <1>4, <1>5, BInvStartPass

\* A walk that ends leaves its section outside of RORG blocks.
LEMMA LeavesAtRest ==
    ASSUME BInv, phase \in {"resolve", "assemble"}
    PROVE  AtRest([sec EXCEPT ![cur] = LeaveRorg(@)])
  <1>1. sec \in [Sections -> Section] /\ cur \in Sections
    BY DEF BInv, TypeOK
  <1>2. PICK v : v = LeaveRorg(sec[cur]) /\ IsSec(v) /\ "IN_RORG" \notin v.flags /\ v \in Section
    BY <1>1, LeaveIsSec DEF BInv, IsSec
  <1>3. PICK secs : secs = [sec EXCEPT ![cur] = v]
    OBVIOUS
  <1>4. \A t \in Sections : IsSec(secs[t]) /\ "IN_RORG" \notin secs[t].flags
    BY <1>1, <1>2, <1>3 DEF BInv
  <1>5. AtRest(secs)
    BY <1>1, <1>2, <1>3, <1>4 DEF AtRest
  <1> QED BY <1>2, <1>3, <1>5

\* The end of a pass closes an open RORG block,
LEMMA BInvEndPass ==
    ASSUME BInv, EndPass
    PROVE  BInv' /\ Between
  <1>1. PICK fast, more, secs :
          /\ fast = IF extrapass THEN fastphase + 1 ELSE fastphase
          /\ more = (todo \ {cur}) \cup (IF pass > 1 THEN deps[cur] ELSE {})
          /\ secs = [sec EXCEPT ![cur] = LeaveRorg(@)]
    OBVIOUS
  <1>2. /\ phase = "resolve"
        /\ \/ StartPass(cur, pass + 1, fast, secs) /\ UNCHANGED todo
           \/ /\ todo' = more
              /\ \/ more # {} /\ StartPass(NextSec(more, cur), 1, FASTOPTPHASE, secs)
                 \/ StartAssemble(1, secs)
    BY <1>1 DEF EndPass
  <1>3. AtRest(secs)
    BY <1>1, <1>2, LeavesAtRest
  <1>4. more \subseteq Sections /\ todo \subseteq Sections /\ cur \in Sections /\ pass \in Nat
    <2>1. /\ todo \in SUBSET Sections /\ cur \in Sections /\ deps \in [Sections -> SUBSET Sections]
          /\ pass \in 0..MAXPASSES /\ MAXPASSES \in Nat
      BY ResolverAssumption DEF BInv, TypeOK
    <2> QED BY <1>1, <2>1
  <1>5. fast \in Nat /\ FASTOPTPHASE \in Nat
    <2>1. fastphase \in Nat /\ (fast = fastphase \/ fast = fastphase + 1)
      BY <1>1 DEF BInv, TypeOK
    <2> QED BY <2>1, ResolverAssumption
  <1>6. Between
    <2>1. UNCHANGED <<prog, errs, parsed, lab, defd, abslab, lastsize, changes, deps>>
      BY DEF EndPass
    <2>2. todo' \subseteq Sections
      BY <1>2, <1>4
    <2> QED BY <2>1, <2>2 DEF Between
  <1>7. CASE StartPass(cur, pass + 1, fast, secs)
    <2>1. pass + 1 \in Nat \ {0} /\ pass + 1 <= MAXPASSES
      BY <1>2, <1>4, ResolverAssumption DEF BInv
    <2> QED BY <1>3, <1>4, <1>5, <1>6, <1>7, <2>1, BInvStartPass
  <1>8. CASE more # {} /\ StartPass(NextSec(more, cur), 1, FASTOPTPHASE, secs)
    <2>1. NextSec(more, cur) \in Sections
      BY <1>4, <1>8, NextSecIn
    <2>2. 1 <= MAXPASSES
      BY ResolverAssumption
    <2> QED BY <1>3, <1>5, <1>6, <1>8, <2>1, <2>2, BInvStartPass
  <1>9. CASE StartAssemble(1, secs)
    BY <1>3, <1>6, <1>9, BInvStartAssemble
  <1> QED BY <1>2, <1>6, <1>7, <1>8, <1>9

\* and so does the end of assemble()'s walk.
LEMMA BInvEndAssemble ==
    ASSUME BInv, EndAssemble
    PROVE  BInv' /\ Between
  <1>1. PICK secs : secs = [sec EXCEPT ![cur] = LeaveRorg(@)]
    OBVIOUS
  <1>2. phase = "assemble" /\ StartAssemble(cur + 1, secs)
    BY <1>1 DEF EndAssemble
  <1>3. AtRest(secs)
    BY <1>1, <1>2, LeavesAtRest
  <1>4. Between
    BY DEF EndAssemble, Between, BInv, TypeOK
  <1>5. cur + 1 \in Nat \ {0}
    BY ResolverAssumption DEF BInv, TypeOK, Sections
  <1> QED BY <1>2, <1>3, <1>4, <1>5, BInvStartAssemble

\* assemble() only moves on.
LEMMA BInvAssembleAtom ==
    ASSUME BInv, SizesAreNat, AssembleAtom
    PROVE  BInv'
  <1>1. PICK u : u = Place(Here, sec[cur])
    OBVIOUS
  <1>2. PICK size : size = AtomSize(Here, cur, u, Warn(cur, idx))
    OBVIOUS
  <1>3. PICK v : v = Advance(u, size)
    OBVIOUS
  <1>4. phase = "assemble" /\ idx <= Len(Atoms(cur))
    BY DEF AssembleAtom
  <1>5. IsSec(v) /\ v \in Section
    <2>1. IsSec(u) /\ idx \in 1..Len(Atoms(cur)) /\ Here = Atoms(cur)[idx] /\ cur \in Sections
      BY <1>1, <1>4, Walking
    <2>2. size \in Nat
      BY <1>2, <2>1, WarnType, AtomSizeType DEF BInv
    <2> QED BY <1>3, <2>1, <2>2, AdvanceIsSec DEF IsSec
  <1>6. /\ sec' = [sec EXCEPT ![cur] = v] /\ idx' = idx + 1
        /\ UNCHANGED <<prog, phase, parsed, lab, defd, abslab, lastsize, changes,
                       todo, cur, pass, fastphase, walk, moved>>
    BY <1>1, <1>2, <1>3 DEF AssembleAtom
  <1>7. errs' \in BOOLEAN /\ done' \in BOOLEAN /\ extrapass' \in BOOLEAN
    BY DEF AssembleAtom, BInv, TypeOK
  <1>8. deps' \in [Sections -> SUBSET Sections]
    BY <1>4, Walking, AddDepsType DEF AssembleAtom, BInv
  <1>9. /\ sec' \in [Sections -> Section] /\ \A s \in Sections : IsSec(sec'[s])
        /\ \A s \in Sections : s # cur => sec'[s] = sec[s]
    BY <1>5, <1>6 DEF BInv, TypeOK
  <1>10. idx' \in 1..Len(Atoms(cur)) + 1
    BY <1>4, <1>6, Walking
  <1>11. IsProgram(prog)' /\ (prog \in Programs)' /\ \A s : Atoms(s)' = Atoms(s)
    <2>1. IsProgram(prog) /\ prog \in Programs
      BY DEF BInv, TypeOK
    <2> QED BY <1>6, <2>1 DEF Atoms
  <1>12. TypeOK'
    BY <1>6, <1>7, <1>8, <1>9, <1>10, <1>11 DEF BInv, TypeOK
  <1> QED BY <1>4, <1>6, <1>9, <1>11, <1>12 DEF BInv

\* The block structure after one more atom of section s was read.
LEMMA BlocksAdd ==
    ASSUME BInv, phase = "parse", NEW s \in Sections, NEW i, i = parsed[s] + 1, i <= Len(Atoms(s)),
           NEW v, LET a == Atoms(s)[i] IN
                    /\ a.t = "rorg" => "IN_RORG" \in v.flags
                    /\ a.t = "rorgend" => "IN_RORG" \notin v.flags
                    /\ a.t \notin {"rorg", "rorgend"} => v.flags = sec[s].flags,
           prog' = prog, parsed' = [parsed EXCEPT ![s] = i], sec' = [sec EXCEPT ![s] = v]
    PROVE  \A t \in Sections : Blocks(t)'
  <1>1. PICK m \in Nat : m = parsed[s] /\ i = m + 1
    <2>1. parsed[s] \in 0..Len(Atoms(s)) /\ Len(Atoms(s)) \in Nat
      BY ProgramFacts DEF BInv, TypeOK
    <2> QED BY <2>1
  <1>2. /\ DOMAIN parsed = Sections /\ DOMAIN sec = Sections /\ \A t \in Sections : Blocks(t)
    BY DEF BInv, TypeOK
  <1>3. \A t : Atoms(t)' = Atoms(t)
    BY DEF Atoms
  <1>4. parsed'[s] = m + 1 /\ sec'[s] = v
    BY <1>1, <1>2
  <1>5. ASSUME NEW t \in Sections, t # s PROVE Blocks(t)'
    <2>1. parsed'[t] = parsed[t] /\ sec'[t] = sec[t]
      BY <1>2, <1>5
    <2> QED BY <1>2, <1>3, <2>1 DEF Blocks
  <1>6. PICK as : as = Atoms(s)
    OBVIOUS
  <1>7. \A k \in 1..m + 1 : k \in 1..m \/ k = m + 1
    BY <1>1
  <1>8. ASSUME "IN_RORG" \in v.flags
        PROVE  \E j \in 1..m + 1 : /\ as[j].t = "rorg"
                                   /\ \A k \in j + 1..m + 1 : as[k].t \notin {"rorg", "rorgend"}
    <2>1. CASE as[m + 1].t = "rorg"
      <3>1. m + 1 \in 1..m + 1 /\ \A k \in (m + 1) + 1..m + 1 : FALSE
        BY <1>1
      <3> QED BY <2>1, <3>1
    <2>2. CASE as[m + 1].t # "rorg"
      <3>1. as[m + 1].t \notin {"rorg", "rorgend"} /\ "IN_RORG" \in sec[s].flags
        BY <1>1, <1>6, <1>8, <2>2
      <3>2. PICK j \in 1..m : /\ as[j].t = "rorg"
                              /\ \A k \in j + 1..m : as[k].t \notin {"rorg", "rorgend"}
        BY <1>1, <1>2, <1>6, <3>1 DEF Blocks
      <3>3. j \in 1..m + 1 /\ \A k \in j + 1..m + 1 : k \in j + 1..m \/ k = m + 1
        BY <1>1
      <3> QED BY <3>1, <3>2, <3>3
    <2> QED BY <2>1, <2>2
  <1>9. ASSUME "IN_RORG" \notin v.flags, NEW j \in 1..m + 1, as[j].t = "rorg"
        PROVE  \E k \in j + 1..m + 1 : as[k].t = "rorgend"
    <2>1. as[m + 1].t # "rorg" /\ j \in 1..m
      BY <1>1, <1>6, <1>7, <1>9
    <2>2. CASE as[m + 1].t = "rorgend"
      <3>1. m + 1 \in j + 1..m + 1
        BY <1>1, <2>1
      <3> QED BY <2>2, <3>1
    <2>3. CASE as[m + 1].t # "rorgend"
      <3>1. "IN_RORG" \notin sec[s].flags
        BY <1>1, <1>6, <1>9, <2>1, <2>3
      <3>2. PICK k \in j + 1..m : as[k].t = "rorgend"
        BY <1>1, <1>2, <1>6, <1>9, <2>1, <3>1 DEF Blocks
      <3>3. k \in j + 1..m + 1
        BY <1>1
      <3> QED BY <3>2, <3>3
    <2> QED BY <2>2, <2>3
  <1>10. Blocks(s)'
    BY <1>3, <1>4, <1>6, <1>8, <1>9 DEF Blocks
  <1> QED BY <1>5, <1>10

\* The parser defines a label,
LEMMA BInvAddLabel ==
    ASSUME BInv, NEW s \in Sections, AddLabel(s)
    PROVE  BInv'
  <1>1. PICK i, a : i = parsed[s] + 1 /\ a = Atoms(s)[i]
    OBVIOUS
  <1>2. /\ phase = "parse" /\ phase' = "parse" /\ i <= Len(Atoms(s)) /\ a.t = "label"
        /\ lab' = [lab EXCEPT ![a.ref] = sec[s].pc]
        /\ defd' = defd \cup {a.ref}
        /\ abslab' \subseteq abslab \cup {a.ref}
        /\ parsed' = [parsed EXCEPT ![s] = i]
        /\ UNCHANGED <<prog, sec, lastsize, changes, deps, todo, cur, idx, pass, fastphase, walk, moved>>
    BY <1>1 DEF AddLabel, resolver_vars
  <1>3. errs' \in BOOLEAN /\ done' \in BOOLEAN /\ extrapass' \in BOOLEAN
    BY DEF AddLabel, resolver_vars, BInv, TypeOK
  <1>4. i \in 1..Len(Atoms(s)) /\ i \in 0..Len(Atoms(s))
    <2>1. parsed[s] \in 0..Len(Atoms(s)) /\ Len(Atoms(s)) \in Nat
      BY ProgramFacts DEF BInv, TypeOK
    <2> QED BY <1>1, <1>2, <2>1
  <1>5. a.ref \in Labels
    BY <1>1, <1>2, <1>4, ProgramFacts DEF BInv
  <1>6. lab' \in [Labels -> Nat] /\ defd' \in SUBSET Labels /\ abslab' \in SUBSET defd'
    BY <1>2, <1>5 DEF BInv, TypeOK, Section
  <1>7. IsProgram(prog)' /\ (prog \in Programs)' /\ \A t : Atoms(t)' = Atoms(t)
    <2>1. IsProgram(prog) /\ prog \in Programs
      BY DEF BInv, TypeOK
    <2> QED BY <1>2, <2>1 DEF Atoms
  <1>8. DOMAIN parsed' = Sections /\ \A t \in Sections : parsed'[t] \in 0..Len(Atoms(t))
    BY <1>2, <1>4 DEF BInv, TypeOK
  <1>9. TypeOK'
    BY <1>2, <1>3, <1>6, <1>7, <1>8 DEF BInv, TypeOK
  <1>10. \A t \in Sections : Blocks(t)'
    <2>1. PICK v : v = sec[s]
      OBVIOUS
    <2>2. sec' = [sec EXCEPT ![s] = v]
      BY <1>2, <2>1 DEF BInv, TypeOK
    <2> QED BY <1>1, <1>2, <2>1, <2>2, BlocksAdd
  <1> QED BY <1>2, <1>7, <1>8, <1>9, <1>10 DEF BInv

\* and appends an atom.
LEMMA BInvAddAtom ==
    ASSUME BInv, SizesAreNat, NEW s \in Sections, AddAtom(s)
    PROVE  BInv'
  <1>1. PICK i, a : i = parsed[s] + 1 /\ a = Atoms(s)[i]
    OBVIOUS
  <1>2. PICK u : u = Align(a, sec[s])
    OBVIOUS
  <1>3. PICK size : size = AtomSize(a, s, u, FALSE)
    OBVIOUS
  <1>4. PICK v : v = ParseRorg(a, Advance(u, size))
    OBVIOUS
  <1>5. /\ phase = "parse" /\ phase' = "parse" /\ i <= Len(Atoms(s)) /\ a.t # "label"
        /\ lastsize' = [lastsize EXCEPT ![s][i] = size]
        /\ sec' = [sec EXCEPT ![s] = v]
        /\ deps' = AddDeps(a, s)
        /\ parsed' = [parsed EXCEPT ![s] = i]
        /\ UNCHANGED <<prog, lab, defd, abslab, changes, todo, cur, idx, pass, fastphase, walk, moved>>
    BY <1>1, <1>2, <1>3, <1>4 DEF AddAtom, resolver_vars
  <1>6. errs' \in BOOLEAN /\ done' \in BOOLEAN /\ extrapass' \in BOOLEAN
    BY DEF AddAtom, resolver_vars, BInv, TypeOK
  <1>7. i \in 1..Len(Atoms(s)) /\ i \in 0..Len(Atoms(s))
    <2>1. parsed[s] \in 0..Len(Atoms(s)) /\ Len(Atoms(s)) \in Nat
      BY ProgramFacts DEF BInv, TypeOK
    <2> QED BY <1>1, <1>5, <2>1
  <1>8. IsAtom(a) /\ IsSec(sec[s])
    BY <1>1, <1>7, ProgramFacts DEF BInv
  <1>9. IsSec(u) /\ u.flags = sec[s].flags
    BY <1>2, <1>8, AlignIsSec
  <1>10. size \in Nat
    BY <1>1, <1>3, <1>7, <1>9, AtomSizeType DEF BInv
  <1>11. PICK w : w = Advance(u, size) /\ IsSec(w) /\ w.flags = sec[s].flags
    BY <1>9, <1>10, AdvanceIsSec
  <1>12. /\ IsSec(v) /\ v \in Section
         /\ a.t = "rorg" => "IN_RORG" \in v.flags
         /\ a.t = "rorgend" => "IN_RORG" \notin v.flags
         /\ a.t \notin {"rorg", "rorgend"} => v.flags = sec[s].flags
    BY <1>4, <1>8, <1>11, ParseRorgIsSec DEF IsSec
  <1>13. /\ sec' \in [Sections -> Section] /\ \A t \in Sections : IsSec(sec'[t])
    BY <1>5, <1>12 DEF BInv, TypeOK
  <1>14. deps' \in [Sections -> SUBSET Sections]
    BY <1>5, <1>8, AddDepsType DEF BInv
  <1>15. DOMAIN lastsize' = Sections /\ \A t \in Sections : lastsize'[t] \in [1..Len(Atoms(t)) -> Nat]
    BY <1>5, <1>7, <1>10 DEF BInv, TypeOK
  <1>16. IsProgram(prog)' /\ (prog \in Programs)' /\ \A t : Atoms(t)' = Atoms(t)
    <2>1. IsProgram(prog) /\ prog \in Programs
      BY DEF BInv, TypeOK
    <2> QED BY <1>5, <2>1 DEF Atoms
  <1>17. DOMAIN parsed' = Sections /\ \A t \in Sections : parsed'[t] \in 0..Len(Atoms(t))
    BY <1>5, <1>7 DEF BInv, TypeOK
  <1>18. TypeOK'
    BY <1>5, <1>6, <1>13, <1>14, <1>15, <1>16, <1>17 DEF BInv, TypeOK
  <1>19. \A t \in Sections : Blocks(t)'
    BY <1>1, <1>5, <1>12, BlocksAdd
  <1> QED BY <1>5, <1>13, <1>15, <1>16, <1>17, <1>18, <1>19 DEF BInv

\* The sections are empty and outside of any RORG block at first.
LEMMA BInvInit == Init => BInv
  <1> SUFFICES ASSUME Init PROVE BInv
    OBVIOUS
  <1>1. IsProgram(prog) /\ prog \in Programs
    BY ResolverAssumption DEF Init
  <1>2. prog.org \in [Sections -> Nat]
    BY <1>1 DEF IsProgram
  <1>3. \A s \in Sections : NewSection(s) \in Section /\ NewSection(s).flags \subseteq {"ABSOLUTE"}
    BY <1>2 DEF NewSection, Section
  <1>4. \A s \in Sections : IsSec(NewSection(s)) /\ "IN_RORG" \notin NewSection(s).flags
    BY <1>3 DEF IsSec
  <1>5. errs \in BOOLEAN /\ done \in BOOLEAN /\ extrapass \in BOOLEAN
    BY DEF Init
  <1>6. sec \in [Sections -> Section] /\ \A s \in Sections : sec[s] = NewSection(s)
    BY <1>3 DEF Init
  <1>7. /\ lab \in [Labels -> Nat] /\ deps \in [Sections -> SUBSET Sections] /\ defd = {} /\ abslab = {}
        /\ todo = {} /\ phase = "parse" /\ moved \in Nat
    BY DEF Init
  <1>8. /\ DOMAIN lastsize = Sections /\ DOMAIN changes = Sections
        /\ \A s \in Sections : /\ lastsize[s] \in [1..Len(Atoms(s)) -> Nat]
                               /\ changes[s] \in [1..Len(Atoms(s)) -> Nat]
    BY DEF Init, PerAtom, Atoms
  <1>9. DOMAIN walk = Sections /\ \A s \in Sections : walk[s] \in [1..Len(Atoms(s)) + 1 -> Section]
    BY <1>3 DEF Init, Atoms
  <1>10. cur \in Sections /\ pass \in 0..MAXPASSES /\ fastphase \in Nat /\ cur = 1 /\ idx = 1
    BY ResolverAssumption DEF Init, Sections
  <1>11. \A s \in Sections : Len(Atoms(s)) \in Nat
    BY <1>1 DEF IsProgram, Atoms
  <1>12. \A s \in Sections : parsed[s] = 0 /\ parsed[s] \in 0..Len(Atoms(s))
    BY <1>11 DEF Init
  <1>13. DOMAIN parsed = Sections
    BY DEF Init
  <1>14. idx \in 1..Len(Atoms(cur)) + 1
    BY <1>10, <1>11
  <1>15. TypeOK
    BY <1>1, <1>5, <1>6, <1>7, <1>8, <1>9, <1>10, <1>12, <1>14 DEF TypeOK
  <1>16. \A s \in Sections : Blocks(s)
    BY <1>4, <1>6, <1>12 DEF Blocks
  <1> QED BY <1>1, <1>4, <1>6, <1>7, <1>8, <1>9, <1>13, <1>15, <1>16 DEF BInv

\* Every step keeps BInv.
LEMMA BInvNext ==
    ASSUME SizesAreNat, BInv, [Next]_vars
    PROVE  BInv'
  <1>1. ASSUME NEW s \in Sections, AddLabel(s) PROVE BInv'
    BY <1>1, BInvAddLabel
  <1>2. ASSUME NEW s \in Sections, AddAtom(s) PROVE BInv'
    BY <1>2, BInvAddAtom
  <1>3. CASE EndParse
    BY <1>3, BInvEndParse
  <1>4. CASE VisitLabel
    BY <1>4, BInvVisitLabel
  <1>5. CASE KeepInst
    BY <1>5, BInvKeepInst
  <1>6. CASE VisitAtom
    BY <1>6, BInvVisitAtom
  <1>7. CASE EndPass
    BY <1>7, BInvEndPass
  <1>8. CASE AssembleAtom
    BY <1>8, BInvAssembleAtom
  <1>9. CASE EndAssemble
    BY <1>9, BInvEndAssemble
  <1>10. CASE UNCHANGED vars
    <2>1. UNCHANGED <<prog, phase, parsed, sec, lab, defd, abslab, lastsize, changes, deps, todo, cur,
                      idx, pass, fastphase, walk, moved>>
      BY <1>10 DEF vars
    <2>2. errs' \in BOOLEAN /\ done' \in BOOLEAN /\ extrapass' \in BOOLEAN
      BY <1>10 DEF vars, BInv, TypeOK
    <2>3. IsProgram(prog)' /\ (prog \in Programs)' /\ \A s : Atoms(s)' = Atoms(s)
      <3>1. IsProgram(prog) /\ prog \in Programs
        BY DEF BInv, TypeOK
      <3> QED BY <2>1, <3>1 DEF Atoms
    <2>4. TypeOK'
      BY <2>1, <2>2, <2>3 DEF BInv, TypeOK
    <2>5. \A s \in Sections : Blocks(s)' <=> Blocks(s)
      BY <2>1, <2>3 DEF Blocks
    <2> QED BY <2>1, <2>3, <2>4, <2>5 DEF BInv
  <1> QED BY <1>1, <1>2, <1>3, <1>4, <1>5, <1>6, <1>7, <1>8, <1>9, <1>10 DEF Next

\* The walk of resolve_section and assemble stays inside the section's atoms,
\* no pc goes below its RORG block's address, and the pass counter keeps its
\* limit, whatever the program and the backend.
THEOREM ResolverTypeOK ==
    ASSUME SizesAreNat
    PROVE  Spec => []TypeOK
  <1>1. BInv => TypeOK
    BY DEF BInv
  <1>2. BInv /\ [Next]_vars => BInv'
    BY BInvNext
  <1> QED BY <1>1, <1>2, BInvInit, PTL DEF Spec
-----------------------------------------------------------------------------
(* Safe mode                                                               *)

\* A pass in which an instruction was resized is not done.
OneChange == phase = "resolve" => /\ done => moved = 0
                                  /\ pass > fastphase => moved <= 1

\* Every pass starts with nothing resized.
LEMMA PassStartsClean ==
    ASSUME NEW s, NEW n, NEW fast, NEW secs, StartPass(s, n, fast, secs)
    PROVE  OneChange'
  <1>1. phase' = "fatal" \/ (phase' = "resolve" /\ moved' = 0)
    BY DEF StartPass
  <1> QED BY <1>1 DEF OneChange

\* No instruction is looked at after the one that changed.
LEMMA OneChangeVisitAtom ==
    ASSUME BInv, OneChange, VisitAtom
    PROVE  OneChange'
  <1> DEFINE u    == Place(Here, sec[cur])
             size == AtomSize(Here, cur, u, Warn(cur, idx))
             old  == lastsize[cur][idx]
  <1>1. moved \in Nat /\ phase = "resolve" /\ phase' = "resolve" /\ UNCHANGED <<pass, fastphase>>
    BY DEF VisitAtom, BInv, TypeOK
  <1>2. done => moved = 0
    BY <1>1 DEF OneChange
  <1>3. done' => done /\ size = old
    BY DEF VisitAtom
  <1>4. moved' = IF size # old /\ Here.t = "inst" THEN moved + 1 ELSE moved
    BY DEF VisitAtom
  <1>5. Here.t = "inst" => pass <= fastphase \/ done
    BY DEF VisitAtom
  <1>6. pass \in Nat /\ fastphase \in Nat
    BY ResolverAssumption DEF BInv, TypeOK
  <1> HIDE DEF size, old
  <1>7. done' => moved' = 0
    BY <1>2, <1>3, <1>4
  <1>8. ASSUME pass > fastphase PROVE moved' <= 1
    <2>1. moved <= 1
      BY <1>1, <1>8 DEF OneChange
    <2>2. CASE Here.t = "inst"
      <3>1. moved = 0
        BY <1>2, <1>5, <1>6, <1>8, <2>2
      <3> QED BY <1>4, <3>1
    <2> QED BY <1>4, <2>1, <2>2
  <1> QED BY <1>1, <1>7, <1>8 DEF OneChange

\* "Thereafter the resolver enters a safe mode, where only a single
\* instruction is changed in every pass" (vasm.c), for every backend.
THEOREM ResolverSafeMode ==
    ASSUME SizesAreNat
    PROVE  Spec => []SafeMode
  <1>1. Init => OneChange
    BY DEF Init, OneChange
  <1>2. ASSUME BInv, OneChange, [Next]_vars PROVE OneChange'
    <2>1. ASSUME NEW s \in Sections, AddLabel(s) \/ AddAtom(s) PROVE OneChange'
      BY <2>1 DEF AddLabel, AddAtom, OneChange
    <2>2. CASE EndParse
      BY <2>2, PassStartsClean DEF EndParse
    <2>3. CASE VisitLabel
      <3>1. done' => done
        BY <2>3 DEF VisitLabel
      <3> QED BY <1>2, <2>3, <3>1 DEF VisitLabel, OneChange
    <2>4. CASE KeepInst
      BY <1>2, <2>4 DEF KeepInst, OneChange
    <2>5. CASE VisitAtom
      BY <1>2, <2>5, OneChangeVisitAtom
    <2>6. CASE EndPass
      <3>1. (\E s, n, fast, secs : StartPass(s, n, fast, secs)) \/ (\E s, secs : StartAssemble(s, secs))
        BY <2>6 DEF EndPass
      <3>2. CASE \E s, secs : StartAssemble(s, secs)
        BY <3>2 DEF StartAssemble, OneChange
      <3> QED BY <3>1, <3>2, PassStartsClean
    <2>7. CASE AssembleAtom
      BY <2>7 DEF AssembleAtom, OneChange
    <2>8. CASE EndAssemble
      BY <2>8 DEF EndAssemble, StartAssemble, OneChange
    <2>9. CASE UNCHANGED vars
      BY <1>2, <2>9 DEF vars, OneChange
    <2> QED BY <1>2, <2>1, <2>2, <2>3, <2>4, <2>5, <2>6, <2>7, <2>8, <2>9 DEF Next
  <1>3. OneChange => SafeMode
    BY DEF OneChange, SafeMode
  <1>4. BInv /\ [Next]_vars => BInv'
    BY BInvNext
  <1> QED BY <1>1, <1>2, <1>3, <1>4, BInvInit, PTL DEF Spec
-----------------------------------------------------------------------------
(* The layout that is assembled                                            *)

HasRorg(p, s) == \E i \in 1..Len(p.atoms[s]) : p.atoms[s][i].t = "rorg"

\* The end of a RORG block in resolve_section clears ABSOLUTE (vasm.c:305), so
\* an ORG section with such a block is not the same in the next walk.
NoRorgInOrg == \A p \in Programs : \A s \in p.abs : ~HasRorg(p, s)

\* The instruction a of section s has one size at a given place, whatever the
\* value of what it refers to.
OneSize(p, s, a) ==
    \A x, y \in Nat, u \in Spots, w \in BOOLEAN :
       ("ABSOLUTE" \in u.flags => s \in p.abs \/ HasRorg(p, s)) =>
          InstSize(a, [val |-> x, kind |-> "foreign"], u, w)
            = InstSize(a, [val |-> y, kind |-> "foreign"], u, w)

\* Only constant labels make a dependency (expr.c:1187), so the size of an
\* instruction must not depend on the value of a relocatable label elsewhere.
ForeignIrrelevant ==
    \A p \in Programs, s \in Sections : \A i \in 1..Len(p.atoms[s]) :
      LET a == p.atoms[s][i]
      IN  a.t = "inst" /\ a.ref \in Labels /\ p.home[a.ref] \notin p.abs \cup {s} => OneSize(p, s, a)

\* Outside of a RORG block a section has the flag it was created with.
Plain(u, s) == "IN_RORG" \notin u.flags /\ ("ABSOLUTE" \in u.flags <=> s \in prog.abs)
FlagsOf(u, s) == Plain(u, s) \/ ("IN_RORG" \in u.flags /\ HasRorg(prog, s))

\* The flags, and the labels that are constants, in every phase.
Flags == /\ \A s \in Sections : FlagsOf(sec[s], s)
         /\ \A s \in Sections : \A i \in 1..Len(Atoms(s)) + 1 : FlagsOf(walk[s][i], s)
         /\ phase = "parse" => \A s \in Sections : "IN_RORG" \in sec[s].flags => "PREVABS" \notin sec[s].flags
         /\ \A l \in defd : prog.home[l] \in prog.abs => l \in abslab

\* The last walk of s began at its origin, outside of RORG blocks.
Start(s) == walk[s][1].pc = prog.org[s] /\ Plain(walk[s][1], s)

\* The sections that atom i of s depends on know of it.
Noted(s, i) == \A d \in DepOn(Atoms(s)[i], s) : s \in deps[d]

AllSettled(s) == \A i \in 1..Len(Atoms(s)) : Settled(s, i)
AllNoted(s) == \A i \in 1..Len(Atoms(s)) : Noted(s, i)

\* The walk under way, and the sections that are not to do.
Resolving == /\ sec[cur] = walk[cur][idx] /\ Start(cur)
             /\ done => \A i \in 1..idx - 1 : Settled(cur, i) /\ Noted(cur, i)
             /\ \A s \in Sections \ (todo \cup {cur}) :
                  /\ Start(s) /\ AllNoted(s)
                  /\ AllSettled(s) \/ (s \in deps[cur] /\ ~(pass = 1 /\ done))

\* The walk of assemble() repeats the last one of the resolver.
Assembling == /\ \A s \in Sections : Start(s) /\ AllSettled(s)
              /\ Like(sec[cur], walk[cur][idx])

CInv == /\ Flags
        /\ phase = "resolve" /\ ~errs => Resolving
        /\ phase = "assemble" /\ ~errs => Assembling

\* A section with a RORG block is relocatable.
LEMMA RorgOnly ==
    ASSUME BInv, NoRorgInOrg, NEW s \in Sections
    PROVE  /\ HasRorg(prog, s) => s \notin prog.abs
           /\ \A i \in 1..Len(Atoms(s)) : Atoms(s)[i].t = "rorg" => HasRorg(prog, s)
  BY DEF BInv, NoRorgInOrg, HasRorg, Atoms

\* FlagsOf is about the flags alone.
LEMMA SameFlags ==
    ASSUME NEW u, NEW v, NEW s, u.flags = v.flags, FlagsOf(u, s)
    PROVE  FlagsOf(v, s)
  BY DEF FlagsOf, Plain

\* A RORG block is left as it was entered.
LEMMA PlaceFlags ==
    ASSUME BInv, NoRorgInOrg, NEW s \in Sections, NEW i \in 1..Len(Atoms(s)),
           NEW u, IsSec(u), FlagsOf(u, s)
    PROVE  FlagsOf(Place(Atoms(s)[i], u), s)
  <1>1. PICK a : a = Atoms(s)[i] /\ IsAtom(a) /\ (a.t = "rorg" => HasRorg(prog, s)) /\ a.n \in Nat
    BY ProgramFacts, RorgOnly DEF BInv, IsAtom
  <1>2. PICK v : v = Align(a, u) /\ IsSec(v) /\ v.flags = u.flags
    BY <1>1, AlignIsSec
  <1>3. FlagsOf(v, s)
    BY <1>2, SameFlags
  <1>4. CASE a.t = "rorg"
    <2>1. Place(a, u) = EnterRorg(v, a.n)
      BY <1>2, <1>4 DEF Place, Rorg
    <2>2. "IN_RORG" \in EnterRorg(v, a.n).flags
      BY <1>1, <1>2, EnterIsSec
    <2> QED BY <1>1, <1>4, <2>1, <2>2 DEF FlagsOf
  <1>5. CASE a.t = "rorgend"
    <2>1. Place(a, u) = LeaveRorg(v)
      BY <1>2, <1>5 DEF Place, Rorg
    <2>2. FlagsOf(LeaveRorg(v), s)
      <3>1. LeaveRorg(v).flags = IF "IN_RORG" \in v.flags THEN v.flags \ {"ABSOLUTE", "IN_RORG"} ELSE v.flags
        BY <1>2, LeaveIsSec
      <3>2. CASE "IN_RORG" \in v.flags
        <4>1. s \notin prog.abs
          BY <1>3, <3>2, RorgOnly DEF FlagsOf, Plain
        <4> QED BY <3>1, <3>2, <4>1 DEF FlagsOf, Plain
      <3>3. CASE "IN_RORG" \notin v.flags
        BY <1>3, <3>1, <3>3 DEF FlagsOf, Plain
      <3> QED BY <3>2, <3>3
    <2> QED BY <1>1, <2>1, <2>2
  <1>6. CASE a.t \notin {"rorg", "rorgend"}
    BY <1>1, <1>2, <1>3, <1>6 DEF Place, Rorg
  <1> QED BY <1>4, <1>5, <1>6

\* A visited atom leaves its section's flags in order.
LEMMA StepFlags ==
    ASSUME BInv, NoRorgInOrg, Flags, idx <= Len(Atoms(cur))
    PROVE  /\ FlagsOf(Place(Here, sec[cur]), cur)
           /\ \A n \in Nat : FlagsOf(Advance(Place(Here, sec[cur]), n), cur)
  <1>1. /\ cur \in Sections /\ idx \in 1..Len(Atoms(cur)) /\ Here = Atoms(cur)[idx]
        /\ IsSec(sec[cur]) /\ IsSec(Place(Here, sec[cur]))
    BY Walking
  <1>2. FlagsOf(sec[cur], cur)
    BY <1>1 DEF Flags
  <1>3. FlagsOf(Place(Here, sec[cur]), cur)
    BY <1>1, <1>2, PlaceFlags
  <1>4. PICK u : u = Place(Here, sec[cur])
    OBVIOUS
  <1>5. ASSUME NEW n \in Nat PROVE FlagsOf(Advance(u, n), cur)
    <2>1. Advance(u, n).flags = u.flags
      BY <1>1, <1>4, AdvanceIsSec
    <2> QED BY <1>3, <1>4, <2>1, SameFlags
  <1> QED BY <1>3, <1>4, <1>5

\* A visit that leaves good flags keeps Flags.
LEMMA FlagsVisit ==
    ASSUME BInv, Flags, phase = "resolve", idx <= Len(Atoms(cur)), NEW v, IsSec(v), Steps(v), FlagsOf(v, cur)
    PROVE  Flags'
  <1>1. UNCHANGED <<prog, phase, defd, abslab>> /\ cur \in Sections
    BY Walking DEF Steps
  <1>2. \A u, s : FlagsOf(u, s)' <=> FlagsOf(u, s)
    BY <1>1 DEF FlagsOf, Plain, HasRorg
  <1>3. ASSUME NEW s \in Sections PROVE FlagsOf(sec'[s], s)
    BY <1>3, StepsKeep DEF Flags
  <1>4. ASSUME NEW s \in Sections, NEW i \in 1..Len(Atoms(s)) + 1 PROVE FlagsOf(walk'[s][i], s)
    <2>1. s \in DOMAIN walk /\ walk[s] \in [1..Len(Atoms(s)) + 1 -> Section] /\ Sets(walk, walk', cur, idx + 1, v)
      BY StepsKeep DEF BInv, TypeOK
    <2>2. walk'[s][i] = walk[s][i] \/ (s = cur /\ walk'[s][i] = v)
      BY <2>1 DEF Sets
    <2> QED BY <2>2 DEF Flags
  <1>5. \A s : Atoms(s)' = Atoms(s)
    BY <1>1 DEF Atoms
  <1> QED BY <1>1, <1>2, <1>3, <1>4, <1>5 DEF Flags

\* Between two walks every section is as it was created.
LEMMA RestsPlain ==
    ASSUME NEW secs, AtRest(secs), \A s \in Sections : FlagsOf(secs[s], s)
    PROVE  \A s \in Sections : Plain(secs[s], s)
  BY DEF AtRest, FlagsOf

\* Closing an open RORG block restores the flags of the section.
LEMMA LeavesFlags ==
    ASSUME BInv, NoRorgInOrg, Flags
    PROVE  \A s \in Sections : FlagsOf([sec EXCEPT ![cur] = LeaveRorg(@)][s], s)
  <1>1. sec \in [Sections -> Section] /\ cur \in Sections
    BY DEF BInv, TypeOK
  <1>2. PICK v : v = LeaveRorg(sec[cur])
    OBVIOUS
  <1>3. FlagsOf(v, cur)
    <2>1. v.flags = IF "IN_RORG" \in sec[cur].flags THEN sec[cur].flags \ {"ABSOLUTE", "IN_RORG"} ELSE sec[cur].flags
      BY <1>1, <1>2, LeaveIsSec DEF BInv
    <2>2. FlagsOf(sec[cur], cur)
      BY <1>1 DEF Flags
    <2>3. HasRorg(prog, cur) => cur \notin prog.abs
      BY <1>1, RorgOnly
    <2> QED BY <2>1, <2>2, <2>3 DEF FlagsOf, Plain
  <1>4. PICK secs : secs = [sec EXCEPT ![cur] = v]
    OBVIOUS
  <1>5. \A s \in Sections : FlagsOf(secs[s], s)
    BY <1>1, <1>3, <1>4 DEF Flags
  <1> QED BY <1>2, <1>4, <1>5

\* Going back to the start leaves the flags alone.
LEMMA RewindFlags ==
    ASSUME NEW u \in Section, NEW s
    PROVE  Rewind(u, s).flags = u.flags /\ Rewind(u, s).pc = prog.org[s]
  BY DEF Rewind, Section

\* A new walk keeps Flags.
LEMMA FlagsStart ==
    ASSUME BInv, Flags, Between, phase' # "parse",
           NEW secs, AtRest(secs), \A t \in Sections : FlagsOf(secs[t], t),
           \/ \E s \in Sections : \E n, fast : StartPass(s, n, fast, secs)
           \/ \E s \in Nat \ {0} : StartAssemble(s, secs)
    PROVE  Flags'
  <1>1. UNCHANGED <<prog, defd, abslab>>
    BY DEF Between
  <1>2. \A u, t : FlagsOf(u, t)' <=> FlagsOf(u, t)
    BY <1>1 DEF FlagsOf, Plain, HasRorg
  <1>3. \A t : Atoms(t)' = Atoms(t)
    BY <1>1 DEF Atoms
  <1>4. secs \in [Sections -> Section]
    BY DEF AtRest
  <1>5. \E s \in Sections : /\ sec' = secs \/ sec' = [secs EXCEPT ![s] = Rewind(@, s)]
                            /\ walk' = walk \/ walk' = [walk EXCEPT ![s][1] = Rewind(secs[s], s)]
    <2>1. CASE \E s \in Sections : \E n, fast : StartPass(s, n, fast, secs)
      BY <2>1 DEF StartPass
    <2>2. ASSUME NEW s \in Nat \ {0}, StartAssemble(s, secs)
          PROVE  \E t \in Sections : /\ sec' = secs \/ sec' = [secs EXCEPT ![t] = Rewind(@, t)]
                                     /\ walk' = walk
      <3>1. 1 \in Sections /\ (s <= NumSecs => s \in Sections)
        BY ResolverAssumption DEF Sections
      <3> QED BY <2>2, <3>1 DEF StartAssemble
    <2> QED BY <2>1, <2>2
  <1>6. PICK s \in Sections : /\ sec' = secs \/ sec' = [secs EXCEPT ![s] = Rewind(@, s)]
                              /\ walk' = walk \/ walk' = [walk EXCEPT ![s][1] = Rewind(secs[s], s)]
    BY <1>5
  <1>7. PICK v : v = Rewind(secs[s], s) /\ FlagsOf(v, s)
    <2>1. Rewind(secs[s], s).flags = secs[s].flags
      BY <1>4, RewindFlags
    <2> QED BY <2>1, SameFlags
  <1>8. ASSUME NEW t \in Sections PROVE FlagsOf(sec'[t], t)
    BY <1>4, <1>6, <1>7
  <1>9. ASSUME NEW t \in Sections, NEW i \in 1..Len(Atoms(t)) + 1 PROVE FlagsOf(walk'[t][i], t)
    <2>1. DOMAIN walk = Sections /\ walk[t] \in [1..Len(Atoms(t)) + 1 -> Section]
      BY DEF BInv, TypeOK
    <2>2. walk'[t][i] = walk[t][i] \/ (t = s /\ walk'[t][i] = v)
      BY <1>6, <1>7, <2>1
    <2> QED BY <1>7, <2>2 DEF Flags
  <1> QED BY <1>1, <1>2, <1>3, <1>8, <1>9 DEF Flags

\* assemble() keeps Flags.
LEMMA FlagsAssembleAtom ==
    ASSUME BInv, NoRorgInOrg, SizesAreNat, Flags, AssembleAtom
    PROVE  Flags'
  <1>1. phase = "assemble" /\ idx <= Len(Atoms(cur)) /\ UNCHANGED <<prog, phase, defd, abslab, walk>>
    BY DEF AssembleAtom
  <1>2. PICK u : u = Place(Here, sec[cur])
    OBVIOUS
  <1>3. PICK size : size = AtomSize(Here, cur, u, Warn(cur, idx))
    OBVIOUS
  <1>4. size \in Nat
    <2>1. IsSec(u) /\ idx \in 1..Len(Atoms(cur)) /\ Here = Atoms(cur)[idx] /\ cur \in Sections
      BY <1>1, <1>2, Walking
    <2> QED BY <1>3, <2>1, WarnType, AtomSizeType DEF BInv
  <1>5. PICK v : v = Advance(u, size) /\ FlagsOf(v, cur)
    BY <1>1, <1>2, <1>4, StepFlags
  <1>6. sec' = [sec EXCEPT ![cur] = v] /\ sec \in [Sections -> Section]
    BY <1>2, <1>3, <1>5 DEF AssembleAtom, BInv, TypeOK
  <1>7. \A w, s : FlagsOf(w, s)' <=> FlagsOf(w, s)
    BY <1>1 DEF FlagsOf, Plain, HasRorg
  <1>8. \A s \in Sections : FlagsOf(sec'[s], s)
    BY <1>5, <1>6 DEF Flags
  <1>9. \A s : Atoms(s)' = Atoms(s)
    BY <1>1 DEF Atoms
  <1> QED BY <1>1, <1>7, <1>8, <1>9 DEF Flags

\* A label is absolute when its section is, as the parser leaves it;
LEMMA FlagsAddLabel ==
    ASSUME BInv, NoRorgInOrg, Flags, NEW s \in Sections, AddLabel(s)
    PROVE  Flags'
  <1>1. PICK i, a : i = parsed[s] + 1 /\ a = Atoms(s)[i]
    OBVIOUS
  <1>2. /\ phase = "parse" /\ phase' = "parse" /\ i <= Len(Atoms(s)) /\ a.t = "label"
        /\ defd' = defd \cup {a.ref}
        /\ abslab' = IF "ABSOLUTE" \in sec[s].flags THEN abslab \cup {a.ref} ELSE abslab
        /\ UNCHANGED <<prog, sec, walk>>
    BY <1>1 DEF AddLabel, resolver_vars
  <1>3. i \in 1..Len(Atoms(s))
    <2>1. parsed[s] \in 0..Len(Atoms(s)) /\ Len(Atoms(s)) \in Nat
      BY ProgramFacts DEF BInv, TypeOK
    <2> QED BY <1>1, <1>2, <2>1
  <1>4. prog.home[a.ref] = s
    BY <1>1, <1>2, <1>3, ProgramFacts DEF BInv
  <1>5. s \in prog.abs => "ABSOLUTE" \in sec[s].flags
    BY RorgOnly DEF Flags, FlagsOf, Plain
  <1>6. \A l \in defd' : prog.home[l] \in prog.abs => l \in abslab'
    BY <1>2, <1>4, <1>5 DEF Flags
  <1>7. \A u, t : FlagsOf(u, t)' <=> FlagsOf(u, t)
    BY <1>2 DEF FlagsOf, Plain, HasRorg
  <1>8. \A t : Atoms(t)' = Atoms(t)
    BY <1>2 DEF Atoms
  <1> QED BY <1>2, <1>6, <1>7, <1>8 DEF Flags

\* RORG is read outside of a block only, and RORGEND inside.
LEMMA ReadsBlocks ==
    ASSUME BInv, phase = "parse", NEW s \in Sections, NEW i, i = parsed[s] + 1, i <= Len(Atoms(s))
    PROVE  /\ Atoms(s)[i].t = "rorg" => "IN_RORG" \notin sec[s].flags
           /\ Atoms(s)[i].t = "rorgend" => "IN_RORG" \in sec[s].flags
  <1>1. PICK m \in Nat : m = parsed[s] /\ i = m + 1 /\ i \in 1..Len(Atoms(s))
    <2>1. parsed[s] \in 0..Len(Atoms(s)) /\ Len(Atoms(s)) \in Nat
      BY ProgramFacts DEF BInv, TypeOK
    <2> QED BY <2>1
  <1>2. Blocks(s) /\ TypeOK
    BY DEF BInv
  <1>3. PICK n \in Nat : n = Len(Atoms(s)) /\ i <= n
    BY <1>2, ProgramFacts
  <1>4. ASSUME Atoms(s)[i].t = "rorg", "IN_RORG" \in sec[s].flags PROVE FALSE
    <2>1. PICK j \in 1..m : /\ Atoms(s)[j].t = "rorg"
                            /\ \A k \in j + 1..m : Atoms(s)[k].t \notin {"rorg", "rorgend"}
      BY <1>1, <1>2, <1>4 DEF Blocks
    <2>2. j \in 1..n
      BY <1>1, <1>3
    <2>3. PICK e \in j + 1..n : /\ Atoms(s)[e].t = "rorgend"
                                /\ \A k \in j + 1..e - 1 : Atoms(s)[k].t # "rorg"
      BY <1>2, <1>3, <2>1, <2>2, ProgramBlocks
    <2>4. ~(e <= m) /\ e # i
      BY <1>4, <2>1, <2>3
    <2>5. i \in j + 1..e - 1
      BY <1>1, <2>4
    <2> QED BY <1>4, <2>3, <2>5
  <1>5. ASSUME Atoms(s)[i].t = "rorgend", "IN_RORG" \notin sec[s].flags PROVE FALSE
    <2>1. PICK j \in 1..i - 1 : /\ Atoms(s)[j].t = "rorg"
                                /\ \A k \in j + 1..i - 1 : Atoms(s)[k].t \notin {"rorg", "rorgend"}
      BY <1>1, <1>2, <1>5, ProgramBlocks
    <2>2. j \in 1..m /\ i - 1 = m
      BY <1>1
    <2>3. \E k \in j + 1..m : Atoms(s)[k].t = "rorgend"
      BY <1>1, <1>2, <1>5, <2>1, <2>2 DEF Blocks
    <2> QED BY <2>1, <2>2, <2>3
  <1> QED BY <1>4, <1>5

\* an atom may open or close a RORG block.
LEMMA FlagsAddAtom ==
    ASSUME BInv, NoRorgInOrg, SizesAreNat, Flags, NEW s \in Sections, AddAtom(s)
    PROVE  Flags'
  <1>1. PICK i, a : i = parsed[s] + 1 /\ a = Atoms(s)[i]
    OBVIOUS
  <1>2. PICK u : u = Align(a, sec[s])
    OBVIOUS
  <1>3. PICK size : size = AtomSize(a, s, u, FALSE)
    OBVIOUS
  <1>4. PICK w : w = Advance(u, size)
    OBVIOUS
  <1>5. PICK v : v = ParseRorg(a, w)
    OBVIOUS
  <1>6. /\ phase = "parse" /\ phase' = "parse" /\ i <= Len(Atoms(s))
        /\ sec' = [sec EXCEPT ![s] = v]
        /\ UNCHANGED <<prog, defd, abslab, walk>>
    BY <1>1, <1>2, <1>3, <1>4, <1>5 DEF AddAtom, resolver_vars
  <1>7. i \in 1..Len(Atoms(s))
    <2>1. parsed[s] \in 0..Len(Atoms(s)) /\ Len(Atoms(s)) \in Nat
      BY ProgramFacts DEF BInv, TypeOK
    <2> QED BY <1>1, <1>6, <2>1
  <1>8. IsAtom(a) /\ IsSec(sec[s]) /\ a.n \in Nat /\ (a.t = "rorg" => HasRorg(prog, s))
    BY <1>1, <1>7, ProgramFacts, RorgOnly DEF BInv, IsAtom
  <1>9. IsSec(w) /\ w.flags = sec[s].flags /\ w \in Section
    <2>1. IsSec(u) /\ u.flags = sec[s].flags
      BY <1>2, <1>8, AlignIsSec
    <2>2. size \in Nat
      BY <1>1, <1>3, <1>7, <2>1, AtomSizeType DEF BInv
    <2> QED BY <1>4, <2>1, <2>2, AdvanceIsSec DEF IsSec
  <1>10. /\ a.t = "rorg" => "IN_RORG" \notin w.flags
         /\ a.t = "rorgend" => "IN_RORG" \in w.flags
    BY <1>1, <1>6, <1>9, ReadsBlocks
  <1>11. FlagsOf(w, s) /\ ("IN_RORG" \in w.flags => "PREVABS" \notin w.flags)
    BY <1>6, <1>9, SameFlags DEF Flags
  <1>12. FlagsOf(v, s) /\ ("IN_RORG" \in v.flags => "PREVABS" \notin v.flags)
    <2>1. CASE a.t = "rorg"
      <3>1. "ABSOLUTE" \notin w.flags
        BY <1>8, <1>10, <1>11, <2>1, RorgOnly DEF FlagsOf, Plain
      <3>2. IsSec(SaveAbs(w)) /\ "PREVABS" \notin SaveAbs(w).flags
        BY <1>9, <3>1 DEF SaveAbs, IsSec, Section
      <3>3. v = EnterRorg(SaveAbs(w), a.n)
        BY <1>5, <2>1 DEF ParseRorg
      <3>4. v.flags = SaveAbs(w).flags \cup {"ABSOLUTE", "IN_RORG"}
        BY <1>8, <3>2, <3>3, EnterIsSec
      <3> QED BY <1>8, <2>1, <3>2, <3>4 DEF FlagsOf
    <2>2. CASE a.t = "rorgend"
      <3>1. s \notin prog.abs /\ "IN_RORG" \in w.flags /\ "PREVABS" \notin w.flags
        BY <1>10, <1>11, <2>2, RorgOnly DEF FlagsOf, Plain
      <3>2. PICK x : x = LeaveRorg(w) /\ x \in Section /\ x.flags = w.flags \ {"ABSOLUTE", "IN_RORG"}
        BY <1>9, <3>1, LeaveIsSec DEF IsSec
      <3>3. v = RestoreAbs(x)
        BY <1>5, <2>2, <3>2 DEF ParseRorg
      <3>4. v.flags = x.flags \ {"ABSOLUTE"}
        BY <3>1, <3>2, <3>3 DEF RestoreAbs, Section
      <3> QED BY <3>1, <3>2, <3>4 DEF FlagsOf, Plain
    <2>3. CASE a.t \notin {"rorg", "rorgend"}
      BY <1>5, <1>11, <2>3 DEF ParseRorg
    <2> QED BY <2>1, <2>2, <2>3
  <1>13. \A x, t : FlagsOf(x, t)' <=> FlagsOf(x, t)
    BY <1>6 DEF FlagsOf, Plain, HasRorg
  <1>14. \A t \in Sections : /\ FlagsOf(sec'[t], t)
                             /\ "IN_RORG" \in sec'[t].flags => "PREVABS" \notin sec'[t].flags
    <2>1. sec \in [Sections -> Section]
      BY DEF BInv, TypeOK
    <2> QED BY <1>6, <1>12, <2>1 DEF Flags
  <1>15. \A t : Atoms(t)' = Atoms(t)
    BY <1>6 DEF Atoms
  <1> QED BY <1>6, <1>13, <1>14, <1>15 DEF Flags

\* Sections in the same state place, size and read an atom in the same way.
LEMMA LikeAlign ==
    ASSUME NEW a, IsAtom(a), NEW u, IsSec(u), NEW v, IsSec(v), Like(u, v)
    PROVE  Like(Align(a, u), Align(a, v))
  <1>1. PICK x : x = PcAlign(a, u.pc) /\ x = PcAlign(a, v.pc)
    BY DEF Like
  <1>2. Align(a, u) = [u EXCEPT !.pc = x] /\ Align(a, v) = [v EXCEPT !.pc = x]
    BY <1>1 DEF Align
  <1> QED BY <1>2 DEF Like, IsSec, Section

\* Two walks that are alike stay alike: they place an atom alike,
LEMMA LikePlace ==
    ASSUME NEW a, IsAtom(a), NEW u, IsSec(u), NEW v, IsSec(v), Like(u, v)
    PROVE  Like(Place(a, u), Place(a, v))
  <1>1. PICK p : p = Align(a, u) /\ IsSec(p) /\ p \in Section
    BY AlignIsSec DEF IsSec
  <1>2. PICK q : q = Align(a, v) /\ IsSec(q) /\ q \in Section
    BY AlignIsSec DEF IsSec
  <1>3. Like(p, q)
    BY <1>1, <1>2, LikeAlign
  <1>4. CASE a.t = "rorg"
    <2>1. Place(a, u) = EnterRorg(p, a.n) /\ Place(a, v) = EnterRorg(q, a.n)
      BY <1>1, <1>2, <1>4 DEF Place, Rorg
    <2>2. p.pc = q.pc
      BY <1>3 DEF Like
    <2> QED BY <1>1, <1>2, <2>1, <2>2 DEF Like, EnterRorg, Section
  <1>5. CASE a.t = "rorgend"
    <2>1. Place(a, u) = LeaveRorg(p) /\ Place(a, v) = LeaveRorg(q)
      BY <1>1, <1>2, <1>5 DEF Place, Rorg
    <2> QED BY <1>1, <1>2, <1>3, <2>1 DEF Like, LeaveRorg, Section
  <1>6. CASE a.t \notin {"rorg", "rorgend"}
    BY <1>1, <1>2, <1>3, <1>6 DEF Place, Rorg
  <1> QED BY <1>4, <1>5, <1>6

\* move on alike,
LEMMA LikeAdvance ==
    ASSUME NEW u, IsSec(u), NEW v, IsSec(v), Like(u, v), NEW n \in Nat
    PROVE  Like(Advance(u, n), Advance(v, n))
  BY DEF Like, Advance, IsSec, Section

\* and find the same size.
LEMMA LikeSize ==
    ASSUME NEW u, NEW v, Like(u, v), NEW a, NEW s, NEW w
    PROVE  /\ Eval(a.ref, s, u) = Eval(a.ref, s, v)
           /\ AtomSize(a, s, u, w) = AtomSize(a, s, v, w)
  <1>1. u.pc = v.pc /\ ("ABSOLUTE" \in u.flags <=> "ABSOLUTE" \in v.flags)
    BY DEF Like
  <1>2. Kind(a.ref, s, u) = Kind(a.ref, s, v)
    BY <1>1 DEF Kind
  <1>3. Eval(a.ref, s, u) = Eval(a.ref, s, v)
    BY <1>1, <1>2 DEF Eval
  <1>4. Spot(u) = Spot(v)
    <2>1. u.flags \cap {"ABSOLUTE"} = v.flags \cap {"ABSOLUTE"}
      BY <1>1
    <2> QED BY <1>1, <2>1 DEF Spot
  <1> QED BY <1>1, <1>3, <1>4 DEF AtomSize

\* A walk that begins at rest begins like the next one.
LEMMA LikeStart ==
    ASSUME NEW u \in Section, NEW v \in Section, NEW s, u.pc = v.pc, Plain(u, s), Plain(v, s)
    PROVE  Like(u, v)
  BY DEF Like, Plain

\* What settles atom i of s has not changed.
Untouched(s, i) ==
    /\ UNCHANGED <<prog, defd, abslab>>
    /\ walk'[s][i] = walk[s][i] /\ walk'[s][i + 1] = walk[s][i + 1]
    /\ lastsize'[s][i] = lastsize[s][i] /\ changes'[s][i] = changes[s][i]

\* An atom that nobody touches stays settled while the labels stay.
LEMMA SettledSame ==
    ASSUME NEW s, NEW i, Untouched(s, i), lab' = lab
    PROVE  Settled(s, i)' <=> Settled(s, i)
  <1>1. \A t : Atoms(t)' = Atoms(t)
    BY DEF Untouched, Atoms
  <1>2. \A u, r : Kind(r, s, u)' = Kind(r, s, u) /\ Eval(r, s, u)' = Eval(r, s, u)
    BY DEF Untouched, Kind, Eval
  <1>3. \A a, u, w : AtomSize(a, s, u, w)' = AtomSize(a, s, u, w)
    BY <1>2 DEF Untouched, AtomSize
  <1>4. Warn(s, i)' = Warn(s, i)
    BY DEF Untouched, Warn
  <1> QED BY <1>1, <1>2, <1>3, <1>4 DEF Untouched, Settled

\* An instruction that refers to another section has one size at a given place.
LEMMA ForeignSame ==
    ASSUME ForeignIrrelevant, NEW p \in Programs, NEW s \in Sections, NEW i \in 1..Len(p.atoms[s]),
           NEW a, a = p.atoms[s][i], a.t = "inst", a.ref \in Labels, p.home[a.ref] \notin p.abs \cup {s},
           NEW x \in Nat, NEW y \in Nat, NEW u \in Spots, NEW w \in BOOLEAN,
           "ABSOLUTE" \in u.flags => s \in p.abs \/ HasRorg(p, s)
    PROVE  InstSize(a, [val |-> x, kind |-> "foreign"], u, w)
             = InstSize(a, [val |-> y, kind |-> "foreign"], u, w)
  <1>1. /\ p.atoms[s][i].t = "inst" /\ p.atoms[s][i].ref \in Labels
        /\ p.home[p.atoms[s][i].ref] \notin p.abs \cup {s}
    OBVIOUS
  <1>2. OneSize(p, s, p.atoms[s][i])
    BY <1>1 DEF ForeignIrrelevant
  <1> QED BY <1>2 DEF OneSize

\* A label that moves in section c disturbs an atom of another section only
\* where a dependency is noted.
LEMMA SettledForeign ==
    ASSUME BInv, Flags, ForeignIrrelevant, NoRorgInOrg, NEW s \in Sections, NEW i \in 1..Len(Atoms(s)),
           Settled(s, i), Noted(s, i), Untouched(s, i),
           NEW l \in Labels, NEW x \in Nat, lab' = [lab EXCEPT ![l] = x],
           prog.home[l] # s, s \notin deps[prog.home[l]]
    PROVE  Settled(s, i)'
  <1>1. PICK a : a = Atoms(s)[i] /\ a = prog.atoms[s][i] /\ IsAtom(a)
    BY ProgramFacts DEF Atoms, BInv
  <1>2. PICK u : u = Place(a, walk[s][i])
    OBVIOUS
  <1>3. PICK w \in BOOLEAN : w = Warn(s, i)
    BY WarnType
  <1>4. UNCHANGED <<prog, defd, abslab>> /\ \A t : Atoms(t)' = Atoms(t)
    BY DEF Untouched, Atoms
  <1>5. Warn(s, i)' = w
    BY <1>3 DEF Untouched, Warn
  <1>6. lab \in [Labels -> Nat] /\ \A k \in Labels \ {l} : lab'[k] = lab[k]
    BY DEF BInv, TypeOK
  <1>7. Place(a, walk'[s][i]) = u
    BY <1>2 DEF Untouched
  <1>8. CASE a.t = "label"
    <2>1. a.ref # l /\ a.ref \in Labels
      <3>1. TypeOK
        BY DEF BInv
      <3>2. a.ref \in Labels /\ prog.home[a.ref] = s
        BY <1>1, <1>8, <3>1, ProgramFacts
      <3> QED BY <3>2
    <2>2. lab'[a.ref] = lab[a.ref]
      BY <1>6, <2>1
    <2> QED BY <1>1, <1>2, <1>4, <1>7, <1>8, <2>2 DEF Settled, Untouched
  <1>9. CASE a.t # "label"
    <2>1. walk[s][i + 1] = Advance(u, lastsize[s][i])
      BY <1>1, <1>2, <1>9 DEF Settled
    <2>2. \/ AtomSize(a, s, u, w) = lastsize[s][i]
          \/ a.t = "space" /\ Eval(a.ref, s, u).kind # "const"
      BY <1>1, <1>2, <1>3, <1>9 DEF Settled
    <2>3. Kind(a.ref, s, u)' = Kind(a.ref, s, u)
      BY <1>4 DEF Kind
    <2>4. Eval(a.ref, s, u)'.kind = Eval(a.ref, s, u).kind
      BY <2>3 DEF Eval
    <2>5. \/ AtomSize(a, s, u, w)' = lastsize[s][i]
          \/ a.t = "space" /\ Eval(a.ref, s, u)'.kind # "const"
      <3>1. CASE a.ref # l
        <4>1. Eval(a.ref, s, u)' = Eval(a.ref, s, u)
          <5>1. a.ref \in defd => lab'[a.ref] = lab[a.ref]
            BY <1>6, <3>1 DEF BInv, TypeOK
          <5> QED BY <1>4, <2>3, <5>1 DEF Eval
        <4>2. AtomSize(a, s, u, w)' = AtomSize(a, s, u, w)
          BY <1>4, <4>1 DEF AtomSize
        <4> QED BY <2>2, <2>4, <4>2
      <3>2. CASE a.t \notin {"inst", "space"}
        <4>1. AtomSize(a, s, u, w)' = AtomSize(a, s, u, w)
          BY <1>4, <3>2 DEF AtomSize
        <4> QED BY <2>2, <3>2, <4>1
      <3>3. CASE a.ref = l /\ l \notin defd
        <4>1. a.ref # CurPc
          BY <3>3, ResolverAssumption
        <4>2. Eval(a.ref, s, u)' = Eval(a.ref, s, u)
          BY <1>4, <2>3, <3>3, <4>1 DEF Eval
        <4>3. AtomSize(a, s, u, w)' = AtomSize(a, s, u, w)
          BY <1>4, <4>2 DEF AtomSize
        <4> QED BY <2>2, <2>4, <4>3
      <3>4. CASE a.ref = l /\ l \in defd /\ a.t \in {"inst", "space"}
        <4>1. l \notin abslab
          <5>1. SUFFICES ASSUME l \in abslab PROVE FALSE
            OBVIOUS
          <5>2. prog.home[l] \in DepOn(a, s)
            BY <3>4, <5>1 DEF DepOn
          <5> QED BY <1>1, <5>2 DEF Noted
        <4>2. l # CurPc /\ l # NoRef
          BY ResolverAssumption
        <4>3. Kind(a.ref, s, u) = "foreign"
          BY <3>4, <4>1, <4>2 DEF Kind
        <4>4. CASE a.t = "space"
          BY <2>3, <4>3, <4>4 DEF Eval
        <4>5. CASE a.t = "inst"
          <5>1. prog.home[l] \notin prog.abs
            BY <3>4, <4>1 DEF Flags
          <5>2. walk[s][i] \in Section /\ FlagsOf(walk[s][i], s)
            <6>1. i \in 1..Len(Atoms(s)) + 1 /\ walk[s] \in [1..Len(Atoms(s)) + 1 -> Section]
              BY ProgramFacts DEF BInv, TypeOK
            <6>2. \A t \in Sections : \A k \in 1..Len(Atoms(t)) + 1 : FlagsOf(walk[t][k], t)
              BY Zenon DEF Flags
            <6> QED BY <6>1, <6>2
          <5>3. u = Align(a, walk[s][i])
            BY <1>2, <4>5 DEF Place, Rorg
          <5>4. u \in Section /\ u.flags = walk[s][i].flags
            <6>1. PICK y : y = PcAlign(a, walk[s][i].pc)
              OBVIOUS
            <6>2. y \in Nat
              BY <1>1, <5>2, <6>1, PcAlignUp DEF Section
            <6>3. u = [walk[s][i] EXCEPT !.pc = y]
              BY <5>3, <6>1 DEF Align
            <6> QED BY <5>2, <6>2, <6>3 DEF Section
          <5>5. PICK q \in Spots : q = Spot(u) /\ ("ABSOLUTE" \in q.flags => s \in prog.abs \/ HasRorg(prog, s))
            <6>1. Spot(u) \in Spots /\ Spot(u).flags \subseteq u.flags
              BY <5>4 DEF Spot, Spots, Section
            <6>2. "ABSOLUTE" \in u.flags => s \in prog.abs \/ HasRorg(prog, s)
              BY <5>2, <5>4 DEF FlagsOf, Plain
            <6> QED BY <6>1, <6>2
          <5>6. PICK y \in Nat, z \in Nat : y = lab[l] /\ z = lab'[l]
            BY <1>6
          <5>7. /\ Eval(a.ref, s, u) = [val |-> y, kind |-> "foreign"]
                /\ Eval(a.ref, s, u)' = [val |-> z, kind |-> "foreign"]
            BY <1>4, <2>3, <3>4, <4>2, <4>3, <5>6 DEF Eval
          <5>8. InstSize(a, [val |-> y, kind |-> "foreign"], q, w) = InstSize(a, [val |-> z, kind |-> "foreign"], q, w)
            <6>1. prog \in Programs /\ i \in 1..Len(prog.atoms[s])
              BY DEF BInv, Atoms
            <6>2. a = prog.atoms[s][i] /\ a.t = "inst" /\ a.ref \in Labels /\ prog.home[a.ref] \notin prog.abs \cup {s}
              BY <1>1, <3>4, <4>5, <5>1 DEF Atoms
            <6> QED BY <5>5, <5>6, <6>1, <6>2, ForeignSame
          <5>9. AtomSize(a, s, u, w)' = AtomSize(a, s, u, w)
            BY <4>5, <5>5, <5>7, <5>8 DEF AtomSize
          <5> QED BY <2>2, <4>5, <5>9
        <4> QED BY <3>4, <4>4, <4>5
      <3> QED BY <3>1, <3>2, <3>3, <3>4
    <2> QED BY <1>1, <1>4, <1>5, <1>7, <1>9, <2>1, <2>5 DEF Settled, Untouched
  <1> QED BY <1>8, <1>9

\* A visit changes the data of the visited atom only, and dependencies grow.
HereOnly == /\ \A s \in Sections : \A i \in 1..Len(Atoms(s)) : s # cur \/ i # idx =>
                 lastsize'[s][i] = lastsize[s][i] /\ changes'[s][i] = changes[s][i]
            /\ \A d \in Sections : deps[d] \subseteq deps'[d]

\* What a visit leaves alone: all that is not the atom it is at.
LEMMA VisitKeeps ==
    ASSUME BInv, Resolving, phase = "resolve", idx <= Len(Atoms(cur)), NEW v, IsSec(v), Steps(v), HereOnly
    PROVE  /\ sec'[cur] = walk'[cur][idx'] /\ Start(cur)'
           /\ \A s \in Sections : s # cur /\ Start(s) => Start(s)'
           /\ \A s \in Sections : \A i \in 1..Len(Atoms(s)) : s # cur \/ i < idx => Untouched(s, i)
           /\ \A s \in Sections : \A i \in 1..Len(Atoms(s)) : Noted(s, i) => Noted(s, i)'
  <1>1. /\ UNCHANGED <<prog, defd, abslab, cur>> /\ idx' = idx + 1
        /\ Sets(walk, walk', cur, idx + 1, v) /\ sec'[cur] = v
    BY StepsKeep DEF Steps
  <1>2. /\ cur \in Sections /\ idx \in Nat \ {0} /\ idx \in 1..Len(Atoms(cur)) /\ Len(Atoms(cur)) \in Nat
        /\ DOMAIN walk = Sections
    BY Walking, ProgramFacts DEF BInv
  <1>3. \A s \in Sections : DOMAIN walk[s] = 1..Len(Atoms(s)) + 1 /\ Len(Atoms(s)) \in Nat
    BY ProgramFacts DEF BInv, TypeOK
  <1>4. sec'[cur] = walk'[cur][idx']
    BY <1>1 DEF Sets
  <1>5. \A s \in Sections : s # cur => walk'[s] = walk[s]
    BY <1>1, <1>2 DEF Sets
  <1>6. \A j \in 1..Len(Atoms(cur)) + 1 : j # idx + 1 => walk'[cur][j] = walk[cur][j]
    BY <1>1, <1>2, <1>3 DEF Sets
  <1>7. \A u, s : Plain(u, s)' <=> Plain(u, s)
    BY <1>1 DEF Plain
  <1>8. Start(cur)'
    <2>1. walk'[cur][1] = walk[cur][1]
      BY <1>2, <1>6
    <2>2. Start(cur)
      BY DEF Resolving
    <2> QED BY <1>1, <1>7, <2>1, <2>2 DEF Start
  <1>9. \A s \in Sections : s # cur /\ Start(s) => Start(s)'
    BY <1>1, <1>5, <1>7 DEF Start
  <1>10. ASSUME NEW s \in Sections, NEW i \in 1..Len(Atoms(s)), s # cur \/ i < idx PROVE Untouched(s, i)
    <2>1. lastsize'[s][i] = lastsize[s][i] /\ changes'[s][i] = changes[s][i]
      BY <1>2, <1>10 DEF HereOnly
    <2>2. walk'[s][i] = walk[s][i] /\ walk'[s][i + 1] = walk[s][i + 1]
      <3>1. CASE s # cur
        BY <1>5, <3>1
      <3>2. CASE s = cur
        <4>1. PICK n \in Nat : n = Len(Atoms(cur)) /\ i \in 1..n /\ i < idx
          BY <1>2, <1>10, <3>2
        <4>2. i \in 1..n + 1 /\ i + 1 \in 1..n + 1 /\ i # idx + 1 /\ i + 1 # idx + 1
          BY <1>2, <4>1
        <4> QED BY <1>6, <3>2, <4>1, <4>2
      <3> QED BY <3>1, <3>2
    <2> QED BY <1>1, <2>1, <2>2 DEF Untouched
  <1>11. ASSUME NEW s \in Sections, NEW i \in 1..Len(Atoms(s)), Noted(s, i) PROVE Noted(s, i)'
    <2>1. Atoms(s)' = Atoms(s)
      BY <1>1 DEF Atoms
    <2>2. DepOn(Atoms(s)[i], s)' = DepOn(Atoms(s)[i], s)
      BY <1>1, <2>1 DEF DepOn
    <2>3. DepOn(Atoms(s)[i], s) \subseteq Sections
      <3>1. prog.home \in [Labels -> Sections] /\ defd \subseteq Labels
        BY DEF BInv, TypeOK, IsProgram
      <3> QED BY <3>1 DEF DepOn
    <2> QED BY <1>11, <2>1, <2>2, <2>3 DEF Noted, HereOnly
  <1> QED BY <1>4, <1>8, <1>9, <1>10, <1>11, <1>1

\* A section that is not to do, after a visit.
Rested(s) == /\ Start(s) /\ AllNoted(s)
             /\ AllSettled(s) \/ (s \in deps[cur] /\ ~(pass = 1 /\ done))

\* A visit that moves no label.
LEMMA VisitStill ==
    ASSUME BInv, Resolving, phase = "resolve", idx <= Len(Atoms(cur)), NEW v, IsSec(v), Steps(v), HereOnly,
           lab' = lab, NEW c, c = cur, NEW k, k = idx, done' => done /\ Settled(c, k)' /\ Noted(c, k)'
    PROVE  Resolving'
  <1>1. UNCHANGED <<prog, todo, cur, pass>> /\ idx' = idx + 1 /\ \A s : Atoms(s)' = Atoms(s)
    BY DEF Steps, Atoms
  <1>2. cur \in Sections /\ idx \in Nat \ {0} /\ idx \in 1..Len(Atoms(cur))
    BY Walking
  <1>3. ASSUME done', NEW i \in 1..k PROVE Settled(c, i)' /\ Noted(c, i)'
    <2>1. CASE i = k
      BY <1>3, <2>1
    <2>2. CASE i # k
      <3>1. i \in 1..idx - 1 /\ i \in 1..Len(Atoms(cur)) /\ i < idx
        <4>1. PICK n \in Nat : n = Len(Atoms(cur))
          BY <1>2, ProgramFacts DEF BInv
        <4> QED BY <1>1, <1>2, <2>2, <4>1
      <3>2. done
        BY <1>3
      <3>3. Settled(c, i) /\ Noted(c, i)
        BY <3>1, <3>2 DEF Resolving
      <3>4. Untouched(c, i) /\ Noted(c, i)'
        BY <1>2, <3>1, <3>3, VisitKeeps
      <3> QED BY <3>3, <3>4, SettledSame
    <2> QED BY <2>1, <2>2
  <1>4. ASSUME NEW s \in Sections \ (todo \cup {cur}) PROVE Rested(s)'
    <2>1. Rested(s)
      BY <1>4 DEF Resolving, Rested
    <2>2. Start(s)'
      BY <2>1, VisitKeeps DEF Rested
    <2>3. AllNoted(s)'
      BY <1>1, <2>1, VisitKeeps DEF Rested, AllNoted
    <2>4. CASE AllSettled(s)
      <3>1. \A i \in 1..Len(Atoms(s)) : Settled(s, i)'
        <4>1. SUFFICES ASSUME NEW i \in 1..Len(Atoms(s)) PROVE Settled(s, i)'
          OBVIOUS
        <4>2. Untouched(s, i) /\ Settled(s, i)
          BY <2>4, VisitKeeps DEF AllSettled
        <4> QED BY <4>2, SettledSame
      <3>2. AllSettled(s)'
        BY <1>1, <3>1 DEF AllSettled
      <3> QED BY <2>2, <2>3, <3>2 DEF Rested
    <2>5. CASE s \in deps[cur] /\ ~(pass = 1 /\ done)
      <3>1. s \in deps'[cur] /\ ~(pass = 1 /\ done')
        BY <1>2, <2>5 DEF HereOnly
      <3> QED BY <1>1, <2>2, <2>3, <3>1 DEF Rested
    <2> QED BY <2>1, <2>4, <2>5 DEF Rested
  <1>5. sec'[cur] = walk'[cur][idx'] /\ Start(cur)'
    BY VisitKeeps
  <1>6. c = cur' /\ 1..idx' - 1 = 1..k
    BY <1>1, <1>2
  <1> QED BY <1>1, <1>3, <1>4, <1>5, <1>6 DEF Resolving, Rested

\* A label that moves puts every dependent section back in doubt.
LEMMA ResolvingVisitLabel ==
    ASSUME BInv, Flags, ForeignIrrelevant, NoRorgInOrg, Resolving, VisitLabel
    PROVE  Resolving'
  <1>1. PICK v : v = Place(Here, sec[cur])
    OBVIOUS
  <1>2. /\ phase = "resolve" /\ idx <= Len(Atoms(cur)) /\ Here.t = "label" /\ Steps(v)
        /\ lab' = [lab EXCEPT ![Here.ref] = v.pc]
        /\ UNCHANGED <<lastsize, changes, deps>>
    BY <1>1, BInvVisitLabel DEF VisitLabel
  <1>3. done' => done /\ lab[Here.ref] = v.pc
    BY <1>1 DEF VisitLabel
  <1>4. IsSec(v) /\ v.pc \in Nat
    BY <1>1, <1>2, Walking DEF IsSec, Section
  <1>5. HereOnly
    BY <1>2 DEF HereOnly
  <1>6. /\ cur \in Sections /\ idx \in Nat \ {0} /\ idx \in 1..Len(Atoms(cur)) /\ Here = Atoms(cur)[idx]
    BY <1>2, Walking
  <1>7. Here.ref \in Labels /\ prog.home[Here.ref] = cur
    BY <1>2, <1>6, ProgramFacts DEF BInv
  <1>8. lab \in [Labels -> Nat] /\ UNCHANGED <<prog, defd, abslab, cur, todo, pass>> /\ \A s : Atoms(s)' = Atoms(s)
    BY <1>2 DEF BInv, TypeOK, Steps, Atoms
  <1>9. CASE done'
    <2>1. lab' = lab
      BY <1>2, <1>3, <1>7, <1>8, <1>9
    <2>2. PICK c, k : c = cur /\ k = idx
      OBVIOUS
    <2>3. Settled(c, k)'
      <3>1. walk'[c][k + 1] = v /\ walk'[c][k] = walk[c][k]
        <4>1. Sets(walk, walk', c, k + 1, v) /\ k \in 1..Len(Atoms(c)) + 1 /\ DOMAIN walk[c] = 1..Len(Atoms(c)) + 1
          BY <1>2, <1>4, <1>6, <2>2, StepsKeep, Walking DEF BInv, TypeOK
        <4>2. k # k + 1
          BY <1>6, <2>2
        <4> QED BY <4>1, <4>2 DEF Sets
      <3>2. Place(Atoms(c)[k], walk[c][k]) = v
        BY <1>1, <1>6, <2>2 DEF Resolving
      <3>3. lab'[Atoms(c)[k].ref] = v.pc
        BY <1>3, <1>6, <1>9, <2>1, <2>2
      <3> QED BY <1>2, <1>6, <1>8, <2>2, <3>1, <3>2, <3>3 DEF Settled
    <2>4. Noted(c, k)'
      BY <1>2, <1>6, <1>8, <2>2 DEF Noted, DepOn
    <2> QED BY <1>2, <1>3, <1>4, <1>5, <2>1, <2>2, <2>3, <2>4, VisitStill
  <1>10. CASE ~done'
    <2>1. ASSUME NEW s \in Sections \ (todo \cup {cur}) PROVE Rested(s)'
      <3>1. Rested(s)
        BY <2>1 DEF Resolving, Rested
      <3>2. Start(s)'
        BY <1>2, <1>4, <1>5, <3>1, VisitKeeps DEF Rested
      <3>3. AllNoted(s)'
        BY <1>2, <1>4, <1>5, <1>8, <3>1, VisitKeeps DEF Rested, AllNoted
      <3>4. CASE s \in deps[cur]
        BY <1>2, <1>8, <1>10, <3>2, <3>3, <3>4 DEF Rested
      <3>5. CASE s \notin deps[cur]
        <4>1. ASSUME NEW i \in 1..Len(Atoms(s)) PROVE Settled(s, i)'
          <5>1. Settled(s, i) /\ Noted(s, i)
            BY <3>1, <3>5 DEF Rested, AllSettled, AllNoted
          <5>2. Untouched(s, i)
            BY <1>2, <1>4, <1>5, VisitKeeps
          <5>3. PICK l \in Labels, x \in Nat : l = Here.ref /\ x = v.pc
            BY <1>4, <1>7
          <5>4. lab' = [lab EXCEPT ![l] = x] /\ prog.home[l] # s /\ s \notin deps[prog.home[l]]
            BY <1>2, <1>7, <3>5, <5>3
          <5> QED BY <5>1, <5>2, <5>4, SettledForeign
        <4>2. AllSettled(s)'
          BY <1>8, <4>1 DEF AllSettled
        <4> QED BY <3>2, <3>3, <4>2 DEF Rested
      <3> QED BY <3>4, <3>5
    <2>2. sec'[cur] = walk'[cur][idx'] /\ Start(cur)'
      BY <1>2, <1>4, <1>5, VisitKeeps
    <2> QED BY <1>8, <1>10, <2>1, <2>2 DEF Resolving, Rested
  <1> QED BY <1>9, <1>10

\* An instruction that is kept has the size it had.
LEMMA ResolvingKeepInst ==
    ASSUME BInv, Resolving, KeepInst
    PROVE  Resolving'
  <1>1. PICK v : v = Advance(Place(Here, sec[cur]), lastsize[cur][idx])
    OBVIOUS
  <1>2. /\ phase = "resolve" /\ idx <= Len(Atoms(cur)) /\ Steps(v)
        /\ UNCHANGED <<lab, lastsize, changes, deps>>
    BY <1>1, BInvKeepInst DEF KeepInst
  <1>3. ~done'
    BY DEF KeepInst
  <1>4. IsSec(v)
    <2>1. lastsize[cur][idx] \in Nat
      BY <1>2, Walking DEF BInv, TypeOK
    <2> QED BY <1>1, <1>2, <2>1, Walking, AdvanceIsSec
  <1>5. HereOnly
    BY <1>2 DEF HereOnly
  <1>6. PICK c, k : c = cur /\ k = idx
    OBVIOUS
  <1> QED BY <1>2, <1>3, <1>4, <1>5, <1>6, VisitStill

\* An atom is settled and its dependencies are noted once it has been visited.
LEMMA ResolvingVisitAtom ==
    ASSUME BInv, SizesAreNat, Resolving, VisitAtom
    PROVE  Resolving'
  <1>1. PICK u : u = Place(Here, sec[cur])
    OBVIOUS
  <1>2. PICK size : size = AtomSize(Here, cur, u, Warn(cur, idx))
    OBVIOUS
  <1>3. PICK v : v = Advance(u, size)
    OBVIOUS
  <1>4. /\ phase = "resolve" /\ idx <= Len(Atoms(cur)) /\ Here.t # "label" /\ Steps(v)
        /\ lastsize' = [lastsize EXCEPT ![cur][idx] = size]
        /\ changes' = IF size # lastsize[cur][idx] /\ pass > fastphase
                      THEN [changes EXCEPT ![cur][idx] = @ + 1]
                      ELSE changes
        /\ deps' = AddDeps(Here, cur) /\ lab' = lab
    BY <1>1, <1>2, <1>3, BInvVisitAtom DEF VisitAtom
  <1>5. done' => done /\ size = lastsize[cur][idx]
    BY <1>1, <1>2 DEF VisitAtom
  <1>6. /\ cur \in Sections /\ idx \in Nat \ {0} /\ idx \in 1..Len(Atoms(cur))
        /\ Here = Atoms(cur)[idx] /\ IsAtom(Here) /\ IsSec(u)
    BY <1>1, <1>4, Walking
  <1>7. size \in Nat /\ IsSec(v)
    <2>1. size \in Nat
      BY <1>2, <1>6, WarnType, AtomSizeType DEF BInv
    <2> QED BY <1>3, <1>6, <2>1, AdvanceIsSec
  <1>8. /\ DOMAIN lastsize = Sections /\ DOMAIN changes = Sections
        /\ \A s \in Sections : /\ lastsize[s] \in [1..Len(Atoms(s)) -> Nat]
                               /\ changes[s] \in [1..Len(Atoms(s)) -> Nat]
    BY DEF BInv, TypeOK
  <1>9. HereOnly
    <2>1. \A d \in Sections : deps[d] \subseteq deps'[d]
      BY <1>4, <1>6, AddDepsType DEF BInv
    <2>2. ASSUME NEW s \in Sections, NEW i \in 1..Len(Atoms(s)), s # cur \/ i # idx
          PROVE  lastsize'[s][i] = lastsize[s][i] /\ changes'[s][i] = changes[s][i]
      <3>1. lastsize'[s][i] = lastsize[s][i]
        BY <1>4, <1>6, <1>8, <2>2
      <3>2. PICK x : changes' = changes \/ changes' = [changes EXCEPT ![cur][idx] = x]
        BY <1>4
      <3>3. changes'[s][i] = changes[s][i]
        BY <1>6, <1>8, <2>2, <3>2
      <3> QED BY <3>1, <3>3
    <2> QED BY <2>1, <2>2 DEF HereOnly
  <1>10. PICK c, k : c = cur /\ k = idx
    OBVIOUS
  <1>11. UNCHANGED <<prog, defd, abslab, lab>> /\ \A s : Atoms(s)' = Atoms(s)
    BY <1>4 DEF Steps, Atoms
  <1>12. ASSUME done' PROVE Settled(c, k)' /\ Noted(c, k)'
    <2>1. lastsize'[c][k] = size /\ changes' = changes
      BY <1>4, <1>5, <1>6, <1>8, <1>10, <1>12
    <2>2. walk'[c][k + 1] = v /\ walk'[c][k] = walk[c][k]
      <3>1. Sets(walk, walk', c, k + 1, v) /\ k \in 1..Len(Atoms(c)) + 1 /\ DOMAIN walk[c] = 1..Len(Atoms(c)) + 1
        BY <1>4, <1>6, <1>7, <1>10, StepsKeep, Walking DEF BInv, TypeOK
      <3>2. k # k + 1
        BY <1>6, <1>10
      <3> QED BY <3>1, <3>2 DEF Sets
    <2>3. PICK a : a = Atoms(c)[k] /\ a.t # "label"
      BY <1>4, <1>6, <1>10
    <2>4. u = Place(a, walk'[c][k])
      BY <1>1, <1>6, <1>10, <2>2, <2>3 DEF Resolving
    <2>5. PICK w : w = Warn(c, k) /\ w = Warn(c, k)'
      BY <2>1 DEF Warn
    <2>6. AtomSize(a, c, u, w)' = size
      <3>1. Kind(a.ref, c, u)' = Kind(a.ref, c, u)
        BY <1>11 DEF Kind
      <3>2. Eval(a.ref, c, u)' = Eval(a.ref, c, u)
        BY <1>11, <3>1 DEF Eval
      <3>3. AtomSize(a, c, u, w)' = AtomSize(a, c, u, w)
        BY <1>11, <3>2 DEF AtomSize
      <3> QED BY <1>2, <1>6, <1>10, <2>3, <2>5, <3>3
    <2>7. Settled(c, k)'
      BY <1>3, <1>11, <2>1, <2>2, <2>3, <2>4, <2>5, <2>6 DEF Settled
    <2>8. Noted(c, k)'
      <3>1. DepOn(a, c)' = DepOn(a, c)
        BY <1>11 DEF DepOn
      <3>2. DepOn(a, c) \subseteq Sections
        <4>1. prog.home \in [Labels -> Sections] /\ defd \subseteq Labels
          BY DEF BInv, TypeOK, IsProgram
        <4> QED BY <4>1 DEF DepOn
      <3>3. \A d \in DepOn(a, c) : c \in deps'[d]
        BY <1>4, <1>6, <1>10, <2>3, <3>2 DEF AddDeps
      <3> QED BY <1>11, <2>3, <3>1, <3>3 DEF Noted
    <2> QED BY <2>7, <2>8
  <1> QED BY <1>4, <1>5, <1>7, <1>9, <1>10, <1>12, VisitStill

\* Where a walk of section s starts, the other sections stay as they were.
LEMMA StartKeeps ==
    ASSUME BInv, Between, NEW s \in Sections, NEW v, walk' = walk \/ walk' = [walk EXCEPT ![s][1] = v],
           NEW t \in Sections, t # s \/ walk' = walk
    PROVE  /\ Start(t) => Start(t)'
           /\ AllNoted(t) => AllNoted(t)'
           /\ AllSettled(t) => AllSettled(t)'
  <1>1. /\ UNCHANGED <<prog, lab, defd, abslab, lastsize, changes, deps>>
        /\ \A r : Atoms(r)' = Atoms(r)
    BY DEF Between, Atoms
  <1>2. walk'[t] = walk[t]
    BY DEF BInv, TypeOK
  <1>3. Start(t) => Start(t)'
    BY <1>1, <1>2 DEF Start, Plain
  <1>4. AllNoted(t) => AllNoted(t)'
    <2>1. \A i : DepOn(Atoms(t)[i], t)' = DepOn(Atoms(t)[i], t)
      BY <1>1 DEF DepOn
    <2> QED BY <1>1, <2>1 DEF AllNoted, Noted
  <1>5. ASSUME AllSettled(t) PROVE AllSettled(t)'
    <2>1. ASSUME NEW i \in 1..Len(Atoms(t)) PROVE Settled(t, i)'
      <3>1. Settled(t, i) /\ Untouched(t, i)
        BY <1>1, <1>2, <1>5 DEF AllSettled, Untouched
      <3> QED BY <1>1, <3>1, SettledSame
    <2> QED BY <1>1, <2>1 DEF AllSettled
  <1> QED BY <1>3, <1>4, <1>5

\* A pass starts with nothing visited,
LEMMA ResolvingStart ==
    ASSUME BInv, Between, NEW s \in Sections, NEW n, NEW fast, NEW secs, AtRest(secs),
           \A t \in Sections : FlagsOf(secs[t], t), StartPass(s, n, fast, secs), phase' = "resolve",
           \A t \in Sections \ (todo' \cup {s}) :
              /\ Start(t) /\ AllNoted(t)
              /\ AllSettled(t) \/ (t \in deps[s] /\ n # 1)
    PROVE  Resolving'
  <1> DEFINE v == Rewind(secs[s], s)
  <1>1. v.flags = secs[s].flags /\ v.pc = prog.org[s]
    BY RewindFlags DEF AtRest
  <1>2. Plain(secs[s], s)
    BY RestsPlain
  <1>3. Plain(v, s)
    BY <1>1, <1>2 DEF Plain
  <1> HIDE DEF v
  <1>4. /\ cur' = s /\ idx' = 1 /\ pass' = n
        /\ sec' = [secs EXCEPT ![s] = v] /\ walk' = [walk EXCEPT ![s][1] = v]
    BY DEF StartPass, v
  <1>5. sec'[s] = v /\ walk'[s][1] = v
    <2>1. secs \in [Sections -> Section] /\ DOMAIN walk = Sections /\ DOMAIN walk[s] = 1..Len(Atoms(s)) + 1
      BY DEF AtRest, BInv, TypeOK
    <2>2. 1 \in 1..Len(Atoms(s)) + 1
      BY ProgramFacts DEF BInv
    <2> QED BY <1>4, <2>1, <2>2
  <1>6. Start(s)'
    <2>1. prog' = prog
      BY DEF Between
    <2> QED BY <1>1, <1>3, <1>5, <2>1 DEF Start, Plain
  <1>7. ASSUME NEW t \in Sections \ (todo' \cup {s}) PROVE Rested(t)'
    <2>1. /\ Start(t)' /\ AllNoted(t)' /\ (AllSettled(t) => AllSettled(t)')
      BY <1>4, <1>7, StartKeeps
    <2>2. deps' = deps
      BY DEF Between
    <2>3. CASE AllSettled(t)
      BY <2>1, <2>3 DEF Rested
    <2>4. CASE t \in deps[s] /\ n # 1
      BY <1>4, <2>1, <2>2, <2>4 DEF Rested
    <2> QED BY <1>7, <2>3, <2>4
  <1>8. \A i \in 1..idx' - 1 : FALSE
    BY <1>4
  <1> QED BY <1>4, <1>5, <1>6, <1>7, <1>8 DEF Resolving, Rested

\* assemble() with everything settled.
LEMMA AssemblingStart ==
    ASSUME BInv, Between, NEW s \in Sections, NEW secs, AtRest(secs),
           \A t \in Sections : FlagsOf(secs[t], t), StartAssemble(s, secs), phase' = "assemble",
           \A t \in Sections : Start(t) /\ AllSettled(t)
    PROVE  Assembling'
  <1> DEFINE v == Rewind(secs[s], s)
  <1>1. v.flags = secs[s].flags /\ v.pc = prog.org[s] /\ v \in Section
    <2>1. prog.org[s] \in Nat
      BY ProgramFacts DEF BInv
    <2> QED BY <2>1, RewindFlags, RewindIsSec DEF AtRest, IsSec
  <1>2. Plain(v, s)
    BY <1>1, RestsPlain DEF Plain
  <1> HIDE DEF v
  <1>3. cur' = s /\ idx' = 1 /\ sec' = [secs EXCEPT ![s] = v] /\ walk' = walk
    BY DEF StartAssemble, v
  <1>4. \A t \in Sections : Start(t)' /\ AllSettled(t)'
    BY <1>3, StartKeeps
  <1>5. sec'[s] = v
    BY <1>3 DEF AtRest
  <1>6. walk[s][1] \in Section /\ Start(s)
    <2>1. walk[s] \in [1..Len(Atoms(s)) + 1 -> Section] /\ 1 \in 1..Len(Atoms(s)) + 1
      BY ProgramFacts DEF BInv, TypeOK
    <2> QED BY <2>1
  <1>7. Like(v, walk[s][1])
    BY <1>1, <1>2, <1>6, LikeStart DEF Start
  <1> QED BY <1>3, <1>4, <1>5, <1>7 DEF Assembling

\* When a pass ends, a section is dropped only if it is settled.
LEMMA EndPassSound ==
    ASSUME BInv, NoRorgInOrg, Flags, ~errs => Resolving, EndPass
    PROVE  /\ Flags'
           /\ phase' = "resolve" /\ ~errs' => Resolving'
           /\ phase' = "assemble" /\ ~errs' => Assembling'
  <1>1. PICK fast, more, secs :
          /\ fast = IF extrapass THEN fastphase + 1 ELSE fastphase
          /\ more = (todo \ {cur}) \cup (IF pass > 1 THEN deps[cur] ELSE {})
          /\ secs = [sec EXCEPT ![cur] = LeaveRorg(@)]
    OBVIOUS
  <1>2. /\ phase = "resolve" /\ idx > Len(Atoms(cur)) /\ (errs' <=> errs)
        /\ \/ ~done /\ StartPass(cur, pass + 1, fast, secs) /\ UNCHANGED todo
           \/ /\ errs \/ done
              /\ todo' = more
              /\ \/ more # {} /\ StartPass(NextSec(more, cur), 1, FASTOPTPHASE, secs)
                 \/ more = {} /\ StartAssemble(1, secs)
    BY <1>1 DEF EndPass
  <1>3. AtRest(secs) /\ \A t \in Sections : FlagsOf(secs[t], t)
    BY <1>1, <1>2, LeavesAtRest, LeavesFlags
  <1>4. Between
    BY BInvEndPass
  <1>5. /\ more \subseteq Sections /\ todo \subseteq Sections /\ cur \in Sections
        /\ deps[cur] \subseteq Sections /\ pass \in Nat \ {0}
    <2>1. /\ todo \in SUBSET Sections /\ cur \in Sections /\ deps \in [Sections -> SUBSET Sections]
          /\ pass \in 0..MAXPASSES /\ MAXPASSES \in Nat /\ 1 <= pass
      BY <1>2, ResolverAssumption DEF BInv, TypeOK
    <2> QED BY <1>1, <2>1
  <1>6. 1 \in Sections /\ 1 \in Nat \ {0}
    BY ResolverAssumption DEF Sections
  <1>7. more # {} => NextSec(more, cur) \in more
    BY <1>5, NextSecIn
  <1>8. Flags'
    <2>1. \/ \E s \in Sections : \E n, fst : StartPass(s, n, fst, secs)
          \/ \E s \in Nat \ {0} : StartAssemble(s, secs)
      BY <1>2, <1>5, <1>6, <1>7
    <2>2. phase' # "parse"
      BY <2>1 DEF StartPass, StartAssemble
    <2> QED BY <1>3, <1>4, <2>1, <2>2, FlagsStart
  <1>9. ASSUME done, Resolving, NEW t \in Sections \ more PROVE Start(t) /\ AllNoted(t) /\ AllSettled(t)
    <2>1. CASE t = cur
      <3>1. \A i \in 1..Len(Atoms(cur)) : i \in 1..idx - 1
        <4>1. PICK n \in Nat : n = Len(Atoms(cur))
          BY <1>5, ProgramFacts DEF BInv
        <4>2. idx \in 1..n + 1 /\ idx > n
          BY <1>2, <4>1 DEF BInv, TypeOK
        <4> QED BY <4>1, <4>2
      <3> QED BY <1>9, <2>1, <3>1 DEF Resolving, AllSettled, AllNoted
    <2>2. CASE t # cur
      <3>1. t \notin todo /\ (pass > 1 => t \notin deps[cur])
        BY <1>1, <1>9, <2>2
      <3>2. pass = 1 \/ t \notin deps[cur]
        BY <1>5, <3>1
      <3> QED BY <1>9, <2>2, <3>1, <3>2 DEF Resolving
    <2> QED BY <2>1, <2>2
  <1>10. CASE ~done /\ StartPass(cur, pass + 1, fast, secs) /\ UNCHANGED todo
    <2>1. phase' # "assemble"
      BY <1>10 DEF StartPass
    <2>2. ASSUME phase' = "resolve", ~errs PROVE Resolving'
      <3>1. PICK c, n : c = cur /\ n = pass + 1 /\ c \in Sections /\ n # 1
        BY <1>5
      <3>2. \A t \in Sections \ (todo' \cup {c}) :
              /\ Start(t) /\ AllNoted(t)
              /\ AllSettled(t) \/ (t \in deps[c] /\ n # 1)
        BY <1>10, <2>2, <3>1 DEF Resolving
      <3>3. StartPass(c, n, fast, secs)
        BY <1>10, <3>1
      <3> QED BY <1>3, <1>4, <2>2, <3>1, <3>2, <3>3, ResolvingStart
    <2> QED BY <1>2, <1>8, <2>1, <2>2
  <1>11. CASE /\ errs \/ done
              /\ todo' = more
              /\ more # {} /\ StartPass(NextSec(more, cur), 1, FASTOPTPHASE, secs)
    <2>1. phase' # "assemble"
      BY <1>11 DEF StartPass
    <2>2. ASSUME phase' = "resolve", ~errs PROVE Resolving'
      <3>1. PICK c, f : c = NextSec(more, cur) /\ f = FASTOPTPHASE /\ c \in Sections
        BY <1>5, <1>7, <1>11
      <3>2. \A t \in Sections \ (todo' \cup {c}) :
              /\ Start(t) /\ AllNoted(t)
              /\ AllSettled(t) \/ (t \in deps[c] /\ 1 # 1)
        BY <1>9, <1>11, <2>2
      <3>3. StartPass(c, 1, f, secs)
        BY <1>11, <3>1
      <3> QED BY <1>3, <1>4, <2>2, <3>1, <3>2, <3>3, ResolvingStart
    <2> QED BY <1>2, <1>8, <2>1, <2>2
  <1>12. CASE /\ errs \/ done
              /\ more = {} /\ StartAssemble(1, secs)
    <2>1. phase' # "resolve"
      BY <1>12 DEF StartAssemble
    <2>2. ASSUME phase' = "assemble", ~errs PROVE Assembling'
      <3>1. \A t \in Sections : Start(t) /\ AllSettled(t)
        BY <1>9, <1>12, <2>2
      <3> QED BY <1>3, <1>4, <1>6, <1>12, <2>2, <3>1, AssemblingStart
    <2> QED BY <1>2, <1>8, <2>1, <2>2
  <1> QED BY <1>2, <1>10, <1>11, <1>12

\* assemble() meets an atom where the resolver left it.
LEMMA AssembleAtomSound ==
    ASSUME BInv, SizesAreNat, Assembling, AssembleAtom, ~errs'
    PROVE  Assembling'
  <1>1. /\ phase = "assemble" /\ idx <= Len(Atoms(cur)) /\ idx' = idx + 1
        /\ UNCHANGED <<prog, lab, defd, abslab, lastsize, changes, cur, walk>>
        /\ \A s : Atoms(s)' = Atoms(s)
    BY DEF AssembleAtom, Atoms
  <1>2. PICK a : a = Here
    OBVIOUS
  <1>3. /\ cur \in Sections /\ idx \in Nat \ {0} /\ idx \in 1..Len(Atoms(cur)) /\ a = Atoms(cur)[idx]
        /\ IsAtom(a) /\ IsSec(sec[cur]) /\ idx + 1 \in 1..Len(Atoms(cur)) + 1 /\ idx \in 1..Len(Atoms(cur)) + 1
    BY <1>1, <1>2, Walking
  <1>4. PICK x : x = walk[cur][idx]
    OBVIOUS
  <1>5. Like(sec[cur], x) /\ x \in Section
    BY <1>3, <1>4 DEF Assembling, BInv, TypeOK
  <1>6. IsSec(x)
    BY <1>3, <1>5 DEF Like, IsSec
  <1>7. PICK u : u = Place(a, sec[cur]) /\ IsSec(u)
    BY <1>3, PlaceIsSec
  <1>8. PICK y : y = Place(a, x) /\ IsSec(y)
    BY <1>3, <1>6, PlaceIsSec
  <1>9. Like(u, y)
    BY <1>3, <1>5, <1>6, <1>7, <1>8, LikePlace
  <1>10. PICK w \in BOOLEAN : w = Warn(cur, idx)
    BY WarnType
  <1>11. PICK size : size = AtomSize(a, cur, u, w)
    OBVIOUS
  <1>12. size \in Nat /\ size = AtomSize(a, cur, y, w) /\ Eval(a.ref, cur, u) = Eval(a.ref, cur, y)
    BY <1>3, <1>7, <1>9, <1>11, AtomSizeType, LikeSize DEF BInv
  <1>13. ~(a.t = "space" /\ Eval(a.ref, cur, u).kind # "const")
    BY <1>2, <1>7 DEF AssembleAtom
  <1>14. sec' = [sec EXCEPT ![cur] = Advance(u, size)] /\ sec \in [Sections -> Section]
    BY <1>2, <1>7, <1>10, <1>11 DEF AssembleAtom, BInv, TypeOK
  <1>15. Settled(cur, idx)
    BY <1>3 DEF Assembling, AllSettled
  <1>16. Like(Advance(u, size), walk[cur][idx + 1])
    <2>1. CASE a.t = "label"
      <3>1. size = 0 /\ walk[cur][idx + 1] = y
        BY <1>3, <1>4, <1>8, <1>11, <1>15, <2>1 DEF Settled, AtomSize
      <3>2. Advance(u, 0) = u
        BY <1>7 DEF Advance, IsSec, Section
      <3> QED BY <1>9, <3>1, <3>2
    <2>2. CASE a.t # "label"
      <3>1. walk[cur][idx + 1] = Advance(y, lastsize[cur][idx])
        BY <1>3, <1>4, <1>8, <1>15, <2>2 DEF Settled
      <3>2. \/ AtomSize(a, cur, y, w) = lastsize[cur][idx]
            \/ a.t = "space" /\ Eval(a.ref, cur, y).kind # "const"
        BY <1>3, <1>4, <1>8, <1>10, <1>15, <2>2 DEF Settled
      <3>3. size = lastsize[cur][idx]
        BY <1>12, <1>13, <3>2
      <3> QED BY <1>7, <1>8, <1>9, <1>12, <3>1, <3>3, LikeAdvance
    <2> QED BY <2>1, <2>2
  <1>17. Like(sec'[cur], walk'[cur][idx'])
    BY <1>1, <1>3, <1>14, <1>16
  <1>18. ASSUME NEW s \in Sections PROVE Start(s)' /\ AllSettled(s)'
    <2>1. Start(s) /\ AllSettled(s)
      BY DEF Assembling
    <2>2. Start(s)'
      BY <1>1, <2>1 DEF Start, Plain
    <2>3. ASSUME NEW i \in 1..Len(Atoms(s)) PROVE Settled(s, i)'
      <3>1. Settled(s, i) /\ Untouched(s, i)
        BY <1>1, <2>1 DEF AllSettled, Untouched
      <3> QED BY <1>1, <3>1, SettledSame
    <2> QED BY <1>1, <2>2, <2>3 DEF AllSettled
  <1> QED BY <1>1, <1>17, <1>18 DEF Assembling

\* assemble() goes on to the next section with everything still settled.
LEMMA EndAssembleSound ==
    ASSUME BInv, NoRorgInOrg, Flags, ~errs => Assembling, EndAssemble
    PROVE  /\ Flags' /\ phase' # "resolve"
           /\ phase' = "assemble" /\ ~errs' => Assembling'
  <1>1. PICK c, secs : c = cur + 1 /\ secs = [sec EXCEPT ![cur] = LeaveRorg(@)]
    OBVIOUS
  <1>2. phase = "assemble" /\ StartAssemble(c, secs) /\ (errs' <=> errs)
    BY <1>1 DEF EndAssemble
  <1>3. AtRest(secs) /\ \A t \in Sections : FlagsOf(secs[t], t)
    BY <1>1, <1>2, LeavesAtRest, LeavesFlags
  <1>4. Between
    BY BInvEndAssemble
  <1>5. c \in Nat \ {0}
    BY <1>1, ResolverAssumption DEF BInv, TypeOK, Sections
  <1>6. phase' \notin {"parse", "resolve"} /\ (phase' = "assemble" => c \in Sections)
    BY <1>2, <1>5, ResolverAssumption DEF StartAssemble, Sections
  <1>7. Flags'
    BY <1>2, <1>3, <1>4, <1>5, <1>6, FlagsStart
  <1>8. ASSUME phase' = "assemble", ~errs PROVE Assembling'
    <2>1. \A t \in Sections : Start(t) /\ AllSettled(t)
      BY <1>8 DEF Assembling
    <2> QED BY <1>2, <1>3, <1>4, <1>6, <1>8, <2>1, AssemblingStart
  <1> QED BY <1>2, <1>6, <1>7, <1>8

\* The first pass of all has every section to do.
LEMMA EndParseSound ==
    ASSUME BInv, Flags, EndParse
    PROVE  /\ Flags' /\ phase' # "assemble"
           /\ phase' = "resolve" => Resolving'
  <1>1. todo' = Sections /\ StartPass(1, 1, FASTOPTPHASE, sec) /\ AtRest(sec) /\ Between
    BY BInvEndParse DEF EndParse
  <1>2. 1 \in Sections /\ \A t \in Sections : FlagsOf(sec[t], t)
    BY ResolverAssumption DEF Sections, Flags
  <1>3. phase' \in {"fatal", "resolve"}
    BY <1>1 DEF StartPass
  <1>4. Flags'
    BY <1>1, <1>2, <1>3, FlagsStart
  <1>5. ASSUME phase' = "resolve" PROVE Resolving'
    <2>1. Sections \ (todo' \cup {1}) = {}
      BY <1>1
    <2> QED BY <1>1, <1>2, <1>5, <2>1, ResolvingStart
  <1> QED BY <1>3, <1>4, <1>5

\* Init is not yet resolving.
LEMMA CInvInit == Init => CInv
  <1> SUFFICES ASSUME Init PROVE CInv
    OBVIOUS
  <1>1. \A s \in Sections : FlagsOf(NewSection(s), s)
    BY DEF FlagsOf, Plain, NewSection
  <1>2. \A s \in Sections : sec[s] = NewSection(s) /\ "IN_RORG" \notin NewSection(s).flags
    BY DEF Init, NewSection
  <1>3. \A s \in Sections : \A i \in 1..Len(Atoms(s)) + 1 : walk[s][i] = NewSection(s)
    BY DEF Init, Atoms
  <1>4. defd = {} /\ phase = "parse"
    BY DEF Init
  <1> QED BY <1>1, <1>2, <1>3, <1>4 DEF CInv, Flags

\* Every step keeps CInv.
LEMMA CInvNext ==
    ASSUME SizesAreNat, NoRorgInOrg, ForeignIrrelevant, BInv, CInv, [Next]_vars
    PROVE  CInv'
  <1>1. Flags
    BY DEF CInv
  <1>2. ASSUME NEW s \in Sections, AddLabel(s) PROVE CInv'
    <2>1. Flags' /\ phase' = "parse"
      BY <1>1, <1>2, FlagsAddLabel DEF AddLabel
    <2> QED BY <2>1 DEF CInv
  <1>3. ASSUME NEW s \in Sections, AddAtom(s) PROVE CInv'
    <2>1. Flags' /\ phase' = "parse"
      BY <1>1, <1>3, FlagsAddAtom DEF AddAtom
    <2> QED BY <2>1 DEF CInv
  <1>4. CASE EndParse
    BY <1>1, <1>4, EndParseSound DEF CInv
  <1>5. CASE VisitLabel
    <2>1. PICK v : v = Place(Here, sec[cur]) /\ Steps(v)
      BY <1>5, BInvVisitLabel
    <2>2. phase = "resolve" /\ phase' = "resolve" /\ idx <= Len(Atoms(cur)) /\ (errs' <=> errs)
      BY <1>5 DEF VisitLabel
    <2>3. Flags'
      BY <1>1, <2>1, <2>2, Walking, StepFlags, FlagsVisit
    <2>4. ~errs => Resolving'
      BY <1>1, <1>5, <2>2, ResolvingVisitLabel DEF CInv
    <2> QED BY <2>2, <2>3, <2>4 DEF CInv
  <1>6. CASE KeepInst
    <2>1. phase = "resolve" /\ phase' = "resolve" /\ idx <= Len(Atoms(cur)) /\ (errs' <=> errs)
      BY <1>6 DEF KeepInst
    <2>2. PICK n \in Nat : n = lastsize[cur][idx]
      BY <2>1, Walking DEF BInv, TypeOK
    <2>3. PICK v : v = Advance(Place(Here, sec[cur]), n) /\ Steps(v)
      BY <1>6, <2>2, BInvKeepInst
    <2>4. IsSec(v) /\ FlagsOf(v, cur)
      BY <1>1, <2>1, <2>3, Walking, AdvanceIsSec, StepFlags
    <2>5. Flags'
      BY <1>1, <2>1, <2>3, <2>4, FlagsVisit
    <2>6. ~errs => Resolving'
      BY <1>6, <2>1, ResolvingKeepInst DEF CInv
    <2> QED BY <2>1, <2>5, <2>6 DEF CInv
  <1>7. CASE VisitAtom
    <2>1. phase = "resolve" /\ phase' = "resolve" /\ idx <= Len(Atoms(cur)) /\ (errs' <=> errs)
      BY <1>7 DEF VisitAtom
    <2>2. PICK n : n = AtomSize(Here, cur, Place(Here, sec[cur]), Warn(cur, idx))
      OBVIOUS
    <2>3. n \in Nat
      BY <2>1, <2>2, Walking, WarnType, AtomSizeType DEF BInv
    <2>4. PICK v : v = Advance(Place(Here, sec[cur]), n) /\ Steps(v)
      BY <1>7, <2>2, BInvVisitAtom
    <2>5. IsSec(v) /\ FlagsOf(v, cur)
      BY <1>1, <2>1, <2>3, <2>4, Walking, AdvanceIsSec, StepFlags
    <2>6. Flags'
      BY <1>1, <2>1, <2>4, <2>5, FlagsVisit
    <2>7. ~errs => Resolving'
      BY <1>7, <2>1, ResolvingVisitAtom DEF CInv
    <2> QED BY <2>1, <2>6, <2>7 DEF CInv
  <1>8. CASE EndPass
    <2>1. phase = "resolve"
      BY <1>8 DEF EndPass
    <2> QED BY <1>1, <1>8, <2>1, EndPassSound DEF CInv
  <1>9. CASE AssembleAtom
    <2>1. phase = "assemble" /\ phase' = "assemble" /\ (~errs' => ~errs)
      BY <1>9 DEF AssembleAtom
    <2>2. ~errs' => Assembling'
      BY <1>9, <2>1, AssembleAtomSound DEF CInv
    <2> QED BY <1>1, <1>9, <2>1, <2>2, FlagsAssembleAtom DEF CInv
  <1>10. CASE EndAssemble
    <2>1. phase = "assemble"
      BY <1>10 DEF EndAssemble
    <2> QED BY <1>1, <1>10, <2>1, EndAssembleSound DEF CInv
  <1>11. CASE UNCHANGED vars
    <2>1. /\ UNCHANGED <<prog, phase, sec, lab, defd, abslab, lastsize, changes, deps, todo, cur, idx, pass, walk>>
          /\ (errs' <=> errs) /\ (done' <=> done) /\ \A s : Atoms(s)' = Atoms(s)
      BY <1>11 DEF vars, Atoms
    <2>2. Flags' <=> Flags
      BY <2>1 DEF Flags, FlagsOf, Plain, HasRorg
    <2>3. \A s, i : Settled(s, i)' <=> Settled(s, i)
      BY <2>1, SettledSame DEF Untouched
    <2>4. \A s, i : Noted(s, i)' <=> Noted(s, i)
      BY <2>1 DEF Noted, DepOn
    <2>5. \A s : Start(s)' <=> Start(s)
      BY <2>1 DEF Start, Plain
    <2>6. Resolving' <=> Resolving
      BY <2>1, <2>3, <2>4, <2>5 DEF Resolving, AllSettled, AllNoted
    <2>7. Assembling' <=> Assembling
      BY <2>1, <2>3, <2>5 DEF Assembling, AllSettled, Like
    <2> QED BY <2>1, <2>2, <2>6, <2>7 DEF CInv
  <1> QED BY <1>2, <1>3, <1>4, <1>5, <1>6, <1>7, <1>8, <1>9, <1>10, <1>11 DEF Next

\* What is settled is where assemble() finds it.
LEMMA CInvImplies ==
    ASSUME BInv, CInv
    PROVE  AssemblyConsistent /\ WorklistSound
  <1>1. ASSUME phase = "assemble", ~errs
        PROVE  /\ sec[cur].pc = walk[cur][idx].pc
               /\ idx <= Len(Atoms(cur)) /\ Here.t = "label" =>
                    lab[Here.ref] = PcAlign(Here, sec[cur].pc)
    <2>1. Assembling /\ sec[cur].pc = walk[cur][idx].pc
      BY <1>1 DEF CInv, Assembling, Like
    <2>2. ASSUME idx <= Len(Atoms(cur)), Here.t = "label" PROVE lab[Here.ref] = PcAlign(Here, sec[cur].pc)
      <3>1. cur \in Sections /\ idx \in 1..Len(Atoms(cur)) /\ Here = Atoms(cur)[idx] /\ idx \in 1..Len(Atoms(cur)) + 1
        BY <2>2, Walking
      <3>2. Settled(cur, idx)
        BY <2>1, <3>1 DEF Assembling, AllSettled
      <3>3. Place(Here, walk[cur][idx]) = Align(Here, walk[cur][idx])
        BY <2>2 DEF Place, Rorg
      <3>4. lab[Here.ref] = Align(Here, walk[cur][idx]).pc
        BY <2>2, <3>1, <3>2, <3>3 DEF Settled
      <3>5. walk[cur][idx] \in Section
        BY <3>1 DEF BInv, TypeOK
      <3> QED BY <2>1, <3>4, <3>5 DEF Align, Section
    <2> QED BY <2>1, <2>2
  <1>2. ASSUME phase = "resolve", ~errs
        PROVE  /\ \A s \in Sections \ (todo \cup {cur}) :
                     Stable(s) \/ (s \in deps[cur] /\ ~(pass = 1 /\ done))
               /\ done => \A i \in 1..idx - 1 : Settled(cur, i)
    <2>1. Resolving /\ Flags
      BY <1>2 DEF CInv
    <2>2. ASSUME NEW s \in Sections \ (todo \cup {cur}) PROVE Like(walk[s][1], Rewind(sec[s], s))
      <3>1. Plain(sec[s], s) /\ IsSec(sec[s]) /\ "IN_RORG" \notin sec[s].flags
        BY <1>2, <2>1, <2>2 DEF Flags, FlagsOf, BInv
      <3>2. prog.org[s] \in Nat
        BY ProgramFacts DEF BInv
      <3>3. PICK v : /\ v = Rewind(sec[s], s) /\ v \in Section
                     /\ v.flags = sec[s].flags /\ v.pc = prog.org[s]
        BY <3>1, <3>2, RewindIsSec DEF IsSec
      <3>4. walk[s][1] \in Section
        <4>1. walk[s] \in [1..Len(Atoms(s)) + 1 -> Section] /\ 1 \in 1..Len(Atoms(s)) + 1
          BY ProgramFacts DEF BInv, TypeOK
        <4> QED BY <4>1
      <3>5. Plain(v, s) /\ Plain(walk[s][1], s) /\ walk[s][1].pc = v.pc
        BY <2>1, <3>1, <3>3 DEF Resolving, Start, Plain
      <3> QED BY <3>3, <3>4, <3>5, LikeStart
    <2>3. \A s \in Sections \ (todo \cup {cur}) : Stable(s) \/ (s \in deps[cur] /\ ~(pass = 1 /\ done))
      BY <2>1, <2>2 DEF Resolving, AllSettled, Stable
    <2> QED BY <2>1, <2>3 DEF Resolving
  <1> QED BY <1>1, <1>2 DEF AssemblyConsistent, WorklistSound

\* What the resolver is for, whatever the program and the backend: without an
\* error assemble() meets every atom and every label at the address it had in
\* the last pass over its section (resolve_section, resolve, assemble).
THEOREM ResolverAssemblyConsistent ==
    ASSUME SizesAreNat, NoRorgInOrg, ForeignIrrelevant
    PROVE  Spec => []AssemblyConsistent
  <1>1. BInv /\ [Next]_vars => BInv'
    BY BInvNext
  <1>2. BInv /\ CInv /\ [Next]_vars => CInv'
    BY CInvNext
  <1>3. BInv /\ CInv => AssemblyConsistent
    BY CInvImplies
  <1> QED BY <1>1, <1>2, <1>3, BInvInit, CInvInit, PTL DEF Spec

\* resolve() forgets no section whose atoms would change: the set of sections to
\* do and the dependencies noted by add_dep are enough.
THEOREM ResolverWorklistSound ==
    ASSUME SizesAreNat, NoRorgInOrg, ForeignIrrelevant
    PROVE  Spec => []WorklistSound
  <1>1. BInv /\ [Next]_vars => BInv'
    BY BInvNext
  <1>2. BInv /\ CInv /\ [Next]_vars => CInv'
    BY CInvNext
  <1>3. BInv /\ CInv => WorklistSound
    BY CInvImplies
  <1> QED BY <1>1, <1>2, <1>3, BInvInit, CInvInit, PTL DEF Spec
=============================================================================
