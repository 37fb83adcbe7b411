------------------------------ MODULE Sections ------------------------------
(***************************************************************************)
(* The list of sections while the source is parsed (vasm.c): new_section,  *)
(* new_org, switch_offset_section, default_section, set_section with       *)
(* move_label_to_sec, push_section and pop_section, the DSECT and DEND of  *)
(* the oldstyle syntax, and the container for atoms that are met before    *)
(* the first section (add_or_save_atom).                                   *)
(*                                                                         *)
(* A source line is an optional label followed by a directive.  The label  *)
(* is a step of its own; `fresh' says that the line being parsed began     *)
(* with one.  Only what is in a section of the list is assembled later.    *)
(* The atoms cpu_opts_init puts into a section, which hold no bytes and    *)
(* which nothing here looks at, are left out.                              *)
(***************************************************************************)
EXTENDS Integers, Sequences, FiniteSets, SequencesExt

CONSTANTS Names,          \* names of relocatable sections
          DefaultName,    \* defsectname; not in Names when it is NULL
          Labels,
          Sources,        \* kinds of sources: sets of what a source may use
          SECSTACKSIZE,
          MaxSecs,        \* bound: sections ever created
          MaxAtoms        \* bound: data and assert atoms ever created

\* The mot and the oldstyle syntax have some of them in common.
MotDirectives == {"label", "data", "section", "org", "offset", "offset expr",
                  "pushsection", "popsection", "assert"}
OldDirectives == {"label", "data", "section", "org=", "dsect", "dend"}

ASSUME SectionsAssumption ==
    /\ \A d \in Sources : d \subseteq MotDirectives \/ d \subseteq OldDirectives
    /\ SECSTACKSIZE \in Nat /\ MaxSecs \in Nat /\ MaxAtoms \in Nat

VARIABLES directives,  \* what the source uses
          secs,        \* every section ever created, with its atoms
          list,        \* first_section and its successors: indices into secs
          current,     \* current_section, 0 for none
          stack,       \* secstack
          dsect,       \* last_alloc_sect while a DSECT is active, -1 otherwise
          container,   \* atoms of container_section
          labsec,      \* symbol->sec of the labels, 0 for undefined ones
          natoms,      \* data and assert atoms created so far
          fresh,       \* the line began with a label
          errors,      \* the errors reported
          phase

vars == <<directives, secs, list, current, stack, dsect, container, labsec, natoms, fresh, errors, phase>>

Errors == {"no current section", "section stack overflow", "section stack empty",
           "label not allowed here", "dsect already active", "dend without dsect",
           "missing dend", "internal error"}

Label(l) == [t |-> "label", id |-> l]
Atom == [t : {"label"}, id : Labels] \cup [t : {"data", "assert"}, id : 1..MaxAtoms]
Section == [name : Names \cup {"org", "offset"}, n : Nat, abs : BOOLEAN, atoms : Seq(Atom)]

\* The source has d here.
Read(d) == phase = "parsing" /\ d \in directives /\ UNCHANGED directives
EndLine == fresh' = FALSE

Fail(error) == errors' = errors \cup {error}
-----------------------------------------------------------------------------
\* Mutant: the search ends before the last section.
find_section_short(name, n) == {s \in ToSet(list) : /\ secs[s].name = name /\ secs[s].n = n
                                                   /\ s # Last(list)}

\* find_section: the sections with that name; n counts the ORG and OFFSET ones.
find_section(name, n) == {s \in ToSet(list) : secs[s].name = name /\ secs[s].n = n}

\* A new section is linked behind last_section, which is a section that is no
\* longer in the list when the only one that was has been removed.
Link(s) == IF list = << >> /\ secs # << >> THEN list ELSE Append(list, s)

\* Mutant: the container keeps the atoms it handed over.
new_section_keeps(name, n, abs) ==
    IF find_section(name, n) # {}
    THEN [sec |-> CHOOSE s \in find_section(name, n) : TRUE,
          secs |-> secs, list |-> list, container |-> container]
    ELSE [sec |-> Len(secs) + 1,
          secs |-> Append(secs, [name |-> name, n |-> n, abs |-> abs, atoms |-> container]),
          list |-> Link(Len(secs) + 1),
          container |-> container]

\* new_section: the section of that name, or a new one that takes the atoms
\* waiting in the container.
new_section(name, n, abs) ==
    IF find_section(name, n) # {}
    THEN [sec |-> CHOOSE s \in find_section(name, n) : TRUE,
          secs |-> secs, list |-> list, container |-> container]
    ELSE [sec |-> Len(secs) + 1,
          secs |-> Append(secs, [name |-> name, n |-> n, abs |-> abs, atoms |-> container]),
          list |-> Link(Len(secs) + 1),
          container |-> << >>]

\* new_org: the counter in the name makes every ORG section a new one.
new_org == new_section("org", Len(secs) + 1, TRUE)

\* switch_offset_section without a name: OFFSET000001 and so on are made by the
\* directives with an address, a directive without one means the latest.
OffsetId == Cardinality({s \in 1..Len(secs) : secs[s].name = "offset" /\ secs[s].n # 0})
offset_section(again) == new_section("offset", OffsetId + (IF again THEN 0 ELSE 1), FALSE)

\* default_section
default_section ==
    IF current # 0
    THEN [sec |-> current, secs |-> secs, list |-> list, container |-> container]
    ELSE IF DefaultName \in Names THEN new_section(DefaultName, 0, FALSE) ELSE new_org
-----------------------------------------------------------------------------
\* set_section is leaving a section whose last atom is a label of this line.
LabelMoves(s) == fresh /\ s # 0 /\ current # 0 /\ s # current

\* Mutant: data does not keep a section.
DeletableData(s) == \A i \in 1..Len(secs[s].atoms) - 1 : secs[s].atoms[i].t # "label"

\* move_label_to_sec: only the label would have gone into the output.
Deletable(s) == \A i \in 1..Len(secs[s].atoms) - 1 :
                    secs[s].atoms[i].t \notin {"label", "data"}

\* The list l without its section s.
Unlinked(l, s) == IF Contains(l, s) THEN RemoveAt(l, CHOOSE i \in DOMAIN l : l[i] = s) ELSE l

\* Mutant: the section that was left stays the current one when the label moves.
set_section_stays(s, ss, l, e) ==
    IF LabelMoves(s) /\ ss[s].abs = ss[current].abs
    THEN LET lab == Last(secs[current].atoms)
         IN  /\ secs' = [ss EXCEPT ![current].atoms = Front(@), ![s].atoms = Append(@, lab)]
             /\ labsec' = [labsec EXCEPT ![lab.id] = s]
             /\ list' = IF Deletable(current) THEN Unlinked(l, current) ELSE l
             /\ IF Deletable(current) /\ ~Contains(l, current)
                THEN errors' = e \cup {"internal error"} /\ phase' = "stopped"
                ELSE errors' = e /\ UNCHANGED phase
             /\ UNCHANGED current
    ELSE /\ secs' = ss /\ list' = l /\ current' = s /\ errors' = e
         /\ UNCHANGED <<labsec, phase>>

\* set_section(s), when the sections are ss, the list l and the errors e by now.
set_section(s, ss, l, e) ==
    /\ current' = s
    /\ IF LabelMoves(s) /\ ss[s].abs = ss[current].abs
       THEN LET lab == Last(secs[current].atoms)
            IN  /\ secs' = [ss EXCEPT ![current].atoms = Front(@),
                                      ![s].atoms = Append(@, lab)]
                /\ labsec' = [labsec EXCEPT ![lab.id] = s]
                /\ list' = IF Deletable(current) THEN Unlinked(l, current) ELSE l
                /\ IF Deletable(current) /\ ~Contains(l, current)
                   THEN errors' = e \cup {"internal error"} /\ phase' = "stopped"
                   ELSE errors' = e /\ UNCHANGED phase
       ELSE /\ secs' = ss
            /\ list' = l
            /\ errors' = e \cup (IF LabelMoves(s) THEN {"label not allowed here"} ELSE {})
            /\ UNCHANGED <<labsec, phase>>

\* A directive that switches to section n, found or created.
SwitchTo(n, e) == /\ Len(n.secs) <= MaxSecs
                  /\ set_section(n.sec, n.secs, n.list, e)
                  /\ container' = n.container
                  /\ EndLine
                  /\ UNCHANGED natoms

SectionLine(name) == /\ Read("section")
                     /\ SwitchTo(new_section(name, 0, FALSE), errors)
                     /\ UNCHANGED <<stack, dsect>>

\* ORG of the mot syntax.  In a relocatable section it opens a RORG block,
\* which leaves the sections alone, instead.
OrgLine == /\ Read("org")
           /\ current # 0 => secs[current].abs
           /\ SwitchTo(new_org, errors)
           /\ UNCHANGED <<stack, dsect>>

\* Mutant: ORG does not care about an active DSECT.
OldOrgLineAlways == /\ Read("org=")
                    /\ SwitchTo(new_org, errors)
                    /\ UNCHANGED <<stack, dsect>>

\* ORG of the oldstyle syntax: an offset while a DSECT is active.
OldOrgLine == /\ Read("org=")
              /\ \/ dsect = -1 /\ SwitchTo(new_org, errors)
                 \/ dsect # -1 /\ SwitchTo(offset_section(FALSE), errors)
              /\ UNCHANGED <<stack, dsect>>

OffsetLine == /\ \/ Read("offset") /\ SwitchTo(offset_section(TRUE), errors)
                 \/ Read("offset expr") /\ SwitchTo(offset_section(FALSE), errors)
              /\ UNCHANGED <<stack, dsect>>

\* Mutant: the stack takes one section too many.
PushSectionLate ==
    /\ Read("pushsection")
    /\ IF current # 0 /\ Len(stack) <= SECSTACKSIZE
       THEN stack' = Append(stack, current) /\ UNCHANGED errors
       ELSE Fail("section stack overflow") /\ UNCHANGED stack
    /\ EndLine
    /\ UNCHANGED <<secs, list, current, dsect, container, labsec, natoms, phase>>

PushSection ==
    /\ Read("pushsection")
    /\ \/ current = 0 /\ Fail("no current section") /\ UNCHANGED stack
       \/ /\ current # 0 /\ Len(stack) < SECSTACKSIZE
          /\ stack' = Append(stack, current) /\ UNCHANGED errors
       \/ /\ current # 0 /\ Len(stack) >= SECSTACKSIZE
          /\ Fail("section stack overflow") /\ UNCHANGED stack
    /\ EndLine
    /\ UNCHANGED <<secs, list, current, dsect, container, labsec, natoms, phase>>

PopSection ==
    /\ Read("popsection")
    /\ IF stack # << >>
       THEN set_section(Last(stack), secs, list, errors) /\ stack' = Front(stack)
       ELSE /\ Fail("section stack empty")
            /\ UNCHANGED <<secs, list, current, stack, labsec, phase>>
    /\ EndLine
    /\ UNCHANGED <<dsect, container, natoms>>

\* handle_dsect: a second DSECT is an error, and another offset section.
DsectLine == /\ Read("dsect")
             /\ \/ /\ dsect = -1
                   /\ dsect' = current
                   /\ SwitchTo(offset_section(FALSE), errors)
                \/ /\ dsect # -1
                   /\ SwitchTo(offset_section(FALSE), errors \cup {"dsect already active"})
                   /\ UNCHANGED dsect
             /\ UNCHANGED stack

\* handle_dend
DendLine == /\ Read("dend")
            /\ \/ dsect # -1 /\ set_section(dsect, secs, list, errors)
               \/ /\ dsect = -1
                  /\ Fail("dend without dsect")
                  /\ UNCHANGED <<secs, list, current, labsec, phase>>
            /\ dsect' = -1
            /\ EndLine
            /\ UNCHANGED <<stack, container, natoms>>

\* add_atom: into the current section, or into the default one.
AddAtom(a) == LET d == default_section
              IN  /\ Len(d.secs) <= MaxSecs
                  /\ secs' = [d.secs EXCEPT ![d.sec].atoms = Append(@, a)]
                  /\ list' = d.list
                  /\ current' = d.sec
                  /\ container' = d.container

LabelLine(l) == /\ Read("label") /\ ~fresh
                /\ labsec[l] = 0
                /\ AddAtom(Label(l))
                /\ labsec' = [labsec EXCEPT ![l] = default_section.sec]
                /\ fresh' = TRUE
                /\ UNCHANGED <<stack, dsect, natoms, errors, phase>>

DataLine == /\ Read("data") /\ natoms < MaxAtoms
            /\ natoms' = natoms + 1
            /\ AddAtom([t |-> "data", id |-> natoms'])
            /\ EndLine
            /\ UNCHANGED <<stack, dsect, labsec, errors, phase>>

\* add_or_save_atom: an ASSERT or FAIL waits in the container for a section.
AssertLine == /\ Read("assert") /\ natoms < MaxAtoms
              /\ natoms' = natoms + 1
              /\ LET a == [t |-> "assert", id |-> natoms']
                 IN  \/ /\ current = 0
                        /\ container' = Append(container, a)
                        /\ UNCHANGED <<secs, list, current>>
                     \/ current # 0 /\ AddAtom(a)
              /\ EndLine
              /\ UNCHANGED <<stack, dsect, labsec, errors, phase>>

\* A line that is only a label.
BareLabel == /\ phase = "parsing" /\ fresh
             /\ EndLine
             /\ UNCHANGED <<directives, secs, list, current, stack, dsect, container,
                            labsec, natoms, errors, phase>>

EndOfSource == /\ phase = "parsing"
               /\ phase' = "stopped"
               /\ IF dsect # -1 THEN Fail("missing dend") ELSE UNCHANGED errors
               /\ UNCHANGED <<directives, secs, list, current, stack, dsect, container,
                              labsec, natoms, fresh>>

Init == /\ directives \in Sources
        /\ secs = << >> /\ list = << >> /\ current = 0
        /\ stack = << >> /\ dsect = -1
        /\ container = << >>
        /\ labsec = [l \in Labels |-> 0]
        /\ natoms = 0
        /\ fresh = FALSE
        /\ errors = {}
        /\ phase = "parsing"

Next == \/ \E name \in Names : SectionLine(name)
        \/ OrgLine \/ OldOrgLine \/ OffsetLine
        \/ PushSection \/ PopSection
        \/ DsectLine \/ DendLine
        \/ \E l \in Labels : LabelLine(l)
        \/ DataLine \/ AssertLine
        \/ BareLabel \/ EndOfSource

Spec == Init /\ [][Next]_vars
-----------------------------------------------------------------------------
\* Every pointer of the section state is to a section, and the section stack
\* stays within its array.
TypeOK == /\ directives \in Sources
          /\ secs \in Seq(Section)
          /\ list \in Seq(1..Len(secs))
          /\ current \in 0..Len(secs)
          /\ stack \in Seq(1..Len(secs)) /\ Len(stack) <= SECSTACKSIZE
          /\ dsect \in -1..Len(secs)
          /\ container \in Seq(Atom)
          /\ labsec \in [Labels -> 0..Len(secs)]
          /\ natoms \in 0..MaxAtoms
          /\ fresh \in BOOLEAN
          /\ errors \in SUBSET Errors
          /\ phase \in {"parsing", "stopped"}

Accepted == phase = "stopped" /\ errors = {}
Holders(a) == {s \in 1..Len(secs) : Contains(secs[s].atoms, a)}

\* Nothing is lost: when the source has been read without an error, every
\* label is in the section its symbol says and in no other, and every section
\* with data or a label is in the list, however often the source switched
\* sections, took labels along and had emptied sections removed.
OutputComplete ==
    Accepted =>
        /\ \A n \in 1..natoms : Holders([t |-> "data", id |-> n]) \subseteq ToSet(list)
        /\ \A l \in Labels : labsec[l] # 0 =>
              labsec[l] \in ToSet(list) /\ Holders(Label(l)) = {labsec[l]}

\* Atom n, which is an assertion when no section has it as data, is in exactly
\* one section and that one will be assembled.
Evaluated(n) == LET h == Holders([t |-> "assert", id |-> n])
                IN  Cardinality(h) = 1 /\ h \subseteq ToSet(list)

\* ASSERT and FAIL are obeyed: when the source has been read without an error,
\* each of their atoms is in exactly one section, which will be assembled,
\* unless the source made no section at all and the atom is still waiting.
AssertionsListed ==
    Accepted => \A n \in 1..natoms : Holders([t |-> "data", id |-> n]) = {} =>
                    \/ Evaluated(n)
                    \/ secs = << >> /\ Contains(container, [t |-> "assert", id |-> n])

\* The list holds every section once and no two of the same name, although
\* sections are removed from it and created again.
ListUnique ==
    \A i, j \in 1..Len(list) : i # j =>
        /\ list[i] # list[j]
        /\ secs[list[i]].name = secs[list[j]].name => secs[list[i]].n # secs[list[j]].n

\* What a DSECT describes takes no room in the output: until DEND, ORG only
\* moves between offset sections, also after labels have been taken along and
\* sections have been removed, and also when DSECTs were nested.  (A source that
\* names a section inside a DSECT leaves it.)
DsectUnallocated == dsect # -1 /\ "section" \notin directives => secs[current].name = "offset"

\* move_label_to_sec always finds the section it removes in the list.
NoInternalError == "internal error" \notin errors
=============================================================================
