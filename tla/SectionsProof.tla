--------------------------- MODULE SectionsProof ---------------------------
(***************************************************************************)
(* Proofs about the list of sections, for every set of names, labels and   *)
(* sources and for every bound.                                            *)
(***************************************************************************)
EXTENDS Sections, SequenceTheorems, FiniteSetTheorems, TLAPS

SecName == Names \cup {"org", "offset"}

\* ListUnique for sections ss and a list l.
Unique(ss, l) ==
    \A i, j \in 1..Len(l) : i # j =>
        /\ l[i] # l[j]
        /\ ss[l[i]].name = ss[l[j]].name => ss[l[i]].n # ss[l[j]].n

\* On a line with a label, that label is what the current section ends with.
FreshLabel == fresh => /\ current # 0
                       /\ secs[current].atoms # << >>
                       /\ Last(secs[current].atoms).t = "label"

\* The offset sections of a DSECT; only the oldstyle syntax has them.
InDsect == dsect # -1 => /\ "dsect" \in directives
                         /\ "section" \notin directives =>
                                current # 0 /\ secs[current].name = "offset"

SInv == TypeOK /\ ListUnique /\ FreshLabel /\ InDsect

\* What new_section returns: a section of the list, or a new one.
Found(r) == /\ r.sec \in 1..Len(secs) /\ Contains(list, r.sec)
            /\ r.secs = secs /\ r.list = list /\ r.container = container
Created(r) == /\ r.sec = Len(secs) + 1 /\ r.list = Link(r.sec) /\ r.container = << >>
              /\ Len(r.secs) = Len(secs) + 1
              /\ \A i \in 1..Len(secs) : r.secs[i] = secs[i]
              /\ r.secs[r.sec].atoms = container
Made(r, name) ==
    /\ Found(r) \/ Created(r)
    /\ r.secs \in Seq(Section) /\ Len(r.secs) >= Len(secs)
    /\ \A i \in 1..Len(secs) : r.secs[i] = secs[i]
    /\ r.sec \in 1..Len(r.secs) /\ r.secs[r.sec].name = name
    /\ r.list \in Seq(1..Len(r.secs)) /\ Unique(r.secs, r.list)
    /\ r.container \in Seq(Atom)

-----------------------------------------------------------------------------
(* Sequences                                                               *)

\* The last element, and what is in front of it.
LEMMA FrontLast ==
    ASSUME NEW S, NEW q \in Seq(S), q # << >>
    PROVE  /\ Len(q) \in Nat \ {0}
           /\ Front(q) \in Seq(S) /\ Len(Front(q)) = Len(q) - 1
           /\ \A i \in 1..Len(q) - 1 : Front(q)[i] = q[i]
           /\ Last(q) = q[Len(q)] /\ Last(q) \in S
  <1>1. Len(q) \in Nat \ {0}
    BY EmptySeq
  <1>2. \A i \in 1..Len(q) - 1 : q[i] \in S
    BY <1>1, ElementOfSeq
  <1> DEFINE f == SubSeq(q, 1, Len(q) - 1)
  <1>3. /\ f \in Seq(S)
        /\ Len(f) = IF 1 <= Len(q) - 1 THEN (Len(q) - 1) - 1 + 1 ELSE 0
        /\ \A i \in 1..(Len(q) - 1) - 1 + 1 : f[i] = q[1 + i - 1]
    BY <1>1, <1>2, SubSeqProperties
  <1>4. Last(q) = q[Len(q)] /\ Last(q) \in S
    BY <1>1, ElementOfSeq DEF Last
  <1>5. Front(q) = f
    BY DEF Front
  <1> HIDE DEF f
  <1>6. ASSUME NEW i \in 1..Len(q) - 1 PROVE f[i] = q[i]
    <2>1. 1 + i - 1 = i /\ i \in 1..(Len(q) - 1) - 1 + 1
      BY <1>1
    <2> QED BY <1>3, <2>1
  <1>7. Len(f) = Len(q) - 1
    <2>1. PICK n \in Nat : n = Len(q) /\ n >= 1
      BY <1>1
    <2>2. Len(f) = IF 1 <= n - 1 THEN (n - 1) - 1 + 1 ELSE 0
      BY <1>3, <2>1
    <2> QED BY <2>1, <2>2
  <1> QED BY <1>1, <1>3, <1>4, <1>5, <1>6, <1>7

\* What Append does to a sequence.
LEMMA AppendFacts ==
    ASSUME NEW S, NEW q \in Seq(S), NEW e \in S
    PROVE  /\ Append(q, e) \in Seq(S) /\ Len(Append(q, e)) = Len(q) + 1
           /\ Len(q) \in Nat
           /\ \A i \in 1..Len(q) : Append(q, e)[i] = q[i]
           /\ Append(q, e)[Len(q) + 1] = e
  OBVIOUS

\* Unlinked takes out one position.
LEMMA UnlinkedFacts ==
    ASSUME NEW S, NEW l \in Seq(S), NEW s
    PROVE  /\ Unlinked(l, s) \in Seq(S)
           /\ ~Contains(l, s) => Unlinked(l, s) = l
           /\ Contains(l, s) =>
                  \E k \in 1..Len(l) : /\ l[k] = s
                                       /\ Len(Unlinked(l, s)) = Len(l) - 1
                                       /\ \A i \in 1..Len(l) - 1 :
                                              Unlinked(l, s)[i] = IF i < k THEN l[i] ELSE l[i + 1]
  <1>1. CASE ~Contains(l, s)
    BY <1>1 DEF Unlinked
  <1>2. CASE Contains(l, s)
    <2> DEFINE k == CHOOSE i \in DOMAIN l : l[i] = s
               a == SubSeq(l, 1, k - 1)
               b == SubSeq(l, k + 1, Len(l))
    <2>1. Len(l) \in Nat /\ DOMAIN l = 1..Len(l)
      BY LenProperties
    <2>2. k \in 1..Len(l) /\ l[k] = s
      BY <1>2, <2>1 DEF Contains
    <2> HIDE DEF k
    <2>3. a \in Seq(S) /\ Len(a) = k - 1 /\ \A i \in 1..k - 1 : a[i] = l[i]
      <3>1. \A i \in 1..k - 1 : l[i] \in S
        BY <2>1, <2>2, ElementOfSeq
      <3> QED BY <2>1, <2>2, <3>1, SubSeqProperties
    <2>4. b \in Seq(S) /\ Len(b) = Len(l) - k /\ \A i \in 1..Len(l) - k : b[i] = l[k + i]
      <3>1. \A i \in k + 1..Len(l) : l[i] \in S
        BY <2>1, <2>2, ElementOfSeq
      <3>2. /\ b \in Seq(S)
            /\ Len(b) = IF k + 1 <= Len(l) THEN Len(l) - (k + 1) + 1 ELSE 0
            /\ \A i \in 1..Len(l) - (k + 1) + 1 : b[i] = l[k + 1 + i - 1]
        BY <2>1, <2>2, <3>1, SubSeqProperties
      <3> HIDE DEF b
      <3>3. ASSUME NEW i \in 1..Len(l) - k PROVE b[i] = l[k + i]
        <4>1. k + 1 + i - 1 = k + i /\ i \in 1..Len(l) - (k + 1) + 1
          BY <2>1, <2>2
        <4> QED BY <3>2, <4>1
      <3>4. Len(b) = Len(l) - k
        BY <2>1, <2>2, <3>2
      <3> QED BY <3>2, <3>3, <3>4
    <2>5. Unlinked(l, s) = a \o b
      BY <1>2 DEF Unlinked, RemoveAt, k
    <2> HIDE DEF a, b
    <2>6. /\ a \o b \in Seq(S) /\ Len(a \o b) = Len(a) + Len(b)
          /\ \A i \in 1..Len(a) + Len(b) : (a \o b)[i] = IF i <= Len(a) THEN a[i] ELSE b[i - Len(a)]
      BY <2>3, <2>4, ConcatProperties
    <2>7. ASSUME NEW i \in 1..Len(l) - 1 PROVE (a \o b)[i] = IF i < k THEN l[i] ELSE l[i + 1]
      <3>1. CASE i < k
        BY <2>1, <2>2, <2>3, <2>4, <2>6, <3>1
      <3>2. CASE ~(i < k)
        <4>1. i - Len(a) \in 1..Len(l) - k /\ k + (i - Len(a)) = i + 1
          BY <2>1, <2>2, <2>3, <3>2
        <4>2. (a \o b)[i] = b[i - Len(a)]
          BY <2>1, <2>2, <2>3, <2>4, <2>6, <3>2
        <4>3. b[i - Len(a)] = l[i + 1]
          BY <2>4, <4>1
        <4> QED BY <3>2, <4>2, <4>3
      <3> QED BY <3>1, <3>2
    <2>8. Len(a \o b) = Len(l) - 1
      BY <2>1, <2>2, <2>3, <2>4, <2>6
    <2> QED BY <1>2, <2>2, <2>5, <2>6, <2>7, <2>8
  <1> QED BY <1>1, <1>2
-----------------------------------------------------------------------------
(* Sections that are found or created                                      *)

\* The types of the elements of the three sequences.
LEMMA SequenceTypes ==
    ASSUME TypeOK
    PROVE  /\ Len(secs) \in Nat /\ Len(list) \in Nat /\ Len(stack) \in Nat
           /\ \A i \in 1..Len(secs) : /\ secs[i] \in Section
                                     /\ secs[i].atoms \in Seq(Atom)
                                     /\ secs[i].name \in SecName
           /\ \A i \in 1..Len(list) : list[i] \in 1..Len(secs)
           /\ \A i \in 1..Len(stack) : stack[i] \in 1..Len(secs)
  <1>1. secs \in Seq(Section) /\ list \in Seq(1..Len(secs)) /\ stack \in Seq(1..Len(secs))
    BY DEF TypeOK
  <1>2. ASSUME NEW i \in 1..Len(secs) PROVE secs[i] \in Section
    BY <1>1, ElementOfSeq
  <1>3. ASSUME NEW c \in Section PROVE c.atoms \in Seq(Atom) /\ c.name \in SecName
    BY DEF Section, SecName
  <1>4. ASSUME NEW i \in 1..Len(list) PROVE list[i] \in 1..Len(secs)
    BY <1>1, ElementOfSeq
  <1>5. ASSUME NEW i \in 1..Len(stack) PROVE stack[i] \in 1..Len(secs)
    BY <1>1, ElementOfSeq
  <1>6. Len(secs) \in Nat /\ Len(list) \in Nat /\ Len(stack) \in Nat
    BY <1>1, LenProperties
  <1> QED BY <1>2, <1>3, <1>4, <1>5, <1>6

\* new_section keeps the list free of duplicates, because it looks for the name
\* in the list first.
LEMMA NewSection ==
    ASSUME SInv, NEW name \in SecName, NEW n \in Nat, NEW abs \in BOOLEAN,
           NEW r, r = new_section(name, n, abs)
    PROVE  Made(r, name)
  <1>1. TypeOK /\ Unique(secs, list)
    BY DEF SInv, ListUnique, Unique
  <1>2. CASE find_section(name, n) # {}
    <2>1. /\ r.sec \in find_section(name, n)
          /\ r.secs = secs /\ r.list = list /\ r.container = container
      BY <1>2 DEF new_section
    <2>2. PICK i \in DOMAIN list : list[i] = r.sec /\ secs[r.sec].name = name
      BY <2>1 DEF find_section, ToSet
    <2>3. i \in 1..Len(list) /\ r.sec \in 1..Len(secs)
      BY <1>1, <2>2, SequenceTypes, LenProperties DEF TypeOK
    <2>4. Found(r)
      BY <2>1, <2>2, <2>3 DEF Found, Contains
    <2> QED BY <1>1, <2>1, <2>2, <2>3, <2>4, SequenceTypes DEF Made, TypeOK
  <1>3. CASE find_section(name, n) = {}
    <2> DEFINE c == [name |-> name, n |-> n, abs |-> abs, atoms |-> container]
    <2>1. /\ r.sec = Len(secs) + 1 /\ r.secs = Append(secs, c)
          /\ r.list = Link(Len(secs) + 1) /\ r.container = << >>
      BY <1>3 DEF new_section
    <2>2. c \in Section
      BY <1>1 DEF TypeOK, Section, SecName
    <2>3. c.name = name /\ c.n = n /\ c.atoms = container
      OBVIOUS
    <2> HIDE DEF c
    <2>4. /\ r.secs \in Seq(Section) /\ Len(r.secs) = Len(secs) + 1
          /\ \A i \in 1..Len(secs) : r.secs[i] = secs[i]
          /\ r.secs[Len(secs) + 1] = c
      BY <1>1, <2>1, <2>2, AppendFacts DEF TypeOK
    <2>5. Len(secs) \in Nat /\ Len(list) \in Nat
      BY <1>1, SequenceTypes
    <2>6. Created(r)
      BY <2>1, <2>3, <2>4 DEF Created
    <2>7. list \in Seq(1..Len(r.secs))
      <3>1. 1..Len(secs) \subseteq 1..Len(r.secs)
        BY <2>4, <2>5
      <3>2. list \in Seq(1..Len(secs))
        BY <1>1 DEF TypeOK
      <3> QED BY <3>1, <3>2, SeqMonotonic
    <2>8. Unique(r.secs, list)
      <3>1. \A i \in 1..Len(list) : list[i] \in 1..Len(secs) /\ r.secs[list[i]] = secs[list[i]]
        BY <1>1, <2>4, SequenceTypes
      <3>2. Unique(secs, list)
        BY <1>1
      <3>3. PICK ss : ss = r.secs
        OBVIOUS
      <3>4. ASSUME NEW i \in 1..Len(list), NEW j \in 1..Len(list), i # j
            PROVE  list[i] # list[j] /\ (ss[list[i]].name = ss[list[j]].name => ss[list[i]].n # ss[list[j]].n)
        <4>1. ss[list[i]] = secs[list[i]] /\ ss[list[j]] = secs[list[j]]
          BY <3>1, <3>3, <3>4
        <4> QED BY <3>2, <3>4, <4>1 DEF Unique
      <3> QED BY <3>3, <3>4 DEF Unique
    <2>9. r.list \in Seq(1..Len(r.secs)) /\ Unique(r.secs, r.list)
      <3>1. CASE r.list = list
        BY <2>7, <2>8, <3>1
      <3>2. CASE r.list = Append(list, Len(secs) + 1)
        <4>1. Len(secs) + 1 \in 1..Len(r.secs)
          BY <2>4, <2>5
        <4>2. /\ r.list \in Seq(1..Len(r.secs)) /\ Len(r.list) = Len(list) + 1
              /\ \A i \in 1..Len(list) : r.list[i] = list[i]
              /\ r.list[Len(list) + 1] = Len(secs) + 1
          BY <2>7, <3>2, <4>1, AppendFacts
        <4>3. ASSUME NEW i \in 1..Len(list)
              PROVE  /\ list[i] \in 1..Len(secs)
                     /\ ~(r.secs[list[i]].name = name /\ r.secs[list[i]].n = n)
          <5>1. list[i] \in 1..Len(secs) /\ list[i] \in ToSet(list)
            BY <1>1, SequenceTypes, LenProperties DEF ToSet, TypeOK
          <5> QED BY <1>3, <2>4, <5>1 DEF find_section
        <4>4. ASSUME NEW i \in 1..Len(r.list), NEW j \in 1..Len(r.list), i # j
              PROVE  /\ r.list[i] # r.list[j]
                     /\ r.secs[r.list[i]].name = r.secs[r.list[j]].name =>
                            r.secs[r.list[i]].n # r.secs[r.list[j]].n
          <5>1. CASE i = Len(list) + 1
            <6>1. j \in 1..Len(list)
              BY <2>5, <4>2, <4>4, <5>1
            <6>2. r.list[i] = Len(secs) + 1 /\ r.list[j] = list[j]
              BY <4>2, <5>1, <6>1
            <6>3. r.secs[r.list[i]].name = name /\ r.secs[r.list[i]].n = n
              BY <2>3, <2>4, <6>2
            <6> QED BY <2>5, <4>3, <6>1, <6>2, <6>3
          <5>2. CASE j = Len(list) + 1
            <6>1. i \in 1..Len(list)
              BY <2>5, <4>2, <4>4, <5>2
            <6>2. r.list[j] = Len(secs) + 1 /\ r.list[i] = list[i]
              BY <4>2, <5>2, <6>1
            <6>3. r.secs[r.list[j]].name = name /\ r.secs[r.list[j]].n = n
              BY <2>3, <2>4, <6>2
            <6> QED BY <2>5, <4>3, <6>1, <6>2, <6>3
          <5>3. CASE i \in 1..Len(list) /\ j \in 1..Len(list)
            <6>1. r.list[i] = list[i] /\ r.list[j] = list[j]
              BY <4>2, <5>3
            <6>2. /\ list[i] # list[j]
                  /\ r.secs[list[i]].name = r.secs[list[j]].name => r.secs[list[i]].n # r.secs[list[j]].n
              BY <2>8, <4>4, <5>3 DEF Unique
            <6> QED BY <6>1, <6>2
          <5> QED BY <2>5, <4>2, <5>1, <5>2, <5>3
        <4> QED BY <4>2, <4>4 DEF Unique
      <3> QED BY <2>1, <3>1, <3>2 DEF Link
    <2> QED BY <2>1, <2>3, <2>4, <2>5, <2>6, <2>9 DEF Made
  <1> QED BY <1>2, <1>3

\* new_org makes a section and appends it to the list.
LEMMA NewOrg ==
    ASSUME SInv, NEW r, r = new_org PROVE Made(r, "org")
  <1>1. PICK k \in Nat : k = Len(secs) + 1
    BY SequenceTypes DEF SInv
  <1>2. r = new_section("org", k, TRUE)
    BY <1>1 DEF new_org
  <1> QED BY <1>2, NewSection DEF SecName

\* So does switch_offset_section, with a number no other offset section has.
LEMMA OffsetSection ==
    ASSUME SInv, NEW again \in BOOLEAN, NEW r, r = offset_section(again) PROVE Made(r, "offset")
  <1>1. OffsetId \in Nat
    <2> DEFINE T == {s \in 1..Len(secs) : secs[s].name = "offset" /\ secs[s].n # 0}
    <2>1. IsFiniteSet(1..Len(secs))
      BY FS_Interval, SequenceTypes DEF SInv
    <2>2. IsFiniteSet(T)
      BY <2>1, FS_Subset
    <2> QED BY <2>2, FS_CardinalityType DEF OffsetId
  <1>2. PICK k \in Nat : k = OffsetId + (IF again THEN 0 ELSE 1)
    BY <1>1
  <1>3. r = new_section("offset", k, FALSE)
    BY <1>2 DEF offset_section
  <1> QED BY <1>3, NewSection DEF SecName
-----------------------------------------------------------------------------
(* set_section                                                             *)

\* The sections ss and the list l that set_section finds.
Before(ss, l) == /\ ss \in Seq(Section) /\ Len(ss) >= Len(secs)
                 /\ \A i \in 1..Len(secs) : ss[i] = secs[i]
                 /\ l \in Seq(1..Len(ss)) /\ Unique(ss, l)

SameName(c, d) == c.name = d.name /\ c.n = d.n /\ c.abs = d.abs

\* The label lab goes from the current section to s.
Moved(s, ss, l, lab) ==
    /\ current \in 1..Len(secs) /\ s \in 1..Len(ss) /\ s # current
    /\ lab = Last(secs[current].atoms) /\ lab \in Atom /\ lab.t = "label" /\ lab.id \in Labels
    /\ secs[current].atoms # << >>
    /\ secs' \in Seq(Section) /\ Len(secs') = Len(ss)
    /\ \A i \in 1..Len(ss) : SameName(secs'[i], ss[i]) /\ (i \notin {current, s} => secs'[i] = ss[i])
    /\ secs'[current].atoms = Front(secs[current].atoms)
    /\ secs'[s].atoms = Append(ss[s].atoms, lab)
    /\ labsec' = [labsec EXCEPT ![lab.id] = s]
    /\ list' = IF Deletable(current) THEN Unlinked(l, current) ELSE l

\* A label atom is made from its symbol.
LEMMA LabelAtom ==
    ASSUME NEW a \in Atom, a.t = "label" PROVE a.id \in Labels /\ a = Label(a.id)
  BY DEF Atom, Label

\* move_label_to_sec
LEMMA MoveLabel ==
    ASSUME SInv, NEW ss, NEW l, Before(ss, l), NEW s \in 0..Len(ss), NEW e, set_section(s, ss, l, e),
           LabelMoves(s), ss[s].abs = ss[current].abs
    PROVE  Moved(s, ss, l, Last(secs[current].atoms))
  <1> DEFINE lab == Last(secs[current].atoms)
             f == Front(secs[current].atoms)
             g == Append(ss[s].atoms, lab)
  <1>1. /\ secs' = [ss EXCEPT ![current].atoms = Front(@), ![s].atoms = Append(@, lab)]
        /\ labsec' = [labsec EXCEPT ![lab.id] = s]
        /\ list' = IF Deletable(current) THEN Unlinked(l, current) ELSE l
    BY DEF set_section
  <1>2. /\ fresh /\ s \in 1..Len(ss) /\ s # current /\ current # 0
        /\ current \in 1..Len(secs) /\ current \in 1..Len(ss)
    <2>1. Len(secs) \in Nat /\ Len(ss) \in Nat /\ current \in 0..Len(secs) /\ Len(ss) >= Len(secs)
      BY SequenceTypes, LenProperties DEF Before, SInv, TypeOK
    <2> QED BY <2>1 DEF LabelMoves
  <1>3. secs[current].atoms \in Seq(Atom) /\ secs[current].atoms # << >> /\ lab.t = "label"
    BY <1>2, SequenceTypes DEF SInv, FreshLabel
  <1>4. f \in Seq(Atom) /\ lab \in Atom
    BY <1>3, FrontLast
  <1>5. lab.id \in Labels
    BY <1>3, <1>4, LabelAtom
  <1>6. ss[current] = secs[current] /\ ss[current] \in Section /\ ss[s] \in Section /\ ss[s].atoms \in Seq(Atom)
    <2>1. ss[current] = secs[current] /\ ss[current] \in Section /\ ss[s] \in Section
      BY <1>2, ElementOfSeq DEF Before
    <2> QED BY <2>1 DEF Section
  <1>7. g \in Seq(Atom)
    BY <1>4, <1>6, AppendFacts
  <1> HIDE DEF lab, g, f
  <1>8. secs' = [ss EXCEPT ![current] = [ss[current] EXCEPT !.atoms = f], ![s] = [ss[s] EXCEPT !.atoms = g]]
    BY <1>1, <1>2, <1>6 DEF f, g, lab
  <1> DEFINE a == [ss[current] EXCEPT !.atoms = f]
             b == [ss[s] EXCEPT !.atoms = g]
  <1>9. /\ a \in Section /\ SameName(a, ss[current]) /\ a.atoms = f
        /\ b \in Section /\ SameName(b, ss[s]) /\ b.atoms = g
    BY <1>4, <1>6, <1>7 DEF Section, SameName
  <1> HIDE DEF a, b
  <1>10. /\ secs' \in Seq(Section) /\ Len(secs') = Len(ss)
         /\ \A i \in 1..Len(ss) : i \notin {current, s} => secs'[i] = ss[i]
         /\ secs'[current] = a /\ secs'[s] = b
    <2> DEFINE t == [ss EXCEPT ![current] = a]
    <2>1. /\ t \in Seq(Section) /\ Len(t) = Len(ss)
          /\ \A j \in 1..Len(ss) : t[j] = IF j = current THEN a ELSE ss[j]
      BY <1>2, <1>9, ExceptSeq DEF Before
    <2>2. secs' = [t EXCEPT ![s] = b]
      BY <1>8 DEF a, b
    <2> HIDE DEF t
    <2>3. /\ secs' \in Seq(Section) /\ Len(secs') = Len(t)
          /\ \A j \in 1..Len(t) : secs'[j] = IF j = s THEN b ELSE t[j]
      BY <1>2, <1>9, <2>1, <2>2, ExceptSeq
    <2> QED BY <1>2, <2>1, <2>3
  <1>11. ASSUME NEW i \in 1..Len(ss) PROVE SameName(secs'[i], ss[i])
    BY <1>9, <1>10 DEF SameName
  <1> QED BY <1>1, <1>2, <1>3, <1>4, <1>5, <1>9, <1>10, <1>11 DEF Moved, lab, f, g

\* Without the position k, a list of different sections is still one.
LEMMA UniqueKept ==
    ASSUME NEW ss \in Seq(Section), NEW tt, Len(tt) = Len(ss),
           \A i \in 1..Len(ss) : SameName(tt[i], ss[i]),
           NEW l \in Seq(1..Len(ss)), Unique(ss, l), NEW s
    PROVE  Unique(tt, l) /\ Unique(tt, Unlinked(l, s))
  <1>1. \A i \in 1..Len(l) : l[i] \in 1..Len(ss)
    BY ElementOfSeq
  <1>2. Unique(tt, l)
    <2>1. \A i \in 1..Len(l) : tt[l[i]].name = ss[l[i]].name /\ tt[l[i]].n = ss[l[i]].n
      BY <1>1 DEF SameName
    <2> QED BY <2>1 DEF Unique
  <1>3. CASE Contains(l, s)
    <2> DEFINE U == 1..Len(ss)
    <2>0. l \in Seq(U)
      OBVIOUS
    <2> HIDE DEF U
    <2>1. PICK k \in 1..Len(l) : /\ l[k] = s
                                 /\ Len(Unlinked(l, s)) = Len(l) - 1
                                 /\ \A i \in 1..Len(l) - 1 :
                                        Unlinked(l, s)[i] = IF i < k THEN l[i] ELSE l[i + 1]
      BY <1>3, <2>0, UnlinkedFacts
    <2>2. PICK n \in Nat : n = Len(l)
      BY LenProperties
    <2> DEFINE At(i) == IF i < k THEN i ELSE i + 1
    <2>3. ASSUME NEW i \in 1..n - 1
          PROVE  At(i) \in 1..n /\ Unlinked(l, s)[i] = l[At(i)]
      BY <2>1, <2>2
    <2>4. ASSUME NEW i \in 1..n - 1, NEW j \in 1..n - 1, i # j PROVE At(i) # At(j)
      BY <2>1, <2>2, <2>4
    <2> HIDE DEF At
    <2>5. ASSUME NEW i \in 1..n - 1, NEW j \in 1..n - 1, i # j
          PROVE  /\ Unlinked(l, s)[i] # Unlinked(l, s)[j]
                 /\ tt[Unlinked(l, s)[i]].name = tt[Unlinked(l, s)[j]].name =>
                        tt[Unlinked(l, s)[i]].n # tt[Unlinked(l, s)[j]].n
      <3>1. At(i) \in 1..Len(l) /\ At(j) \in 1..Len(l) /\ At(i) # At(j)
        BY <2>2, <2>3, <2>4, <2>5
      <3>2. /\ l[At(i)] # l[At(j)]
            /\ tt[l[At(i)]].name = tt[l[At(j)]].name => tt[l[At(i)]].n # tt[l[At(j)]].n
        BY <1>2, <3>1 DEF Unique
      <3> QED BY <2>3, <3>2
    <2> QED BY <1>2, <2>1, <2>2, <2>5 DEF Unique
  <1>4. CASE ~Contains(l, s)
    BY <1>2, <1>4, UnlinkedFacts
  <1> QED BY <1>3, <1>4

\* What set_section leaves.
After(s, ss) == /\ secs' \in Seq(Section) /\ Len(secs') = Len(ss)
                /\ \A i \in 1..Len(ss) : SameName(secs'[i], ss[i])
                /\ list' \in Seq(1..Len(ss)) /\ Unique(secs', list')
                /\ labsec' \in [Labels -> 0..Len(ss)]
                /\ current' = s
                /\ errors' \in SUBSET Errors
                /\ phase' \in {"parsing", "stopped"}

\* What set_section does, with and without a label to take along.
LEMMA SetSection ==
    ASSUME SInv, NEW ss, NEW l, Before(ss, l), NEW s \in 0..Len(ss),
           NEW e \in SUBSET Errors, set_section(s, ss, l, e)
    PROVE  After(s, ss)
  <1>1. labsec \in [Labels -> 0..Len(secs)] /\ Len(secs) \in Nat /\ Len(ss) \in Nat /\ Len(ss) >= Len(secs)
    BY SequenceTypes, LenProperties DEF SInv, TypeOK, Before
  <1>2. labsec \in [Labels -> 0..Len(ss)]
    BY <1>1
  <1>3. CASE LabelMoves(s) /\ ss[s].abs = ss[current].abs
    <2> DEFINE lab == Last(secs[current].atoms)
    <2>1. Moved(s, ss, l, lab)
      BY <1>3, MoveLabel
    <2> HIDE DEF lab
    <2>2. labsec' \in [Labels -> 0..Len(ss)]
      BY <1>2, <2>1 DEF Moved
    <2>3. list' \in Seq(1..Len(ss)) /\ Unique(secs', list')
      BY <2>1, UniqueKept, UnlinkedFacts DEF Moved, Before
    <2>4. current' = s /\ errors' \in SUBSET Errors /\ phase' \in {"parsing", "stopped"}
      BY <1>3 DEF set_section, Errors, SInv, TypeOK
    <2> QED BY <2>1, <2>2, <2>3, <2>4 DEF Moved, After
  <1>4. CASE ~(LabelMoves(s) /\ ss[s].abs = ss[current].abs)
    <2>1. /\ secs' = ss /\ list' = l /\ UNCHANGED << labsec, phase >> /\ current' = s
          /\ errors' \in SUBSET Errors
      BY <1>4 DEF set_section, Errors
    <2> QED BY <1>2, <2>1 DEF After, Before, SameName, SInv, TypeOK
  <1> QED BY <1>3, <1>4
-----------------------------------------------------------------------------
(* The directives                                                          *)

\* A directive that switches to a section that was found or created.
LEMMA SwitchKeeps ==
    ASSUME SInv, NEW name, NEW r, Made(r, name), NEW e \in SUBSET Errors, SwitchTo(r, e),
           UNCHANGED << directives, stack >>, dsect' \in -1..Len(secs)
    PROVE  /\ TypeOK' /\ ListUnique' /\ FreshLabel'
           /\ current' # 0 /\ secs'[current'].name = name
  <1> DEFINE s == r.sec
             ss == r.secs
             l == r.list
  <1>1. Before(ss, l) /\ s \in 0..Len(ss) /\ s \in 1..Len(ss)
    BY DEF Made, Before
  <1>2. set_section(s, ss, l, e) /\ container' = r.container /\ fresh' = FALSE /\ UNCHANGED natoms
    BY DEF SwitchTo, EndLine
  <1> HIDE DEF s, ss, l
  <1>3. After(s, ss)
    BY <1>1, <1>2, SetSection
  <1>4. Len(secs) \in Nat /\ Len(ss) \in Nat /\ Len(ss) >= Len(secs) /\ 1..Len(secs) \subseteq 1..Len(ss)
    BY <1>1, SequenceTypes, LenProperties DEF SInv, Before
  <1>5. stack' \in Seq(1..Len(ss)) /\ Len(stack') <= SECSTACKSIZE
    BY <1>4, SeqMonotonic DEF SInv, TypeOK
  <1>6. dsect' \in -1..Len(ss)
    BY <1>4
  <1>7. container' \in Seq(Atom)
    BY <1>2 DEF Made
  <1>8. TypeOK'
    BY <1>1, <1>2, <1>3, <1>5, <1>6, <1>7 DEF After, SInv, TypeOK
  <1>9. ListUnique'
    BY <1>3 DEF After, ListUnique, Unique
  <1>10. FreshLabel'
    BY <1>2 DEF FreshLabel
  <1>11. current' # 0 /\ secs'[current'].name = name
    <2>1. ss[s].name = name
      BY DEF Made, ss, s
    <2> QED BY <1>1, <1>3, <2>1 DEF After, SameName
  <1> QED BY <1>8, <1>9, <1>10, <1>11

\* What default_section returns, with and without a current section.
LEMMA DefaultSection ==
    ASSUME SInv, NEW d, d = default_section
    PROVE  /\ Before(d.secs, d.list) /\ d.sec \in 1..Len(d.secs) /\ d.container \in Seq(Atom)
           /\ current # 0 => /\ d.sec = current /\ d.secs = secs
                             /\ d.list = list /\ d.container = container
           /\ current = 0 => Found(d) \/ Created(d)
  <1>1. CASE current # 0
    <2>1. d.sec = current /\ d.secs = secs /\ d.list = list /\ d.container = container
      BY <1>1 DEF default_section
    <2>2. current \in 1..Len(secs) /\ Len(secs) \in Nat
      BY <1>1, SequenceTypes DEF SInv, TypeOK
    <2> QED BY <1>1, <2>1, <2>2 DEF Before, SInv, TypeOK, ListUnique, Unique
  <1>2. CASE current = 0 /\ DefaultName \in Names
    <2>1. d = new_section(DefaultName, 0, FALSE)
      BY <1>2 DEF default_section
    <2>2. Made(d, DefaultName)
      BY <1>2, <2>1, NewSection DEF SecName
    <2> QED BY <1>2, <2>2 DEF Made, Before
  <1>3. CASE current = 0 /\ DefaultName \notin Names
    <2>1. d = new_org
      BY <1>3 DEF default_section
    <2>2. Made(d, "org")
      BY <2>1, NewOrg
    <2> QED BY <1>3, <2>2 DEF Made, Before
  <1> QED BY <1>1, <1>2, <1>3

\* Atom a is added to the section s of ss.
Added(a, s, ss) ==
    /\ s \in 1..Len(ss) /\ current' = s
    /\ secs' \in Seq(Section) /\ Len(secs') = Len(ss)
    /\ \A i \in 1..Len(ss) : SameName(secs'[i], ss[i]) /\ (i # s => secs'[i] = ss[i])
    /\ ss[s].atoms \in Seq(Atom) /\ secs'[s].atoms = Append(ss[s].atoms, a)

\* add_atom appends to the section default_section returned.
LEMMA AddAtomAdds ==
    ASSUME SInv, NEW a \in Atom, AddAtom(a), NEW d, d = default_section
    PROVE  Added(a, d.sec, d.secs) /\ list' = d.list /\ container' = d.container
  <1> DEFINE s == d.sec
             ss == d.secs
             g == Append(ss[s].atoms, a)
  <1>1. /\ secs' = [ss EXCEPT ![s].atoms = Append(@, a)]
        /\ list' = d.list /\ container' = d.container /\ current' = s
    BY DEF AddAtom
  <1>2. ss \in Seq(Section) /\ s \in 1..Len(ss)
    BY DefaultSection DEF Before
  <1> HIDE DEF s, ss, g
  <1>3. ss[s] \in Section
    BY <1>2, ElementOfSeq
  <1>4. ss[s].atoms \in Seq(Atom)
    BY <1>3 DEF Section
  <1>5. g \in Seq(Atom)
    BY <1>4, AppendFacts DEF g
  <1> DEFINE b == [ss[s] EXCEPT !.atoms = g]
  <1>6. b \in Section /\ SameName(b, ss[s]) /\ b.atoms = g
    BY <1>3, <1>5 DEF Section, SameName
  <1>7. secs' = [ss EXCEPT ![s] = b]
    BY <1>1, <1>2 DEF g
  <1> HIDE DEF b
  <1>8. /\ secs' \in Seq(Section) /\ Len(secs') = Len(ss)
        /\ \A j \in 1..Len(ss) : secs'[j] = IF j = s THEN b ELSE ss[j]
    BY <1>2, <1>6, <1>7, ExceptSeq
  <1>9. \A j \in 1..Len(ss) : SameName(secs'[j], ss[j])
    BY <1>6, <1>8 DEF SameName
  <1>10. Added(a, s, ss)
    BY <1>1, <1>2, <1>4, <1>6, <1>8, <1>9 DEF Added, g
  <1> QED BY <1>1, <1>10 DEF s, ss

\* A line that adds an atom; it may have defined a label in its section.
LEMMA AddKeeps ==
    ASSUME SInv, NEW a \in Atom, AddAtom(a), UNCHANGED << directives, stack, dsect, errors, phase >>,
           natoms' \in 0..MaxAtoms, labsec' \in [Labels -> 0..Len(secs')],
           fresh' \in BOOLEAN, fresh' => a.t = "label"
    PROVE  SInv'
  <1> DEFINE d == default_section
             s == d.sec
             ss == d.secs
  <1>1. Added(a, s, ss) /\ list' = d.list /\ container' = d.container
    BY AddAtomAdds
  <1>2. /\ Before(ss, d.list) /\ d.container \in Seq(Atom)
        /\ current # 0 => s = current /\ ss = secs
    BY DefaultSection
  <1> HIDE DEF s, ss, d
  <1>3. Len(secs) \in Nat /\ Len(ss) \in Nat /\ Len(ss) >= Len(secs) /\ 1..Len(secs) \subseteq 1..Len(ss)
    BY <1>2, SequenceTypes, LenProperties DEF SInv, Before
  <1>4. stack' \in Seq(1..Len(ss)) /\ Len(stack') <= SECSTACKSIZE
    BY <1>3, SeqMonotonic DEF SInv, TypeOK
  <1>5. dsect' \in -1..Len(ss)
    BY <1>3 DEF SInv, TypeOK
  <1>6. TypeOK'
    <2>1. Len(secs') = Len(ss) /\ secs' \in Seq(Section) /\ current' \in 1..Len(ss)
      BY <1>1 DEF Added
    <2>2. list' \in Seq(1..Len(secs')) /\ container' \in Seq(Atom) /\ current' \in 0..Len(secs')
      BY <1>1, <1>2, <1>3, <2>1 DEF Before
    <2>3. stack' \in Seq(1..Len(secs')) /\ dsect' \in -1..Len(secs')
      BY <1>4, <1>5, <2>1
    <2>4. directives' \in Sources /\ errors' \in SUBSET Errors /\ phase' \in {"parsing", "stopped"}
      BY DEF SInv, TypeOK
    <2> QED BY <1>4, <2>1, <2>2, <2>3, <2>4 DEF TypeOK
  <1>7. ListUnique'
    <2>1. Unique(secs', list')
      BY <1>1, <1>2, UniqueKept DEF Added, Before
    <2> QED BY <2>1 DEF ListUnique, Unique
  <1>8. FreshLabel'
    <2>1. secs'[s].atoms = Append(ss[s].atoms, a) /\ ss[s].atoms \in Seq(Atom) /\ current' = s /\ s # 0
      BY <1>1, <1>3 DEF Added
    <2> DEFINE q == Append(ss[s].atoms, a)
    <2>2. q # << >> /\ Last(q) = a
      BY <2>1, AppendFacts DEF Last
    <2> QED BY <2>1, <2>2 DEF FreshLabel
  <1>9. InDsect'
    <2>1. SUFFICES ASSUME dsect # -1 PROVE InDsect'
      BY DEF InDsect
    <2>2. current # 0 => current' = current /\ secs'[current].name = secs[current].name
      BY <1>1, <1>2 DEF Added, SameName
    <2> QED BY <2>1, <2>2 DEF InDsect, SInv
  <1> QED BY <1>6, <1>7, <1>8, <1>9 DEF SInv

\* Only the oldstyle syntax has DSECT, so its source has no directive of the
\* mot syntax alone.
LEMMA OldSource ==
    ASSUME SInv, dsect # -1
    PROVE  directives \cap {"org", "offset", "offset expr", "pushsection", "popsection", "assert"} = {}
  <1>1. "dsect" \in directives /\ directives \in Sources
    BY DEF SInv, TypeOK, InDsect
  <1>2. directives \subseteq MotDirectives \/ directives \subseteq OldDirectives
    BY <1>1, SectionsAssumption
  <1>3. "dsect" \notin MotDirectives
    BY DEF MotDirectives
  <1>4. OldDirectives \cap {"org", "offset", "offset expr", "pushsection", "popsection", "assert"} = {}
    BY DEF OldDirectives
  <1> QED BY <1>1, <1>2, <1>3, <1>4

\* A step that leaves the sections and the list alone, and at most ends the line
\* or the DSECT, keeps what is said of them.
LEMMA SectionsKept ==
    ASSUME SInv, UNCHANGED << directives, secs, list, current >>,
           fresh' \in {FALSE, fresh}, dsect' \in {-1, dsect}
    PROVE  ListUnique' /\ FreshLabel' /\ InDsect'
  <1>1. directives' = directives /\ secs' = secs /\ list' = list /\ current' = current
    OBVIOUS
  <1>2. ListUnique'
    BY <1>1 DEF SInv, ListUnique
  <1>3. FreshLabel'
    <2>1. fresh' => fresh
      OBVIOUS
    <2> QED BY <1>1, <2>1 DEF SInv, FreshLabel
  <1>4. InDsect'
    <2>1. dsect' # -1 => dsect # -1
      OBVIOUS
    <2> QED BY <1>1, <2>1 DEF SInv, InDsect
  <1> QED BY <1>2, <1>3, <1>4

\* There is no section at first.
LEMMA SInvInit == Init => SInv
  <1> SUFFICES ASSUME Init PROVE SInv
    OBVIOUS
  <1>1. Len(<< >>) = 0 /\ \A S : << >> \in Seq(S)
    BY EmptySeq
  <1>2. TypeOK
    <2>1. Len(secs) = 0 /\ secs \in Seq(Section) /\ container \in Seq(Atom)
      BY <1>1 DEF Init
    <2>2. list \in Seq(1..Len(secs)) /\ stack \in Seq(1..Len(secs)) /\ Len(stack) <= SECSTACKSIZE
      BY <1>1, SectionsAssumption DEF Init
    <2>3. current \in 0..Len(secs) /\ dsect \in -1..Len(secs) /\ natoms \in 0..MaxAtoms
      BY <2>1, SectionsAssumption DEF Init
    <2>4. labsec \in [Labels -> 0..Len(secs)]
      BY <2>1 DEF Init
    <2> QED BY <2>1, <2>2, <2>3, <2>4 DEF Init, TypeOK
  <1>3. ListUnique /\ FreshLabel /\ InDsect
    BY <1>1 DEF Init, ListUnique, FreshLabel, InDsect
  <1> QED BY <1>2, <1>3 DEF SInv

\* Every directive keeps SInv.
LEMMA SInvNext == SInv /\ [Next]_vars => SInv'
  <1> SUFFICES ASSUME SInv, [Next]_vars PROVE SInv'
    OBVIOUS
  <1>t. /\ directives \in Sources /\ errors \in SUBSET Errors /\ dsect \in -1..Len(secs)
        /\ Len(secs) \in Nat /\ current \in 0..Len(secs) /\ current \in -1..Len(secs)
        /\ natoms \in 0..MaxAtoms
    BY SequenceTypes DEF SInv, TypeOK
  <1>1. ASSUME NEW name \in Names, SectionLine(name) PROVE SInv'
    <2>1. SwitchTo(new_section(name, 0, FALSE), errors) /\ UNCHANGED << stack, dsect, directives >>
          /\ "section" \in directives
      BY <1>1 DEF SectionLine, Read
    <2>2. PICK r : r = new_section(name, 0, FALSE)
      OBVIOUS
    <2>3. Made(r, name)
      BY <2>2, NewSection DEF SecName
    <2>4. TypeOK' /\ ListUnique' /\ FreshLabel'
      BY <1>t, <2>1, <2>2, <2>3, SwitchKeeps
    <2>5. InDsect'
      BY <2>1 DEF InDsect, SInv
    <2> QED BY <2>4, <2>5 DEF SInv
  <1>2. CASE OrgLine
    <2>1. SwitchTo(new_org, errors) /\ UNCHANGED << stack, dsect, directives >> /\ "org" \in directives
      BY <1>2 DEF OrgLine, Read
    <2>2. PICK r : r = new_org
      OBVIOUS
    <2>3. TypeOK' /\ ListUnique' /\ FreshLabel'
      BY <1>t, <2>1, <2>2, NewOrg, SwitchKeeps
    <2>4. InDsect'
      BY <2>1, OldSource DEF InDsect
    <2> QED BY <2>3, <2>4 DEF SInv
  <1>3. CASE OldOrgLine
    <2>1. UNCHANGED << stack, dsect, directives >>
      BY <1>3 DEF OldOrgLine, Read
    <2>2. CASE dsect = -1 /\ SwitchTo(new_org, errors)
      <3>1. PICK r : r = new_org
        OBVIOUS
      <3>2. TypeOK' /\ ListUnique' /\ FreshLabel'
        BY <1>t, <2>1, <2>2, <3>1, NewOrg, SwitchKeeps
      <3>3. InDsect'
        BY <2>1, <2>2 DEF InDsect
      <3> QED BY <3>2, <3>3 DEF SInv
    <2>3. CASE dsect # -1 /\ SwitchTo(offset_section(FALSE), errors)
      <3>1. PICK r : r = offset_section(FALSE)
        OBVIOUS
      <3>2. TypeOK' /\ ListUnique' /\ FreshLabel' /\ current' # 0 /\ secs'[current'].name = "offset"
        BY <1>t, <2>1, <2>3, <3>1, OffsetSection, SwitchKeeps
      <3>3. InDsect'
        BY <2>1, <2>3, <3>2 DEF InDsect, SInv
      <3> QED BY <3>2, <3>3 DEF SInv
    <2> QED BY <1>3, <2>2, <2>3 DEF OldOrgLine
  <1>4. CASE OffsetLine
    <2>1. PICK again \in BOOLEAN : SwitchTo(offset_section(again), errors)
      BY <1>4 DEF OffsetLine
    <2>2. UNCHANGED << stack, dsect, directives >> /\ directives \cap {"offset", "offset expr"} # {}
      BY <1>4 DEF OffsetLine, Read
    <2>3. PICK r : r = offset_section(again)
      OBVIOUS
    <2>4. TypeOK' /\ ListUnique' /\ FreshLabel'
      BY <1>t, <2>1, <2>2, <2>3, OffsetSection, SwitchKeeps
    <2>5. InDsect'
      BY <2>2, OldSource DEF InDsect
    <2> QED BY <2>4, <2>5 DEF SInv
  <1>5. CASE PushSection
    <2>1. /\ UNCHANGED << directives, secs, list, current, dsect, container, labsec, natoms, phase >>
          /\ fresh' = FALSE /\ errors' \in SUBSET Errors
          /\ \/ UNCHANGED stack
             \/ current # 0 /\ Len(stack) < SECSTACKSIZE /\ stack' = Append(stack, current)
      BY <1>5, <1>t DEF PushSection, Read, EndLine, Fail, Errors
    <2>2. stack' \in Seq(1..Len(secs)) /\ Len(stack') <= SECSTACKSIZE
      <3>1. CASE UNCHANGED stack
        BY <3>1 DEF SInv, TypeOK
      <3>2. CASE current # 0 /\ Len(stack) < SECSTACKSIZE /\ stack' = Append(stack, current)
        <4>1. current \in 1..Len(secs) /\ stack \in Seq(1..Len(secs)) /\ Len(stack) \in Nat
          BY <1>t, <3>2, SequenceTypes DEF SInv, TypeOK
        <4> QED BY <3>2, <4>1, AppendFacts, SectionsAssumption
      <3> QED BY <2>1, <3>1, <3>2
    <2>3. TypeOK'
      BY <2>1, <2>2 DEF SInv, TypeOK
    <2> QED BY <2>1, <2>3, SectionsKept DEF SInv
  <1>6. CASE PopSection
    <2>1. /\ UNCHANGED << directives, dsect, container, natoms >> /\ fresh' = FALSE
          /\ "popsection" \in directives
      BY <1>6 DEF PopSection, Read, EndLine
    <2>2. CASE stack # << >>
      <3>1. set_section(Last(stack), secs, list, errors) /\ stack' = Front(stack)
        BY <1>6, <2>2 DEF PopSection
      <3>2. /\ Last(stack) \in 1..Len(secs) /\ Front(stack) \in Seq(1..Len(secs))
            /\ Len(Front(stack)) = Len(stack) - 1 /\ Len(stack) \in Nat
        BY <2>2, FrontLast, SequenceTypes DEF SInv, TypeOK
      <3>3. Last(stack) \in 0..Len(secs) /\ Len(stack') <= SECSTACKSIZE
        BY <1>t, <3>1, <3>2, SectionsAssumption DEF SInv, TypeOK
      <3>4. Before(secs, list)
        BY <1>t DEF Before, SInv, TypeOK, ListUnique, Unique
      <3>5. PICK p : p = Last(stack)
        OBVIOUS
      <3>6. After(p, secs)
        BY <1>t, <3>1, <3>3, <3>4, <3>5, SetSection
      <3>7. TypeOK'
        BY <2>1, <3>1, <3>2, <3>3, <3>5, <3>6 DEF After, SInv, TypeOK
      <3>8. ListUnique' /\ FreshLabel'
        BY <2>1, <3>6 DEF After, ListUnique, Unique, FreshLabel
      <3>9. InDsect'
        BY <2>1, OldSource DEF InDsect
      <3> QED BY <3>7, <3>8, <3>9 DEF SInv
    <2>3. CASE stack = << >>
      <3>1. UNCHANGED << secs, list, current, stack, labsec, phase >> /\ errors' \in SUBSET Errors
        BY <1>6, <1>t, <2>3 DEF PopSection, Fail, Errors
      <3>2. TypeOK'
        BY <2>1, <3>1 DEF SInv, TypeOK
      <3> QED BY <2>1, <3>1, <3>2, SectionsKept DEF SInv
    <2> QED BY <2>2, <2>3
  <1>7. CASE DsectLine
    <2>1. PICK e \in SUBSET Errors : SwitchTo(offset_section(FALSE), e)
      <3>1. errors \cup {"dsect already active"} \in SUBSET Errors
        BY <1>t DEF Errors
      <3> QED BY <1>7, <1>t, <3>1 DEF DsectLine
    <2>2. UNCHANGED << directives, stack >> /\ "dsect" \in directives /\ dsect' \in {dsect, current}
      BY <1>7 DEF DsectLine, Read
    <2>3. dsect' \in -1..Len(secs)
      BY <1>t, <2>2
    <2>4. PICK r : r = offset_section(FALSE)
      OBVIOUS
    <2>5. TypeOK' /\ ListUnique' /\ FreshLabel' /\ current' # 0 /\ secs'[current'].name = "offset"
      BY <2>1, <2>2, <2>3, <2>4, OffsetSection, SwitchKeeps
    <2>6. InDsect'
      BY <2>2, <2>5 DEF InDsect
    <2> QED BY <2>5, <2>6 DEF SInv
  <1>8. CASE DendLine
    <2>1. UNCHANGED << directives, stack, container, natoms >> /\ dsect' = -1 /\ fresh' = FALSE
      BY <1>8 DEF DendLine, Read, EndLine
    <2>2. CASE dsect # -1 /\ set_section(dsect, secs, list, errors)
      <3>1. Before(secs, list)
        BY <1>t DEF Before, SInv, TypeOK, ListUnique, Unique
      <3>2. PICK p \in 0..Len(secs) : p = dsect
        BY <1>t, <2>2
      <3>3. After(p, secs)
        BY <1>t, <2>2, <3>1, <3>2, SetSection
      <3>4. TypeOK'
        <4>1. dsect' \in -1..Len(secs')
          BY <1>t, <2>1, <3>3 DEF After
        <4> QED BY <2>1, <3>2, <3>3, <4>1 DEF After, SInv, TypeOK
      <3>5. ListUnique' /\ FreshLabel' /\ InDsect'
        BY <2>1, <3>3 DEF After, ListUnique, Unique, FreshLabel, InDsect
      <3> QED BY <3>4, <3>5 DEF SInv
    <2>3. CASE UNCHANGED << secs, list, current, labsec, phase >> /\ Fail("dend without dsect")
      <3>1. errors' \in SUBSET Errors
        BY <1>t, <2>3 DEF Fail, Errors
      <3>2. TypeOK'
        <4>1. dsect' \in -1..Len(secs')
          <5>1. secs' = secs
            BY <2>3
          <5> QED BY <1>t, <2>1, <5>1
        <4> QED BY <2>1, <2>3, <3>1, <4>1 DEF SInv, TypeOK
      <3> QED BY <2>1, <2>3, <3>2, SectionsKept DEF SInv
    <2> QED BY <1>8, <2>2, <2>3 DEF DendLine
  <1>9. ASSUME NEW l \in Labels, LabelLine(l) PROVE SInv'
    <2>1. /\ AddAtom(Label(l)) /\ UNCHANGED << directives, stack, dsect, errors, phase, natoms >>
          /\ fresh' = TRUE /\ labsec' = [labsec EXCEPT ![l] = default_section.sec]
      BY <1>9 DEF LabelLine, Read
    <2>2. Label(l) \in Atom /\ Label(l).t = "label"
      BY DEF Label, Atom
    <2>3. labsec' \in [Labels -> 0..Len(secs')]
      <3>1. PICK d : d = default_section
        OBVIOUS
      <3>2. d.sec \in 1..Len(secs') /\ Len(secs') = Len(d.secs)
        BY <2>1, <2>2, <3>1, AddAtomAdds DEF Added
      <3>3. Len(d.secs) >= Len(secs) /\ Len(d.secs) \in Nat
        BY <3>1, DefaultSection, LenProperties DEF Before
      <3>4. labsec \in [Labels -> 0..Len(secs)]
        BY DEF SInv, TypeOK
      <3>5. labsec \in [Labels -> 0..Len(secs')]
        BY <1>t, <3>2, <3>3, <3>4
      <3>6. d.sec \in 0..Len(secs')
        BY <3>2, <3>3
      <3> QED BY <2>1, <3>1, <3>5, <3>6
    <2>4. PICK a \in Atom : a = Label(l)
      BY <2>2
    <2> QED BY <1>t, <2>1, <2>2, <2>3, <2>4, AddKeeps
  <1>10. ASSUME NEW a \in Atom, AddAtom(a), natoms' \in 0..MaxAtoms, fresh' = FALSE,
                UNCHANGED << directives, stack, dsect, labsec, errors, phase >>
         PROVE  SInv'
    <2>1. PICK d : d = default_section
      OBVIOUS
    <2>2. Len(secs') = Len(d.secs)
      BY <1>10, <2>1, AddAtomAdds DEF Added
    <2>3. Len(d.secs) >= Len(secs) /\ Len(d.secs) \in Nat
      BY <2>1, DefaultSection, LenProperties DEF Before
    <2>4. labsec \in [Labels -> 0..Len(secs)]
      BY DEF SInv, TypeOK
    <2>5. labsec' \in [Labels -> 0..Len(secs')]
      BY <1>t, <1>10, <2>2, <2>3, <2>4
    <2> QED BY <1>10, <2>5, AddKeeps
  <1>11. CASE DataLine
    <2>1. /\ natoms < MaxAtoms /\ natoms' = natoms + 1 /\ AddAtom([t |-> "data", id |-> natoms'])
          /\ fresh' = FALSE /\ UNCHANGED << directives, stack, dsect, labsec, errors, phase >>
      BY <1>11 DEF DataLine, Read, EndLine
    <2>2. natoms' \in 1..MaxAtoms /\ natoms' \in 0..MaxAtoms
      BY <1>t, <2>1, SectionsAssumption
    <2>3. PICK a \in Atom : a = [t |-> "data", id |-> natoms']
      BY <2>2 DEF Atom
    <2> QED BY <1>10, <2>1, <2>2, <2>3
  <1>12. CASE AssertLine
    <2> DEFINE a == [t |-> "assert", id |-> natoms']
    <2>1. /\ natoms < MaxAtoms /\ natoms' = natoms + 1
          /\ fresh' = FALSE /\ UNCHANGED << directives, stack, dsect, labsec, errors, phase >>
          /\ \/ container' = Append(container, a) /\ UNCHANGED << secs, list, current >>
             \/ AddAtom(a)
      BY <1>12 DEF AssertLine, Read, EndLine
    <2>2. natoms' \in 1..MaxAtoms /\ natoms' \in 0..MaxAtoms
      BY <1>t, <2>1, SectionsAssumption
    <2>3. a \in Atom
      BY <2>2 DEF Atom
    <2> HIDE DEF a
    <2>4. CASE AddAtom(a)
      BY <1>10, <2>1, <2>2, <2>3, <2>4
    <2>5. CASE container' = Append(container, a) /\ UNCHANGED << secs, list, current >>
      <3>1. container' \in Seq(Atom)
        BY <2>3, <2>5, AppendFacts DEF SInv, TypeOK
      <3>2. TypeOK'
        BY <2>1, <2>2, <2>5, <3>1 DEF SInv, TypeOK
      <3> QED BY <2>1, <2>5, <3>2, SectionsKept DEF SInv
    <2> QED BY <2>1, <2>4, <2>5
  <1>13. CASE BareLabel
    <2>1. /\ UNCHANGED << directives, secs, list, current, stack, dsect, container,
                          labsec, natoms, errors, phase >>
          /\ fresh' = FALSE
      BY <1>13 DEF BareLabel, EndLine
    <2>2. TypeOK'
      BY <2>1 DEF SInv, TypeOK
    <2> QED BY <2>1, <2>2, SectionsKept DEF SInv
  <1>14. CASE EndOfSource
    <2>1. errors' \in SUBSET Errors /\ phase' = "stopped"
      BY <1>t, <1>14 DEF EndOfSource, Fail, Errors
    <2>2. UNCHANGED << directives, secs, list, current, stack, dsect, container, labsec, natoms, fresh >>
      BY <1>14 DEF EndOfSource
    <2>3. TypeOK'
      BY <2>1, <2>2 DEF SInv, TypeOK
    <2> QED BY <2>2, <2>3, SectionsKept DEF SInv
  <1>15. CASE UNCHANGED vars
    <2>1. UNCHANGED << directives, secs, list, current, stack, dsect, container,
                       labsec, natoms, fresh, errors, phase >>
      BY <1>15 DEF vars
    <2>2. TypeOK'
      BY <2>1 DEF SInv, TypeOK
    <2> QED BY <2>1, <2>2, SectionsKept DEF SInv
  <1> QED
    BY <1>1, <1>2, <1>3, <1>4, <1>5, <1>6, <1>7, <1>8, <1>9, <1>11, <1>12, <1>13, <1>14, <1>15 DEF Next

\* Every pointer of the section state is to a section and the section stack
\* stays within its array (vasm.c), for every source of either syntax.
THEOREM SectionsTypeOK == Spec => []TypeOK
  <1>1. SInv => TypeOK
    BY DEF SInv
  <1> QED BY <1>1, SInvInit, SInvNext, PTL DEF Spec

\* The list never has a section twice or two of the same name (new_section and
\* move_label_to_sec), for every source of either syntax.
THEOREM SectionsListUnique == Spec => []ListUnique
  <1>1. SInv => ListUnique
    BY DEF SInv
  <1> QED BY <1>1, SInvInit, SInvNext, PTL DEF Spec

\* Between DSECT and DEND, ORG only moves between offset sections (handle_org
\* and handle_dsect of the oldstyle syntax).
THEOREM SectionsDsectUnallocated == Spec => []DsectUnallocated
  <1>1. SInv => DsectUnallocated
    BY DEF SInv, InDsect, DsectUnallocated
  <1> QED BY <1>1, SInvInit, SInvNext, PTL DEF Spec
-----------------------------------------------------------------------------
(* What is in the sections                                                 *)

\* A source that takes labels along uses neither the section stack nor DSECT.
\* (Others can reach a section that was removed from the list: then what is
\* in it is lost, which run sections_popped shows.)
LabelsStay == \A d \in Sources :
                  "label" \in d => d \cap {"pushsection", "popsection", "dsect", "dend"} = {}

\* A source that takes labels along has no ASSERT.  (One that has can lose a
\* section with nothing else in it: move_label_to_sec, vasm.c:810.)
LabelsWithoutAsserts == \A d \in Sources : "label" \in d => "assert" \notin d

\* No label is twice in q.
NoTwice(q) == \A i, j \in 1..Len(q) : q[i].t = "label" /\ q[i] = q[j] => i = j

\* A label is in the section its symbol names and in no other.
Placed(ss, lb) == \A x \in Labels : \A s \in 1..Len(ss) : Contains(ss[s].atoms, Label(x)) <=> lb[x] = s
Single(ss) == \A s \in 1..Len(ss) : NoTwice(ss[s].atoms)

\* What is not in the list holds assertions only.
Unlisted(ss, l) == \A s \in 1..Len(ss) : \A a \in Atom :
                       ~Contains(l, s) /\ Contains(ss[s].atoms, a) => a.t = "assert"

\* The container holds assertions, which are in no section.
Waiting(ss, c) == \A a \in Atom : Contains(c, a) =>
                      a.t = "assert" /\ a.id <= natoms /\ \A s \in 1..Len(ss) : ~Contains(ss[s].atoms, a)

\* An assertion is in one section.
Once(ss) == \A a \in Atom : \A s, u \in 1..Len(ss) :
                a.t = "assert" /\ Contains(ss[s].atoms, a) =>
                    a.id <= natoms /\ (Contains(ss[u].atoms, a) => s = u)

NoAsserts(ss, c) == "assert" \notin directives =>
                        \A a \in Atom : a.t = "assert" =>
                            ~Contains(c, a) /\ \A s \in 1..Len(ss) : ~Contains(ss[s].atoms, a)

Contents(ss, l, c, lb) == /\ Placed(ss, lb) /\ Single(ss)
                          /\ Unlisted(ss, l) /\ Waiting(ss, c) /\ Once(ss) /\ NoAsserts(ss, c)

\* Nothing is removed from the list of a source without labels, and the current
\* section of one with labels is in the list.
Listing == /\ "label" \notin directives => /\ ~fresh
                                           /\ \A x \in Labels : labsec[x] = 0
                                           /\ \A s \in 1..Len(secs) : Contains(list, s)
           /\ "label" \in directives => /\ stack = << >> /\ dsect = -1
                                        /\ Len(secs) > 0 => current # 0
                                        /\ current # 0 => Contains(list, current)

Clean(e) == "internal error" \notin e

\* An atom is in a section or waits for one.
Held(ss, c, a) == Contains(c, a) \/ \E s \in 1..Len(ss) : Contains(ss[s].atoms, a)
Kept(ss, c, k) == \A n \in 1..k : \E a \in Atom : a.t # "label" /\ a.id = n /\ Held(ss, c, a)

\* Where assertions may wait, they do so before the first section only.
Nothing(c) == \A a \in Atom : ~Contains(c, a)
First == "assert" \in directives /\ (current = 0 \/ ~Nothing(container)) => secs = << >>

OInv == SInv /\ Contents(secs, list, container, labsec) /\ Listing /\ NoInternalError

\* The members of a longer sequence,
LEMMA ContainsAppend ==
    ASSUME NEW S, NEW q \in Seq(S), NEW e \in S, NEW a
    PROVE  Contains(Append(q, e), a) <=> Contains(q, a) \/ a = e
  <1>1. PICK n \in Nat : n = Len(q)
    BY LenProperties
  <1>2. /\ Len(Append(q, e)) = n + 1 /\ Append(q, e)[n + 1] = e
        /\ \A i \in 1..n : Append(q, e)[i] = q[i]
    BY <1>1, AppendFacts
  <1>3. \A i \in 1..n + 1 : i \in 1..n \/ i = n + 1
    OBVIOUS
  <1>4. n + 1 \in 1..n + 1 /\ \A i \in 1..n : i \in 1..n + 1
    OBVIOUS
  <1> QED BY <1>1, <1>2, <1>3, <1>4 DEF Contains

\* of a shorter one,
LEMMA ContainsFront ==
    ASSUME NEW S, NEW q \in Seq(S), q # << >>, NEW a
    PROVE  Contains(q, a) <=> Contains(Front(q), a) \/ a = Last(q)
  <1>1. PICK n \in Nat : n = Len(q) /\ n >= 1
    BY FrontLast
  <1>2. Len(Front(q)) = n - 1 /\ Last(q) = q[n] /\ \A i \in 1..n - 1 : Front(q)[i] = q[i]
    BY <1>1, FrontLast
  <1>3. /\ \A i \in 1..n : i \in 1..n - 1 \/ i = n
        /\ n \in 1..n /\ \A i \in 1..n - 1 : i \in 1..n
    BY <1>1
  <1> QED BY <1>1, <1>2, <1>3 DEF Contains

\* and of the list without one section.
LEMMA ContainsUnlinked ==
    ASSUME NEW S, NEW l \in Seq(S), NEW s, NEW u, u # s
    PROVE  Contains(l, u) <=> Contains(Unlinked(l, s), u)
  <1>1. CASE Contains(l, s)
    <2>1. PICK k \in 1..Len(l) : /\ l[k] = s
                                 /\ Len(Unlinked(l, s)) = Len(l) - 1
                                 /\ \A i \in 1..Len(l) - 1 :
                                        Unlinked(l, s)[i] = IF i < k THEN l[i] ELSE l[i + 1]
      BY <1>1, UnlinkedFacts
    <2>2. PICK n \in Nat : n = Len(l)
      BY LenProperties
    <2>3. ASSUME NEW i \in 1..n, l[i] = u PROVE Contains(Unlinked(l, s), u)
      <3>1. CASE i < k
        <4>1. i \in 1..n - 1
          BY <2>1, <2>2, <3>1
        <4>2. Unlinked(l, s)[i] = u
          BY <2>1, <2>2, <2>3, <3>1, <4>1
        <4> QED BY <2>1, <2>2, <4>1, <4>2 DEF Contains
      <3>2. CASE i > k
        <4>1. i - 1 \in 1..n - 1 /\ ~(i - 1 < k) /\ (i - 1) + 1 = i
          BY <2>1, <2>2, <3>2
        <4>2. Unlinked(l, s)[i - 1] = u
          BY <2>1, <2>2, <2>3, <4>1
        <4> QED BY <2>1, <2>2, <4>1, <4>2 DEF Contains
      <3> QED BY <2>1, <2>2, <2>3, <3>1, <3>2
    <2>4. ASSUME NEW i \in 1..n - 1, Unlinked(l, s)[i] = u PROVE Contains(l, u)
      <3>1. i \in 1..n /\ i + 1 \in 1..n
        BY <2>2
      <3>2. l[i] = u \/ l[i + 1] = u
        BY <2>1, <2>2, <2>4
      <3> QED BY <2>2, <3>1, <3>2 DEF Contains
    <2> QED BY <2>1, <2>2, <2>3, <2>4 DEF Contains
  <1>2. CASE ~Contains(l, s)
    BY <1>2, UnlinkedFacts
  <1> QED BY <1>1, <1>2

\* A new label may be appended,
LEMMA NoTwiceAppend ==
    ASSUME NEW q \in Seq(Atom), NEW a \in Atom, NoTwice(q), a.t # "label" \/ ~Contains(q, a)
    PROVE  NoTwice(Append(q, a))
  <1>1. PICK n \in Nat : n = Len(q)
    BY LenProperties
  <1>2. /\ Len(Append(q, a)) = n + 1 /\ Append(q, a)[n + 1] = a
        /\ \A i \in 1..n : Append(q, a)[i] = q[i]
    BY <1>1, AppendFacts
  <1>3. \A i \in 1..n + 1 : i \in 1..n \/ i = n + 1
    OBVIOUS
  <1>4. \A i \in 1..n : q[i] = a => a.t # "label"
    BY <1>1 DEF Contains
  <1> QED BY <1>1, <1>2, <1>3, <1>4 DEF NoTwice

\* and what is taken off is not left behind.
LEMMA NoTwiceFront ==
    ASSUME NEW q \in Seq(Atom), q # << >>, NoTwice(q)
    PROVE  NoTwice(Front(q)) /\ (Last(q).t = "label" => ~Contains(Front(q), Last(q)))
  <1>1. PICK n \in Nat : n = Len(q) /\ n >= 1
    BY FrontLast
  <1>2. Len(Front(q)) = n - 1 /\ Last(q) = q[n] /\ \A i \in 1..n - 1 : Front(q)[i] = q[i]
    BY <1>1, FrontLast
  <1>3. /\ \A i \in 1..n - 1 : i \in 1..n /\ i # n
        /\ n \in 1..n
    BY <1>1
  <1> QED BY <1>1, <1>2, <1>3 DEF Contains, NoTwice

\* A new section is always linked: the list is only empty before the first one.
LEMMA ListNotEmpty ==
    ASSUME OInv, list = << >> PROVE Len(secs) = 0 /\ secs = << >>
  <1>1. ~Contains(list, current) /\ \A s : ~Contains(list, s)
    BY EmptySeq DEF Contains
  <1>2. Len(secs) \in Nat /\ secs \in Seq(Section)
    BY SequenceTypes DEF OInv, SInv, TypeOK
  <1>3. Len(secs) = 0
    <2>1. SUFFICES ASSUME Len(secs) > 0 PROVE FALSE
      BY <1>2
    <2>2. 1 \in 1..Len(secs)
      BY <1>2, <2>1
    <2>3. Listing
      BY DEF OInv
    <2>4. CASE "label" \in directives
      BY <1>1, <2>1, <2>3, <2>4 DEF Listing
    <2>5. CASE "label" \notin directives
      BY <1>1, <2>2, <2>3, <2>5 DEF Listing
    <2> QED BY <2>4, <2>5
  <1>4. secs = << >>
    BY <1>2, <1>3, EmptySeq
  <1> QED BY <1>3, <1>4

\* new_section keeps what the sections hold: a new one takes the assertions of
\* the container.
LEMMA MadeKeeps ==
    ASSUME OInv, NEW r, Found(r) \/ Created(r), r.secs \in Seq(Section)
    PROVE  /\ Contents(r.secs, r.list, r.container, labsec)
           /\ Contains(r.list, r.sec) /\ r.sec \in 1..Len(r.secs)
           /\ \A u : Contains(list, u) => Contains(r.list, u)
           /\ "label" \notin directives => \A s \in 1..Len(r.secs) : Contains(r.list, s)
  <1>1. CASE Found(r)
    <2>1. Contents(secs, list, container, labsec) /\ Listing
      BY DEF OInv
    <2>2. /\ r.sec \in 1..Len(secs) /\ Contains(list, r.sec)
          /\ r.secs = secs /\ r.list = list /\ r.container = container
      BY <1>1 DEF Found
    <2>3. "label" \notin directives => \A s \in 1..Len(secs) : Contains(list, s)
      BY <2>1 DEF Listing
    <2> QED BY <2>1, <2>2, <2>3
  <1>2. CASE Created(r)
    <2>t. TypeOK /\ Contents(secs, list, container, labsec)
      BY DEF OInv, SInv
    <2>1. PICK n \in Nat : n = Len(secs)
      BY <2>t, SequenceTypes
    <2>2. /\ r.sec = n + 1 /\ r.container = << >> /\ Len(r.secs) = n + 1
          /\ \A i \in 1..n : r.secs[i] = secs[i]
          /\ r.secs[n + 1].atoms = container
      BY <1>2, <2>1 DEF Created
    <2>3. r.list = Append(list, n + 1)
      BY <1>2, <2>1, <2>2, ListNotEmpty DEF Created, Link
    <2>4. \A i \in 1..n + 1 : i \in 1..n \/ i = n + 1
      OBVIOUS
    <2>5. n + 1 \in 1..n + 1 /\ n + 1 \notin 1..n /\ \A i \in 1..n : i \in 1..n + 1
      OBVIOUS
    <2>6. \A u : Contains(r.list, u) <=> Contains(list, u) \/ u = n + 1
      <3>1. list \in Seq(Nat)
        <4>1. 1..Len(secs) \subseteq Nat
          BY <2>1
        <4>2. list \in Seq(1..Len(secs))
          BY <2>t DEF TypeOK
        <4> QED BY <4>1, <4>2, SeqMonotonic
      <3> QED BY <2>3, <3>1, ContainsAppend
    <2>7. \A a : ~Contains(r.container, a)
      BY <2>2, EmptySeq DEF Contains
    <2>8. \A x \in Labels : Label(x) \in Atom /\ Label(x).t # "assert"
      BY DEF Label, Atom
    <2>9. Placed(r.secs, labsec)
      <3>1. ASSUME NEW x \in Labels, NEW s \in 1..n + 1
            PROVE  Contains(r.secs[s].atoms, Label(x)) <=> labsec[x] = s
        <4>1. CASE s \in 1..n
          BY <2>1, <2>2, <2>t, <4>1 DEF Contents, Placed
        <4>2. CASE s = n + 1
          <5>1. ~Contains(container, Label(x))
            BY <2>8, <2>t DEF Contents, Waiting
          <5>2. labsec[x] \in 0..n
            BY <2>1, <2>t DEF TypeOK
          <5> QED BY <2>2, <4>2, <5>1, <5>2
        <4> QED BY <2>4, <4>1, <4>2
      <3> QED BY <2>2, <3>1 DEF Placed
    <2>10. Single(r.secs)
      <3>1. NoTwice(container)
        <4>1. ASSUME NEW i \in 1..Len(container) PROVE container[i].t = "assert"
          <5>1. container[i] \in Atom
            BY <2>t, ElementOfSeq DEF TypeOK
          <5> QED BY <2>t, <5>1 DEF Contents, Waiting, Contains
        <4> QED BY <4>1 DEF NoTwice
      <3>2. \A s \in 1..n : NoTwice(r.secs[s].atoms)
        BY <2>1, <2>2, <2>t DEF Contents, Single
      <3> QED BY <2>2, <2>4, <3>1, <3>2 DEF Single
    <2>11. Unlisted(r.secs, r.list)
      <3>1. ASSUME NEW s \in 1..n + 1, NEW a \in Atom, ~Contains(r.list, s), Contains(r.secs[s].atoms, a)
            PROVE  a.t = "assert"
        <4>1. s \in 1..n /\ ~Contains(list, s)
          BY <2>4, <2>6, <3>1
        <4> QED BY <2>1, <2>2, <2>t, <3>1, <4>1 DEF Contents, Unlisted
      <3> QED BY <2>2, <3>1 DEF Unlisted
    <2>12. Waiting(r.secs, r.container)
      BY <2>7 DEF Waiting
    <2>13. Once(r.secs)
      <3>1. ASSUME NEW a \in Atom, NEW s \in 1..n + 1, NEW u \in 1..n + 1,
                   a.t = "assert", Contains(r.secs[s].atoms, a)
            PROVE  a.id <= natoms /\ (Contains(r.secs[u].atoms, a) => s = u)
        <4>1. CASE s \in 1..n /\ u \in 1..n
          BY <2>1, <2>2, <2>t, <3>1, <4>1 DEF Contents, Once
        <4>2. CASE s \in 1..n /\ u = n + 1
          <5>1. Contains(secs[s].atoms, a) /\ a.id <= natoms
            BY <2>1, <2>2, <2>t, <3>1, <4>2 DEF Contents, Once
          <5>2. ~Contains(container, a)
            BY <2>1, <2>t, <4>2, <5>1 DEF Contents, Waiting
          <5> QED BY <2>2, <4>2, <5>1, <5>2
        <4>3. CASE s = n + 1 /\ u \in 1..n
          <5>1. Contains(container, a)
            BY <2>2, <3>1, <4>3
          <5>2. a.id <= natoms /\ ~Contains(secs[u].atoms, a)
            BY <2>1, <2>t, <4>3, <5>1 DEF Contents, Waiting
          <5> QED BY <2>2, <4>3, <5>2
        <4>4. CASE s = n + 1 /\ u = n + 1
          <5>1. Contains(container, a)
            BY <2>2, <3>1, <4>4
          <5> QED BY <2>t, <4>4, <5>1 DEF Contents, Waiting
        <4> QED BY <2>4, <4>1, <4>2, <4>3, <4>4
      <3> QED BY <2>2, <3>1 DEF Once
    <2>14. NoAsserts(r.secs, r.container)
      <3>1. ASSUME "assert" \notin directives, NEW a \in Atom, a.t = "assert", NEW s \in 1..n + 1
            PROVE  ~Contains(r.secs[s].atoms, a)
        <4>1. CASE s \in 1..n
          BY <2>1, <2>2, <2>t, <3>1, <4>1 DEF Contents, NoAsserts
        <4>2. CASE s = n + 1
          BY <2>2, <2>t, <3>1, <4>2 DEF Contents, NoAsserts
        <4> QED BY <2>4, <4>1, <4>2
      <3> QED BY <2>2, <2>7, <3>1 DEF NoAsserts
    <2>15. "label" \notin directives => \A s \in 1..n + 1 : Contains(r.list, s)
      <3>1. "label" \notin directives => \A s \in 1..n : Contains(list, s)
        BY <2>1 DEF OInv, Listing
      <3> QED BY <2>4, <2>6, <3>1
    <2>16. Contents(r.secs, r.list, r.container, labsec)
      BY <2>9, <2>10, <2>11, <2>12, <2>13, <2>14 DEF Contents
    <2> QED BY <2>2, <2>5, <2>6, <2>15, <2>16
  <1> QED BY <1>1, <1>2

\* There are three kinds of atoms.
LEMMA AtomKinds == \A a \in Atom : a.t \in {"label", "data", "assert"}
  BY DEF Atom

\* A label that moves leaves nothing of itself behind, and a section that is
\* removed for it holds assertions only.
LEMMA MoveKeeps ==
    ASSUME SInv, NEW ss, NEW l, Before(ss, l), NEW s, NEW lab, Moved(s, ss, l, lab),
           Contents(ss, l, container', labsec), Contains(l, s), Contains(l, current),
           UNCHANGED << natoms, directives >>
    PROVE  /\ Contents(secs, list, container, labsec)' /\ Contains(list', s)
           /\ \A a \in Atom : a.t # "label" /\ Held(ss, container', a) => Held(secs', container', a)
  <1> DEFINE q == secs[current].atoms
  <1>1. /\ current \in 1..Len(ss) /\ s \in 1..Len(ss) /\ s # current /\ current \in 1..Len(secs)
        /\ lab = Last(q) /\ lab \in Atom /\ lab.t = "label" /\ lab.id \in Labels /\ q # << >>
        /\ Len(secs') = Len(ss)
        /\ \A i \in 1..Len(ss) : i \notin {current, s} => secs'[i] = ss[i]
        /\ secs'[current].atoms = Front(q)
        /\ secs'[s].atoms = Append(ss[s].atoms, lab)
        /\ labsec' = [labsec EXCEPT ![lab.id] = s]
        /\ list' = IF Deletable(current) THEN Unlinked(l, current) ELSE l
    BY SequenceTypes, LenProperties DEF Moved, Before, SInv
  <1>2. q \in Seq(Atom) /\ ss[current] = secs[current] /\ ss[s].atoms \in Seq(Atom)
    <2>1. ss[s] \in Section
      BY <1>1, ElementOfSeq DEF Before
    <2> QED BY <1>1, <2>1, SequenceTypes DEF SInv, Before, Section
  <1>3. lab = Label(lab.id) /\ \A x \in Labels : Label(x) = lab <=> x = lab.id
    BY <1>1, LabelAtom DEF Label
  <1>4. Contains(ss[current].atoms, lab) /\ NoTwice(q)
    BY <1>1, <1>2, ContainsFront DEF Contents, Single
  <1>5. labsec[lab.id] = current
    BY <1>1, <1>3, <1>4 DEF Contents, Placed
  <1>6. \A i \in 1..Len(ss) : Contains(ss[i].atoms, lab) <=> i = current
    BY <1>1, <1>3, <1>5 DEF Contents, Placed
  <1> HIDE DEF q
  <1>7. \A a \in Atom : Contains(ss[current].atoms, a) <=> Contains(Front(q), a) \/ a = lab
    BY <1>1, <1>2, ContainsFront DEF q
  <1>8. \A a \in Atom : Contains(secs'[s].atoms, a) <=> Contains(ss[s].atoms, a) \/ a = lab
    BY <1>1, <1>2, ContainsAppend
  <1>9. ~Contains(Front(q), lab) /\ NoTwice(Front(q))
    BY <1>1, <1>2, <1>4, NoTwiceFront
  <1>10. \A i \in 1..Len(ss) : \A a \in Atom :
            a # lab => (Contains(secs'[i].atoms, a) <=> Contains(ss[i].atoms, a))
    BY <1>1, <1>7, <1>8
  <1>11. \A i \in 1..Len(ss) : Contains(secs'[i].atoms, lab) <=> i = s
    BY <1>1, <1>6, <1>8, <1>9
  <1>12. Placed(secs', labsec')
    <2>1. ASSUME NEW x \in Labels, NEW i \in 1..Len(ss)
          PROVE  Contains(secs'[i].atoms, Label(x)) <=> labsec'[x] = i
      <3>1. Label(x) \in Atom /\ labsec \in [Labels -> 0..Len(secs)]
        BY DEF Label, Atom, SInv, TypeOK
      <3>2. CASE x = lab.id
        BY <1>1, <1>3, <1>11, <3>1, <3>2
      <3>3. CASE x # lab.id
        BY <1>1, <1>3, <1>10, <3>1, <3>3 DEF Contents, Placed
      <3> QED BY <3>2, <3>3
    <2> QED BY <1>1, <2>1 DEF Placed
  <1>13. Single(secs')
    <2>1. ASSUME NEW i \in 1..Len(ss) PROVE NoTwice(secs'[i].atoms)
      <3>1. CASE i = current
        BY <1>1, <1>9, <3>1
      <3>2. CASE i = s
        <4>1. NoTwice(ss[s].atoms) /\ ~Contains(ss[s].atoms, lab)
          BY <1>1, <1>6 DEF Contents, Single
        <4> QED BY <1>1, <1>2, <3>2, <4>1, NoTwiceAppend
      <3>3. CASE i \notin {current, s}
        BY <1>1, <3>3 DEF Contents, Single
      <3> QED BY <3>1, <3>2, <3>3
    <2> QED BY <1>1, <2>1 DEF Single
  <1>14. \A u : u # current => (Contains(l, u) <=> Contains(list', u))
    BY <1>1, ContainsUnlinked DEF Before
  <1>15. Unlisted(secs', list')
    <2>1. ASSUME NEW i \in 1..Len(ss), NEW a \in Atom, ~Contains(list', i), Contains(secs'[i].atoms, a)
          PROVE  a.t = "assert"
      <3>1. CASE i # current
        <4>1. ~Contains(l, i) /\ i # s
          BY <1>14, <2>1, <3>1
        <4>2. a # lab /\ Contains(ss[i].atoms, a)
          BY <1>10, <1>11, <2>1, <4>1
        <4> QED BY <4>1, <4>2 DEF Contents, Unlisted
      <3>2. CASE i = current
        <4>1. Deletable(current)
          BY <1>1, <2>1, <3>2
        <4>2. \A k \in 1..Len(q) - 1 : q[k].t \notin {"label", "data"}
          BY <4>1 DEF Deletable, q
        <4>3. Contains(Front(q), a)
          BY <1>1, <2>1, <3>2
        <4>4. Len(Front(q)) = Len(q) - 1 /\ \A k \in 1..Len(q) - 1 : Front(q)[k] = q[k]
          BY <1>1, <1>2, FrontLast
        <4>5. a.t \notin {"label", "data"}
          BY <4>2, <4>3, <4>4 DEF Contains
        <4> QED BY <4>5, AtomKinds
      <3> QED BY <3>1, <3>2
    <2> QED BY <1>1, <2>1 DEF Unlisted
  <1>16. Waiting(secs, container)'
    BY <1>1, <1>10 DEF Contents, Waiting
  <1>17. Once(secs)'
    BY <1>1, <1>10 DEF Contents, Once
  <1>18. NoAsserts(secs, container)'
    BY <1>1, <1>10 DEF Contents, NoAsserts
  <1>19. Contents(secs, list, container, labsec)'
    BY <1>12, <1>13, <1>15, <1>16, <1>17, <1>18 DEF Contents, Placed, Single, Unlisted
  <1>20. \A a \in Atom : a.t # "label" /\ Held(ss, container', a) => Held(secs', container', a)
    BY <1>1, <1>10 DEF Held
  <1> QED BY <1>1, <1>14, <1>19, <1>20

\* An atom that is added: a label that was not defined, data, or an assertion
\* with a number of its own.
LEMMA AddContents ==
    ASSUME NEW a \in Atom, NEW s, NEW ss, Added(a, s, ss), UNCHANGED directives,
           Contents(ss, list', container', labsec), Contains(list', s),
           natoms \in Nat, natoms' \in Nat, natoms' >= natoms, a.t = "assert" => a.id = natoms' /\ natoms' > natoms,
           a.t = "assert" => "assert" \in directives,
           a.t # "label" => labsec' = labsec,
           a.t = "label" => /\ labsec \in [Labels -> Nat] /\ labsec[a.id] = 0
                            /\ labsec' = [labsec EXCEPT ![a.id] = s],
           \A b \in Atom : b.t = "assert" => b.id \in Nat,
           0 \notin 1..Len(ss)
    PROVE  Contents(secs, list, container, labsec)'
  <1>1. /\ s \in 1..Len(ss) /\ Len(secs') = Len(ss)
        /\ \A i \in 1..Len(ss) : i # s => secs'[i] = ss[i]
        /\ ss[s].atoms \in Seq(Atom) /\ secs'[s].atoms = Append(ss[s].atoms, a)
    BY DEF Added
  <1>2. \A b \in Atom : Contains(secs'[s].atoms, b) <=> Contains(ss[s].atoms, b) \/ b = a
    BY <1>1, ContainsAppend
  <1>3. \A i \in 1..Len(ss) : \A b \in Atom : b # a => (Contains(secs'[i].atoms, b) <=> Contains(ss[i].atoms, b))
    BY <1>1, <1>2
  <1>4. a.t = "label" => a.id \in Labels /\ a = Label(a.id) /\ \A i \in 1..Len(ss) : ~Contains(ss[i].atoms, a)
    BY LabelAtom DEF Contents, Placed
  <1>5. \A x \in Labels : Label(x) \in Atom /\ Label(x).t = "label" /\ Label(x).id = x
    BY DEF Label, Atom
  <1>6. Placed(secs', labsec')
    <2>1. ASSUME NEW x \in Labels, NEW i \in 1..Len(ss)
          PROVE  Contains(secs'[i].atoms, Label(x)) <=> labsec'[x] = i
      <3>1. CASE Label(x) = a
        <4>1. a.t = "label" /\ a.id = x
          BY <1>5, <3>1
        <4>2. labsec'[x] = s
          BY <4>1
        <4>3. Contains(secs'[i].atoms, a) <=> i = s
          BY <1>1, <1>2, <1>4, <4>1
        <4> QED BY <3>1, <4>2, <4>3
      <3>2. CASE Label(x) # a
        <4>1. labsec'[x] = labsec[x]
          BY <1>4, <1>5, <3>2
        <4>2. Contains(secs'[i].atoms, Label(x)) <=> Contains(ss[i].atoms, Label(x))
          BY <1>3, <1>5, <3>2
        <4> QED BY <4>1, <4>2 DEF Contents, Placed
      <3> QED BY <3>1, <3>2
    <2> QED BY <1>1, <2>1 DEF Placed
  <1>7. Single(secs')
    <2>1. NoTwice(secs'[s].atoms)
      <3>1. NoTwice(ss[s].atoms)
        BY <1>1 DEF Contents, Single
      <3> QED BY <1>1, <1>4, <3>1, NoTwiceAppend
    <2>2. \A i \in 1..Len(ss) : i # s => NoTwice(secs'[i].atoms)
      BY <1>1 DEF Contents, Single
    <2> QED BY <1>1, <2>1, <2>2 DEF Single
  <1>8. Unlisted(secs', list')
    <2>1. ASSUME NEW i \in 1..Len(ss), NEW b \in Atom, ~Contains(list', i), Contains(secs'[i].atoms, b)
          PROVE  b.t = "assert"
      <3>1. i # s /\ Contains(ss[i].atoms, b)
        BY <1>1, <2>1
      <3> QED BY <2>1, <3>1 DEF Contents, Unlisted
    <2> QED BY <1>1, <2>1 DEF Unlisted
  <1>9. \A i \in 1..Len(ss) : a.t = "assert" => ~Contains(ss[i].atoms, a) /\ ~Contains(container', a)
    BY DEF Contents, Once, Waiting
  <1>10. Waiting(secs, container)'
    <2>1. ASSUME NEW b \in Atom, Contains(container', b)
          PROVE  b.t = "assert" /\ b.id <= natoms' /\ \A i \in 1..Len(ss) : ~Contains(secs'[i].atoms, b)
      <3>1. b.t = "assert" /\ b.id <= natoms /\ \A i \in 1..Len(ss) : ~Contains(ss[i].atoms, b)
        BY <2>1 DEF Contents, Waiting
      <3>2. b # a
        BY <1>1, <1>9, <2>1, <3>1
      <3>3. b.id <= natoms'
        BY <3>1
      <3> QED BY <1>3, <3>1, <3>2, <3>3
    <2> QED BY <1>1, <2>1 DEF Waiting
  <1>11. Once(secs)'
    <2>1. ASSUME NEW b \in Atom, NEW i \in 1..Len(ss), NEW u \in 1..Len(ss),
                 b.t = "assert", Contains(secs'[i].atoms, b)
          PROVE  b.id <= natoms' /\ (Contains(secs'[u].atoms, b) => i = u)
      <3>1. CASE b = a
        <4>1. \A k \in 1..Len(ss) : Contains(secs'[k].atoms, a) => k = s
          BY <1>1, <1>9, <2>1, <3>1
        <4> QED BY <2>1, <3>1, <4>1
      <3>2. CASE b # a
        <4>1. Contains(ss[i].atoms, b) /\ (Contains(secs'[u].atoms, b) => Contains(ss[u].atoms, b))
          BY <1>3, <2>1, <3>2
        <4>2. b.id <= natoms /\ (Contains(ss[u].atoms, b) => i = u)
          BY <2>1, <4>1 DEF Contents, Once
        <4>3. b.id <= natoms'
          BY <2>1, <4>2
        <4> QED BY <4>1, <4>2, <4>3
      <3> QED BY <3>1, <3>2
    <2> QED BY <1>1, <2>1 DEF Once
  <1>12. NoAsserts(secs, container)'
    BY <1>1, <1>3 DEF Contents, NoAsserts
  <1> QED BY <1>6, <1>7, <1>8, <1>10, <1>11, <1>12 DEF Contents, Placed, Single, Unlisted

\* A switch moves a label with its section and removes only what is empty.
LEMMA SwitchContents ==
    ASSUME OInv, NEW name, NEW r, Made(r, name), NEW e, Clean(e), SwitchTo(r, e),
           UNCHANGED << directives, stack >>, "label" \in directives => UNCHANGED dsect
    PROVE  Contents(secs, list, container, labsec)' /\ Listing' /\ NoInternalError'
  <1> DEFINE s == r.sec
             ss == r.secs
             l == r.list
  <1>1. /\ Before(ss, l) /\ s \in 0..Len(ss) /\ s # 0 /\ ss \in Seq(Section)
        /\ Found(r) \/ Created(r)
    BY DEF Made, Before
  <1>2. /\ set_section(s, ss, l, e) /\ current' = s
        /\ container' = r.container /\ fresh' = FALSE /\ UNCHANGED natoms
    BY DEF SwitchTo, EndLine, set_section
  <1>3. /\ Contents(ss, l, container', labsec) /\ Contains(l, s)
        /\ \A u : Contains(list, u) => Contains(l, u)
        /\ "label" \notin directives => \A u \in 1..Len(ss) : Contains(l, u)
    BY <1>1, <1>2, MadeKeeps
  <1> HIDE DEF s, ss, l
  <1>4. SInv /\ Listing
    BY DEF OInv
  <1>5. CASE LabelMoves(s) /\ ss[s].abs = ss[current].abs
    <2>1. "label" \in directives /\ Contains(list, current)
      BY <1>4, <1>5 DEF LabelMoves, Listing
    <2>2. Contains(l, current)
      BY <1>3, <2>1
    <2>3. PICK lab : lab = Last(secs[current].atoms)
      OBVIOUS
    <2>4. Moved(s, ss, l, lab)
      BY <1>1, <1>2, <1>4, <1>5, <2>3, MoveLabel
    <2>5. Contents(secs, list, container, labsec)' /\ Contains(list', s)
      BY <1>1, <1>2, <1>3, <1>4, <2>2, <2>4, MoveKeeps
    <2>6. Listing'
      BY <1>1, <1>2, <1>4, <2>1, <2>5 DEF Listing
    <2>7. errors' = e
      BY <1>2, <1>5, <2>2 DEF set_section
    <2> QED BY <2>5, <2>6, <2>7 DEF NoInternalError, Clean
  <1>6. CASE ~(LabelMoves(s) /\ ss[s].abs = ss[current].abs)
    <2>1. /\ secs' = ss /\ list' = l /\ UNCHANGED labsec
          /\ errors' \subseteq e \cup {"label not allowed here"}
      BY <1>2, <1>6 DEF set_section
    <2>2. Contents(secs, list, container, labsec)'
      BY <1>2, <1>3, <2>1 DEF Contents, Placed, Single, Unlisted, Waiting, Once, NoAsserts
    <2>3. Listing'
      <3>1. CASE "label" \in directives
        BY <1>1, <1>2, <1>3, <1>4, <2>1, <3>1 DEF Listing
      <3>2. CASE "label" \notin directives
        BY <1>2, <1>3, <1>4, <2>1, <3>2 DEF Listing
      <3> QED BY <3>1, <3>2
    <2> QED BY <2>1, <2>2, <2>3 DEF NoInternalError, Clean
  <1> QED BY <1>5, <1>6

\* The section that add_atom uses is in the list.
LEMMA DefaultContents ==
    ASSUME OInv, NEW d, d = default_section
    PROVE  /\ Contents(d.secs, d.list, d.container, labsec) /\ Contains(d.list, d.sec)
           /\ "label" \notin directives => \A u \in 1..Len(d.secs) : Contains(d.list, u)
  <1>1. SInv /\ Contents(secs, list, container, labsec) /\ Listing
    BY DEF OInv
  <1>2. /\ d.secs \in Seq(Section) /\ d.sec \in 1..Len(d.secs)
        /\ current # 0 => d.sec = current /\ d.secs = secs /\ d.list = list /\ d.container = container
        /\ current = 0 => Found(d) \/ Created(d)
    BY <1>1, DefaultSection DEF Before
  <1>3. CASE current = 0
    BY <1>2, <1>3, MadeKeeps
  <1>4. CASE current # 0
    <2>1. Contains(list, current)
      BY <1>1, <1>2, <1>4 DEF Listing
    <2>2. "label" \notin directives => \A u \in 1..Len(secs) : Contains(list, u)
      BY <1>1 DEF Listing
    <2> QED BY <1>1, <1>2, <1>4, <2>1, <2>2
  <1> QED BY <1>3, <1>4

\* A line that adds an atom.
LEMMA AddLine ==
    ASSUME OInv, NEW a \in Atom, AddAtom(a), UNCHANGED << directives, stack, dsect, errors >>,
           natoms' \in Nat, natoms' >= natoms, a.t = "assert" => a.id = natoms' /\ natoms' > natoms,
           a.t = "assert" => "assert" \in directives,
           a.t # "label" => labsec' = labsec /\ fresh' = FALSE,
           a.t = "label" => /\ "label" \in directives /\ labsec[a.id] = 0
                            /\ labsec' = [labsec EXCEPT ![a.id] = default_section.sec]
    PROVE  Contents(secs, list, container, labsec)' /\ Listing' /\ NoInternalError'
  <1>1. PICK d : d = default_section
    OBVIOUS
  <1>2. SInv /\ Listing /\ NoInternalError
    BY DEF OInv
  <1>3. Added(a, d.sec, d.secs) /\ list' = d.list /\ container' = d.container
    BY <1>1, <1>2, AddAtomAdds
  <1>4. /\ Contents(d.secs, d.list, d.container, labsec) /\ Contains(d.list, d.sec)
        /\ "label" \notin directives => \A u \in 1..Len(d.secs) : Contains(d.list, u)
    BY <1>1, DefaultContents
  <1>5. natoms \in Nat /\ labsec \in [Labels -> 0..Len(secs)] /\ Len(secs) \in Nat
    BY <1>2, SequenceTypes, SectionsAssumption DEF SInv, TypeOK
  <1>6. labsec \in [Labels -> Nat] /\ 0 \notin 1..Len(d.secs)
    BY <1>5
  <1>7. \A b \in Atom : b.t = "assert" => b.id \in Nat
    BY SectionsAssumption DEF Atom
  <1>8. Contents(secs, list, container, labsec)'
    BY <1>1, <1>3, <1>4, <1>5, <1>6, <1>7, AddContents
  <1>9. /\ current' = d.sec /\ Contains(list', current') /\ current' # 0 /\ Len(secs') = Len(d.secs)
    BY <1>3, <1>4, <1>6 DEF Added
  <1>10. Listing'
    <2>1. CASE "label" \in directives
      BY <1>2, <1>9, <2>1 DEF Listing
    <2>2. CASE "label" \notin directives
      BY <1>2, <1>3, <1>4, <1>9, <2>2, AtomKinds DEF Listing
    <2> QED BY <2>1, <2>2
  <1> QED BY <1>2, <1>8, <1>10 DEF NoInternalError

\* Nothing is placed at first.
LEMMA OInvInit == Init => OInv
  <1> SUFFICES ASSUME Init PROVE OInv
    OBVIOUS
  <1>1. SInv
    BY SInvInit
  <1>2. Len(secs) = 0 /\ \A s : s \notin 1..Len(secs)
    BY EmptySeq DEF Init
  <1>3. \A a : ~Contains(container, a)
    BY EmptySeq DEF Init, Contains
  <1>4. Contents(secs, list, container, labsec)
    BY <1>2, <1>3 DEF Contents, Placed, Single, Unlisted, Waiting, Once, NoAsserts
  <1>5. Listing /\ NoInternalError
    BY <1>2 DEF Init, Listing, NoInternalError
  <1> QED BY <1>1, <1>4, <1>5 DEF OInv

\* Every line keeps OInv.
LEMMA OInvNext ==
    ASSUME LabelsStay, OInv, [Next]_vars PROVE OInv'
  <1> DEFINE Goal == Contents(secs, list, container, labsec)' /\ Listing' /\ NoInternalError'
  <1>1. SInv'
    BY SInvNext DEF OInv
  <1>2. /\ SInv /\ TypeOK /\ Contents(secs, list, container, labsec) /\ Listing /\ NoInternalError
        /\ directives \in Sources /\ Clean(errors)
    BY DEF OInv, SInv, TypeOK, NoInternalError, Clean
  <1>n. natoms \in 0..MaxAtoms /\ natoms \in Nat /\ MaxAtoms \in Nat
    BY SectionsAssumption DEF OInv, SInv, TypeOK
  <1> SUFFICES Goal
    BY <1>1 DEF OInv
  <1>3. directives \cap {"pushsection", "popsection", "dsect", "dend"} # {} => "label" \notin directives
    <2>1. directives \in Sources
      BY <1>2
    <2> QED BY <2>1 DEF LabelsStay
  <1>4. ASSUME NEW name, NEW r, Made(r, name), SwitchTo(r, errors), UNCHANGED << directives, stack, dsect >>
        PROVE  Goal
    BY <1>2, <1>4, SwitchContents
  <1>5. ASSUME UNCHANGED << directives, secs, list, container, labsec, natoms >>, "label" \notin directives,
               fresh' = FALSE, Clean(errors')
        PROVE  Goal
    BY <1>2, <1>5 DEF Contents, Placed, Single, Unlisted, Waiting, Once, NoAsserts, Listing, NoInternalError, Clean
  <1>6. ASSUME NEW s, set_section(s, secs, list, errors), "label" \notin directives
        PROVE  UNCHANGED << secs, list, labsec, errors >>
    <2>1. ~LabelMoves(s)
      BY <1>2, <1>6 DEF LabelMoves, Listing
    <2> QED BY <1>6, <2>1 DEF set_section
  <1>7. ASSUME NEW name \in Names, SectionLine(name) PROVE Goal
    <2>1. PICK r : r = new_section(name, 0, FALSE)
      OBVIOUS
    <2>2. Made(r, name)
      BY <1>2, <2>1, NewSection DEF SecName
    <2> QED BY <1>4, <1>7, <2>1, <2>2 DEF SectionLine, Read
  <1>8. CASE OrgLine
    <2>1. PICK r : r = new_org
      OBVIOUS
    <2> QED BY <1>2, <1>4, <1>8, <2>1, NewOrg DEF OrgLine, Read
  <1>9. CASE OldOrgLine
    <2>1. PICK r : r \in {new_org, offset_section(FALSE)} /\ SwitchTo(r, errors)
      BY <1>9 DEF OldOrgLine
    <2>2. PICK name : Made(r, name)
      BY <1>2, <2>1, NewOrg, OffsetSection
    <2> QED BY <1>4, <1>9, <2>1, <2>2 DEF OldOrgLine, Read
  <1>10. CASE OffsetLine
    <2>1. PICK again \in BOOLEAN : SwitchTo(offset_section(again), errors)
      BY <1>10 DEF OffsetLine
    <2>2. PICK r : r = offset_section(again)
      OBVIOUS
    <2> QED BY <1>2, <1>4, <1>10, <2>1, <2>2, OffsetSection DEF OffsetLine, Read
  <1>11. CASE PushSection
    <2>1. /\ UNCHANGED << directives, secs, list, container, labsec, natoms >> /\ fresh' = FALSE
          /\ "pushsection" \in directives
          /\ errors' \subseteq errors \cup {"no current section", "section stack overflow"}
      BY <1>11 DEF PushSection, Read, EndLine, Fail
    <2> QED BY <1>2, <1>3, <1>5, <2>1 DEF Clean
  <1>12. CASE PopSection
    <2>1. /\ UNCHANGED << directives, container, natoms >> /\ fresh' = FALSE
          /\ "popsection" \in directives
      BY <1>12 DEF PopSection, Read, EndLine
    <2>2. CASE stack # << >>
      <3>1. PICK s : set_section(s, secs, list, errors)
        BY <1>12, <2>2 DEF PopSection
      <3> QED BY <1>2, <1>3, <1>5, <1>6, <2>1, <3>1
    <2>3. CASE stack = << >>
      <3>1. UNCHANGED << secs, list, labsec >> /\ errors' \subseteq errors \cup {"section stack empty"}
        BY <1>12, <2>3 DEF PopSection, Fail
      <3> QED BY <1>2, <1>3, <1>5, <2>1, <3>1 DEF Clean
    <2> QED BY <2>2, <2>3
  <1>13. CASE DsectLine
    <2>1. PICK e : SwitchTo(offset_section(FALSE), e) /\ e \subseteq errors \cup {"dsect already active"}
      BY <1>13 DEF DsectLine
    <2>2. UNCHANGED << directives, stack >> /\ "dsect" \in directives
      BY <1>13 DEF DsectLine, Read
    <2>3. PICK r : r = offset_section(FALSE)
      OBVIOUS
    <2>4. Clean(e)
      BY <1>2, <2>1 DEF Clean
    <2> QED BY <1>2, <1>3, <2>1, <2>2, <2>3, <2>4, OffsetSection, SwitchContents
  <1>14. CASE DendLine
    <2>1. /\ UNCHANGED << directives, container, natoms >> /\ fresh' = FALSE /\ "dend" \in directives
      BY <1>14 DEF DendLine, Read, EndLine
    <2>2. CASE set_section(dsect, secs, list, errors)
      <3>1. PICK s : set_section(s, secs, list, errors)
        BY <2>2
      <3> QED BY <1>2, <1>3, <1>5, <1>6, <2>1, <3>1
    <2>3. CASE UNCHANGED << secs, list, labsec >> /\ errors' \subseteq errors \cup {"dend without dsect"}
      BY <1>2, <1>3, <1>5, <2>1, <2>3 DEF Clean
    <2> QED BY <1>14, <2>2, <2>3 DEF DendLine, Fail
  <1>15. ASSUME NEW x \in Labels, LabelLine(x) PROVE Goal
    <2>1. PICK a \in Atom : a = Label(x) /\ a.t = "label" /\ a.id = x
      <3>1. Label(x) \in Atom /\ Label(x).t = "label" /\ Label(x).id = x
        BY DEF Atom, Label
      <3> QED BY <3>1
    <2>2. /\ AddAtom(a) /\ UNCHANGED << directives, stack, dsect, errors, natoms >>
          /\ labsec[a.id] = 0 /\ labsec' = [labsec EXCEPT ![a.id] = default_section.sec]
          /\ "label" \in directives
      BY <1>15, <2>1 DEF LabelLine, Read
    <2>3. natoms' \in Nat /\ natoms' >= natoms
      BY <1>n, <2>2
    <2> QED BY <2>1, <2>2, <2>3, AddLine
  <1>16. CASE DataLine
    <2>1. /\ natoms < MaxAtoms /\ natoms' = natoms + 1 /\ AddAtom([t |-> "data", id |-> natoms'])
          /\ fresh' = FALSE /\ UNCHANGED << directives, stack, dsect, labsec, errors >>
      BY <1>16 DEF DataLine, Read, EndLine
    <2>2. natoms' \in 1..MaxAtoms /\ natoms' \in Nat /\ natoms' >= natoms
      BY <1>n, <2>1
    <2>3. PICK a \in Atom : a = [t |-> "data", id |-> natoms'] /\ a.t = "data"
      <3>1. [t |-> "data", id |-> natoms'] \in Atom
        BY <2>2 DEF Atom
      <3> QED BY <3>1
    <2> QED BY <2>1, <2>2, <2>3, AddLine
  <1>17. CASE AssertLine
    <2> DEFINE a == [t |-> "assert", id |-> natoms']
    <2>1. /\ natoms < MaxAtoms /\ natoms' = natoms + 1 /\ "assert" \in directives
          /\ fresh' = FALSE /\ UNCHANGED << directives, stack, dsect, labsec, errors >>
          /\ \/ current = 0 /\ container' = Append(container, a) /\ UNCHANGED << secs, list, current >>
             \/ AddAtom(a)
      BY <1>17 DEF AssertLine, Read, EndLine
    <2>2. natoms' \in 1..MaxAtoms /\ natoms' \in Nat /\ natoms' >= natoms /\ natoms' > natoms
      BY <1>n, <2>1
    <2>3. a \in Atom /\ a.t = "assert" /\ a.id = natoms'
      BY <2>2 DEF Atom
    <2> HIDE DEF a
    <2>4. CASE AddAtom(a)
      BY <2>1, <2>2, <2>3, <2>4, AddLine
    <2>5. CASE container' = Append(container, a) /\ UNCHANGED << secs, list, current >>
      <3>1. \A b : Contains(container', b) <=> Contains(container, b) \/ b = a
        BY <1>2, <2>3, <2>5, ContainsAppend DEF TypeOK
      <3>2. \A b \in Atom : b.t = "assert" => b.id \in Nat
        BY SectionsAssumption DEF Atom
      <3>3. \A i \in 1..Len(secs) : ~Contains(secs[i].atoms, a)
        <4>1. ASSUME NEW i \in 1..Len(secs), Contains(secs[i].atoms, a) PROVE a.id <= natoms
          BY <1>2, <2>3, <4>1 DEF Contents, Once
        <4> QED BY <1>n, <2>2, <2>3, <4>1
      <3>4. Waiting(secs, container)'
        <4>1. ASSUME NEW b \in Atom, Contains(container, b) \/ b = a
              PROVE  /\ b.t = "assert" /\ b.id <= natoms'
                     /\ \A i \in 1..Len(secs) : ~Contains(secs[i].atoms, b)
          <5>1. CASE b = a
            BY <2>2, <2>3, <3>3, <5>1
          <5>2. CASE Contains(container, b)
            <6>1. /\ b.t = "assert" /\ b.id <= natoms
                  /\ \A i \in 1..Len(secs) : ~Contains(secs[i].atoms, b)
              BY <1>2, <5>2 DEF Contents, Waiting
            <6>2. b.id <= natoms'
              BY <1>n, <2>2, <3>2, <6>1
            <6> QED BY <6>1, <6>2
          <5> QED BY <4>1, <5>1, <5>2
        <4> QED BY <2>5, <3>1, <4>1 DEF Waiting
      <3>5. Once(secs)'
        <4>1. ASSUME NEW b \in Atom, NEW i \in 1..Len(secs), NEW u \in 1..Len(secs),
                     b.t = "assert", Contains(secs[i].atoms, b)
              PROVE  b.id <= natoms' /\ (Contains(secs[u].atoms, b) => i = u)
          <5>1. b.id <= natoms /\ (Contains(secs[u].atoms, b) => i = u)
            BY <1>2, <4>1 DEF Contents, Once
          <5>2. b.id <= natoms'
            BY <1>n, <2>2, <3>2, <4>1, <5>1
          <5> QED BY <5>1, <5>2
        <4> QED BY <2>5, <4>1 DEF Once
      <3>6. Contents(secs, list, container, labsec)'
        BY <1>2, <2>1, <2>5, <3>4, <3>5 DEF Contents, Placed, Single, Unlisted, NoAsserts
      <3>7. Listing' /\ NoInternalError'
        BY <1>2, <2>1, <2>5 DEF Listing, NoInternalError
      <3> QED BY <3>6, <3>7
    <2> QED BY <2>1, <2>4, <2>5
  <1>18. CASE BareLabel \/ UNCHANGED vars
    <2>1. UNCHANGED << directives, secs, list, current, stack, dsect, container, labsec, natoms, errors >>
          /\ (fresh' => fresh)
      BY <1>18 DEF BareLabel, EndLine, vars
    <2> QED BY <1>2, <2>1 DEF Contents, Placed, Single, Unlisted, Waiting, Once, NoAsserts, Listing, NoInternalError, Clean
  <1>19. CASE EndOfSource
    <2>1. /\ UNCHANGED << directives, secs, list, current, stack, dsect, container, labsec, natoms, fresh >>
          /\ errors' \subseteq errors \cup {"missing dend"}
      BY <1>19 DEF EndOfSource, Fail
    <2> QED BY <1>2, <2>1 DEF Contents, Placed, Single, Unlisted, Waiting, Once, NoAsserts, Listing, NoInternalError, Clean
  <1> QED
    BY <1>7, <1>8, <1>9, <1>10, <1>11, <1>12, <1>13, <1>14, <1>15, <1>16, <1>17, <1>18, <1>19 DEF Next

\* ToSet and Contains speak of the same members.
LEMMA HoldersListed ==
    ASSUME NEW S, NEW l \in Seq(S), NEW s PROVE s \in ToSet(l) <=> Contains(l, s)
  BY LenProperties DEF ToSet, Contains

\* What the invariant says of the output.
LEMMA OInvComplete == OInv => OutputComplete
  <1> SUFFICES ASSUME OInv PROVE OutputComplete
    OBVIOUS
  <1>1. Contents(secs, list, container, labsec) /\ TypeOK
    BY DEF OInv, SInv
  <1>2. \A s : s \in ToSet(list) <=> Contains(list, s)
    BY <1>1, HoldersListed DEF TypeOK
  <1>3. ASSUME NEW n \in 1..natoms PROVE Holders([t |-> "data", id |-> n]) \subseteq ToSet(list)
    <2> DEFINE a == [t |-> "data", id |-> n]
    <2>1. a \in Atom /\ a.t # "assert"
      BY <1>1, SectionsAssumption DEF Atom, TypeOK
    <2> HIDE DEF a
    <2>2. Holders(a) \subseteq ToSet(list)
      BY <1>1, <1>2, <2>1 DEF Contents, Unlisted, Holders
    <2> QED BY <2>2 DEF a
  <1>4. ASSUME NEW x \in Labels, labsec[x] # 0
        PROVE  labsec[x] \in ToSet(list) /\ Holders(Label(x)) = {labsec[x]}
    <2>1. Label(x) \in Atom /\ Label(x).t # "assert"
      BY DEF Label, Atom
    <2>2. labsec[x] \in 1..Len(secs)
      BY <1>1, <1>4, SequenceTypes DEF TypeOK
    <2>3. Holders(Label(x)) = {labsec[x]}
      BY <1>1, <2>2 DEF Contents, Placed, Holders
    <2>4. Contains(secs[labsec[x]].atoms, Label(x))
      BY <1>1, <2>2 DEF Contents, Placed
    <2> QED BY <1>1, <1>2, <2>1, <2>2, <2>3, <2>4 DEF Contents, Unlisted
  <1> QED BY <1>3, <1>4 DEF OutputComplete

\* No order of section switches loses code or a label, and every label is in
\* the section that its symbol says (set_section, move_label_to_sec and
\* new_section), for sources of any length.
THEOREM SectionsOutputComplete ==
    ASSUME LabelsStay PROVE Spec => []OutputComplete
  <1>1. OInv /\ [Next]_vars => OInv'
    BY OInvNext
  <1> QED BY <1>1, OInvInit, OInvComplete, PTL DEF Spec

\* move_label_to_sec never fails to find the section that it removes.
THEOREM SectionsNoInternalError ==
    ASSUME LabelsStay PROVE Spec => []NoInternalError
  <1>1. OInv /\ [Next]_vars => OInv'
    BY OInvNext
  <1>2. OInv => NoInternalError
    BY DEF OInv
  <1> QED BY <1>1, <1>2, OInvInit, PTL DEF Spec
-----------------------------------------------------------------------------
(* Nothing is dropped: an assertion that no section has yet is waiting      *)

KInv == OInv /\ Kept(secs, container, natoms) /\ First

\* A record is told from others by its fields.
LEMMA OtherAtom ==
    ASSUME NEW a \in Atom, a.t # "label"
    PROVE  a = [t |-> a.t, id |-> a.id] /\ a.t \in {"data", "assert"}
  BY DEF Atom

\* A step that drops no atom and makes none.
LEMMA KeptOn ==
    ASSUME Kept(secs, container, natoms), UNCHANGED natoms,
           \A a \in Atom : a.t # "label" /\ Held(secs, container, a) => Held(secs', container', a)
    PROVE  Kept(secs, container, natoms)'
  BY DEF Kept

\* new_section hands the waiting assertions over.
LEMMA MadeHolds ==
    ASSUME KInv, NEW r, Found(r) \/ Created(r)
    PROVE  /\ \A a : Held(secs, container, a) => Held(r.secs, r.container, a)
           /\ "assert" \in directives => Nothing(r.container)
  <1>1. CASE Found(r)
    <2>1. r.secs = secs /\ r.container = container /\ r.sec \in 1..Len(secs)
      BY <1>1 DEF Found
    <2>2. secs # << >>
      BY <2>1, EmptySeq
    <2> QED BY <2>1, <2>2 DEF KInv, First
  <1>2. CASE Created(r)
    <2>1. PICK n \in Nat : n = Len(secs)
      BY SequenceTypes DEF KInv, OInv, SInv
    <2>2. /\ r.container = << >> /\ Len(r.secs) = n + 1
          /\ \A i \in 1..n : r.secs[i] = secs[i]
          /\ r.secs[n + 1].atoms = container
      BY <1>2, <2>1 DEF Created
    <2>3. n + 1 \in 1..n + 1 /\ \A i \in 1..n : i \in 1..n + 1
      OBVIOUS
    <2>4. Nothing(r.container)
      BY <2>2, EmptySeq DEF Nothing, Contains
    <2> QED BY <2>1, <2>2, <2>3, <2>4 DEF Held
  <1> QED BY <1>1, <1>2

\* A switch drops no atom, and after it there is a current section.
LEMMA SwitchHolds ==
    ASSUME KInv, NEW name, NEW r, Made(r, name), NEW e, SwitchTo(r, e), UNCHANGED directives
    PROVE  Kept(secs, container, natoms)' /\ First'
  <1> DEFINE s == r.sec
             ss == r.secs
             l == r.list
  <1>1. /\ Before(ss, l) /\ s \in 0..Len(ss) /\ s # 0 /\ ss \in Seq(Section)
        /\ Found(r) \/ Created(r)
    BY DEF Made, Before
  <1>2. /\ set_section(s, ss, l, e) /\ current' = s
        /\ container' = r.container /\ UNCHANGED natoms
    BY DEF SwitchTo, set_section
  <1>3. OInv /\ SInv /\ Listing
    BY DEF KInv, OInv
  <1>4. /\ \A a : Held(secs, container, a) => Held(ss, container', a)
        /\ "assert" \in directives => Nothing(container')
    BY <1>1, <1>2, MadeHolds
  <1>5. Contents(ss, l, container', labsec) /\ Contains(l, s) /\ \A u : Contains(list, u) => Contains(l, u)
    BY <1>1, <1>2, <1>3, MadeKeeps
  <1> HIDE DEF s, ss, l
  <1>6. First'
    BY <1>1, <1>2, <1>4 DEF First, Nothing
  <1>7. \A a \in Atom : a.t # "label" /\ Held(ss, container', a) => Held(secs', container', a)
    <2>1. CASE LabelMoves(s) /\ ss[s].abs = ss[current].abs
      <3>1. Contains(l, current)
        BY <1>3, <1>5, <2>1 DEF LabelMoves, Listing
      <3>2. PICK lab : lab = Last(secs[current].atoms)
        OBVIOUS
      <3>3. Moved(s, ss, l, lab)
        BY <1>1, <1>2, <1>3, <2>1, <3>2, MoveLabel
      <3> QED BY <1>1, <1>2, <1>3, <1>5, <3>1, <3>3, MoveKeeps
    <2>2. CASE ~(LabelMoves(s) /\ ss[s].abs = ss[current].abs)
      BY <1>2, <2>2 DEF set_section
    <2> QED BY <2>1, <2>2
  <1>8. \A a \in Atom : a.t # "label" /\ Held(secs, container, a) => Held(secs', container', a)
    BY <1>4, <1>7
  <1> QED BY <1>2, <1>6, <1>8, KeptOn DEF KInv

\* A line that adds an atom drops none.
LEMMA AddHolds ==
    ASSUME KInv, NEW a \in Atom, AddAtom(a), UNCHANGED directives
    PROVE  /\ Held(secs', container', a) /\ First'
           /\ \A b \in Atom : Held(secs, container, b) => Held(secs', container', b)
  <1>1. PICK d : d = default_section
    OBVIOUS
  <1>2. SInv
    BY DEF KInv, OInv
  <1>3. Added(a, d.sec, d.secs) /\ container' = d.container
    BY <1>1, <1>2, AddAtomAdds
  <1>4. /\ d.sec \in 1..Len(d.secs)
        /\ current # 0 => d.secs = secs /\ d.container = container /\ d.sec = current
        /\ current = 0 => Found(d) \/ Created(d)
    BY <1>1, <1>2, DefaultSection
  <1>5. "assert" \in directives => Nothing(d.container)
    <2>1. CASE current = 0
      BY <1>4, <2>1, MadeHolds
    <2>2. CASE current # 0
      <3>1. secs # << >>
        BY <1>4, <2>2, EmptySeq
      <3> QED BY <1>4, <2>2, <3>1 DEF KInv, First
    <2> QED BY <2>1, <2>2
  <1>6. \A b : Held(secs, container, b) => Held(d.secs, d.container, b)
    BY <1>4, MadeHolds
  <1>7. /\ current' = d.sec /\ d.sec # 0 /\ Len(secs') = Len(d.secs)
        /\ \A i \in 1..Len(d.secs) : i # d.sec => secs'[i] = d.secs[i]
        /\ \A b \in Atom : Contains(secs'[d.sec].atoms, b) <=> Contains(d.secs[d.sec].atoms, b) \/ b = a
    BY <1>2, <1>3, <1>4, ContainsAppend, SequenceTypes DEF Added
  <1>8. \A i \in 1..Len(d.secs) : \A b \in Atom :
            Contains(d.secs[i].atoms, b) => Contains(secs'[i].atoms, b)
    BY <1>7
  <1>9. \A b \in Atom : Held(d.secs, d.container, b) => Held(secs', container', b)
    BY <1>3, <1>7, <1>8 DEF Held
  <1>10. Held(secs', container', a)
    BY <1>3, <1>4, <1>7 DEF Held
  <1>11. First'
    BY <1>3, <1>5, <1>7 DEF First, Nothing
  <1> QED BY <1>6, <1>9, <1>10, <1>11

\* An atom that was made and is held, beside those that were.
LEMMA KeptNew ==
    ASSUME Kept(secs, container, natoms), natoms \in Nat, natoms' = natoms + 1,
           NEW a \in Atom, a.t # "label", a.id = natoms', Held(secs', container', a),
           \A b \in Atom : Held(secs, container, b) => Held(secs', container', b)
    PROVE  Kept(secs, container, natoms)'
  <1>1. \A n \in 1..natoms' : n \in 1..natoms \/ n = natoms'
    OBVIOUS
  <1> QED BY <1>1 DEF Kept

LEMMA KInvInit == Init => KInv
  <1> SUFFICES ASSUME Init PROVE KInv
    OBVIOUS
  <1>1. OInv
    BY OInvInit
  <1>2. secs = << >> /\ 1..natoms = {}
    BY DEF Init
  <1> QED BY <1>1, <1>2 DEF KInv, Kept, First

\* Every line keeps KInv.
LEMMA KInvNext ==
    ASSUME LabelsStay, KInv, [Next]_vars PROVE KInv'
  <1> DEFINE Goal == Kept(secs, container, natoms)' /\ First'
  <1>1. OInv'
    BY OInvNext DEF KInv
  <1>2. /\ OInv /\ SInv /\ TypeOK /\ Kept(secs, container, natoms) /\ First
        /\ Len(secs) \in Nat
    BY SequenceTypes DEF KInv, OInv, SInv
  <1>3. natoms \in Nat /\ MaxAtoms \in Nat /\ natoms \in 0..MaxAtoms
    BY <1>2, SectionsAssumption DEF TypeOK
  <1> SUFFICES Goal
    BY <1>1 DEF KInv
  <1>4. "assert" \in directives => directives \cap {"dsect", "dend"} = {}
    BY <1>2, SectionsAssumption DEF TypeOK, MotDirectives, OldDirectives
  <1>5. ASSUME NEW name, NEW r, NEW e, Made(r, name), SwitchTo(r, e), UNCHANGED directives
        PROVE  Goal
    BY <1>5, SwitchHolds
  <1>6. ASSUME UNCHANGED << directives, secs, current, container, natoms >> PROVE Goal
    BY <1>2, <1>6 DEF Kept, Held, First, Nothing
  <1>7. ASSUME NEW s \in 0..Len(secs), set_section(s, secs, list, errors), "label" \notin directives,
               UNCHANGED << directives, container, natoms >>, s = 0 => "assert" \notin directives
        PROVE  Goal
    <2>1. ~LabelMoves(s)
      BY <1>2, <1>7 DEF OInv, Listing, LabelMoves
    <2>2. UNCHANGED secs /\ current' = s
      BY <1>7, <2>1 DEF set_section
    <2>3. s # 0 => secs # << >>
      BY <1>2, <1>7, EmptySeq
    <2>4. First'
      BY <1>2, <1>7, <2>2, <2>3 DEF First, Nothing
    <2> QED BY <1>2, <1>7, <2>2, <2>4 DEF Kept
  <1>8. directives \cap {"pushsection", "popsection", "dsect", "dend"} # {} => "label" \notin directives
    <2>1. directives \in Sources
      BY <1>2 DEF TypeOK
    <2> QED BY <2>1 DEF LabelsStay
  <1>9. ASSUME NEW name \in Names, SectionLine(name) PROVE Goal
    <2>1. PICK r : r = new_section(name, 0, FALSE)
      OBVIOUS
    <2>2. Made(r, name)
      BY <1>2, <2>1, NewSection DEF SecName
    <2> QED BY <1>5, <1>9, <2>1, <2>2 DEF SectionLine, Read
  <1>10. CASE OrgLine
    <2>1. PICK r : r = new_org
      OBVIOUS
    <2> QED BY <1>2, <1>5, <1>10, <2>1, NewOrg DEF OrgLine, Read
  <1>11. CASE OldOrgLine
    <2>1. PICK r : r \in {new_org, offset_section(FALSE)} /\ SwitchTo(r, errors)
      BY <1>11 DEF OldOrgLine
    <2>2. PICK name : Made(r, name)
      BY <1>2, <2>1, NewOrg, OffsetSection
    <2> QED BY <1>5, <1>11, <2>1, <2>2 DEF OldOrgLine, Read
  <1>12. CASE OffsetLine
    <2>1. PICK again \in BOOLEAN : SwitchTo(offset_section(again), errors)
      BY <1>12 DEF OffsetLine
    <2>2. PICK r : r = offset_section(again)
      OBVIOUS
    <2> QED BY <1>2, <1>5, <1>12, <2>1, <2>2, OffsetSection DEF OffsetLine, Read
  <1>13. CASE PopSection
    <2>1. UNCHANGED << directives, container, natoms >> /\ "popsection" \in directives
      BY <1>13 DEF PopSection, Read
    <2>2. CASE stack # << >>
      <3>1. Last(stack) \in 1..Len(secs) /\ set_section(Last(stack), secs, list, errors)
        BY <1>2, <1>13, <2>2, FrontLast DEF TypeOK, PopSection
      <3>2. Last(stack) \in 0..Len(secs) /\ Last(stack) # 0
        BY <1>2, <3>1
      <3> QED BY <1>7, <1>8, <2>1, <3>1, <3>2
    <2>3. CASE stack = << >>
      BY <1>6, <1>13, <2>1, <2>3 DEF PopSection
    <2> QED BY <2>2, <2>3
  <1>14. CASE DsectLine
    <2>1. PICK e : SwitchTo(offset_section(FALSE), e)
      BY <1>14 DEF DsectLine
    <2>2. PICK r : r = offset_section(FALSE)
      OBVIOUS
    <2> QED BY <1>2, <1>5, <1>14, <2>1, <2>2, OffsetSection DEF DsectLine, Read
  <1>15. CASE DendLine
    <2>1. UNCHANGED << directives, container, natoms >> /\ "dend" \in directives
      BY <1>15 DEF DendLine, Read
    <2>2. CASE dsect # -1 /\ set_section(dsect, secs, list, errors)
      <3>1. dsect \in 0..Len(secs)
        BY <1>2, <2>2 DEF TypeOK
      <3> QED BY <1>4, <1>7, <1>8, <2>1, <2>2, <3>1
    <2>3. CASE UNCHANGED << secs, current >>
      BY <1>6, <2>1, <2>3
    <2> QED BY <1>15, <2>2, <2>3 DEF DendLine
  <1>16. ASSUME NEW x \in Labels, LabelLine(x) PROVE Goal
    <2>1. Label(x) \in Atom
      BY DEF Atom, Label
    <2>2. AddAtom(Label(x)) /\ UNCHANGED << directives, natoms >>
      BY <1>16 DEF LabelLine, Read
    <2> QED BY <1>2, <2>1, <2>2, AddHolds, KeptOn
  <1>17. ASSUME NEW a \in Atom, a.t # "label", a.id = natoms', natoms' = natoms + 1, AddAtom(a),
                UNCHANGED directives
         PROVE  Goal
    <2>1. /\ Held(secs', container', a) /\ First'
          /\ \A b \in Atom : Held(secs, container, b) => Held(secs', container', b)
      BY <1>17, AddHolds
    <2> QED BY <1>2, <1>3, <1>17, <2>1, KeptNew
  <1>18. ASSUME NEW t \in {"data", "assert"}, natoms < MaxAtoms, natoms' = natoms + 1
         PROVE  /\ [t |-> t, id |-> natoms'] \in Atom
                /\ [t |-> t, id |-> natoms'].t # "label"
                /\ [t |-> t, id |-> natoms'].id = natoms'
    <2>1. natoms' \in 1..MaxAtoms
      BY <1>3, <1>18
    <2> QED BY <1>18, <2>1 DEF Atom
  <1>19. CASE DataLine
    <2>1. /\ natoms < MaxAtoms /\ natoms' = natoms + 1
          /\ AddAtom([t |-> "data", id |-> natoms']) /\ UNCHANGED directives
      BY <1>19 DEF DataLine, Read
    <2>2. PICK a : a = [t |-> "data", id |-> natoms']
      OBVIOUS
    <2>3. a \in Atom /\ a.t # "label" /\ a.id = natoms'
      BY <1>18, <2>1, <2>2
    <2> QED BY <1>17, <2>1, <2>2, <2>3
  <1>20. CASE AssertLine
    <2>1. PICK a : a = [t |-> "assert", id |-> natoms']
      OBVIOUS
    <2>2. /\ natoms < MaxAtoms /\ natoms' = natoms + 1 /\ UNCHANGED directives
          /\ \/ current = 0 /\ container' = Append(container, a) /\ UNCHANGED << secs, current >>
             \/ AddAtom(a)
          /\ "assert" \in directives
      BY <1>20, <2>1 DEF AssertLine, Read
    <2>3. a \in Atom /\ a.t # "label" /\ a.id = natoms'
      BY <1>18, <2>1, <2>2
    <2>4. CASE current = 0 /\ container' = Append(container, a) /\ UNCHANGED << secs, current >>
      <3>1. \A b : Contains(container', b) <=> Contains(container, b) \/ b = a
        BY <1>2, <2>3, <2>4, ContainsAppend DEF TypeOK
      <3>2. Held(secs', container', a)
        BY <3>1 DEF Held
      <3>3. \A b \in Atom : Held(secs, container, b) => Held(secs', container', b)
        BY <2>4, <3>1 DEF Held
      <3>4. First'
        BY <1>2, <2>2, <2>4 DEF First
      <3> QED BY <1>2, <1>3, <2>2, <2>3, <3>2, <3>3, <3>4, KeptNew
    <2> QED BY <1>17, <2>2, <2>3, <2>4
  <1>21. CASE PushSection \/ BareLabel \/ EndOfSource \/ UNCHANGED vars
    BY <1>6, <1>21 DEF PushSection, BareLabel, EndOfSource, Read, vars
  <1> QED
    BY <1>9, <1>10, <1>11, <1>12, <1>13, <1>14, <1>15, <1>16, <1>19, <1>20, <1>21 DEF Next

\* What no section holds as data is an assertion, held by a listed section or
\* waiting in a source without sections.
LEMMA KInvAsserts ==
    ASSUME LabelsWithoutAsserts, KInv PROVE AssertionsListed
  <1>1. /\ Contents(secs, list, container, labsec) /\ TypeOK /\ Listing
        /\ Kept(secs, container, natoms) /\ First
    BY DEF KInv, OInv, SInv
  <1>2. \A s : s \in ToSet(list) <=> Contains(list, s)
    BY <1>1, HoldersListed DEF TypeOK
  <1>3. ASSUME NEW n \in 1..natoms, Holders([t |-> "data", id |-> n]) = {},
               ~(secs = << >> /\ Contains(container, [t |-> "assert", id |-> n]))
        PROVE  Evaluated(n)
    <2> DEFINE h == Holders([t |-> "assert", id |-> n])
    <2>1. PICK a \in Atom : a.t # "label" /\ a.id = n /\ Held(secs, container, a)
      BY <1>1 DEF Kept
    <2>2. a = [t |-> "assert", id |-> n] /\ a.t = "assert"
      <3>1. CASE a.t = "data"
        <4>1. a = [t |-> "data", id |-> n]
          BY <2>1, <3>1, OtherAtom
        <4>2. ~Contains(container, a)
          BY <1>1, <3>1 DEF Contents, Waiting
        <4>3. \E s \in 1..Len(secs) : Contains(secs[s].atoms, a)
          BY <2>1, <4>2 DEF Held
        <4> QED BY <1>3, <4>1, <4>3 DEF Holders
      <3> QED BY <2>1, <3>1, OtherAtom
    <2>3. "assert" \in directives
      BY <1>1, <2>1, <2>2 DEF Contents, NoAsserts, Held
    <2>4. ~Contains(container, a)
      BY <1>1, <1>3, <2>2, <2>3 DEF First, Nothing
    <2>5. PICK s \in 1..Len(secs) : Contains(secs[s].atoms, a)
      BY <2>1, <2>4 DEF Held
    <2>6. h = {s}
      BY <1>1, <2>2, <2>5 DEF Contents, Once, Holders
    <2>7. "label" \notin directives
      BY <1>1, <2>3 DEF LabelsWithoutAsserts, TypeOK
    <2>8. s \in ToSet(list)
      BY <1>1, <1>2, <2>5, <2>7 DEF Listing
    <2>9. Cardinality({s}) = 1
      BY FS_Singleton
    <2> QED BY <2>6, <2>8, <2>9 DEF Evaluated
  <1> QED BY <1>3 DEF AssertionsListed

\* Where labels are not taken along, every ASSERT and FAIL is in exactly one
\* section, which is in the list and so evaluated; only in a source that makes
\* no section does it stay in the container (add_or_save_atom and new_section).
THEOREM SectionsAssertionsListed ==
    ASSUME LabelsStay, LabelsWithoutAsserts PROVE Spec => []AssertionsListed
  <1>1. KInv /\ [Next]_vars => KInv'
    BY KInvNext
  <1>2. KInv => AssertionsListed
    BY KInvAsserts
  <1> QED BY <1>1, <1>2, KInvInit, PTL DEF Spec
=============================================================================
