---------------------------- MODULE SourceProof ----------------------------
(***************************************************************************)
(* Proofs about the stack of source texts, for every set of programs and   *)
(* for every limit of recursions: the counters of the macros and the value *)
(* of REPTN are right whatever is entered, repeated, left or redefined.    *)
(***************************************************************************)
EXTENDS Source, Wellorder, SequenceTheorems, FiniteSetTheorems, TLAPS

\* Lines and parameters of a text may be anything: all that is known of an
\* instance or a macro is which fields it has.
IsSeq(q) == \E S : q \in Seq(S)

SrcFields == {"file", "from", "to", "ptr", "repeat", "macro", "defsrc", "num_params", "param",
              "argnames", "irpname", "irpvals", "cond_level", "reptn"}

\* An instance that was started by REPT or IRP.
IsRept(src) == src.macro = 0 /\ src.defsrc

\* Only repetitions are read more than once.
IsSrc(src) == DOMAIN src = SrcFields /\ (IsRept(src) \/ src.repeat = 1)

\* The reptn of instance i is the one of the innermost repetition around it.
Inherited(ss, i) ==
    \/ \E j \in 1..i : /\ IsRept(ss[j]) /\ ss[i].reptn = ss[j].reptn
                       /\ \A k \in j + 1..i : ~IsRept(ss[k])
    \/ ss[i].reptn = -1 /\ \A k \in 1..i : ~IsRept(ss[k])

Stack(ss, n) ==
    /\ IsSeq(ss) /\ ss # << >>
    /\ \A i \in 1..Len(ss) : IsSrc(ss[i]) /\ Inherited(ss, i)
    /\ n = ss[Len(ss)].reptn

\* The instances of macro o, and its count.
Instances(ss, o) == {i \in 1..Len(ss) : ss[i].macro = o}

Macro(obj, insts) ==
    /\ "recursions" \in DOMAIN obj
    /\ obj.recursions = Cardinality(insts)
    /\ obj.recursions <= maxmacrecurs

Macros(ss, os) ==
    /\ IsSeq(os)
    /\ \A i \in 1..Len(ss) : ss[i].macro \in 0..Len(os)
    /\ \A o \in 1..Len(os) : Macro(os[o], Instances(ss, o))

Names(hash, os) == \A n \in DOMAIN hash : hash[n] \in 1..Len(os)

\* The inductive invariant.  The last instance stays on the stack when the
\* assembly ends, without being counted any more.
SrcInv == /\ Stack(srcs, REPTN)
          /\ phase # "end" => Macros(srcs, objects) /\ Names(macrohash, objects)
-----------------------------------------------------------------------------
(* Sequences of anything                                                   *)

\* The length and the domain of a sequence.
LEMMA SeqDomain ==
    ASSUME NEW q, IsSeq(q)
    PROVE  Len(q) \in Nat /\ DOMAIN q = 1..Len(q)
  BY LenProperties DEF IsSeq

\* Two sequences over the same domain have the same length.
LEMMA SameLength ==
    ASSUME NEW q, NEW r, IsSeq(q), IsSeq(r), DOMAIN r = DOMAIN q
    PROVE  Len(r) = Len(q)
  <1>1. PICK a \in Nat, b \in Nat : a = Len(q) /\ b = Len(r)
    BY SeqDomain
  <1>2. 1..a = 1..b
    BY <1>1, SeqDomain
  <1> QED BY <1>1, <1>2

\* A sequence that is not empty has a last element.
LEMMA NonEmpty ==
    ASSUME NEW q, IsSeq(q), q # << >>
    PROVE  Len(q) \in Nat \ {0}
  BY LenProperties, EmptySeq DEF IsSeq

\* The current instance is replaced by c.
Replaces(q, r, c) == /\ IsSeq(r) /\ Len(r) = Len(q) /\ r # << >>
                     /\ r[Len(q)] = c
                     /\ \A i \in 1..Len(q) : i # Len(q) => r[i] = q[i]

\* What EXCEPT does to a sequence.
LEMMA Replaced ==
    ASSUME NEW q, IsSeq(q), q # << >>, NEW c
    PROVE  Replaces(q, [q EXCEPT ![Len(q)] = c], c)
  <1> DEFINE r == [q EXCEPT ![Len(q)] = c]
  <1>1. PICK S : q \in Seq(S)
    BY DEF IsSeq
  <1>2. Len(q) \in Nat \ {0} /\ DOMAIN q = 1..Len(q)
    BY NonEmpty, SeqDomain
  <1>3. q \in Seq(S \cup {c})
    BY <1>1, SeqMonotonic
  <1>4. /\ r \in Seq(S \cup {c}) /\ Len(r) = Len(q)
        /\ \A i \in 1..Len(q) : r[i] = IF i = Len(q) THEN c ELSE q[i]
    BY <1>2, <1>3, ExceptSeq
  <1>5. r # << >>
    BY <1>2, <1>4, EmptySeq
  <1>6. IsSeq(r)
    BY <1>4 DEF IsSeq
  <1> QED BY <1>2, <1>4, <1>5, <1>6 DEF Replaces

\* A new instance c is put on top.
Pushes(q, r, c) == /\ IsSeq(r) /\ Len(r) = Len(q) + 1 /\ r # << >>
                   /\ r[Len(q) + 1] = c
                   /\ \A i \in 1..Len(q) : r[i] = q[i]

\* What Append does to a sequence.
LEMMA Appended ==
    ASSUME NEW q, IsSeq(q), NEW c
    PROVE  Pushes(q, Append(q, c), c)
  <1> DEFINE r == Append(q, c)
  <1>1. PICK S : q \in Seq(S)
    BY DEF IsSeq
  <1>2. q \in Seq(S \cup {c})
    BY <1>1, SeqMonotonic
  <1>3. r \in Seq(S \cup {c}) /\ Len(r) = Len(q) + 1 /\ r[Len(q) + 1] = c
        /\ \A i \in 1..Len(q) : r[i] = q[i]
    BY <1>2, AppendProperties
  <1>4. r # << >>
    BY <1>1, <1>3, LenProperties, EmptySeq
  <1> QED BY <1>3, <1>4 DEF IsSeq, Pushes

\* One that has not exactly one element has two.
LEMMA AtLeastTwo ==
    ASSUME NEW q, IsSeq(q), q # << >>, Len(q) # 1
    PROVE  \E n \in Nat : n = Len(q) /\ n >= 2
  <1>1. Len(q) \in Nat \ {0}
    BY NonEmpty
  <1> QED BY <1>1

\* The top is taken off.
LEMMA Popped ==
    ASSUME NEW q, IsSeq(q), q # << >>, Len(q) # 1, NEW r, r = Front(q)
    PROVE  /\ IsSeq(r) /\ Len(r) = Len(q) - 1 /\ r # << >>
           /\ \A i \in 1..Len(q) - 1 : r[i] = q[i]
           /\ Last(r) = r[Len(r)]
  <1>1. PICK S : q \in Seq(S)
    BY DEF IsSeq
  <1>2. PICK n \in Nat : n = Len(q) /\ n >= 2
    BY AtLeastTwo
  <1>3. \A i \in 1..n - 1 : q[i] \in S
    BY <1>1, <1>2, ElementOfSeq
  <1>4. /\ r \in Seq(S)
        /\ Len(r) = IF 1 <= n - 1 THEN (n - 1) - 1 + 1 ELSE 0
        /\ \A i \in 1..(n - 1) - 1 + 1 : r[i] = q[1 + i - 1]
    <2>1. \A i \in 1..Len(q) - 1 : q[i] \in S
      BY <1>2, <1>3
    <2> DEFINE f == SubSeq(q, 1, Len(q) - 1)
    <2>2. /\ f \in Seq(S)
          /\ Len(f) = IF 1 <= Len(q) - 1 THEN (Len(q) - 1) - 1 + 1 ELSE 0
          /\ \A i \in 1..(Len(q) - 1) - 1 + 1 : f[i] = q[1 + i - 1]
      BY <1>1, <1>2, <2>1, SubSeqProperties
    <2>3. r = f
      BY DEF Front
    <2> QED BY <1>2, <2>2, <2>3
  <1>5. Len(r) = n - 1
    BY <1>2, <1>4
  <1>6. ASSUME NEW i \in 1..n - 1 PROVE r[i] = q[i]
    <2>1. 1 + i - 1 = i /\ i \in 1..(n - 1) - 1 + 1
      BY <1>2
    <2> QED BY <1>4, <2>1
  <1>7. r # << >>
    BY <1>2, <1>4, <1>5, EmptySeq
  <1> QED BY <1>2, <1>4, <1>5, <1>6, <1>7 DEF IsSeq, Last
-----------------------------------------------------------------------------
(* The value of REPTN                                                      *)

\* What Inherited says of an instance depends on the instances up to it only.
LEMMA InheritedBelow ==
    ASSUME NEW ss, NEW tt, NEW i \in Nat,
           \A k \in 1..i : /\ tt[k].reptn = ss[k].reptn
                           /\ IsRept(tt[k]) <=> IsRept(ss[k]),
           i # 0, Inherited(ss, i)
    PROVE  Inherited(tt, i)
  <1>1. i \in 1..i
    OBVIOUS
  <1>2. CASE ss[i].reptn = -1 /\ \A k \in 1..i : ~IsRept(ss[k])
    BY <1>1, <1>2 DEF Inherited
  <1>3. ASSUME NEW j \in 1..i, IsRept(ss[j]), ss[i].reptn = ss[j].reptn,
               \A k \in j + 1..i : ~IsRept(ss[k])
        PROVE  Inherited(tt, i)
    <2>1. \A k \in j + 1..i : k \in 1..i
      OBVIOUS
    <2>2. IsRept(tt[j]) /\ tt[i].reptn = tt[j].reptn
      BY <1>1, <1>3
    <2>3. \A k \in j + 1..i : ~IsRept(tt[k])
      BY <1>3, <2>1
    <2> QED BY <2>2, <2>3 DEF Inherited
  <1> QED BY <1>2, <1>3 DEF Inherited

\* What a step that moves the pointer of the current instance keeps of it.
Same(c, d) == /\ DOMAIN c = DOMAIN d
              /\ c.macro = d.macro /\ c.defsrc = d.defsrc /\ c.reptn = d.reptn
              /\ c.repeat = d.repeat \/ c.repeat = 1

\* Whether an instance repeats is decided by the fields that never change.
LEMMA SameRept ==
    ASSUME NEW c, NEW d, Same(c, d)
    PROVE  /\ IsRept(c) <=> IsRept(d)
           /\ IsSrc(d) => IsSrc(c)
  <1>1. IsRept(c) <=> IsRept(d)
    BY Zenon DEF Same, IsRept
  <1> QED BY <1>1 DEF Same, IsSrc

\* The pointer of the current instance moves.
LEMMA StackMoves ==
    ASSUME NEW ss, NEW n, Stack(ss, n), NEW c, Same(c, ss[Len(ss)]),
           NEW tt, Replaces(ss, tt, c)
    PROVE  Stack(tt, n)
  <1>0. IsSeq(ss) /\ ss # << >>
    BY DEF Stack
  <1>1. /\ IsSeq(tt) /\ Len(tt) = Len(ss) /\ tt # << >> /\ tt[Len(ss)] = c
        /\ \A i \in 1..Len(ss) : i # Len(ss) => tt[i] = ss[i]
    BY DEF Replaces
  <1>2. Len(ss) \in Nat \ {0}
    BY <1>0, NonEmpty
  <1>3. \A i \in 1..Len(ss) : tt[i].reptn = ss[i].reptn
    BY <1>1 DEF Same
  <1>4. \A i \in 1..Len(ss) : /\ IsRept(tt[i]) <=> IsRept(ss[i])
                              /\ IsSrc(ss[i]) => IsSrc(tt[i])
    BY <1>1, SameRept
  <1>5. ASSUME NEW i \in 1..Len(ss) PROVE IsSrc(tt[i]) /\ Inherited(tt, i)
    <2>1. i \in Nat /\ i # 0 /\ \A k \in 1..i : k \in 1..Len(ss)
      BY <1>2
    <2>2. Inherited(ss, i) /\ IsSrc(ss[i])
      BY DEF Stack
    <2>3. \A k \in 1..i : /\ tt[k].reptn = ss[k].reptn
                          /\ IsRept(tt[k]) <=> IsRept(ss[k])
      BY <1>3, <1>4, <2>1
    <2>4. Inherited(tt, i)
      BY <2>1, <2>2, <2>3, InheritedBelow
    <2> QED BY <1>4, <2>2, <2>4
  <1>6. n = tt[Len(tt)].reptn
    <2>1. n = ss[Len(ss)].reptn /\ Len(ss) \in 1..Len(ss)
      BY <1>2 DEF Stack
    <2> QED BY <1>1, <1>3, <2>1
  <1> QED BY <1>1, <1>5, <1>6 DEF Stack

\* A repetition begins again, with the next number.
LEMMA StackAgain ==
    ASSUME NEW ss, NEW n, Stack(ss, n), NEW c, IsSrc(c), IsRept(c),
           NEW tt, Replaces(ss, tt, c)
    PROVE  Stack(tt, c.reptn)
  <1>0. IsSeq(ss) /\ ss # << >>
    BY DEF Stack
  <1>1. /\ IsSeq(tt) /\ Len(tt) = Len(ss) /\ tt # << >> /\ tt[Len(ss)] = c
        /\ \A i \in 1..Len(ss) : i # Len(ss) => tt[i] = ss[i]
    BY DEF Replaces
  <1>2. Len(ss) \in Nat \ {0}
    BY <1>0, NonEmpty
  <1>3. ASSUME NEW i \in 1..Len(ss), i # Len(ss) PROVE IsSrc(tt[i]) /\ Inherited(tt, i)
    <2>1. i \in Nat /\ i # 0 /\ \A k \in 1..i : k \in 1..Len(ss) /\ k # Len(ss)
      BY <1>2, <1>3
    <2>2. Inherited(ss, i) /\ IsSrc(ss[i])
      BY DEF Stack
    <2>3. \A k \in 1..i : tt[k] = ss[k]
      BY <1>1, <2>1
    <2>4. Inherited(tt, i)
      BY <2>1, <2>2, <2>3, InheritedBelow
    <2> QED BY <1>1, <1>3, <2>2, <2>4
  <1>4. Inherited(tt, Len(ss))
    <2>1. Len(ss) \in 1..Len(ss) /\ \A k \in Len(ss) + 1..Len(ss) : FALSE
      BY <1>2
    <2> QED BY <1>1, <2>1 DEF Inherited
  <1> QED BY <1>1, <1>3, <1>4 DEF Stack

\* A text is entered: a repetition, or one that inherits REPTN.
LEMMA StackPush ==
    ASSUME NEW ss, NEW n, Stack(ss, n), NEW c, IsSrc(c), IsRept(c) \/ c.reptn = n,
           NEW tt, Pushes(ss, tt, c)
    PROVE  Stack(tt, c.reptn)
  <1>0. IsSeq(ss) /\ ss # << >>
    BY DEF Stack
  <1>1. /\ IsSeq(tt) /\ Len(tt) = Len(ss) + 1 /\ tt # << >> /\ tt[Len(ss) + 1] = c
        /\ \A i \in 1..Len(ss) : tt[i] = ss[i]
    BY DEF Pushes
  <1>2. PICK m \in Nat : m = Len(ss) /\ m # 0
    <2>1. Len(ss) \in Nat \ {0}
      BY <1>0, NonEmpty
    <2> QED BY <2>1
  <1>3. \A i \in 1..m : tt[i] = ss[i]
    BY <1>1, <1>2
  <1>4. ASSUME NEW i \in 1..m PROVE IsSrc(tt[i]) /\ Inherited(tt, i)
    <2>1. i \in Nat /\ i # 0 /\ \A k \in 1..i : k \in 1..m
      BY <1>2
    <2>2. Inherited(ss, i) /\ IsSrc(ss[i])
      BY <1>2 DEF Stack
    <2>3. Inherited(tt, i)
      BY <1>3, <2>1, <2>2, InheritedBelow
    <2> QED BY <1>3, <2>2, <2>3
  <1>5. tt[m + 1] = c
    BY <1>1, <1>2
  <1>6. Inherited(tt, m + 1)
    <2>1. CASE IsRept(c)
      <3>1. m + 1 \in 1..m + 1 /\ \A k \in (m + 1) + 1..m + 1 : FALSE
        BY <1>2
      <3> QED BY <1>5, <2>1, <3>1 DEF Inherited
    <2>2. CASE ~IsRept(c)
      <3>1. m \in 1..m /\ Inherited(tt, m) /\ tt[m] = ss[m]
        BY <1>2, <1>3, <1>4
      <3>2. tt[m + 1].reptn = tt[m].reptn
        BY <1>2, <1>5, <2>2, <3>1 DEF Stack
      <3>3. CASE tt[m].reptn = -1 /\ \A k \in 1..m : ~IsRept(tt[k])
        <4>1. \A k \in 1..m + 1 : k \in 1..m \/ k = m + 1
          BY <1>2
        <4>2. \A k \in 1..m + 1 : ~IsRept(tt[k])
          BY <1>5, <2>2, <3>3, <4>1
        <4> QED BY <3>2, <3>3, <4>2 DEF Inherited
      <3>4. ASSUME NEW j \in 1..m, IsRept(tt[j]), tt[m].reptn = tt[j].reptn,
                   \A k \in j + 1..m : ~IsRept(tt[k])
            PROVE  Inherited(tt, m + 1)
        <4>1. j \in 1..m + 1 /\ \A k \in j + 1..m + 1 : k \in j + 1..m \/ k = m + 1
          BY <1>2
        <4>2. \A k \in j + 1..m + 1 : ~IsRept(tt[k])
          BY <1>5, <2>2, <3>4, <4>1
        <4> QED BY <3>2, <3>4, <4>1, <4>2 DEF Inherited
      <3> QED BY <3>1, <3>3, <3>4 DEF Inherited
    <2> QED BY <2>1, <2>2
  <1>7. \A i \in 1..Len(tt) : i \in 1..m \/ i = m + 1
    BY <1>1, <1>2
  <1>8. \A i \in 1..Len(tt) : IsSrc(tt[i]) /\ Inherited(tt, i)
    BY <1>4, <1>5, <1>6, <1>7
  <1>9. c.reptn = tt[Len(tt)].reptn
    BY <1>1
  <1> QED BY <1>1, <1>8, <1>9 DEF Stack

\* A text is left for the one it was entered from.
LEMMA StackPop ==
    ASSUME NEW ss, NEW n, Stack(ss, n), Len(ss) # 1, NEW tt, tt = Front(ss)
    PROVE  Stack(tt, Last(tt).reptn)
  <1>0. IsSeq(ss) /\ ss # << >>
    BY DEF Stack
  <1>1. /\ IsSeq(tt) /\ Len(tt) = Len(ss) - 1 /\ tt # << >>
        /\ \A i \in 1..Len(ss) - 1 : tt[i] = ss[i]
        /\ Last(tt) = tt[Len(tt)]
    BY <1>0, Popped
  <1>2. PICK m \in Nat : m = Len(ss) - 1 /\ 1..m \subseteq 1..Len(ss)
    <2>1. Len(ss) \in Nat \ {0}
      BY <1>0, NonEmpty
    <2> QED BY <2>1
  <1>3. Len(tt) = m /\ \A i \in 1..m : tt[i] = ss[i]
    BY <1>1, <1>2
  <1>4. ASSUME NEW i \in 1..m PROVE IsSrc(tt[i]) /\ Inherited(tt, i)
    <2>1. i \in Nat /\ i # 0 /\ \A k \in 1..i : k \in 1..m
      BY <1>2
    <2>2. Inherited(ss, i) /\ IsSrc(ss[i])
      BY <1>2 DEF Stack
    <2>3. Inherited(tt, i)
      BY <1>3, <2>1, <2>2, InheritedBelow
    <2> QED BY <1>3, <2>2, <2>3
  <1> QED BY <1>1, <1>3, <1>4 DEF Stack
-----------------------------------------------------------------------------
(* The counts of recursions                                                *)

\* There are finitely many instances of a macro.
LEMMA InstancesFinite ==
    ASSUME NEW ss, IsSeq(ss), NEW o
    PROVE  IsFiniteSet(Instances(ss, o))
  <1>1. Len(ss) \in Nat
    BY SeqDomain
  <1>2. IsFiniteSet(1..Len(ss))
    BY <1>1, FS_Interval
  <1>3. Instances(ss, o) \subseteq 1..Len(ss)
    BY DEF Instances
  <1> QED BY <1>2, <1>3, FS_Subset

\* Whatever happens to the pointer of the current instance, it stays one of the
\* same macro.
LEMMA MacrosMove ==
    ASSUME NEW ss, NEW os, Macros(ss, os), IsSeq(ss), ss # << >>,
           NEW c, c.macro = ss[Len(ss)].macro, NEW tt, Replaces(ss, tt, c)
    PROVE  Macros(tt, os)
  <1>1. Len(tt) = Len(ss) /\ \A i \in 1..Len(ss) : tt[i].macro = ss[i].macro
    BY DEF Replaces
  <1>2. \A o : Instances(tt, o) = Instances(ss, o)
    BY <1>1 DEF Instances
  <1> QED BY <1>1, <1>2 DEF Macros

\* A file or a repetition is entered.
LEMMA MacrosEnter ==
    ASSUME NEW ss, NEW os, Macros(ss, os), IsSeq(ss),
           NEW c, c.macro = 0, NEW tt, Pushes(ss, tt, c)
    PROVE  Macros(tt, os)
  <1>1. PICK m \in Nat : m = Len(ss)
    BY SeqDomain
  <1>2. /\ Len(tt) = m + 1 /\ tt[m + 1].macro = 0
        /\ \A i \in 1..m : tt[i].macro = ss[i].macro
    BY <1>1 DEF Pushes
  <1>3. \A i \in 1..m + 1 : i \in 1..m \/ i = m + 1
    BY <1>1
  <1>4. Len(os) \in Nat
    BY SeqDomain DEF Macros
  <1>5. \A i \in 1..Len(tt) : tt[i].macro \in 0..Len(os)
    BY <1>1, <1>2, <1>3, <1>4 DEF Macros
  <1>6. ASSUME NEW o \in 1..Len(os) PROVE Instances(tt, o) = Instances(ss, o)
    <2>1. o # 0
      BY <1>4
    <2> QED BY <1>1, <1>2, <1>3, <2>1 DEF Instances
  <1> QED BY <1>5, <1>6 DEF Macros

\* A macro is called.
LEMMA MacrosCall ==
    ASSUME NEW ss, NEW os, Macros(ss, os), IsSeq(ss),
           NEW m \in 1..Len(os), ~AtLimit(os[m]),
           NEW c, c.macro = m, NEW tt, Pushes(ss, tt, c),
           NEW os1, os1 = [os EXCEPT ![m].recursions = @ + 1]
    PROVE  Macros(tt, os1)
  <1> DEFINE r == [os[m] EXCEPT !.recursions = @ + 1]
  <1>0. os1 = [os EXCEPT ![m] = r]
    OBVIOUS
  <1>1. PICK n \in Nat : n = Len(ss)
    BY SeqDomain
  <1>2. /\ Len(tt) = n + 1 /\ tt[n + 1].macro = m
        /\ \A i \in 1..n : tt[i].macro = ss[i].macro
    BY <1>1 DEF Pushes
  <1>3. \A i \in 1..n + 1 : i \in 1..n \/ i = n + 1
    BY <1>1
  <1>4. Len(os) \in Nat /\ IsSeq(os)
    BY SeqDomain DEF Macros
  <1>5. /\ IsSeq(os1) /\ Len(os1) = Len(os) /\ os1[m] = r
        /\ \A o \in 1..Len(os) : o # m => os1[o] = os[o]
    <2>1. PICK S : os \in Seq(S)
      BY <1>4 DEF IsSeq
    <2>2. os \in Seq(S \cup {r})
      BY <2>1, SeqMonotonic
    <2> HIDE DEF r
    <2>3. /\ os1 \in Seq(S \cup {r}) /\ Len(os1) = Len(os)
          /\ \A o \in 1..Len(os) : os1[o] = IF o = m THEN r ELSE os[o]
      BY <1>0, <2>2, ExceptSeq
    <2>4. IsSeq(os1)
      BY <2>3 DEF IsSeq
    <2> QED BY <2>3, <2>4
  <1>6. \A i \in 1..Len(tt) : tt[i].macro \in 0..Len(os)
    BY <1>1, <1>2, <1>3, <1>4 DEF Macros
  <1>7. ASSUME NEW o \in 1..Len(os), o # m PROVE Macro(os1[o], Instances(tt, o))
    <2>1. Instances(tt, o) = Instances(ss, o)
      BY <1>1, <1>2, <1>3, <1>7 DEF Instances
    <2> QED BY <1>5, <1>7, <2>1 DEF Macros
  <1>8. Macro(r, Instances(tt, m))
    <2>1. Macro(os[m], Instances(ss, m))
      BY DEF Macros
    <2>2. Instances(tt, m) = Instances(ss, m) \cup {n + 1} /\ n + 1 \notin Instances(ss, m)
      BY <1>1, <1>2, <1>3 DEF Instances
    <2>3. /\ Cardinality(Instances(ss, m)) \in Nat
          /\ Cardinality(Instances(tt, m)) = Cardinality(Instances(ss, m)) + 1
      BY <2>2, InstancesFinite, FS_AddElement, FS_CardinalityType
    <2>4. os[m].recursions < maxmacrecurs
      BY <2>1, <2>3, SourceAssumption DEF AtLimit, Macro
    <2>5. "recursions" \in DOMAIN r /\ r.recursions = os[m].recursions + 1
      BY <2>1 DEF Macro
    <2> HIDE DEF r
    <2>6. os[m].recursions \in Nat /\ os[m].recursions = Cardinality(Instances(ss, m))
      BY <2>1, <2>3 DEF Macro
    <2>7. r.recursions <= maxmacrecurs
      BY <2>4, <2>5, <2>6, SourceAssumption
    <2> QED BY <2>3, <2>5, <2>6, <2>7 DEF Macro
  <1> HIDE DEF r
  <1>9. \A o \in 1..Len(os1) : Macro(os1[o], Instances(tt, o))
    BY <1>5, <1>7, <1>8
  <1> QED BY <1>5, <1>6, <1>9 DEF Macros

\* A text is left: an instance less of its macro, if it is a macro's.
LEMMA MacrosLeave ==
    ASSUME NEW ss, Macros(ss, objects), IsSeq(ss), ss # << >>, Len(ss) # 1,
           NEW tt, tt = Front(ss)
    PROVE  Macros(tt, EndRecursion(Last(ss)))
  <1> DEFINE os == EndRecursion(Last(ss))
  <1> SUFFICES Macros(tt, os)
    OBVIOUS
  <1>1. PICK n \in Nat : n = Len(ss) /\ n >= 2
    BY AtLeastTwo
  <1>2. Len(tt) = n - 1 /\ \A i \in 1..n - 1 : tt[i] = ss[i]
    BY <1>1, Popped
  <1>3. \A i \in 1..n : i \in 1..n - 1 \/ i = n
    BY <1>1
  <1>4. IsSeq(objects) /\ Len(objects) \in Nat /\ DOMAIN objects = 1..Len(objects)
    BY SeqDomain DEF Macros
  <1>5. PICK g : g = ss[n].macro /\ Last(ss) = ss[n]
    BY <1>1 DEF Last
  <1>6. os = [o \in 1..Len(objects) |-> IF o = g THEN [objects[o] EXCEPT !.recursions = @ - 1] ELSE objects[o]]
    BY <1>4, <1>5 DEF EndRecursion
  <1> HIDE DEF os
  <1>7. IsSeq(os) /\ Len(os) = Len(objects)
    <2> DEFINE T == {os[o] : o \in 1..Len(objects)}
    <2>1. os \in [1..Len(objects) -> T]
      BY <1>6
    <2> HIDE DEF T
    <2>2. os \in Seq(T) /\ Len(os) = Len(objects)
      BY <1>4, <2>1, LenProperties, SeqDef
    <2> QED BY <2>2 DEF IsSeq
  <1>8. \A i \in 1..Len(tt) : tt[i].macro \in 0..Len(os)
    <2>1. 1..n - 1 \subseteq 1..n
      BY <1>1
    <2> QED BY <1>1, <1>2, <1>7, <2>1 DEF Macros
  <1>9. ASSUME NEW o \in 1..Len(objects) PROVE Macro(os[o], Instances(tt, o))
    <2>1. Macro(objects[o], Instances(ss, o))
      BY DEF Macros
    <2>2. CASE o # g
      <3>1. Instances(tt, o) = Instances(ss, o)
        BY <1>1, <1>2, <1>3, <1>5, <2>2 DEF Instances
      <3> QED BY <1>6, <2>1, <2>2, <3>1
    <2>3. CASE o = g
      <3>1. Instances(tt, o) = Instances(ss, o) \ {n} /\ n \in Instances(ss, o)
        BY <1>1, <1>2, <1>3, <1>5, <2>3 DEF Instances
      <3>2. /\ Cardinality(Instances(ss, o)) \in Nat
            /\ Cardinality(Instances(tt, o)) = Cardinality(Instances(ss, o)) - 1
        BY <3>1, InstancesFinite, FS_RemoveElement, FS_CardinalityType
      <3>3. os[o] = [objects[o] EXCEPT !.recursions = @ - 1]
        BY <1>6, <2>3
      <3> QED BY <2>1, <3>2, <3>3, SourceAssumption DEF Macro
    <2> QED BY <2>2, <2>3
  <1> QED BY <1>7, <1>8, <1>9 DEF Macros

\* A macro is defined: there is no instance of it yet.
LEMMA MacrosDefine ==
    ASSUME NEW ss, NEW os, Macros(ss, os), IsSeq(ss),
           NEW obj, "recursions" \in DOMAIN obj, obj.recursions = 0,
           NEW os1, Pushes(os, os1, obj)
    PROVE  Macros(ss, os1)
  <1>1. PICK n \in Nat : n = Len(os)
    BY SeqDomain DEF Macros
  <1>2. IsSeq(os1) /\ Len(os1) = n + 1 /\ os1[n + 1] = obj /\ \A o \in 1..n : os1[o] = os[o]
    BY <1>1 DEF Pushes
  <1>3. \A i \in 1..Len(ss) : ss[i].macro \in 0..n
    BY <1>1 DEF Macros
  <1>4. \A i \in 1..Len(ss) : ss[i].macro \in 0..n + 1 /\ ss[i].macro # n + 1
    BY <1>1, <1>3
  <1>5. Instances(ss, n + 1) = {}
    BY <1>4 DEF Instances
  <1>6. Macro(obj, {})
    BY FS_EmptySet, SourceAssumption DEF Macro
  <1>7. \A o \in 1..n + 1 : o \in 1..n \/ o = n + 1
    BY <1>1
  <1>8. \A o \in 1..n + 1 : Macro(os1[o], Instances(ss, o))
    BY <1>1, <1>2, <1>5, <1>6, <1>7 DEF Macros
  <1> QED BY <1>2, <1>4, <1>8 DEF Macros
-----------------------------------------------------------------------------
(* The steps                                                               *)

\* A name is taken out of the hash table.
LEMMA NamesRestrict ==
    ASSUME NEW hash, NEW os, Names(hash, os), NEW n
    PROVE  Names(Restrict(hash, DOMAIN hash \ {n}), os)
  BY DEF Names, Restrict

\* The current instance.
LEMMA Current ==
    ASSUME SrcInv
    PROVE  /\ IsSeq(srcs) /\ srcs # << >> /\ Len(srcs) \in Nat \ {0}
           /\ cur_src = srcs[Len(srcs)] /\ IsSrc(cur_src) /\ cur_src.reptn = REPTN
  <1>1. IsSeq(srcs) /\ srcs # << >>
    BY DEF SrcInv, Stack
  <1>2. Len(srcs) \in Nat \ {0}
    BY <1>1, NonEmpty
  <1>3. cur_src = srcs[Len(srcs)]
    BY DEF cur_src, Last
  <1> QED BY <1>1, <1>2, <1>3 DEF SrcInv, Stack

\* Moving the pointer, and giving up all repetitions, changes nothing else.
LEMMA SameButPtr ==
    ASSUME NEW d, IsSrc(d), NEW p
    PROVE  /\ Same([d EXCEPT !.ptr = p], d)
           /\ Same([d EXCEPT !.ptr = p, !.repeat = 1], d)
  BY DEF IsSrc, SrcFields, Same

\* new_source makes an instance that is no repetition and inherits REPTN.
LEMMA NewSource ==
    ASSUME NEW file, NEW from, NEW to, NEW parents, parents # << >>,
           NEW c, c = new_source(file, from, to, parents)
    PROVE  /\ DOMAIN c = SrcFields /\ IsSrc(c)
           /\ c.macro = 0 /\ c.repeat = 1 /\ c.reptn = Last(parents).reptn
  BY DEF new_source, SrcFields, IsSrc

\* The text of the current instance is read on.
LEMMA Moves ==
    ASSUME SrcInv, phase # "end", NEW c, Same(c, cur_src), NEW tt, tt = ReplaceCur(c)
    PROVE  Stack(tt, REPTN) /\ Macros(tt, objects)
  <1>1. Replaces(srcs, tt, c)
    BY Current, Replaced DEF ReplaceCur
  <1>2. Same(c, srcs[Len(srcs)])
    BY Current
  <1>3. Stack(tt, REPTN)
    BY <1>1, <1>2, StackMoves DEF SrcInv
  <1>4. Macros(tt, objects)
    BY <1>1, <1>2, Current, MacrosMove DEF SrcInv, Same
  <1> QED BY <1>3, <1>4

\* A step that only reads on keeps the invariant.
LEMMA ReadOn ==
    ASSUME SrcInv, phase # "end", NEW p, srcs' = ReplaceCur([cur_src EXCEPT !.ptr = p]),
           REPTN' = REPTN, objects' = objects, Names(macrohash', objects)
    PROVE  SrcInv'
  <1>1. Same([cur_src EXCEPT !.ptr = p], cur_src)
    BY Current, SameButPtr
  <1>2. Stack(srcs', REPTN) /\ Macros(srcs', objects)
    BY <1>1, Moves
  <1> QED BY <1>2 DEF SrcInv

\* So does one that leaves the stack alone.
LEMMA StayThere ==
    ASSUME SrcInv, phase # "end", srcs' = srcs, REPTN' = REPTN, objects' = objects,
           macrohash' = macrohash
    PROVE  SrcInv'
  BY DEF SrcInv

\* read_next_line reads a repetition again: only those have a repeat above one.
LEMMA StepReadAgain ==
    ASSUME SrcInv, ReadAgain
    PROVE  SrcInv'
  <1> DEFINE c == [cur_src EXCEPT !.ptr = cur_src.from, !.repeat = @ - 1,
                       !.irpvals = IF @ # << >> THEN Tail(@) ELSE @, !.reptn = @ + 1]
  <1>1. /\ phase # "end" /\ cur_src.repeat # 1
        /\ srcs' = ReplaceCur(c) /\ REPTN' = cur_src.reptn + 1
        /\ objects' = objects /\ macrohash' = macrohash
    BY DEF ReadAgain
  <1>2. IsSrc(cur_src) /\ IsRept(cur_src) /\ DOMAIN cur_src = SrcFields
    BY <1>1, Current DEF IsSrc
  <1>3. /\ DOMAIN c = SrcFields /\ c.macro = cur_src.macro /\ c.defsrc = cur_src.defsrc
        /\ c.reptn = cur_src.reptn + 1
    BY <1>2 DEF SrcFields
  <1> HIDE DEF c
  <1>4. IsRept(c)
    BY <1>2, <1>3, Zenon DEF IsRept
  <1>5. IsSrc(c)
    BY <1>3, <1>4 DEF IsSrc
  <1>6. Replaces(srcs, srcs', c)
    BY <1>1, Current, Replaced DEF ReplaceCur
  <1>7. Stack(srcs', REPTN')
    BY <1>1, <1>3, <1>4, <1>5, <1>6, StackAgain DEF SrcInv
  <1>8. Macros(srcs', objects)
    BY <1>1, <1>3, <1>6, Current, MacrosMove DEF SrcInv
  <1> QED BY <1>1, <1>7, <1>8 DEF SrcInv

\* read_next_line leaves an instance.
LEMMA StepLeaveSource ==
    ASSUME SrcInv, LeaveSource
    PROVE  SrcInv'
  <1>1. /\ phase # "end" /\ objects' = EndRecursion(cur_src) /\ macrohash' = macrohash
    BY DEF LeaveSource
  <1>2. CASE Len(srcs) = 1
    <2>1. phase' = "end" /\ srcs' = srcs /\ REPTN' = REPTN
      BY <1>2 DEF LeaveSource
    <2> QED BY <2>1 DEF SrcInv
  <1>3. CASE Len(srcs) # 1
    <2>1. srcs' = Front(srcs) /\ REPTN' = Last(srcs').reptn
      BY <1>3 DEF LeaveSource, Restored
    <2>2. Stack(srcs', REPTN')
      BY <1>3, <2>1, StackPop DEF SrcInv
    <2>3. Macros(srcs', objects')
      BY <1>1, <1>3, <2>1, Current, MacrosLeave DEF SrcInv, cur_src
    <2>4. Len(objects') = Len(objects)
      <3>1. IsSeq(objects) /\ IsSeq(objects')
        BY <1>1, <2>3 DEF SrcInv, Macros
      <3>2. DOMAIN objects' = DOMAIN objects
        BY <1>1 DEF EndRecursion
      <3> QED BY <3>1, <3>2, SameLength
    <2>5. Names(macrohash', objects')
      BY <1>1, <2>4 DEF SrcInv, Names
    <2> QED BY <2>2, <2>3, <2>5 DEF SrcInv
  <1> QED BY <1>2, <1>3

\* A text is entered from the one that is being read.
LEMMA Enters ==
    ASSUME SrcInv, phase # "end", NEW p, NEW c, IsSrc(c), IsRept(c) \/ c.reptn = REPTN,
           NEW tt, tt = Append(ReplaceCur([cur_src EXCEPT !.ptr = p]), c)
    PROVE  /\ Stack(tt, c.reptn)
           /\ c.macro = 0 => Macros(tt, objects)
           /\ \A m \in 1..Len(objects) : \A os1 :
                  ~AtLimit(objects[m]) /\ c.macro = m
                  /\ os1 = [objects EXCEPT ![m].recursions = @ + 1] => Macros(tt, os1)
  <1> DEFINE d == [cur_src EXCEPT !.ptr = p]
  <1>1. PICK ss : ss = ReplaceCur(d)
    OBVIOUS
  <1>2. Same(d, cur_src)
    BY Current, SameButPtr
  <1>3. Stack(ss, REPTN) /\ Macros(ss, objects)
    BY <1>1, <1>2, Moves
  <1>4. IsSeq(ss) /\ Pushes(ss, tt, c)
    BY <1>1, <1>3, Appended DEF Stack
  <1>5. Stack(tt, c.reptn)
    BY <1>3, <1>4, StackPush
  <1>6. c.macro = 0 => Macros(tt, objects)
    BY <1>3, <1>4, MacrosEnter
  <1>7. ASSUME NEW m \in 1..Len(objects), NEW os1, ~AtLimit(objects[m]), c.macro = m,
               os1 = [objects EXCEPT ![m].recursions = @ + 1]
        PROVE  Macros(tt, os1)
    BY <1>3, <1>4, <1>7, MacrosCall
  <1> QED BY <1>5, <1>6, <1>7

\* A definition is read: a macro that can be called, or a repetition.
LEMMA StepReadDefinition ==
    ASSUME SrcInv, ReadDefinition
    PROVE  SrcInv'
  <1>1. phase # "end"
    BY DEF ReadDefinition
  <1>2. PICK end : end = EndLine(Text(prog, cur_src.file), cur_src.ptr, cur_src.to)
    OBVIOUS
  <1>3. CASE end = 0
    <2>1. srcs' = srcs /\ objects' = objects /\ macrohash' = macrohash /\ REPTN' = REPTN
      BY <1>2, <1>3 DEF ReadDefinition
    <2> QED BY <1>1, <2>1, StayThere
  <1>4. CASE end # 0 /\ add_macro(end) /\ defn.kept = TRUE
    <2> DEFINE obj == [name |-> defn.name, vararg |-> defn.vararg, file |-> defn.file, from |-> defn.from,
                       to |-> end - 1, argnames |-> defn.argnames,
                       defaults |-> defn.defaults, recursions |-> 0]
    <2>1. /\ objects' = Append(objects, obj)
          /\ macrohash' = [n \in DOMAIN macrohash \cup {defn.name} |->
                              IF n = defn.name THEN Len(objects) + 1 ELSE macrohash[n]]
          /\ srcs' = ReplaceCur([cur_src EXCEPT !.ptr = end + 1])
          /\ REPTN' = REPTN
      BY <1>4, Zenon DEF add_macro
    <2>2. "recursions" \in DOMAIN obj /\ obj.recursions = 0
      OBVIOUS
    <2> HIDE DEF obj
    <2>3. Stack(srcs', REPTN) /\ Macros(srcs', objects)
      BY <1>1, <2>1, Current, SameButPtr, Moves
    <2>4. IsSeq(srcs') /\ IsSeq(objects)
      BY <2>3 DEF Stack, Macros
    <2>5. Pushes(objects, objects', obj)
      BY <2>1, <2>4, Appended
    <2>6. Macros(srcs', objects')
      BY <2>2, <2>3, <2>4, <2>5, MacrosDefine
    <2>7. Len(objects) \in Nat /\ Len(objects') = Len(objects) + 1
      BY <2>4, <2>5, SeqDomain DEF Pushes
    <2>8. Names(macrohash', objects')
      <3>1. /\ DOMAIN macrohash' = DOMAIN macrohash \cup {defn.name}
            /\ \A x \in DOMAIN macrohash' : macrohash'[x] = IF x = defn.name THEN Len(objects) + 1
                                                           ELSE macrohash[x]
        BY <2>1
      <3>2. Names(macrohash, objects)
        BY <1>1 DEF SrcInv
      <3>3. PICK k \in Nat : k = Len(objects) /\ Len(objects') = k + 1
        BY <2>7
      <3>4. \A i \in 1..k : i \in 1..k + 1
        BY <3>3
      <3>5. k + 1 \in 1..k + 1
        BY <3>3
      <3>6. \A x \in DOMAIN macrohash' : macrohash'[x] \in 1..k + 1
        BY <3>1, <3>2, <3>3, <3>4, <3>5 DEF Names
      <3> QED BY <3>3, <3>6 DEF Names
    <2> QED BY <2>1, <2>3, <2>6, <2>8 DEF SrcInv
  <1>5. CASE /\ end # 0 /\ srcs' = ReplaceCur([cur_src EXCEPT !.ptr = end + 1])
             /\ UNCHANGED <<objects, macrohash, REPTN>>
    <2>1. Names(macrohash', objects)
      BY <1>1, <1>5 DEF SrcInv
    <2> QED BY <1>1, <1>5, <2>1, ReadOn
  <1>6. CASE /\ end # 0
             /\ srcs' = Append(ReplaceCur([cur_src EXCEPT !.ptr = end + 1]), start_repeat(cur_src, end))
             /\ REPTN' = 0 /\ UNCHANGED <<objects, macrohash>>
    <2>1. PICK b : b = new_source(defn.file, defn.from, end - 1, srcs)
      OBVIOUS
    <2>2. DOMAIN b = SrcFields /\ b.macro = 0
      BY <2>1, Current, NewSource
    <2>3. PICK c : c = start_repeat(cur_src, end)
      OBVIOUS
    <2>4. DOMAIN c = SrcFields /\ c.macro = 0 /\ c.defsrc = TRUE /\ c.reptn = 0
      BY <2>1, <2>2, <2>3 DEF start_repeat, SrcFields
    <2>5. IsRept(c)
      BY <2>4, Zenon DEF IsRept
    <2>6. IsSrc(c)
      BY <2>4, <2>5 DEF IsSrc
    <2>7. Stack(srcs', c.reptn) /\ Macros(srcs', objects)
      BY <1>1, <1>6, <2>3, <2>4, <2>5, <2>6, Enters
    <2> QED BY <1>1, <1>6, <2>4, <2>7 DEF SrcInv
  <1>7. add_macro(end) /\ defn.kept # TRUE =>
            /\ srcs' = ReplaceCur([cur_src EXCEPT !.ptr = end + 1])
            /\ UNCHANGED <<objects, macrohash, REPTN>>
    BY DEF add_macro
  <1> QED BY <1>2, <1>3, <1>4, <1>5, <1>6, <1>7 DEF ReadDefinition

\* execute_macro: the limit is tested before the count is raised.
LEMMA StepExecuteMacro ==
    ASSUME SrcInv, execute_macro
    PROVE  SrcInv'
  <1>1. phase # "end" /\ macrohash' = macrohash /\ REPTN' = REPTN
    BY DEF execute_macro, Execute, Read
  <1>2. Macros(srcs, objects) /\ Names(macrohash, objects)
    BY <1>1 DEF SrcInv
  <1>3. PICK l, args :
          IF l.name \notin DOMAIN macrohash
          THEN srcs' = ReplaceCur(Advance) /\ objects' = objects
          ELSE LET o == macrohash[l.name]
                   m == objects[o]
                   p == Parameters(m, args)
               IN  IF AtLimit(m) THEN srcs' = srcs /\ objects' = objects
                   ELSE /\ objects' = [objects EXCEPT ![o].recursions = @ + 1]
                        /\ srcs' = Append(ReplaceCur(Advance),
                                      [new_source(m.file, m.from, m.to, srcs) EXCEPT
                                          !.macro = o, !.defsrc = TRUE, !.argnames = m.argnames,
                                          !.num_params = p.num, !.param = p.param])
    BY DEF execute_macro
  <1>4. CASE l.name \notin DOMAIN macrohash
    BY <1>1, <1>2, <1>3, <1>4, ReadOn DEF Advance
  <1>5. CASE l.name \in DOMAIN macrohash
    <2>1. PICK o \in 1..Len(objects) : o = macrohash[l.name]
      BY <1>2, <1>5 DEF Names
    <2>2. CASE AtLimit(objects[o])
      BY <1>1, <1>3, <1>5, <2>1, <2>2, StayThere
    <2>3. CASE ~AtLimit(objects[o])
      <3>1. PICK b : b = new_source(objects[o].file, objects[o].from, objects[o].to, srcs)
        OBVIOUS
      <3>2. DOMAIN b = SrcFields /\ b.repeat = 1 /\ b.reptn = REPTN
        BY <3>1, Current, NewSource DEF cur_src
      <3>3. PICK p : p = Parameters(objects[o], args)
        OBVIOUS
      <3>4. PICK c : c = [b EXCEPT !.macro = o, !.defsrc = TRUE, !.argnames = objects[o].argnames,
                                   !.num_params = p.num, !.param = p.param]
        OBVIOUS
      <3>5. DOMAIN c = SrcFields /\ c.macro = o /\ c.repeat = 1 /\ c.reptn = REPTN
        BY <3>2, <3>4 DEF SrcFields
      <3>6. /\ objects' = [objects EXCEPT ![o].recursions = @ + 1]
            /\ srcs' = Append(ReplaceCur(Advance), c)
        BY <1>3, <1>5, <2>1, <2>3, <3>1, <3>3, <3>4
      <3>7. IsSrc(c)
        BY <3>5 DEF IsSrc
      <3>8. Stack(srcs', REPTN) /\ Macros(srcs', objects')
        BY <1>1, <2>3, <3>5, <3>6, <3>7, Enters DEF Advance
      <3>9. Len(objects') = Len(objects)
        <4>1. IsSeq(objects) /\ IsSeq(objects')
          BY <1>2, <3>8 DEF Macros
        <4>2. DOMAIN objects' = DOMAIN objects
          BY <3>6
        <4> QED BY <4>1, <4>2, SameLength
      <3> QED BY <1>1, <1>2, <3>8, <3>9 DEF SrcInv, Names
    <2> QED BY <2>2, <2>3
  <1> QED BY <1>4, <1>5

\* leave_macro: end_source gives up the repetitions of the instance.
LEMMA StepLeaveMacro ==
    ASSUME SrcInv, leave_macro
    PROVE  SrcInv'
  <1>1. phase # "end" /\ macrohash' = macrohash /\ REPTN' = REPTN /\ objects' = objects
    BY DEF leave_macro, Execute, Read
  <1>2. Names(macrohash, objects)
    BY <1>1 DEF SrcInv
  <1>3. CASE srcs' = ReplaceCur(Advance)
    BY <1>1, <1>2, <1>3, ReadOn DEF Advance
  <1>4. CASE end_source(cur_src)
    <2>1. srcs' = ReplaceCur([cur_src EXCEPT !.ptr = cur_src.to + 1, !.repeat = 1])
      BY <1>4 DEF end_source
    <2>2. Stack(srcs', REPTN) /\ Macros(srcs', objects)
      BY <1>1, <2>1, Current, SameButPtr, Moves
    <2> QED BY <1>1, <1>2, <2>2 DEF SrcInv
  <1> QED BY <1>3, <1>4 DEF leave_macro

\* include_source: a file inherits REPTN.
LEMMA StepIncludeSource ==
    ASSUME SrcInv, include_source
    PROVE  SrcInv'
  <1>1. phase # "end" /\ macrohash' = macrohash /\ REPTN' = REPTN /\ objects' = objects
    BY DEF include_source, Execute, Read
  <1>2. Names(macrohash, objects)
    BY <1>1 DEF SrcInv
  <1>3. CASE srcs' = srcs
    BY <1>1, <1>3, StayThere
  <1>4. CASE srcs' = ReplaceCur(Advance)
    BY <1>1, <1>2, <1>4, ReadOn DEF Advance
  <1>5. ASSUME NEW f, srcs' = Append(ReplaceCur(Advance), file_source(f, srcs))
        PROVE  SrcInv'
    <2>1. PICK c : c = file_source(f, srcs)
      OBVIOUS
    <2>2. IsSrc(c) /\ c.macro = 0 /\ c.reptn = REPTN
      BY <2>1, Current, NewSource DEF file_source, cur_src
    <2>3. Stack(srcs', REPTN) /\ Macros(srcs', objects)
      BY <1>1, <1>5, <2>1, <2>2, Enters DEF Advance
    <2> QED BY <1>1, <1>2, <2>3 DEF SrcInv
  <1> QED BY <1>3, <1>4, <1>5 DEF include_source

\* Every other line of a program moves the pointer and may take a name out of
\* the hash table.
LEMMA StepLine ==
    ASSUME SrcInv, \/ If \/ Endif \/ Skip \/ Blank \/ Data \/ UnexpectedEnd
                   \/ new_macro \/ undef_macro \/ new_repeat
    PROVE  SrcInv'
  <1>1. /\ phase # "end" /\ REPTN' = REPTN /\ objects' = objects
        /\ srcs' = ReplaceCur([cur_src EXCEPT !.ptr = @ + 1])
    BY DEF If, Endif, Skip, Blank, Data, UnexpectedEnd, new_macro, undef_macro, new_repeat,
           Execute, Read, Advance, condvars
  <1>2. Names(macrohash, objects)
    BY <1>1 DEF SrcInv
  <1>3. \/ macrohash' = macrohash
        \/ \E n : macrohash' = Restrict(macrohash, DOMAIN macrohash \ {n})
    BY DEF If, Endif, Skip, Blank, Data, UnexpectedEnd, new_macro, undef_macro, new_repeat
  <1>4. Names(macrohash', objects)
    BY <1>2, <1>3, NamesRestrict
  <1> QED BY <1>1, <1>4, ReadOn
-----------------------------------------------------------------------------
\* include_main_source: one instance, that inherits nothing.
LEMMA SrcInvInit == Init => SrcInv
  <1> SUFFICES ASSUME Init PROVE SrcInv
    OBVIOUS
  <1>1. PICK c : c = file_source(Main, << >>)
    OBVIOUS
  <1>2. /\ srcs = <<c>> /\ objects = << >> /\ macrohash = << >> /\ REPTN = -1
    BY <1>1 DEF Init
  <1>3. DOMAIN c = SrcFields /\ c.macro = 0 /\ c.repeat = 1 /\ c.reptn = -1
    BY <1>1 DEF file_source, new_source, SrcFields
  <1>4. c.defsrc = FALSE
    BY <1>1 DEF file_source, new_source
  <1>5. ~IsRept(c) /\ IsSrc(c)
    BY <1>3, <1>4 DEF IsRept, IsSrc
  <1>6. srcs \in Seq({c}) /\ Len(srcs) = 1 /\ srcs[1] = c /\ srcs # << >>
    BY <1>2
  <1>7. \A i \in 1..1 : i = 1
    OBVIOUS
  <1>8. Inherited(srcs, 1)
    BY <1>2, <1>3, <1>5, <1>6, <1>7 DEF Inherited
  <1>9. Stack(srcs, REPTN)
    BY <1>2, <1>3, <1>5, <1>6, <1>7, <1>8 DEF Stack, IsSeq
  <1>10. Len(objects) = 0 /\ IsSeq(objects)
    BY <1>2 DEF IsSeq
  <1>11. Macros(srcs, objects)
    <2>1. 0 \in 0..0 /\ 1..0 = {}
      OBVIOUS
    <2> QED BY <1>3, <1>6, <1>7, <1>10, <2>1 DEF Macros
  <1>12. Names(macrohash, objects)
    BY <1>2 DEF Names
  <1> QED BY <1>9, <1>11, <1>12 DEF SrcInv

\* Every step keeps the invariant.
LEMMA SrcInvNext == SrcInv /\ [Next]_vars => SrcInv'
  <1> SUFFICES ASSUME SrcInv, [Next]_vars PROVE SrcInv'
    OBVIOUS
  <1>1. CASE UNCHANGED vars
    BY <1>1 DEF vars, SrcInv
  <1> QED BY <1>1, StepReadAgain, StepLeaveSource, StepReadDefinition, StepExecuteMacro,
             StepLeaveMacro, StepIncludeSource, StepLine DEF Next

\* The counts are the ones of the property.
LEMMA SrcInvBalanced == SrcInv => RecursionsBalanced
  <1> SUFFICES ASSUME SrcInv, phase # "end", NEW o \in DOMAIN objects
               PROVE  /\ objects[o].recursions = Cardinality({i \in DOMAIN srcs : srcs[i].macro = o})
                      /\ objects[o].recursions <= maxmacrecurs
    BY DEF RecursionsBalanced
  <1>1. Macros(srcs, objects) /\ IsSeq(objects) /\ IsSeq(srcs)
    BY DEF SrcInv, Macros, Stack
  <1>2. DOMAIN objects = 1..Len(objects) /\ DOMAIN srcs = 1..Len(srcs)
    BY <1>1, SeqDomain
  <1>3. Macro(objects[o], Instances(srcs, o))
    BY <1>1, <1>2 DEF Macros
  <1>4. Instances(srcs, o) = {i \in DOMAIN srcs : srcs[i].macro = o}
    BY <1>2 DEF Instances
  <1> QED BY <1>3, <1>4 DEF Macro

\* The value that is inherited is the one of the innermost repetition.
LEMMA SrcInvInnermost == SrcInv => ReptnIsInnermost
  <1> SUFFICES ASSUME SrcInv PROVE ReptnIsInnermost
    OBVIOUS
  <1> DEFINE rept == {i \in DOMAIN srcs : srcs[i].macro = 0 /\ srcs[i].defsrc}
  <1>1. PICK n \in Nat : n = Len(srcs) /\ n # 0
    BY Current
  <1>2. DOMAIN srcs = 1..n
    BY <1>1, Current, SeqDomain
  <1>3. \A i : i \in rept <=> i \in 1..n /\ IsRept(srcs[i])
    BY <1>2, Zenon DEF IsRept
  <1>4. Inherited(srcs, n) /\ REPTN = srcs[n].reptn
    BY <1>1 DEF SrcInv, Stack
  <1> SUFFICES REPTN = IF rept = {} THEN -1
                       ELSE srcs[CHOOSE i \in rept : \A j \in rept : j <= i].reptn
    BY DEF ReptnIsInnermost
  <1> HIDE DEF rept
  <1>5. CASE srcs[n].reptn = -1 /\ \A k \in 1..n : ~IsRept(srcs[k])
    <2>1. rept = {}
      BY <1>3, <1>5
    <2> QED BY <1>4, <1>5, <2>1
  <1>6. ASSUME NEW j \in 1..n, IsRept(srcs[j]), srcs[n].reptn = srcs[j].reptn,
               \A k \in j + 1..n : ~IsRept(srcs[k])
        PROVE  srcs[n].reptn = IF rept = {} THEN -1
                               ELSE srcs[CHOOSE i \in rept : \A k \in rept : k <= i].reptn
    <2>1. j \in rept
      BY <1>3, <1>6
    <2>2. ASSUME NEW i \in rept PROVE i \in Nat /\ i <= j
      <3>1. i \in 1..n /\ IsRept(srcs[i])
        BY <1>3
      <3>2. i \notin j + 1..n
        BY <1>6, <3>1
      <3> QED BY <3>1, <3>2
    <2>3. PICK i : i = CHOOSE x \in rept : \A k \in rept : k <= x
      OBVIOUS
    <2>4. i \in rept /\ \A k \in rept : k <= i
      BY <2>1, <2>2, <2>3
    <2>5. i = j
      BY <2>1, <2>2, <2>4
    <2> QED BY <1>6, <2>1, <2>3, <2>5
  <1> QED BY <1>4, <1>5, <1>6 DEF Inherited
-----------------------------------------------------------------------------
\* For every program and every limit: the count of recursions of a macro is the
\* number of its instances that are being read, and never above the limit,
\* whatever is redefined, removed, included, repeated or left by MEXIT
\* meanwhile (execute_macro, leave_macro, read_next_line).  In particular
\* read_next_line never decrements it below zero, its internal error.
THEOREM SourceRecursionsBalanced == Spec => []RecursionsBalanced
  <1>1. SrcInv /\ [Next]_vars => SrcInv'
    BY SrcInvNext
  <1> QED BY <1>1, SrcInvInit, SrcInvBalanced, PTL DEF Spec

\* For every program: REPTN is the iteration of the innermost repetition that is
\* being read, in the macros and files entered from it and after they were left
\* too, and -1 outside of all repetitions (new_source, start_repeat,
\* read_next_line).
THEOREM SourceReptnIsInnermost == Spec => []ReptnIsInnermost
  <1>1. SrcInv /\ [Next]_vars => SrcInv'
    BY SrcInvNext
  <1> QED BY <1>1, SrcInvInit, SrcInvInnermost, PTL DEF Spec

-----------------------------------------------------------------------------
(* The end of a definition                                                 *)

\* The elements of T from a to i.
Counted(T, a, i) == Cardinality({j \in a..i : j \in T})

\* One more place is looked at.
LEMMA CountedNext ==
    ASSUME NEW T, NEW a \in Nat \ {0}, NEW i \in Nat, i >= a
    PROVE  /\ Counted(T, a, i) \in Nat /\ Counted(T, a, i - 1) \in Nat
           /\ i \in T => Counted(T, a, i) = Counted(T, a, i - 1) + 1
           /\ i \notin T => Counted(T, a, i) = Counted(T, a, i - 1)
  <1> DEFINE A == {j \in a..i : j \in T}
             B == {j \in a..i - 1 : j \in T}
  <1>1. IsFiniteSet(B)
    <2>1. IsFiniteSet(a..i - 1) /\ B \subseteq a..i - 1
      BY FS_Interval
    <2> QED BY <2>1, FS_Subset
  <1>2. i \notin B /\ \A j : j \in a..i <=> j \in a..i - 1 \/ j = i
    OBVIOUS
  <1>3. CASE i \in T
    <2>1. A = B \cup {i}
      BY <1>2, <1>3
    <2> QED BY <1>1, <1>2, <1>3, <2>1, FS_AddElement, FS_CardinalityType DEF Counted
  <1>4. CASE i \notin T
    <2>1. A = B
      BY <1>2, <1>4
    <2> QED BY <1>1, <1>4, <2>1, FS_CardinalityType DEF Counted
  <1> QED BY <1>3, <1>4

\* The lines that begin a repetition, and the ones that end one.
Opening(lines) == {j \in Nat : dirlist_match(lines[j], {"rept", "irp"})}
Closing(lines) == {j \in Nat : dirlist_match(lines[j], {"endr"})}
Depth(lines, a, i) == 1 + Counted(Opening(lines), a, i) - Counted(Closing(lines), a, i)

\* From a line to the next the depth falls by one at most.
LEMMA DepthNext ==
    ASSUME NEW lines, NEW a \in Nat \ {0}, NEW i \in Nat, i >= a
    PROVE  /\ Depth(lines, a, i) \in Int /\ Depth(lines, a, i - 1) \in Int
           /\ Depth(lines, a, i) >= Depth(lines, a, i - 1) - 1
           /\ i \in Opening(lines) => Depth(lines, a, i) = Depth(lines, a, i - 1) + 1
  <1>1. ~(i \in Opening(lines) /\ i \in Closing(lines))
    BY DEF Opening, Closing, dirlist_match
  <1>2. PICK o \in Nat, p \in Nat : o = Counted(Opening(lines), a, i) /\ p = Counted(Opening(lines), a, i - 1)
    BY CountedNext
  <1>3. PICK c \in Nat, d \in Nat : c = Counted(Closing(lines), a, i) /\ d = Counted(Closing(lines), a, i - 1)
    BY CountedNext
  <1>4. o = p + 1 \/ (o = p /\ i \notin Opening(lines))
    BY <1>2, CountedNext
  <1>5. (c = d + 1 /\ i \in Closing(lines)) \/ c = d
    BY <1>3, CountedNext
  <1>6. Depth(lines, a, i) = 1 + o - c /\ Depth(lines, a, i - 1) = 1 + p - d
    BY <1>2, <1>3 DEF Depth
  <1> QED BY <1>1, <1>4, <1>5, <1>6

\* Before the first line where it is zero the depth is positive.
LEMMA DepthPositive ==
    ASSUME NEW lines, NEW a \in Nat \ {0}, NEW e \in Nat, e >= a,
           \A i \in a..e - 1 : Depth(lines, a, i) # 0
    PROVE  \A i \in a..e - 1 : Depth(lines, a, i) >= 1
  <1> DEFINE T == {n \in Nat : Depth(lines, a, a + n - 1) >= 1}
             m == e - a
  <1>1. 0 \in T
    <2>1. \A S : {j \in a..a - 1 : j \in S} = {}
      OBVIOUS
    <2>2. \A S : Counted(S, a, a - 1) = 0
      BY <2>1, FS_EmptySet DEF Counted
    <2>3. a + 0 - 1 = a - 1 /\ Depth(lines, a, a - 1) = 1
      BY <2>2 DEF Depth
    <2> QED BY <2>3
  <1>2. ASSUME NEW n \in 1..m, n - 1 \in T PROVE n \in T
    <2>1. PICK i \in Nat : i = a + n - 1 /\ i >= a /\ i \in a..e - 1
      OBVIOUS
    <2>2. a + (n - 1) - 1 = i - 1
      BY <2>1
    <2>3. Depth(lines, a, i - 1) >= 1
      BY <1>2, <2>2
    <2>4. Depth(lines, a, i) \in Int /\ Depth(lines, a, i - 1) \in Int
          /\ Depth(lines, a, i) >= Depth(lines, a, i - 1) - 1
      BY <2>1, DepthNext
    <2>5. Depth(lines, a, i) >= 1
      BY <2>1, <2>3, <2>4
    <2> QED BY <2>1, <2>5
  <1>3. m \in Nat
    OBVIOUS
  <1> HIDE DEF T
  <1>4. \A n \in 0..m : n \in T
    BY <1>1, <1>2, <1>3, Induction
  <1>5. ASSUME NEW i \in a..e - 1 PROVE Depth(lines, a, i) >= 1
    <2>1. i - a + 1 \in 0..m /\ a + (i - a + 1) - 1 = i
      OBVIOUS
    <2>2. i - a + 1 \in T
      BY <1>4, <2>1
    <2> QED BY <2>1, <2>2 DEF T
  <1> QED BY <1>5

\* What EndLine finds: the first end of a macro, or the end of a repetition, and
\* that is not the line after one that begins a repetition.
LEMMA EndFound ==
    ASSUME NEW lines, NEW a \in Nat \ {0}, NEW b \in Nat, NEW e, e = EndLine(lines, a, b), e # 0
    PROVE  /\ e \in a..b
           /\ defn.op = "macro" => lines[e].op = "endm"
           /\ defn.op # "macro" =>
                \A i \in a..e - 1 : lines[i].op \in {"rept", "irp"} => Nonblank(lines, i + 1, e - 1)
  <1> DEFINE ends == IF defn.op = "macro"
                     THEN {i \in a..b : dirlist_match(lines[i], {"endm"})}
                     ELSE {i \in a..b : Depth(lines, a, i) = 0}
  <1>1. e = IF ends = {} THEN 0 ELSE CHOOSE i \in ends : \A j \in ends : i <= j
    <2>1. ASSUME NEW i \in a..b
          PROVE  /\ {j \in a..i : j \in Opening(lines)} = {j \in a..i : dirlist_match(lines[j], {"rept", "irp"})}
                 /\ {j \in a..i : j \in Closing(lines)} = {j \in a..i : dirlist_match(lines[j], {"endr"})}
      BY DEF Opening, Closing
    <2>2. ASSUME NEW i \in a..b
          PROVE  Depth(lines, a, i) = 1 + Cardinality({j \in a..i : dirlist_match(lines[j], {"rept", "irp"})})
                                        - Cardinality({j \in a..i : dirlist_match(lines[j], {"endr"})})
      BY <2>1 DEF Depth, Counted
    <2> DEFINE found == IF defn.op = "macro"
                        THEN {i \in a..b : dirlist_match(lines[i], {"endm"})}
                        ELSE {i \in a..b : 1 + Cardinality({j \in a..i : dirlist_match(lines[j], {"rept", "irp"})})
                                             - Cardinality({j \in a..i : dirlist_match(lines[j], {"endr"})}) = 0}
    <2>3. EndLine(lines, a, b) = IF found = {} THEN 0 ELSE CHOOSE i \in found : \A j \in found : i <= j
      BY DEF EndLine
    <2>4. ends = found
      BY <2>2
    <2> HIDE DEF ends, found
    <2> QED BY <2>3, <2>4
  <1>2. ends \subseteq a..b
    OBVIOUS
  <1>3. e \in ends /\ \A j \in ends : e <= j
    <2> HIDE DEF ends
    <2>1. ends # {} /\ ends \subseteq Nat
      BY <1>1, <1>2
    <2>2. \E i \in ends : \A j \in ends : i <= j
      BY <2>1, Least
    <2> QED BY <1>1, <2>1, <2>2
  <1>4. e \in a..b
    BY <1>2, <1>3
  <1>5. CASE defn.op = "macro"
    BY <1>3, <1>4, <1>5 DEF dirlist_match
  <1>6. ASSUME defn.op # "macro", NEW i \in a..e - 1, lines[i].op \in {"rept", "irp"},
               ~Nonblank(lines, i + 1, e - 1)
        PROVE  FALSE
    <2>1. Depth(lines, a, e) = 0 /\ \A k \in a..e - 1 : Depth(lines, a, k) # 0
      BY <1>3, <1>4, <1>6
    <2>2. e \in Nat /\ e - 1 \in Nat /\ e >= a /\ e - 1 >= a /\ i \in Nat /\ i >= a /\ i <= e - 1
      BY <1>4, <1>6
    <2>3. ~DottedLists
      <3>1. ASSUME DottedLists PROVE FALSE
        <4>1. Opening(lines) = {} /\ Closing(lines) = {}
          BY <3>1 DEF Opening, Closing, dirlist_match
        <4>2. \A n : {j \in a..n : j \in {}} = {}
          OBVIOUS
        <4>3. Counted({}, a, e) = 0
          BY <4>2, FS_EmptySet DEF Counted
        <4> QED BY <2>1, <4>1, <4>3 DEF Depth
      <3> QED BY <3>1
    <2>4. i \in Opening(lines)
      BY <1>6, <2>2, <2>3 DEF Opening, dirlist_match
    <2>5. Depth(lines, a, i) = Depth(lines, a, i - 1) + 1 /\ Depth(lines, a, i - 1) \in Int
      BY <2>2, <2>4, DepthNext
    <2>6. Depth(lines, a, e) >= Depth(lines, a, e - 1) - 1
      BY <2>2, DepthNext
    <2>7. Depth(lines, a, i - 1) >= 1
      <3>1. CASE i - 1 \in a..e - 1
        BY <2>1, <2>2, <3>1, DepthPositive
      <3>2. CASE i - 1 \notin a..e - 1
        <4>1. i - 1 = a - 1
          BY <2>2, <3>2
        <4>2. \A S : {j \in a..a - 1 : j \in S} = {}
          OBVIOUS
        <4>3. \A S : Counted(S, a, a - 1) = 0
          BY <4>2, FS_EmptySet DEF Counted
        <4> QED BY <4>1, <4>3 DEF Depth
      <3> QED BY <3>1, <3>2
    <2>8. Depth(lines, a, e - 1) = Depth(lines, a, i)
      <3>1. \A j \in i + 1..e - 1 : j \notin Opening(lines) /\ j \notin Closing(lines)
        BY <1>6 DEF Nonblank, Opening, Closing, dirlist_match
      <3>2. \A j \in a..e - 1 : j \in a..i \/ j \in i + 1..e - 1
        BY <2>2
      <3>3. \A j \in a..i : j \in a..e - 1
        BY <2>2
      <3>4. /\ {j \in a..e - 1 : j \in Opening(lines)} = {j \in a..i : j \in Opening(lines)}
            /\ {j \in a..e - 1 : j \in Closing(lines)} = {j \in a..i : j \in Closing(lines)}
        BY <3>1, <3>2, <3>3
      <3> QED BY <3>4 DEF Depth, Counted
    <2> QED BY <2>1, <2>2, <2>5, <2>6, <2>7, <2>8
  <1> QED BY <1>4, <1>5, <1>6

-----------------------------------------------------------------------------
(* The pieces of text that instances and macros are                        *)

\* No text of a program ends in the middle of a definition.
DefinitionsStayInText == \A p \in Programs : \A f \in FilesOf(p) : DefinitionsInOneText(Text(p, f))

\* Behind every line from a to b that opens a definition a line follows.
Followed(q, a, b, ops) == \A i \in a..b : q[i].op \in ops => Nonblank(q, i + 1, b)

\* Lines of a file of program p; none begins a repetition and leaves no room for it.
Piece(p, x) ==
    /\ x.file \in FilesOf(p)
    /\ x.from \in Nat \ {0} /\ x.to \in Nat
    /\ x.from <= x.to + 1 /\ x.to <= Len(Text(p, x.file))
    /\ Followed(Text(p, x.file), x.from, x.to, {"rept", "irp"})

\* An instance; a macro can be defined only where no end of a macro or of a
\* repetition may come before the end of the definition.
Inst(p, s) ==
    /\ Piece(p, s)
    /\ ~s.defsrc => Followed(Text(p, s.file), s.from, s.to, {"macro"})
    /\ s.ptr \in s.from..s.to + 1
    /\ s.repeat \in Nat /\ s.cond_level \in 0..MAXCONDLEV - 1

ObjFields == {"file", "from", "to", "recursions"}
Obj(p, o) == ObjFields \subseteq DOMAIN o /\ Piece(p, o)

\* The definition that is being read continues where the current instance is.
Opened(c, d) == /\ ~AtEnd(c) /\ ~ShortRest(c) /\ d.file = c.file /\ d.from = c.ptr
                /\ d.op = "rept" => d.cnt \in Nat

Insts(p, ss) == \A i \in 1..Len(ss) : Inst(p, ss[i])
Objs(p, os) == IsSeq(os) /\ \A o \in 1..Len(os) : Obj(p, os[o])

TextInv ==
    /\ prog \in Programs /\ Insts(prog, srcs) /\ Objs(prog, objects)
    /\ phase = "parsing" /\ defn # NoDefinition => Opened(cur_src, defn)

\* The instances and the names refer to macros, also after the end.
LinkInv == /\ \A i \in 1..Len(srcs) : srcs[i].macro \in 0..Len(objects)
           /\ Names(macrohash, objects)

LevelInv == /\ clev \in 0..MAXCONDLEV /\ (phase = "parsing" => clev < MAXCONDLEV)
            /\ ifnesting \in Nat /\ cond \in [0..MAXCONDLEV -> BOOLEAN]
            /\ phase \in {"parsing", "end", "fatal"}

\* The inductive invariant of the type invariant.
TypeInv == SrcInv /\ TextInv /\ LinkInv /\ LevelInv

\* The current instance is replaced, one is pushed, one is popped.
LEMMA InstsReplace ==
    ASSUME NEW p, NEW ss, IsSeq(ss), ss # << >>, Insts(p, ss), NEW c, Inst(p, c),
           NEW tt, tt = [ss EXCEPT ![Len(ss)] = c]
    PROVE  Insts(p, tt) /\ Last(tt) = c /\ IsSeq(tt)
  <1>1. Replaces(ss, tt, c)
    BY Replaced
  <1> QED BY <1>1 DEF Replaces, Insts, Last

LEMMA InstsPush ==
    ASSUME NEW p, NEW ss, IsSeq(ss), Insts(p, ss), NEW c, Inst(p, c),
           NEW tt, tt = Append(ss, c)
    PROVE  Insts(p, tt)
  <1>1. Pushes(ss, tt, c)
    BY Appended
  <1>2. PICK n \in Nat : n = Len(ss)
    BY SeqDomain
  <1>3. \A i \in 1..n + 1 : i \in 1..n \/ i = n + 1
    BY <1>2
  <1>4. Len(tt) = n + 1 /\ tt[n + 1] = c /\ \A i \in 1..n : tt[i] = ss[i]
    BY <1>1, <1>2 DEF Pushes
  <1>5. \A i \in 1..n : Inst(p, ss[i])
    BY <1>2 DEF Insts
  <1>6. \A i \in 1..n + 1 : Inst(p, tt[i])
    BY <1>3, <1>4, <1>5
  <1> QED BY <1>4, <1>6 DEF Insts

LEMMA InstsPop ==
    ASSUME NEW p, NEW ss, IsSeq(ss), ss # << >>, Len(ss) # 1, Insts(p, ss)
    PROVE  Insts(p, Front(ss))
  <1>1. PICK n \in Nat : n = Len(ss) /\ n >= 2
    BY AtLeastTwo
  <1>2. Len(Front(ss)) = n - 1 /\ \A i \in 1..n - 1 : Front(ss)[i] = ss[i]
    BY <1>1, Popped
  <1>3. \A i \in 1..n - 1 : i \in 1..n
    BY <1>1
  <1> QED BY <1>1, <1>2, <1>3 DEF Insts

\* An instance whose pointer moves within its text.
LEMMA InstAt ==
    ASSUME NEW p, NEW s, Inst(p, s),
           NEW t, t.file = s.file, t.from = s.from, t.to = s.to, t.defsrc = s.defsrc,
           t.cond_level = s.cond_level, t.ptr \in s.from..s.to + 1, t.repeat \in Nat
    PROVE  Inst(p, t)
  BY DEF Inst, Piece

\* The current instance reads on, up to the line after its last one.
LEMMA CurMoves ==
    ASSUME SrcInv, TextInv, NEW q \in cur_src.from..cur_src.to + 1
    PROVE  /\ Inst(prog, [cur_src EXCEPT !.ptr = q])
           /\ Inst(prog, [cur_src EXCEPT !.ptr = q, !.repeat = 1])
  <1>1. Inst(prog, cur_src) /\ DOMAIN cur_src = SrcFields
    <2>1. Len(srcs) \in 1..Len(srcs)
      BY Current
    <2> QED BY <2>1, Current DEF TextInv, Insts, IsSrc
  <1> DEFINE c == [cur_src EXCEPT !.ptr = q]
             d == [cur_src EXCEPT !.ptr = q, !.repeat = 1]
  <1>2. /\ c.file = cur_src.file /\ c.from = cur_src.from /\ c.to = cur_src.to /\ c.defsrc = cur_src.defsrc
        /\ c.cond_level = cur_src.cond_level /\ c.ptr = q /\ c.repeat = cur_src.repeat
    BY <1>1 DEF SrcFields
  <1>3. /\ d.file = cur_src.file /\ d.from = cur_src.from /\ d.to = cur_src.to /\ d.defsrc = cur_src.defsrc
        /\ d.cond_level = cur_src.cond_level /\ d.ptr = q /\ d.repeat = 1
    BY <1>1 DEF SrcFields
  <1> HIDE DEF c, d
  <1>4. cur_src.repeat \in Nat
    BY <1>1 DEF Inst
  <1>5. Inst(prog, c)
    BY <1>1, <1>2, <1>4, InstAt
  <1>6. Inst(prog, d)
    <2>1. d.ptr \in cur_src.from..cur_src.to + 1 /\ d.repeat \in Nat
      BY <1>3
    <2> QED BY <1>1, <1>3, <2>1, InstAt
  <1> QED BY <1>5, <1>6 DEF c, d

\* Where the current instance is.
LEMMA CurInst ==
    ASSUME SrcInv, TextInv
    PROVE  /\ Inst(prog, cur_src) /\ Piece(prog, cur_src) /\ DOMAIN cur_src = SrcFields
           /\ cur_src.from \in Nat \ {0} /\ cur_src.to \in Nat /\ cur_src.ptr \in Nat \ {0}
           /\ cur_src.from <= cur_src.ptr /\ cur_src.ptr <= cur_src.to + 1
           /\ cur_src.to <= Len(Text(prog, cur_src.file))
           /\ ~AtEnd(cur_src) => cur_src.ptr + 1 \in cur_src.from..cur_src.to + 1
  <1>1. Inst(prog, cur_src) /\ DOMAIN cur_src = SrcFields
    <2>1. Len(srcs) \in 1..Len(srcs)
      BY Current
    <2> QED BY <2>1, Current DEF TextInv, Insts, IsSrc
  <1> QED BY <1>1 DEF Inst, Piece, AtEnd

-----------------------------------------------------------------------------
(* The steps, and the pieces of text                                       *)

\* Reading on, with no definition begun or one that begins on the next line.
LEMMA TextReadsOn ==
    ASSUME SrcInv, TextInv, prog' = prog, objects' = objects,
           NEW q \in cur_src.from..cur_src.to + 1, srcs' = ReplaceCur([cur_src EXCEPT !.ptr = q]),
           phase' = "parsing" /\ defn' # NoDefinition => Opened([cur_src EXCEPT !.ptr = q], defn')
    PROVE  TextInv'
  <1>1. PICK c : c = [cur_src EXCEPT !.ptr = q]
    OBVIOUS
  <1>2. Inst(prog, c)
    BY <1>1, CurMoves
  <1>3. Insts(prog, srcs') /\ Last(srcs') = c
    <2>1. srcs' = [srcs EXCEPT ![Len(srcs)] = c]
      BY <1>1 DEF ReplaceCur
    <2>2. IsSeq(srcs) /\ srcs # << >> /\ Insts(prog, srcs)
      BY Current DEF TextInv
    <2> QED BY <1>2, <2>1, <2>2, InstsReplace
  <1>4. phase' = "parsing" /\ defn' # NoDefinition => Opened(cur_src', defn')
    BY <1>1, <1>3 DEF cur_src
  <1> QED BY <1>3, <1>4, Zenon DEF TextInv, Opened, ShortRest

\* Entering a text, with no definition begun.
LEMMA TextEnters ==
    ASSUME SrcInv, TextInv, prog' = prog, Objs(prog, objects'), defn' = NoDefinition,
           NEW q \in cur_src.from..cur_src.to + 1, NEW c, Inst(prog, c),
           srcs' = Append(ReplaceCur([cur_src EXCEPT !.ptr = q]), c)
    PROVE  TextInv'
  <1>1. PICK d, ss : d = [cur_src EXCEPT !.ptr = q] /\ ss = ReplaceCur(d)
    OBVIOUS
  <1>2. Insts(prog, ss) /\ IsSeq(ss)
    <2>1. Inst(prog, d)
      BY <1>1, CurMoves
    <2> QED BY <1>1, <2>1, Current, InstsReplace DEF ReplaceCur, TextInv
  <1>3. Insts(prog, srcs')
    BY <1>1, <1>2, InstsPush
  <1> QED BY <1>3 DEF TextInv

\* A new instance begins at its first line and at the present level.
LEMMA NewInst ==
    ASSUME SrcInv, LevelInv, phase = "parsing", NEW b, NEW file, NEW from, NEW to, NEW parents,
           b = new_source(file, from, to, parents), Piece(prog, b)
    PROVE  /\ DOMAIN b = SrcFields /\ b.file = file /\ b.from = from /\ b.to = to
           /\ b.ptr \in b.from..b.to + 1 /\ b.repeat \in Nat /\ b.cond_level \in 0..MAXCONDLEV - 1
  <1>1. /\ DOMAIN b = SrcFields /\ b.file = file /\ b.from = from /\ b.to = to /\ b.ptr = from
        /\ b.repeat = 1 /\ b.cond_level = clev
    BY DEF new_source, SrcFields
  <1>2. b.ptr \in b.from..b.to + 1
    BY <1>1 DEF Piece
  <1>3. clev \in 0..MAXCONDLEV - 1
    BY SourceAssumption DEF LevelInv
  <1> QED BY <1>1, <1>2, <1>3

\* A repetition begins again at its first line.
LEMMA TextReadAgain ==
    ASSUME SrcInv, TextInv, ReadAgain
    PROVE  TextInv'
  <1> DEFINE c == [cur_src EXCEPT !.ptr = cur_src.from, !.repeat = @ - 1,
                       !.irpvals = IF @ # << >> THEN Tail(@) ELSE @, !.reptn = @ + 1]
  <1>1. /\ phase = "parsing" /\ AtEnd(cur_src) /\ cur_src.repeat > 1
        /\ srcs' = ReplaceCur(c)
        /\ prog' = prog /\ objects' = objects /\ defn' = defn
    BY DEF ReadAgain
  <1>2. defn = NoDefinition
    BY <1>1 DEF TextInv, Opened
  <1>3. Inst(prog, cur_src) /\ DOMAIN cur_src = SrcFields
    BY CurInst
  <1>4. /\ c.file = cur_src.file /\ c.from = cur_src.from /\ c.to = cur_src.to /\ c.defsrc = cur_src.defsrc
        /\ c.cond_level = cur_src.cond_level /\ c.ptr = cur_src.from /\ c.repeat = cur_src.repeat - 1
    BY <1>3 DEF SrcFields
  <1> HIDE DEF c
  <1>5. c.repeat \in Nat
    BY <1>1, <1>3, <1>4 DEF Inst
  <1>6. c.ptr \in cur_src.from..cur_src.to + 1
    BY <1>4, CurInst
  <1>7. Inst(prog, c)
    BY <1>3, <1>4, <1>5, <1>6, InstAt
  <1>8. Insts(prog, srcs')
    BY <1>1, <1>7, Current, InstsReplace DEF ReplaceCur, TextInv
  <1> QED BY <1>1, <1>2, <1>8 DEF TextInv

\* The count of recursions is not the text of a macro.
LEMMA ObjsEndRecursion ==
    ASSUME Objs(prog, objects), NEW src
    PROVE  /\ Objs(prog, EndRecursion(src))
           /\ Len(EndRecursion(src)) = Len(objects)
  <1>1. PICK os : os = EndRecursion(src)
    OBVIOUS
  <1>2. IsSeq(objects) /\ Len(objects) \in Nat /\ DOMAIN objects = 1..Len(objects)
    BY SeqDomain DEF Objs
  <1>3. os = [o \in 1..Len(objects) |-> IF o = src.macro THEN [objects[o] EXCEPT !.recursions = @ - 1] ELSE objects[o]]
    BY <1>1, <1>2 DEF EndRecursion
  <1>4. IsSeq(os) /\ Len(os) = Len(objects)
    <2> DEFINE T == {os[o] : o \in 1..Len(objects)}
    <2>1. os \in [1..Len(objects) -> T]
      BY <1>3
    <2> HIDE DEF T
    <2>2. os \in Seq(T) /\ Len(os) = Len(objects)
      BY <1>2, <2>1, LenProperties, SeqDef
    <2> QED BY <2>2 DEF IsSeq
  <1>5. ASSUME NEW o \in 1..Len(objects) PROVE Obj(prog, os[o])
    <2>1. Obj(prog, objects[o])
      BY DEF Objs
    <2>2. os[o] = objects[o] \/ os[o] = [objects[o] EXCEPT !.recursions = @ - 1]
      BY <1>3
    <2>3. /\ DOMAIN os[o] = DOMAIN objects[o] /\ os[o].file = objects[o].file
          /\ os[o].from = objects[o].from /\ os[o].to = objects[o].to
      BY <2>1, <2>2 DEF Obj, ObjFields
    <2> QED BY <2>1, <2>3 DEF Obj, Piece
  <1> QED BY <1>1, <1>4, <1>5 DEF Objs

\* An instance is left where no definition is read.
LEMMA TextLeaveSource ==
    ASSUME SrcInv, TextInv, LeaveSource
    PROVE  TextInv'
  <1>1. /\ phase = "parsing" /\ AtEnd(cur_src) /\ objects' = EndRecursion(cur_src)
        /\ prog' = prog /\ defn' = defn
    BY DEF LeaveSource
  <1>2. defn = NoDefinition
    BY <1>1 DEF TextInv, Opened
  <1>3. Objs(prog, objects')
    BY <1>1, ObjsEndRecursion DEF TextInv
  <1>4. Insts(prog, srcs')
    <2>1. CASE Len(srcs) = 1
      BY <2>1 DEF LeaveSource, TextInv
    <2>2. CASE Len(srcs) # 1
      BY <2>2, Current, InstsPop DEF LeaveSource, TextInv
    <2> QED BY <2>1, <2>2
  <1> QED BY <1>1, <1>2, <1>3, <1>4 DEF TextInv

\* A definition has been read: what is kept of it is the text from where it
\* began to the line before its end.
LEMMA TextDefined ==
    ASSUME SrcInv, TextInv, ReadDefinition, DefinitionsStayInText,
           NEW e, e = EndLine(Text(prog, cur_src.file), cur_src.ptr, cur_src.to), e # 0,
           NEW x, x.file = defn.file, x.from = defn.from, x.to = e - 1
    PROVE  Piece(prog, x) /\ e + 1 \in cur_src.from..cur_src.to + 1
  <1>1. defn.file = cur_src.file /\ defn.from = cur_src.ptr
    BY DEF TextInv, Opened, ReadDefinition
  <1>2. PICK q : q = Text(prog, cur_src.file)
    OBVIOUS
  <1>3. /\ e \in cur_src.ptr..cur_src.to
        /\ defn.op = "macro" => q[e].op = "endm"
        /\ defn.op # "macro" =>
             \A i \in cur_src.ptr..e - 1 : q[i].op \in {"rept", "irp"} => Nonblank(q, i + 1, e - 1)
    BY <1>2, CurInst, EndFound
  <1>4. e \in Nat /\ cur_src.ptr <= e /\ e <= cur_src.to /\ cur_src.to <= Len(q) /\ cur_src.to \in Nat
    BY <1>2, <1>3, CurInst
  <1>5. cur_src.file \in FilesOf(prog) /\ prog \in Programs
    BY CurInst DEF Piece, TextInv
  <1>6. ASSUME NEW i \in cur_src.ptr..e - 1, q[i].op \in {"rept", "irp"}, ~Nonblank(q, i + 1, e - 1)
        PROVE  FALSE
    <2>1. DefinitionsInOneText(q) /\ Len(q) \in Nat
      BY <1>2, <1>5, TextsAssumption DEF DefinitionsStayInText, IsSequence
    <2>2. i \in 1..Len(q) /\ e \in i + 1..Len(q) /\ i \in Nat
      BY <1>4, <1>6, <2>1, CurInst
    <2>3. PICK j \in i + 1..Len(q) : q[j].op # "blank" /\ ~Nonblank(q, i + 1, j - 1) /\ q[j].op # "endm"
      BY <1>6, <2>1, <2>2 DEF DefinitionsInOneText
    <2>4. q[e].op = "endm"
      BY <1>3, <1>6
    <2>5. CASE j <= e - 1
      <3>1. j \in i + 1..e - 1
        BY <2>2, <2>5
      <3> QED BY <1>6, <2>3, <3>1 DEF Nonblank
    <2>6. CASE j > e
      <3>1. e \in i + 1..j - 1
        BY <1>4, <2>2, <2>6
      <3> QED BY <2>3, <2>4, <3>1 DEF Nonblank
    <2> QED BY <1>4, <2>2, <2>3, <2>4, <2>5, <2>6
  <1>7. Piece(prog, x)
    <2>1. x.from \in Nat \ {0} /\ x.to \in Nat /\ x.from <= x.to + 1 /\ x.to <= Len(q)
      BY <1>1, <1>4, <1>5, <1>2, CurInst, TextsAssumption DEF IsSequence
    <2>2. x.file \in FilesOf(prog) /\ Text(prog, x.file) = q
      BY <1>1, <1>2, <1>5
    <2>3. Followed(q, x.from, x.to, {"rept", "irp"})
      BY <1>1, <1>6 DEF Followed
    <2> QED BY <2>1, <2>2, <2>3 DEF Piece
  <1> QED BY <1>4, <1>7, CurInst

LEMMA TextReadDefinition ==
    ASSUME SrcInv, TextInv, LevelInv, ReadDefinition, DefinitionsStayInText
    PROVE  TextInv'
  <1>1. phase = "parsing" /\ prog' = prog /\ Opened(cur_src, defn)
    BY DEF ReadDefinition, TextInv
  <1>2. PICK e : e = EndLine(Text(prog, cur_src.file), cur_src.ptr, cur_src.to)
    OBVIOUS
  <1>3. CASE e = 0
    <2>1. srcs' = srcs /\ objects' = objects /\ phase' = "fatal"
      BY <1>2, <1>3 DEF ReadDefinition, Report, FATAL
    <2> QED BY <1>1, <2>1 DEF TextInv
  <1>4. CASE e # 0
    <2>1. defn' = NoDefinition
      BY <1>2, <1>4 DEF ReadDefinition
    <2>2. e + 1 \in cur_src.from..cur_src.to + 1
      <3> DEFINE x == [file |-> defn.file, from |-> defn.from, to |-> e - 1]
      <3>1. x.file = defn.file /\ x.from = defn.from /\ x.to = e - 1
        OBVIOUS
      <3> HIDE DEF x
      <3> QED BY <1>2, <1>4, <3>1, TextDefined
    <2>3. CASE add_macro(e) /\ defn.kept = TRUE
      <3> DEFINE obj == [name |-> defn.name, vararg |-> defn.vararg, file |-> defn.file, from |-> defn.from,
                         to |-> e - 1, argnames |-> defn.argnames,
                         defaults |-> defn.defaults, recursions |-> 0]
      <3>1. /\ objects' = Append(objects, obj)
            /\ srcs' = ReplaceCur([cur_src EXCEPT !.ptr = e + 1])
        BY <2>3, Zenon DEF add_macro
      <3>2. ObjFields \subseteq DOMAIN obj /\ obj.file = defn.file /\ obj.from = defn.from /\ obj.to = e - 1
        BY DEF ObjFields
      <3> HIDE DEF obj
      <3>3. Obj(prog, obj)
        BY <1>2, <1>4, <3>2, TextDefined DEF Obj
      <3>4. Objs(prog, objects')
        <4>1. Pushes(objects, objects', obj)
          BY <3>1, Appended DEF TextInv, Objs
        <4>2. PICK n \in Nat : n = Len(objects)
          BY SeqDomain DEF TextInv, Objs
        <4>3. \A i \in 1..n + 1 : i \in 1..n \/ i = n + 1
          BY <4>2
        <4>4. \A i \in 1..n : Obj(prog, objects[i])
          BY <4>2 DEF TextInv, Objs
        <4>5. /\ IsSeq(objects') /\ Len(objects') = n + 1 /\ objects'[n + 1] = obj
              /\ \A i \in 1..n : objects'[i] = objects[i]
          BY <4>1, <4>2 DEF Pushes
        <4>6. \A i \in 1..n + 1 : Obj(prog, objects'[i])
          BY <3>3, <4>3, <4>4, <4>5
        <4> QED BY <4>5, <4>6 DEF Objs
      <3>5. Insts(prog, srcs')
        <4>1. PICK c : c = [cur_src EXCEPT !.ptr = e + 1]
          OBVIOUS
        <4>2. Inst(prog, c)
          BY <2>2, <4>1, CurMoves
        <4>3. srcs' = [srcs EXCEPT ![Len(srcs)] = c]
          BY <3>1, <4>1 DEF ReplaceCur
        <4> QED BY <4>2, <4>3, Current, InstsReplace DEF TextInv
      <3> QED BY <1>1, <2>1, <3>4, <3>5 DEF TextInv
    <2>4. CASE srcs' = ReplaceCur([cur_src EXCEPT !.ptr = e + 1]) /\ objects' = objects
      BY <1>1, <2>1, <2>2, <2>4, TextReadsOn
    <2>5. CASE /\ defn.op = "rept" /\ objects' = objects
               /\ srcs' = Append(ReplaceCur([cur_src EXCEPT !.ptr = e + 1]), start_repeat(cur_src, e))
      <3>1. PICK b : b = new_source(defn.file, defn.from, e - 1, srcs)
        OBVIOUS
      <3>2. PICK c : c = start_repeat(cur_src, e)
        OBVIOUS
      <3>3. DOMAIN b = SrcFields /\ b.file = defn.file /\ b.from = defn.from /\ b.to = e - 1
        BY <3>1 DEF new_source, SrcFields
      <3>4. Piece(prog, b)
        BY <1>2, <1>4, <3>3, TextDefined
      <3>5. b.ptr \in b.from..b.to + 1 /\ b.cond_level \in 0..MAXCONDLEV - 1
        BY <1>1, <3>1, <3>4, NewInst
      <3>6. /\ c.file = b.file /\ c.from = b.from /\ c.to = b.to /\ c.ptr = b.ptr
            /\ c.cond_level = b.cond_level /\ c.repeat = defn.cnt /\ c.defsrc = TRUE
        BY <3>1, <3>2, <3>3 DEF start_repeat, SrcFields
      <3>7. c.repeat \in Nat
        BY <1>1, <2>5, <3>6 DEF Opened
      <3>8. Inst(prog, c)
        BY <3>4, <3>5, <3>6, <3>7 DEF Inst, Piece
      <3> QED BY <1>1, <2>1, <2>2, <2>5, <3>2, <3>8, TextEnters DEF TextInv
    <2>6. add_macro(e) /\ defn.kept # TRUE =>
              srcs' = ReplaceCur([cur_src EXCEPT !.ptr = e + 1]) /\ objects' = objects
      BY DEF add_macro
    <2> QED BY <1>2, <1>4, <2>3, <2>4, <2>5, <2>6 DEF ReadDefinition
  <1> QED BY <1>3, <1>4

\* The line after one that begins a definition is in the same text.
LEMMA LineNext ==
    ASSUME SrcInv, TextInv, ~AtEnd(cur_src),
           \/ Line(cur_src).op \in {"rept", "irp"}
           \/ Line(cur_src).op = "macro" /\ ~cur_src.defsrc,
           NEW c, c = [cur_src EXCEPT !.ptr = cur_src.ptr + 1]
    PROVE  ~AtEnd(c) /\ ~ShortRest(c) /\ c.file = cur_src.file /\ c.ptr = cur_src.ptr + 1
  <1>1. c.file = cur_src.file /\ c.to = cur_src.to /\ c.ptr = cur_src.ptr + 1
    BY CurInst DEF SrcFields
  <1>2. /\ cur_src.ptr \in Nat /\ cur_src.to \in Nat /\ cur_src.from \in Nat
        /\ cur_src.from <= cur_src.ptr /\ cur_src.ptr <= cur_src.to
    BY CurInst DEF AtEnd
  <1>3. PICK q : q = Text(prog, cur_src.file)
    OBVIOUS
  <1>4. Nonblank(q, cur_src.ptr + 1, cur_src.to)
    <2>1. Inst(prog, cur_src) /\ Piece(prog, cur_src) /\ cur_src.ptr \in cur_src.from..cur_src.to
      BY <1>2, CurInst
    <2>2. Line(cur_src) = q[cur_src.ptr]
      BY <1>3 DEF Line
    <2> QED BY <1>3, <2>1, <2>2, Zenon DEF Inst, Piece, Followed
  <1>5. cur_src.ptr + 1 <= cur_src.to
    BY <1>2, <1>4 DEF Nonblank
  <1> QED BY <1>1, <1>2, <1>3, <1>4, <1>5 DEF AtEnd, ShortRest

\* A count is a natural number, and so is the number of the values of IRP.
LEMMA CountNat == \A text : CountOf(text) \in Nat
  BY DEF CountOf

LEMMA LenNat ==
    ASSUME NEW q, IsSequence(q), NEW f(_)
    PROVE  Len([i \in DOMAIN q |-> f(i)]) \in Nat
  <1> DEFINE r == [i \in 1..Len(q) |-> f(i)]
             T == {f(i) : i \in 1..Len(q)}
  <1>1. Len(q) \in Nat /\ DOMAIN q = 1..Len(q)
    BY DEF IsSequence
  <1>2. r \in [1..Len(q) -> T]
    OBVIOUS
  <1> HIDE DEF T
  <1>3. r \in Seq(T)
    BY <1>1, <1>2, SeqDef
  <1> QED BY <1>1, <1>3, LenProperties

\* The lines that begin a definition.
LEMMA TextOpens ==
    ASSUME SrcInv, TextInv, new_macro \/ new_repeat
    PROVE  TextInv'
  <1>1. /\ prog' = prog /\ objects' = objects /\ ~AtEnd(cur_src)
        /\ srcs' = ReplaceCur([cur_src EXCEPT !.ptr = @ + 1])
    BY DEF new_macro, new_repeat, Execute, Read, Advance
  <1>2. PICK c : c = [cur_src EXCEPT !.ptr = cur_src.ptr + 1]
    OBVIOUS
  <1>3. cur_src.ptr + 1 \in cur_src.from..cur_src.to + 1
    BY <1>1, CurInst
  <1>4. phase' = "parsing" => Opened(c, defn')
    <2>1. CASE new_macro
      <3>1. /\ Line(cur_src).op = "macro"
            /\ defn'.op = "macro" /\ defn'.file = cur_src.file /\ defn'.from = cur_src.ptr + 1
        BY <2>1 DEF new_macro, Execute, Read
      <3>2. phase' = "parsing" => ~cur_src.defsrc
        <4>1. PICK es, fs : phase' = IF (es \cup (IF cur_src.defsrc THEN {26} ELSE fs)) \cap FATAL # {} THEN "fatal" ELSE phase
          BY <2>1 DEF new_macro, Report
        <4>2. ASSUME cur_src.defsrc PROVE phase' = "fatal"
          <5>1. 26 \in (es \cup (IF cur_src.defsrc THEN {26} ELSE fs)) \cap FATAL
            BY <4>2 DEF FATAL
          <5> QED BY <4>1, <5>1
        <4> QED BY <4>2
      <3> QED BY <1>1, <1>2, <3>1, <3>2, LineNext DEF Opened
    <2>2. CASE new_repeat
      <3>1. /\ Line(cur_src).op \in {"rept", "irp"}
            /\ defn'.file = cur_src.file /\ defn'.from = cur_src.ptr + 1
        BY <2>2 DEF new_repeat, Execute, Read
      <3>2. PICK l : l = Line(cur_src)
        OBVIOUS
      <3>3. defn'.cnt = IF l.op = "irp" THEN Len([i \in DOMAIN l.vals |-> Value(cur_src, l.vals[i])])
                        ELSE CountOf(Value(cur_src, l.x))
        BY <2>2, <3>2 DEF new_repeat
      <3>4. l.op = "irp" => IsSequence(l.vals)
        <4>1. cur_src.ptr \in DOMAIN Text(prog, cur_src.file)
          <5>1. cur_src.file \in FilesOf(prog) /\ prog \in Programs /\ cur_src.to <= Len(Text(prog, cur_src.file))
            BY CurInst DEF Piece, TextInv
          <5>2. IsSequence(Text(prog, cur_src.file))
            BY <5>1, TextsAssumption
          <5> QED BY <1>1, <5>1, <5>2, CurInst DEF IsSequence, AtEnd
        <4>2. cur_src.file \in FilesOf(prog) /\ prog \in Programs
          BY CurInst DEF Piece, TextInv
        <4> QED BY <3>2, <4>1, <4>2, TextsAssumption DEF Line
      <3>5. defn'.cnt \in Nat
        BY <3>3, <3>4, CountNat, LenNat
      <3> QED BY <1>1, <1>2, <3>1, <3>5, LineNext DEF Opened
    <2> QED BY <2>1, <2>2
  <1> QED BY <1>1, <1>2, <1>3, <1>4, TextReadsOn

\* Every other line of a program.
LEMMA TextLine ==
    ASSUME SrcInv, TextInv, If \/ Endif \/ Skip \/ Blank \/ Data \/ UnexpectedEnd \/ undef_macro
    PROVE  TextInv'
  <1>1. /\ prog' = prog /\ objects' = objects /\ ~AtEnd(cur_src) /\ defn = NoDefinition /\ defn' = defn
        /\ srcs' = ReplaceCur([cur_src EXCEPT !.ptr = @ + 1])
    BY DEF If, Endif, Skip, Blank, Data, UnexpectedEnd, undef_macro, Execute, Read, Advance, TextInv, Opened
  <1>2. cur_src.ptr + 1 \in cur_src.from..cur_src.to + 1
    BY <1>1, CurInst
  <1> QED BY <1>1, <1>2, TextReadsOn

\* MEXIT ends the text of the current instance.
LEMMA TextLeaveMacro ==
    ASSUME SrcInv, TextInv, leave_macro
    PROVE  TextInv'
  <1>1. prog' = prog /\ objects' = objects /\ ~AtEnd(cur_src) /\ defn = NoDefinition /\ defn' = defn
    BY DEF leave_macro, Execute, Read
  <1>2. CASE srcs' = ReplaceCur(Advance)
    <2>1. cur_src.ptr + 1 \in cur_src.from..cur_src.to + 1
      BY <1>1, CurInst
    <2> QED BY <1>1, <1>2, <2>1, TextReadsOn DEF Advance
  <1>3. CASE end_source(cur_src)
    <2>1. PICK c : c = [cur_src EXCEPT !.ptr = cur_src.to + 1, !.repeat = 1]
      OBVIOUS
    <2>2. srcs' = [srcs EXCEPT ![Len(srcs)] = c]
      BY <1>3, <2>1 DEF end_source, ReplaceCur
    <2>3. cur_src.to + 1 \in cur_src.from..cur_src.to + 1
      BY <1>1, CurInst
    <2>4. Inst(prog, c)
      BY <2>1, <2>3, CurMoves
    <2>5. Insts(prog, srcs')
      BY <2>2, <2>4, Current, InstsReplace DEF TextInv
    <2> QED BY <1>1, <2>5 DEF TextInv
  <1> QED BY <1>2, <1>3 DEF leave_macro

\* A call of a macro reads the macro's text.
LEMMA TextExecuteMacro ==
    ASSUME SrcInv, TextInv, LinkInv, LevelInv, execute_macro
    PROVE  TextInv'
  <1>1. /\ phase = "parsing" /\ prog' = prog /\ ~AtEnd(cur_src)
        /\ defn = NoDefinition /\ defn' = defn
    BY DEF execute_macro, Execute, Read
  <1>2. PICK l, args :
          IF l.name \notin DOMAIN macrohash
          THEN srcs' = ReplaceCur(Advance) /\ objects' = objects
          ELSE LET o == macrohash[l.name]
                   m == objects[o]
                   p == Parameters(m, args)
               IN  IF AtLimit(m) THEN srcs' = srcs /\ objects' = objects
                   ELSE /\ objects' = [objects EXCEPT ![o].recursions = @ + 1]
                        /\ srcs' = Append(ReplaceCur(Advance),
                                      [new_source(m.file, m.from, m.to, srcs) EXCEPT
                                          !.macro = o, !.defsrc = TRUE, !.argnames = m.argnames,
                                          !.num_params = p.num, !.param = p.param])
    BY DEF execute_macro
  <1>3. cur_src.ptr + 1 \in cur_src.from..cur_src.to + 1
    BY <1>1, CurInst
  <1>4. CASE l.name \notin DOMAIN macrohash
    BY <1>1, <1>2, <1>3, <1>4, TextReadsOn DEF Advance
  <1>5. CASE l.name \in DOMAIN macrohash
    <2>1. PICK o \in 1..Len(objects) : o = macrohash[l.name]
      BY <1>5 DEF LinkInv, Names
    <2>2. CASE srcs' = srcs /\ objects' = objects
      BY <1>1, <2>2 DEF TextInv
    <2>3. CASE ~AtLimit(objects[o])
      <3>1. PICK b : b = new_source(objects[o].file, objects[o].from, objects[o].to, srcs)
        OBVIOUS
      <3>2. PICK p : p = Parameters(objects[o], args)
        OBVIOUS
      <3>3. PICK c : c = [b EXCEPT !.macro = o, !.defsrc = TRUE, !.argnames = objects[o].argnames,
                                   !.num_params = p.num, !.param = p.param]
        OBVIOUS
      <3>4. /\ objects' = [objects EXCEPT ![o].recursions = @ + 1]
            /\ srcs' = Append(ReplaceCur(Advance), c)
        BY <1>2, <1>5, <2>1, <2>3, <3>1, <3>2, <3>3
      <3>5. /\ DOMAIN b = SrcFields /\ b.file = objects[o].file /\ b.from = objects[o].from
            /\ b.to = objects[o].to
        BY <3>1 DEF new_source, SrcFields
      <3>6. Obj(prog, objects[o]) /\ IsSeq(objects)
        BY DEF TextInv, Objs
      <3>7. Piece(prog, b)
        BY <3>5, <3>6 DEF Obj, Piece
      <3>8. b.ptr \in b.from..b.to + 1 /\ b.repeat \in Nat /\ b.cond_level \in 0..MAXCONDLEV - 1
        BY <1>1, <3>1, <3>7, NewInst
      <3>9. /\ c.file = b.file /\ c.from = b.from /\ c.to = b.to /\ c.ptr = b.ptr
            /\ c.cond_level = b.cond_level /\ c.repeat = b.repeat /\ c.defsrc = TRUE
        BY <3>3, <3>5 DEF SrcFields
      <3>10. Inst(prog, c)
        BY <3>7, <3>8, <3>9 DEF Inst, Piece
      <3>11. Objs(prog, objects')
        <4>1. PICK r : r = [objects[o] EXCEPT !.recursions = @ + 1]
          OBVIOUS
        <4>2. objects' = [objects EXCEPT ![o] = r]
          BY <3>4, <4>1
        <4>3. PICK S : objects \in Seq(S)
          BY <3>6 DEF IsSeq
        <4>4. objects \in Seq(S \cup {r})
          BY <4>3, SeqMonotonic
        <4>5. /\ objects' \in Seq(S \cup {r}) /\ Len(objects') = Len(objects)
              /\ \A i \in 1..Len(objects) : objects'[i] = IF i = o THEN r ELSE objects[i]
          BY <4>2, <4>4, ExceptSeq
        <4>6. Obj(prog, r)
          BY <3>6, <4>1 DEF Obj, ObjFields, Piece
        <4>7. \A i \in 1..Len(objects) : Obj(prog, objects'[i])
          BY <4>5, <4>6 DEF TextInv, Objs
        <4>8. IsSeq(objects')
          BY <4>5 DEF IsSeq
        <4> QED BY <4>5, <4>7, <4>8 DEF Objs
      <3> QED BY <1>1, <1>3, <3>4, <3>10, <3>11, TextEnters DEF Advance
    <2> QED BY <1>2, <1>5, <2>1, <2>2, <2>3
  <1> QED BY <1>4, <1>5

\* A file is a piece of text.
LEMMA FileInst ==
    ASSUME NEW p \in Programs, NEW f \in FilesOf(p), DefinitionsStayInText, LevelInv, phase = "parsing",
           NEW c, DOMAIN c = SrcFields, c.file = f, c.from = 1, c.to = Len(Text(p, f)), c.ptr = 1,
           c.repeat = 1, c.cond_level = clev
    PROVE  Inst(p, c)
  <1>1. PICK q : q = Text(p, f)
    OBVIOUS
  <1>2. Len(q) \in Nat /\ DefinitionsInOneText(q)
    BY <1>1, TextsAssumption DEF IsSequence, DefinitionsStayInText
  <1>3. ASSUME NEW ops \in SUBSET {"macro", "rept", "irp"} PROVE Followed(q, 1, Len(q), ops)
    BY <1>2 DEF DefinitionsInOneText, Followed, Nonblank
  <1>4. Piece(p, c)
    <2>1. Followed(q, 1, Len(q), {"rept", "irp"})
      BY <1>3
    <2> QED BY <1>1, <1>2, <2>1 DEF Piece
  <1>5. Followed(Text(p, c.file), c.from, c.to, {"macro"})
    BY <1>1, <1>3
  <1>6. c.ptr \in c.from..c.to + 1
    BY <1>1, <1>2
  <1>7. clev \in 0..MAXCONDLEV - 1
    BY SourceAssumption DEF LevelInv
  <1> QED BY <1>4, <1>5, <1>6, <1>7 DEF Inst

LEMMA TextIncludeSource ==
    ASSUME SrcInv, TextInv, LevelInv, DefinitionsStayInText, include_source
    PROVE  TextInv'
  <1>1. /\ phase = "parsing" /\ prog' = prog /\ objects' = objects /\ ~AtEnd(cur_src)
        /\ defn = NoDefinition /\ defn' = defn
    BY DEF include_source, Execute, Read
  <1>2. cur_src.ptr + 1 \in cur_src.from..cur_src.to + 1
    BY <1>1, CurInst
  <1>3. CASE srcs' = srcs
    BY <1>1, <1>3 DEF TextInv
  <1>4. CASE srcs' = ReplaceCur(Advance)
    BY <1>1, <1>2, <1>4, TextReadsOn DEF Advance
  <1>5. ASSUME NEW f \in Available(prog), srcs' = Append(ReplaceCur(Advance), file_source(f, srcs))
        PROVE  TextInv'
    <2>1. PICK c : c = file_source(f, srcs)
      OBVIOUS
    <2>2. /\ DOMAIN c = SrcFields /\ c.file = f /\ c.from = 1 /\ c.to = Len(Text(prog, f)) /\ c.ptr = 1
          /\ c.repeat = 1 /\ c.cond_level = clev
      BY <2>1 DEF file_source, new_source, SrcFields
    <2>3. prog \in Programs /\ f \in FilesOf(prog)
      BY DEF TextInv, FilesOf
    <2>4. Inst(prog, c)
      BY <1>1, <2>2, <2>3, FileInst
    <2> QED BY <1>1, <1>2, <1>5, <2>1, <2>4, TextEnters DEF Advance, TextInv
  <1>6. \/ srcs' = srcs \/ srcs' = ReplaceCur(Advance)
        \/ \E f \in Available(prog) : srcs' = Append(ReplaceCur(Advance), file_source(f, srcs))
    BY DEF include_source
  <1> QED BY <1>3, <1>4, <1>5, <1>6

\* The only step to the end leaves the main source, whose instance stays.
LEMMA LastStep ==
    ASSUME Next, phase' = "end"
    PROVE  LeaveSource /\ Len(srcs) = 1
  <1>1. phase = "parsing"
    BY DEF Next, ReadAgain, LeaveSource, ReadDefinition, If, Endif, Skip, Blank, Data, UnexpectedEnd, new_macro,
           undef_macro, execute_macro, leave_macro, new_repeat, include_source, Execute, Read
  <1>2. phase' \in {"parsing", "fatal"} \/ (LeaveSource /\ Len(srcs) = 1)
    <2>1. CASE ReadAgain \/ ReadDefinition
      BY <1>1, <2>1 DEF ReadAgain, ReadDefinition, Report
    <2>2. CASE LeaveSource
      BY <1>1, <2>2 DEF LeaveSource
    <2>3. CASE If \/ Endif \/ Skip \/ Blank \/ Data \/ UnexpectedEnd
      BY <1>1, <2>3 DEF If, Endif, Skip, Blank, Data, UnexpectedEnd, Report
    <2>4. CASE new_macro \/ undef_macro \/ new_repeat
      BY <1>1, <2>4 DEF new_macro, undef_macro, new_repeat, Report
    <2>5. CASE execute_macro
      <3>1. PICK es : phase' = (IF es \cap FATAL # {} THEN "fatal" ELSE phase)
        BY <2>5 DEF execute_macro, Report
      <3> QED BY <1>1, <3>1
    <2>6. CASE leave_macro \/ include_source
      BY <1>1, <2>6 DEF leave_macro, include_source, Report
    <2> QED BY <2>1, <2>2, <2>3, <2>4, <2>5, <2>6 DEF Next
  <1> QED BY <1>2

LEMMA LinkNext ==
    ASSUME SrcInv, SrcInv', TextInv, LinkInv, Next
    PROVE  LinkInv'
  <1>1. CASE phase' # "end"
    BY <1>1 DEF SrcInv, Macros, LinkInv
  <1>2. CASE phase' = "end"
    <2>1. /\ LeaveSource /\ Len(srcs) = 1
      BY <1>2, LastStep
    <2>2. srcs' = srcs /\ objects' = EndRecursion(cur_src) /\ macrohash' = macrohash
      BY <2>1 DEF LeaveSource
    <2>3. Len(objects') = Len(objects)
      BY <2>2, ObjsEndRecursion DEF TextInv
    <2> QED BY <2>2, <2>3 DEF LinkInv, Names
  <1> QED BY <1>1, <1>2

\* The levels of conditional assembly: an IF that reaches the limit is fatal, and
\* MEXIT goes back to the level its instance began with.
LEMMA LevelNext ==
    ASSUME SrcInv, TextInv, LevelInv, Next
    PROVE  LevelInv'
  <1>1. phase = "parsing" /\ phase' \in {"parsing", "end", "fatal"}
    <2>1. phase = "parsing"
      BY DEF Next, ReadAgain, LeaveSource, ReadDefinition, If, Endif, Skip, Blank, Data, UnexpectedEnd, new_macro,
             undef_macro, execute_macro, leave_macro, new_repeat, include_source, Execute, Read
    <2>2. CASE ReadAgain \/ ReadDefinition \/ LeaveSource
      BY <2>1, <2>2 DEF ReadAgain, ReadDefinition, LeaveSource, Report
    <2>3. CASE If \/ Endif \/ Skip \/ Blank \/ Data \/ UnexpectedEnd
      BY <2>1, <2>3 DEF If, Endif, Skip, Blank, Data, UnexpectedEnd, Report
    <2>4. CASE new_macro \/ undef_macro \/ new_repeat
      BY <2>1, <2>4 DEF new_macro, undef_macro, new_repeat, Report
    <2>5. CASE execute_macro
      <3>1. PICK es : phase' = (IF es \cap FATAL # {} THEN "fatal" ELSE phase)
        BY <2>5 DEF execute_macro, Report
      <3> QED BY <2>1, <3>1
    <2>6. CASE leave_macro \/ include_source
      BY <2>1, <2>6 DEF leave_macro, include_source, Report
    <2> QED BY <2>1, <2>2, <2>3, <2>4, <2>5, <2>6 DEF Next
  <1>2. PICK n \in Nat \ {0} : n = MAXCONDLEV /\ clev \in 0..n - 1
    BY <1>1, SourceAssumption DEF LevelInv
  <1>3. CASE UNCHANGED condvars
    BY <1>1, <1>2, <1>3 DEF LevelInv, condvars
  <1>4. CASE If
    <2>1. clev' = clev + 1 /\ ifnesting' = ifnesting
      BY <1>4 DEF If
    <2>2. CASE clev + 1 >= n
      <3>1. cond' = cond /\ phase' = "fatal"
        BY <1>2, <1>4, <2>2 DEF If, Report, FATAL
      <3> QED BY <1>1, <1>2, <2>1, <2>2, <3>1 DEF LevelInv
    <2>3. CASE ~(clev + 1 >= n)
      <3>1. cond' = [cond EXCEPT ![clev + 1] = Value(cur_src, Line(cur_src).x) # Zero]
        BY <1>2, <1>4, <2>3 DEF If
      <3>2. cond' \in [0..n -> BOOLEAN]
        BY <1>2, <3>1 DEF LevelInv
      <3> QED BY <1>1, <1>2, <2>1, <2>3, <3>2 DEF LevelInv
    <2> QED BY <2>2, <2>3
  <1>5. CASE Endif
    <2>1. cond' = cond
      BY <1>5 DEF Endif
    <2>2. clev' \in 0..n - 1 /\ ifnesting' \in Nat
      BY <1>2, <1>5 DEF Endif, LevelInv
    <2> QED BY <1>1, <1>2, <2>1, <2>2 DEF LevelInv
  <1>6. CASE Skip
    <2>1. cond' = cond /\ clev' = clev
      BY <1>6 DEF Skip
    <2>2. ifnesting' \in Nat
      BY <1>6 DEF Skip, LevelInv
    <2> QED BY <1>1, <1>2, <2>1, <2>2 DEF LevelInv
  <1>7. CASE leave_macro
    <2>1. cond' = cond /\ ifnesting' = ifnesting /\ (clev' = clev \/ clev' = cur_src.cond_level)
      BY <1>7 DEF leave_macro, end_source
    <2>2. cur_src.cond_level \in 0..n - 1
      BY <1>2, CurInst DEF Inst
    <2> QED BY <1>1, <1>2, <2>1, <2>2 DEF LevelInv
  <1>8. If \/ Endif \/ Skip \/ leave_macro \/ UNCHANGED condvars
    BY DEF Next, ReadAgain, LeaveSource, ReadDefinition, Blank, Data, UnexpectedEnd, new_macro,
           undef_macro, execute_macro, new_repeat, include_source
  <1> QED BY <1>3, <1>4, <1>5, <1>6, <1>7, <1>8

\* include_main_source.
LEMMA TypeInvInit ==
    ASSUME DefinitionsStayInText, Init
    PROVE  TypeInv
  <1>1. SrcInv
    BY SrcInvInit
  <1>2. PICK c : c = file_source(Main, << >>)
    OBVIOUS
  <1>3. /\ srcs = <<c>> /\ objects = << >> /\ macrohash = << >> /\ prog \in Programs
        /\ defn = NoDefinition /\ clev = 0 /\ phase = "parsing"
    BY <1>2 DEF Init
  <1>4. LevelInv
    BY <1>3, SourceAssumption DEF LevelInv, Init
  <1>5. /\ DOMAIN c = SrcFields /\ c.file = Main /\ c.from = 1 /\ c.to = Len(Text(prog, Main)) /\ c.ptr = 1
        /\ c.repeat = 1 /\ c.cond_level = clev /\ c.macro = 0
    BY <1>2 DEF file_source, new_source, SrcFields
  <1>6. Inst(prog, c)
    <2>1. Main \in FilesOf(prog)
      BY DEF FilesOf
    <2> QED BY <1>3, <1>4, <1>5, <2>1, FileInst
  <1>7. \A i \in 1..Len(srcs) : srcs[i] = c
    BY <1>3
  <1>8. IsSeq(objects) /\ Len(objects) = 0
    BY <1>3 DEF IsSeq
  <1>9. TextInv
    BY <1>3, <1>6, <1>7, <1>8 DEF TextInv, Insts, Objs
  <1>10. LinkInv
    BY <1>3, <1>5, <1>7, <1>8 DEF LinkInv, Names
  <1> QED BY <1>1, <1>4, <1>9, <1>10 DEF TypeInv

LEMMA TypeInvNext ==
    ASSUME DefinitionsStayInText, TypeInv, [Next]_vars
    PROVE  TypeInv'
  <1>1. CASE UNCHANGED vars
    <2>1. SrcInv' /\ LinkInv' /\ LevelInv'
      BY <1>1 DEF vars, TypeInv, SrcInv, LinkInv, LevelInv
    <2>2. TextInv'
      BY <1>1, Zenon DEF vars, TypeInv, TextInv, Opened, ShortRest, cur_src
    <2> QED BY <2>1, <2>2 DEF TypeInv
  <1>2. CASE Next
    <2>1. SrcInv /\ TextInv /\ LinkInv /\ LevelInv
      BY DEF TypeInv
    <2>2. SrcInv'
      BY <1>2, <2>1, SrcInvNext
    <2>3. TextInv'
      BY <1>2, <2>1, TextReadAgain, TextLeaveSource, TextReadDefinition, TextOpens, TextLine,
         TextExecuteMacro, TextLeaveMacro, TextIncludeSource DEF Next
    <2>4. LinkInv' /\ LevelInv'
      BY <1>2, <2>1, <2>2, LinkNext, LevelNext
    <2> QED BY <2>2, <2>3, <2>4 DEF TypeInv
  <1> QED BY <1>1, <1>2

LEMMA TypeInvImplies == TypeInv => TypeOK
  <1> SUFFICES ASSUME TypeInv PROVE TypeOK
    OBVIOUS
  <1>1. SrcInv /\ TextInv /\ LinkInv /\ LevelInv
    BY DEF TypeInv
  <1>2. DOMAIN srcs = 1..Len(srcs) /\ srcs # << >> /\ DOMAIN objects = 1..Len(objects)
    BY <1>1, Current, SeqDomain DEF TextInv, Objs
  <1>3. ASSUME NEW i \in DOMAIN srcs
        PROVE  /\ srcs[i].ptr \in srcs[i].from .. (srcs[i].to + 1)
               /\ srcs[i].macro \in 0..Len(objects) /\ srcs[i].repeat \in Nat
               /\ srcs[i].cond_level \in 0..MAXCONDLEV
    <2>1. Inst(prog, srcs[i]) /\ srcs[i].macro \in 0..Len(objects)
      BY <1>1, <1>2 DEF TextInv, Insts, LinkInv
    <2>2. srcs[i].cond_level \in 0..MAXCONDLEV
      BY <2>1, SourceAssumption DEF Inst
    <2> QED BY <2>1, <2>2 DEF Inst
  <1>4. Range(macrohash) \subseteq DOMAIN objects
    BY <1>1, <1>2 DEF LinkInv, Names, Range
  <1>5. prog \in Programs
    BY <1>1 DEF TextInv
  <1> QED BY <1>1, <1>2, <1>3, <1>4, <1>5 DEF TypeOK, LevelInv
-----------------------------------------------------------------------------
\* For every program whose definitions begin and end in one text, and for every
\* limit: the pointer of every instance stays in its text, an instance refers to
\* a macro that exists, macrohash finds existing macros only, and the level of
\* conditional assembly is below its limit, whatever is repeated, called,
\* included or left by MEXIT (read_next_line, start_repeat, add_macro, end_source).
THEOREM SourceTypeOK ==
    ASSUME DefinitionsStayInText
    PROVE  Spec => []TypeOK
  <1>1. Init => TypeInv
    BY TypeInvInit
  <1>2. TypeInv /\ [Next]_vars => TypeInv'
    BY TypeInvNext
  <1> QED BY <1>1, <1>2, TypeInvImplies, PTL DEF Spec
=============================================================================
