---------------------------- MODULE SymtabProof ----------------------------
(* The symbol table and the symbol list agree, whatever names a source      *)
(* mentions and however many mnemonics are tried for its instructions.     *)
EXTENDS Symtab, Wellorder, SequenceTheorems

Buckets == 0 .. HTSIZE - 1

\* Names, and what find_symbol may be asked for.
Word == Seq(0 .. 2 * UPPER - 1)
Entry == [name : Word, data : Nat \ {0}]
-----------------------------------------------------------------------------
(* Names                                                                   *)

\* f holds the sums of hashcode for the first m characters of name.
NextSum(f, name, i) == (f[i - 1] * 33 + name[i]) % 65536
Sums(f, name, m) == f = [i \in 0 .. m |-> IF i = 0 THEN 5381 ELSE NextSum(f, name, i)]

\* Each sum is made from the one before.
LEMMA SumAt ==
    ASSUME NEW name, NEW n \in Nat, NEW f, Sums(f, name, n)
    PROVE  \A i \in 0 .. n : f[i] = IF i = 0 THEN 5381 ELSE NextSum(f, name, i)
  BY DEF Sums

\* There are such sums: the first m without would be made from those before.
LEMMA SumsExist ==
    ASSUME NEW name, NEW n \in Nat
    PROVE  \E f : Sums(f, name, n)
  <1> DEFINE Bad == {m \in Nat : ~\E f : Sums(f, name, m)}
  <1>1. ASSUME Bad # {} PROVE FALSE
    <2>1. PICK m \in Bad : \A k \in Bad : m <= k
      <3>1. Bad \subseteq Nat
        OBVIOUS
      <3> HIDE DEF Bad
      <3> QED BY <1>1, <3>1, Least
    <2>2. Sums([i \in 0 .. 0 |-> 5381], name, 0)
      BY DEF Sums
    <2>3. m \in Nat /\ m # 0 /\ ~\E f : Sums(f, name, m)
      BY <2>1, <2>2
    <2>4. m - 1 \in Nat /\ m - 1 \notin Bad
      <3> HIDE DEF Bad
      <3> QED BY <2>1, <2>3
    <2>5. PICK f : Sums(f, name, m - 1)
      BY <2>4
    <2> DEFINE g == [i \in 0 .. m |-> IF i < m THEN f[i] ELSE NextSum(f, name, m)]
    <2>6. \A i \in 0 .. m - 1 : f[i] = IF i = 0 THEN 5381 ELSE NextSum(f, name, i)
      BY <2>5 DEF Sums
    <2>7. ASSUME NEW i \in 0 .. m
          PROVE  g[i] = IF i = 0 THEN 5381 ELSE NextSum(g, name, i)
      <3>1. CASE i = m
        <4>1. g[m] = NextSum(f, name, m) /\ g[m - 1] = f[m - 1]
          BY <2>3
        <4>2. NextSum(g, name, m) = NextSum(f, name, m)
          BY <4>1 DEF NextSum
        <4> HIDE DEF g
        <4> QED BY <2>3, <3>1, <4>1, <4>2
      <3>2. CASE i # m
        <4>1. i \in 0 .. m - 1 /\ g[i] = f[i]
          BY <2>3, <3>2
        <4>2. i # 0 => g[i - 1] = f[i - 1]
          BY <2>3, <3>2
        <4>3. i # 0 => NextSum(g, name, i) = NextSum(f, name, i)
          BY <4>2 DEF NextSum
        <4> HIDE DEF g
        <4> QED BY <2>6, <4>1, <4>3
      <3> QED BY <3>1, <3>2
    <2>8. Sums(g, name, m)
      BY <2>7 DEF Sums
    <2> HIDE DEF g
    <2> QED BY <2>3, <2>8
  <1> QED BY <1>1

\* They are numbers, by the same argument.
LEMMA SumsAreNat ==
    ASSUME NEW name, NEW n \in Nat, \A i \in 1 .. n : name[i] \in Nat, NEW f, Sums(f, name, n)
    PROVE  f[n] \in Nat
  <1> DEFINE Bad == {m \in 0 .. n : f[m] \notin Nat}
  <1>1. \A i \in 0 .. n : f[i] = IF i = 0 THEN 5381 ELSE NextSum(f, name, i)
    BY SumAt
  <1>2. ASSUME Bad # {} PROVE FALSE
    <2>1. PICK m \in Bad : \A k \in Bad : m <= k
      <3>1. Bad \subseteq Nat
        OBVIOUS
      <3> HIDE DEF Bad
      <3> QED BY <1>2, <3>1, Least
    <2>2. m # 0 /\ m \in 1 .. n
      BY <1>1, <2>1
    <2>3. m - 1 \notin Bad /\ m - 1 \in 0 .. n
      <3> HIDE DEF Bad
      <3> QED BY <2>1, <2>2
    <2>4. f[m - 1] \in Nat /\ name[m] \in Nat
      BY <2>2, <2>3
    <2>5. f[m] = NextSum(f, name, m)
      BY <1>1, <2>2
    <2>6. f[m] \in Nat
      BY <2>4, <2>5 DEF NextSum
    <2> QED BY <2>6
  <1> QED BY <1>2

\* So hashcode is a number.
LEMMA HashIsNat ==
    ASSUME NEW name \in Seq(Nat)
    PROVE  hashcode(name) \in Nat
  <1>1. PICK n \in Nat : n = Len(name)
    BY LenProperties
  <1> DEFINE h == CHOOSE f : Sums(f, name, n)
  <1>2. Sums(h, name, n)
    BY SumsExist
  <1>3. hashcode(name) = h[n]
    BY <1>1 DEF hashcode, Sums, NextSum
  <1>4. \A i \in 1 .. n : name[i] \in Nat
    BY <1>1, ElementOfSeq
  <1> HIDE DEF h
  <1> QED BY <1>1, <1>2, <1>3, <1>4, SumsAreNat

\* A name in lower case is one, and stays as it is.
LEMMA LowerFacts ==
    ASSUME NEW name \in Word
    PROVE  /\ Lower(name) \in Word /\ Lower(name) \in Seq(Nat) /\ name \in Seq(Nat)
           /\ Lower(Lower(name)) = Lower(name)
           /\ Lower(name) = << >> => name = << >>
  <1>1. PICK n \in Nat : n = Len(name)
    BY LenProperties
  <1>2. DOMAIN name = 1 .. n /\ name \in [1 .. n -> 0 .. 2 * UPPER - 1]
    BY <1>1, LenProperties DEF Word
  <1>3. UPPER \in Nat \ {0}
    BY SymtabAssumption
  <1>4. \A c \in 0 .. 2 * UPPER - 1 : /\ tolower(c) \in 0 .. UPPER - 1
                                      /\ tolower(c) \in 0 .. 2 * UPPER - 1
                                      /\ tolower(tolower(c)) = tolower(c)
    BY <1>3 DEF tolower
  <1>5. PICK low : low = Lower(name)
    OBVIOUS
  <1>6. low = [i \in 1 .. n |-> tolower(name[i])]
    BY <1>2, <1>5 DEF Lower
  <1>7. low \in [1 .. n -> 0 .. 2 * UPPER - 1] /\ DOMAIN low = 1 .. n
    BY <1>2, <1>4, <1>6
  <1>8. low \in Word /\ Len(low) = n
    <2>1. low \in Word
      BY <1>7, SeqDef, Zenon DEF Word
    <2>2. Len(low) \in Nat /\ 1 .. Len(low) = 1 .. n
      BY <1>7, <2>1, LenProperties DEF Word
    <2> QED BY <2>1, <2>2
  <1>9. Lower(low) = low
    <2>1. Lower(low) = [i \in 1 .. n |-> tolower(low[i])]
      BY <1>7 DEF Lower
    <2>2. \A i \in 1 .. n : tolower(low[i]) = low[i]
      BY <1>2, <1>4, <1>6
    <2> QED BY <1>6, <2>1, <2>2
  <1>10. \A q \in Word : q \in Seq(Nat)
    <2>1. 0 .. 2 * UPPER - 1 \subseteq Nat
      BY <1>3
    <2> QED BY <2>1, SeqMonotonic DEF Word
  <1>11. low = << >> => name = << >>
    <2> SUFFICES ASSUME low = << >> PROVE name = << >>
      OBVIOUS
    <2>1. n = 0
      BY <1>8
    <2> QED BY <1>1, <2>1, EmptySeq DEF Word
  <1> QED BY <1>5, <1>8, <1>9, <1>10, <1>11

\* Being the same name is an equivalence, and a name has one bucket.
LEMMA NameFacts ==
    ASSUME NEW nc \in BOOLEAN, NEW a \in Word, NEW b \in Word, NEW c \in Word
    PROVE  /\ Bucket(a, nc) \in Buckets
           /\ SameName(a, a, nc)
           /\ SameName(a, b, nc) => SameName(b, a, nc) /\ Bucket(a, nc) = Bucket(b, nc)
           /\ SameName(a, b, nc) /\ SameName(b, c, nc) => SameName(a, c, nc)
  <1>1. hashcode(a) \in Nat /\ hashcode(Lower(a)) \in Nat
    BY LowerFacts, HashIsNat
  <1>2. \A k \in Nat : k % HTSIZE \in Buckets
    BY SymtabAssumption DEF Buckets
  <1>3. CASE nc
    BY <1>1, <1>2, <1>3, Zenon DEF Bucket, SameName
  <1>4. CASE ~nc
    BY <1>1, <1>2, <1>4, Zenon DEF Bucket, SameName
  <1> QED BY <1>3, <1>4

\* With -nocase a name and the same in lower case are looked up alike.
LEMMA LowerSame ==
    ASSUME NEW a \in Word
    PROVE  SameName(Lower(a), a, TRUE)
  BY LowerFacts DEF SameName

\* The names of the source and that of the current pc.
LEMMA NamesAreWords ==
    /\ Name \subseteq Word
    /\ \A n \in Name, nc \in BOOLEAN : SameName(n, CPC, nc) => n = CPC
  <1>1. Name \subseteq Word
    <2>1. CPC \in Word
      BY EmptySeq DEF CPC, Word
    <2> QED BY <2>1, SymtabAssumption DEF Name, Word
  <1>2. Lower(CPC) = CPC
    <2>1. DOMAIN CPC = {}
      BY DEF CPC
    <2>2. Lower(CPC) = [i \in {} |-> tolower(CPC[i])]
      BY <2>1 DEF Lower
    <2>3. Lower(CPC) \in Word
      BY <1>1, LowerFacts DEF Name
    <2>4. DOMAIN Lower(CPC) = {}
      BY <2>2
    <2>5. PICK q : q = Lower(CPC)
      OBVIOUS
    <2>6. q # << >> => Len(q) \in Nat \ {0} /\ DOMAIN q = 1 .. Len(q)
      BY <2>3, <2>5, EmptySeq, LenProperties DEF Word
    <2>7. DOMAIN q = {}
      BY <2>4, <2>5
    <2> QED BY <2>5, <2>6, <2>7 DEF CPC
  <1>3. ASSUME NEW n \in Name, NEW nc \in BOOLEAN, SameName(n, CPC, nc) PROVE n = CPC
    BY <1>1, <1>2, <1>3, LowerFacts DEF SameName, CPC
  <1> QED BY <1>1, <1>3

-----------------------------------------------------------------------------
(* Chains                                                                  *)

\* e is in the table.
In(ht, e) == \E b \in Buckets : Contains(ht[b], e)

\* A table: each entry is in its bucket and no name is there twice.
Hash(ht, nc) ==
    /\ ht \in [Buckets -> Seq(Entry)]
    /\ \A b \in Buckets : \A i \in 1 .. Len(ht[b]) : Bucket(ht[b][i].name, nc) = b
    /\ \A b \in Buckets : \A i, j \in 1 .. Len(ht[b]) :
          SameName(ht[b][i].name, ht[b][j].name, nc) => i = j

\* The same of one chain.
ChainOf(q, b, nc) ==
    /\ q \in Seq(Entry)
    /\ \A i \in 1 .. Len(q) : Bucket(q[i].name, nc) = b
    /\ \A i, j \in 1 .. Len(q) : SameName(q[i].name, q[j].name, nc) => i = j

\* Where Position finds a name.
LEMMA PositionIs ==
    ASSUME NEW nc \in BOOLEAN, NEW q \in Seq(Entry), NEW name \in Word,
           \A i, j \in 1 .. Len(q) : SameName(q[i].name, q[j].name, nc) => i = j
    PROVE  /\ Position(q, name, nc) \in 0 .. Len(q)
           /\ Position(q, name, nc) # 0 => SameName(q[Position(q, name, nc)].name, name, nc)
           /\ \A i \in 1 .. Len(q) : SameName(q[i].name, name, nc) => Position(q, name, nc) = i
  <1>1. DOMAIN q = 1 .. Len(q) /\ Len(q) \in Nat
    BY LenProperties
  <1>2. \A i \in 1 .. Len(q) : q[i].name \in Word
    <2>1. \A e \in Entry : e.name \in Word
      BY DEF Entry
    <2>2. \A i \in 1 .. Len(q) : q[i] \in Entry
      BY ElementOfSeq, Zenon
    <2> QED BY <2>1, <2>2
  <1> DEFINE Is(i) == SameName(q[i].name, name, nc)
  <1>3. \A i, j \in 1 .. Len(q) : Is(i) /\ Is(j) => i = j
    BY <1>2, NameFacts
  <1>4. ASSUME \E i \in 1 .. Len(q) : Is(i)
        PROVE  Position(q, name, nc) \in 1 .. Len(q) /\ Is(Position(q, name, nc))
    <2>1. PICK i \in 1 .. Len(q) : Is(i)
      BY <1>4
    <2>2. Is(i) /\ \A j \in 1 .. i - 1 : ~Is(j)
      BY <1>1, <1>3, <2>1
    <2>3. Position(q, name, nc) = CHOOSE k \in 1 .. Len(q) : Is(k) /\ \A j \in 1 .. k - 1 : ~Is(j)
      BY <1>1, <1>4, Zenon DEF Position
    <2> HIDE DEF Is
    <2> QED BY <2>2, <2>3
  <1>5. ASSUME ~\E i \in 1 .. Len(q) : Is(i)
        PROVE  Position(q, name, nc) = 0
    BY <1>1, <1>5, Zenon DEF Position
  <1> HIDE DEF Is
  <1>6. \A i \in 1 .. Len(q) : Is(i) => Position(q, name, nc) = i
    BY <1>3, <1>4
  <1>7. Position(q, name, nc) \in 0 .. Len(q) /\ (Position(q, name, nc) # 0 => Is(Position(q, name, nc)))
    BY <1>1, <1>4, <1>5
  <1> QED BY <1>6, <1>7 DEF Is

\* What an element in front of a sequence does.
LEMMA ConsIs ==
    ASSUME NEW S, NEW q \in Seq(S), NEW e \in S
    PROVE  /\ << e >> \o q \in Seq(S) /\ Len(<< e >> \o q) = Len(q) + 1 /\ Len(q) \in Nat
           /\ (<< e >> \o q)[1] = e
           /\ \A i \in 2 .. Len(q) + 1 : (<< e >> \o q)[i] = q[i - 1]
  <1>1. PICK n \in Nat : n = Len(q)
    BY LenProperties
  <1>2. << e >> \in Seq(S) /\ Len(<< e >>) = 1 /\ << e >>[1] = e
    OBVIOUS
  <1> DEFINE o == << e >>
  <1> HIDE DEF o
  <1>3. o \in Seq(S) /\ Len(o) = 1 /\ o[1] = e
    BY <1>2 DEF o
  <1>4. /\ o \o q \in Seq(S) /\ Len(o \o q) = 1 + n
        /\ \A i \in 1 .. 1 + n : (o \o q)[i] = IF i <= 1 THEN o[i] ELSE q[i - 1]
    <2>1. /\ o \o q \in Seq(S) /\ Len(o \o q) = Len(o) + Len(q)
          /\ \A i \in 1 .. Len(o) + Len(q) : (o \o q)[i] = IF i <= Len(o) THEN o[i] ELSE q[i - Len(o)]
      BY <1>3, ConcatProperties
    <2> QED BY <1>1, <1>3, <2>1
  <1>5. (o \o q)[1] = e
    BY <1>3, <1>4
  <1>6. \A i \in 2 .. n + 1 : (o \o q)[i] = q[i - 1]
    BY <1>4
  <1> QED BY <1>1, <1>4, <1>5, <1>6 DEF o

\* What taking an element out does.
LEMMA RemoveIs ==
    ASSUME NEW S, NEW q \in Seq(S), NEW k \in 1 .. Len(q)
    PROVE  /\ RemoveAt(q, k) \in Seq(S) /\ Len(RemoveAt(q, k)) = Len(q) - 1 /\ Len(q) \in Nat
           /\ \A i \in 1 .. Len(q) - 1 : RemoveAt(q, k)[i] = IF i < k THEN q[i] ELSE q[i + 1]
  <1>1. PICK n \in Nat : n = Len(q)
    BY LenProperties
  <1>2. k \in 1 .. n /\ \A i \in 1 .. n : q[i] \in S
    BY <1>1, ElementOfSeq
  <1> DEFINE a == SubSeq(q, 1, k - 1)
             b == SubSeq(q, k + 1, n)
  <1>3. a \in Seq(S) /\ Len(a) = k - 1 /\ \A i \in 1 .. k - 1 : a[i] = q[i]
    <2>1. \A i \in 1 .. k - 1 : q[i] \in S
      BY <1>2
    <2> QED BY <1>2, <2>1, SubSeqProperties
  <1>4. b \in Seq(S) /\ Len(b) = n - k /\ \A i \in 1 .. n - k : b[i] = q[k + i]
    <2>1. \A i \in k + 1 .. n : q[i] \in S
      BY <1>2
    <2>2. /\ b \in Seq(S) /\ Len(b) = IF k + 1 <= n THEN n - (k + 1) + 1 ELSE 0
          /\ \A i \in 1 .. n - (k + 1) + 1 : b[i] = q[k + 1 + i - 1]
      BY <1>2, <2>1, SubSeqProperties
    <2> HIDE DEF b
    <2>3. ASSUME NEW i \in 1 .. n - k PROVE b[i] = q[k + i]
      <3>1. k + 1 + i - 1 = k + i /\ i \in 1 .. n - (k + 1) + 1
        BY <1>2
      <3> QED BY <2>2, <3>1
    <2> QED BY <1>2, <2>2, <2>3
  <1>5. RemoveAt(q, k) = a \o b
    BY <1>1 DEF RemoveAt
  <1> HIDE DEF a, b
  <1>6. PICK r : r = a \o b
    OBVIOUS
  <1>7. /\ r \in Seq(S) /\ Len(r) = n - 1
        /\ \A i \in 1 .. n - 1 : r[i] = IF i <= k - 1 THEN a[i] ELSE b[i - (k - 1)]
    <2>1. /\ r \in Seq(S) /\ Len(r) = (k - 1) + (n - k)
          /\ \A i \in 1 .. (k - 1) + (n - k) : r[i] = IF i <= k - 1 THEN a[i] ELSE b[i - (k - 1)]
      <3>1. /\ a \o b \in Seq(S) /\ Len(a \o b) = Len(a) + Len(b)
            /\ \A i \in 1 .. Len(a) + Len(b) : (a \o b)[i] = IF i <= Len(a) THEN a[i] ELSE b[i - Len(a)]
        BY <1>3, <1>4, ConcatProperties
      <3> QED BY <1>3, <1>4, <1>6, <3>1
    <2>2. (k - 1) + (n - k) = n - 1
      BY <1>2
    <2> QED BY <2>1, <2>2
  <1>8. ASSUME NEW i \in 1 .. n - 1 PROVE r[i] = IF i < k THEN q[i] ELSE q[i + 1]
    <2>1. CASE i < k
      BY <1>2, <1>3, <1>7, <2>1
    <2>2. CASE ~(i < k)
      <3>1. i - (k - 1) \in 1 .. n - k /\ k + (i - (k - 1)) = i + 1 /\ ~(i <= k - 1)
        BY <1>2, <2>2
      <3> QED BY <1>4, <1>7, <2>2, <3>1
    <2> QED BY <2>1, <2>2
  <1> QED BY <1>1, <1>5, <1>6, <1>7, <1>8

\* A name that is not in a chain is put in front of it.
LEMMA ChainAdds ==
    ASSUME NEW nc \in BOOLEAN, NEW b, NEW q, ChainOf(q, b, nc), NEW e \in Entry,
           Bucket(e.name, nc) = b, \A i \in 1 .. Len(q) : ~SameName(q[i].name, e.name, nc)
    PROVE  /\ ChainOf(<< e >> \o q, b, nc)
           /\ \A x : Contains(<< e >> \o q, x) <=> x = e \/ Contains(q, x)
  <1>1. PICK n \in Nat : n = Len(q)
    BY LenProperties DEF ChainOf
  <1>2. PICK r : r = << e >> \o q
    OBVIOUS
  <1>3. /\ r \in Seq(Entry) /\ Len(r) = n + 1 /\ r[1] = e
        /\ \A i \in 2 .. n + 1 : r[i] = q[i - 1]
    BY <1>1, <1>2, ConsIs DEF ChainOf
  <1>4. \A i \in 1 .. n : q[i] \in Entry /\ q[i].name \in Word /\ e.name \in Word
    <2>1. \A x \in Entry : x.name \in Word
      BY DEF Entry
    <2>2. \A i \in 1 .. n : q[i] \in Entry
      BY <1>1, ElementOfSeq, Zenon DEF ChainOf
    <2> QED BY <2>1, <2>2
  <1>5. \A i \in 1 .. n + 1 : i = 1 \/ (i \in 2 .. n + 1 /\ i - 1 \in 1 .. n)
    OBVIOUS
  <1>6. \A i \in 1 .. n + 1 : Bucket(r[i].name, nc) = b
    BY <1>1, <1>3, <1>5 DEF ChainOf
  <1>7. \A i \in 1 .. n : ~SameName(q[i].name, e.name, nc) /\ ~SameName(e.name, q[i].name, nc)
    BY <1>1, <1>4, NameFacts
  <1>8. \A i, j \in 1 .. n : SameName(q[i].name, q[j].name, nc) => i = j
    BY <1>1 DEF ChainOf
  <1>9. ASSUME NEW i \in 1 .. n + 1, NEW j \in 1 .. n + 1, SameName(r[i].name, r[j].name, nc)
        PROVE  i = j
    <2>1. CASE i = 1 \/ j = 1
      BY <1>3, <1>5, <1>7, <1>9, <2>1
    <2>2. CASE i # 1 /\ j # 1
      <3>1. i - 1 \in 1 .. n /\ j - 1 \in 1 .. n /\ r[i] = q[i - 1] /\ r[j] = q[j - 1]
        BY <1>3, <1>5, <2>2
      <3>2. i - 1 = j - 1
        BY <1>8, <1>9, <3>1
      <3> QED BY <3>2
    <2> QED BY <2>1, <2>2
  <1>10. ChainOf(r, b, nc)
    BY <1>3, <1>6, <1>9 DEF ChainOf
  <1>11. ASSUME NEW x
         PROVE  (\E i \in 1 .. n + 1 : r[i] = x) <=> x = e \/ \E i \in 1 .. n : q[i] = x
    <2>1. ASSUME NEW i \in 1 .. n, q[i] = x PROVE \E j \in 1 .. n + 1 : r[j] = x
      <3>1. PICK j \in 2 .. n + 1 : j \in 1 .. n + 1 /\ j - 1 = i
        <4>1. i + 1 \in 2 .. n + 1 /\ i + 1 \in 1 .. n + 1 /\ (i + 1) - 1 = i
          OBVIOUS
        <4> QED BY <4>1
      <3> QED BY <1>3, <2>1, <3>1
    <2>2. 1 \in 1 .. n + 1
      OBVIOUS
    <2> QED BY <1>3, <1>5, <2>1, <2>2
  <1>12. \A x : Contains(r, x) <=> x = e \/ Contains(q, x)
    BY <1>1, <1>3, <1>11 DEF Contains
  <1> QED BY <1>2, <1>10, <1>12

\* Taking out the entry of a name leaves the others.
LEMMA ChainTakes ==
    ASSUME NEW nc \in BOOLEAN, NEW b, NEW q, ChainOf(q, b, nc), NEW k \in 1 .. Len(q)
    PROVE  /\ ChainOf(RemoveAt(q, k), b, nc)
           /\ \A x : Contains(RemoveAt(q, k), x) <=> x # q[k] /\ Contains(q, x)
  <1>1. PICK n \in Nat : n = Len(q)
    BY LenProperties DEF ChainOf
  <1>2. PICK r : r = RemoveAt(q, k)
    OBVIOUS
  <1>3. /\ r \in Seq(Entry) /\ Len(r) = n - 1 /\ k \in 1 .. n
        /\ \A i \in 1 .. n - 1 : r[i] = IF i < k THEN q[i] ELSE q[i + 1]
    BY <1>1, <1>2, RemoveIs DEF ChainOf
  <1>4. \A i, j \in 1 .. n : SameName(q[i].name, q[j].name, nc) => i = j
    BY <1>1 DEF ChainOf
  <1>5. \A i \in 1 .. n : q[i].name \in Word
    <2>1. \A x \in Entry : x.name \in Word
      BY DEF Entry
    <2>2. \A i \in 1 .. n : q[i] \in Entry
      BY <1>1, ElementOfSeq, Zenon DEF ChainOf
    <2> QED BY <2>1, <2>2
  <1> DEFINE Old(i) == IF i < k THEN i ELSE i + 1
  <1>6. \A i \in 1 .. n - 1 : Old(i) \in 1 .. n /\ Old(i) # k /\ r[i] = q[Old(i)]
    BY <1>3
  <1>7. \A i, j \in 1 .. n - 1 : Old(i) = Old(j) => i = j
    BY <1>3
  <1>8. ASSUME NEW m \in 1 .. n, m # k PROVE \E i \in 1 .. n - 1 : Old(i) = m
    <2>1. CASE m < k
      BY <1>3, <2>1
    <2>2. CASE m > k
      <3>1. m - 1 \in 1 .. n - 1 /\ ~(m - 1 < k) /\ (m - 1) + 1 = m
        BY <1>3, <2>2
      <3> QED BY <3>1
    <2> QED BY <1>3, <1>8, <2>1, <2>2
  <1> HIDE DEF Old
  <1>9. ChainOf(r, b, nc)
    <2>1. \A i \in 1 .. n - 1 : Bucket(r[i].name, nc) = b
      BY <1>1, <1>6 DEF ChainOf
    <2>2. \A i, j \in 1 .. n - 1 : SameName(r[i].name, r[j].name, nc) => i = j
      BY <1>4, <1>6, <1>7
    <2> QED BY <1>3, <2>1, <2>2 DEF ChainOf
  <1>10. ASSUME NEW x
         PROVE  (\E i \in 1 .. n - 1 : r[i] = x) <=> x # q[k] /\ \E i \in 1 .. n : q[i] = x
    <2>1. ASSUME NEW i \in 1 .. n - 1, r[i] = x PROVE x # q[k]
      <3>1. Old(i) \in 1 .. n /\ Old(i) # k /\ q[Old(i)] = x
        BY <1>6, <2>1
      <3>2. ~SameName(q[Old(i)].name, q[k].name, nc) /\ SameName(q[k].name, q[k].name, nc)
        BY <1>3, <1>4, <1>5, <3>1, NameFacts
      <3> QED BY <3>1, <3>2
    <2>2. ASSUME NEW m \in 1 .. n, q[m] = x, x # q[k] PROVE \E i \in 1 .. n - 1 : r[i] = x
      BY <1>6, <1>8, <2>2
    <2> QED BY <1>6, <2>1, <2>2
  <1>11. \A x : Contains(r, x) <=> x # q[k] /\ Contains(q, x)
    BY <1>1, <1>3, <1>10 DEF Contains
  <1> QED BY <1>2, <1>9, <1>11

-----------------------------------------------------------------------------
(* The table                                                               *)

\* A table is made of chains.
LEMMA HashIsChains ==
    ASSUME NEW ht, NEW nc
    PROVE  Hash(ht, nc) <=> /\ ht = [b \in Buckets |-> ht[b]]
                            /\ \A b \in Buckets : ChainOf(ht[b], b, nc)
  BY DEF Hash, ChainOf

\* add_hashentry adds one entry.
LEMMA HashAdds ==
    ASSUME NEW nc \in BOOLEAN, NEW ht, Hash(ht, nc), NEW name \in Word, NEW data \in Nat \ {0},
           \A x : In(ht, x) => ~SameName(x.name, name, nc)
    PROVE  /\ Hash(add_hashentry(ht, name, data, nc), nc)
           /\ \A x : In(add_hashentry(ht, name, data, nc), x)
                        <=> In(ht, x) \/ x = [name |-> name, data |-> data]
  <1> DEFINE e == [name |-> name, data |-> data]
             b == Bucket(name, nc)
             q == << e >> \o ht[b]
             new == [ht EXCEPT ![b] = q]
  <1>1. e \in Entry /\ e.name = name
    BY DEF Entry
  <1>2. b \in Buckets /\ Bucket(e.name, nc) = b
    BY <1>1, NameFacts
  <1>3. add_hashentry(ht, name, data, nc) = new
    BY DEF add_hashentry
  <1> HIDE DEF e, b
  <1>4. ChainOf(ht[b], b, nc) /\ ht = [c \in Buckets |-> ht[c]]
    BY <1>2, HashIsChains
  <1>5. \A i \in 1 .. Len(ht[b]) : ~SameName(ht[b][i].name, e.name, nc)
    BY <1>1, <1>2 DEF In, Contains
  <1>6. /\ ChainOf(q, b, nc)
        /\ \A x : Contains(q, x) <=> x = e \/ Contains(ht[b], x)
    <2>1. PICK old : old = ht[b]
      OBVIOUS
    <2>2. ChainOf(old, b, nc) /\ \A i \in 1 .. Len(old) : ~SameName(old[i].name, e.name, nc)
      BY <1>4, <1>5, <2>1
    <2>3. /\ ChainOf(<< e >> \o old, b, nc)
          /\ \A x : Contains(<< e >> \o old, x) <=> x = e \/ Contains(old, x)
      BY <1>1, <1>2, <2>2, ChainAdds
    <2> QED BY <2>1, <2>3
  <1> HIDE DEF q
  <1>7. /\ new = [c \in Buckets |-> new[c]] /\ new[b] = q
        /\ \A c \in Buckets : c # b => new[c] = ht[c]
    BY <1>2, <1>4
  <1> HIDE DEF new
  <1>8. Hash(new, nc)
    <2>1. \A c \in Buckets : ChainOf(new[c], c, nc)
      BY <1>6, <1>7, HashIsChains
    <2> QED BY <1>7, <2>1, HashIsChains
  <1>9. \A x : In(new, x) <=> In(ht, x) \/ x = e
    BY <1>2, <1>6, <1>7 DEF In
  <1> QED BY <1>3, <1>8, <1>9 DEF e

\* find_name finds the entry of the name, if there is one.
LEMMA HashFinds ==
    ASSUME NEW nc \in BOOLEAN, NEW ht, Hash(ht, nc), NEW name \in Word
    PROVE  /\ \A x : In(ht, x) /\ SameName(x.name, name, nc) => find_name(ht, name, nc) = x.data
           /\ find_name(ht, name, nc) # None =>
                \E x : In(ht, x) /\ SameName(x.name, name, nc) /\ x.data = find_name(ht, name, nc)
  <1> DEFINE b == Bucket(name, nc)
             q == ht[b]
             p == Position(q, name, nc)
  <1>1. b \in Buckets
    BY NameFacts
  <1>2. find_name(ht, name, nc) = IF p = 0 THEN None ELSE q[p].data
    BY DEF find_name
  <1> HIDE DEF b
  <1>3. ChainOf(q, b, nc)
    BY <1>1, HashIsChains
  <1>4. /\ p \in 0 .. Len(q)
        /\ p # 0 => SameName(q[p].name, name, nc)
        /\ \A i \in 1 .. Len(q) : SameName(q[i].name, name, nc) => p = i
    BY <1>3, PositionIs DEF ChainOf
  <1>5. Len(q) \in Nat
    BY <1>3, LenProperties DEF ChainOf
  <1> HIDE DEF p
  <1>6. ASSUME NEW x, In(ht, x), SameName(x.name, name, nc) PROVE find_name(ht, name, nc) = x.data
    <2>1. PICK c \in Buckets : \E i \in 1 .. Len(ht[c]) : ht[c][i] = x
      BY <1>6 DEF In, Contains
    <2>2. PICK i \in 1 .. Len(ht[c]) : ht[c][i] = x
      BY <2>1
    <2>3. x \in Entry /\ Bucket(x.name, nc) = c
      BY <2>2, ElementOfSeq DEF Hash
    <2>4. x.name \in Word
      BY <2>3 DEF Entry
    <2>5. c = b
      BY <1>6, <2>3, <2>4, NameFacts DEF b
    <2>6. p = i /\ i # 0
      BY <1>4, <1>5, <1>6, <2>2, <2>5
    <2> QED BY <1>2, <2>2, <2>5, <2>6
  <1>7. ASSUME find_name(ht, name, nc) # None
        PROVE  \E x : In(ht, x) /\ SameName(x.name, name, nc) /\ x.data = find_name(ht, name, nc)
    <2>1. p # 0 /\ p \in 1 .. Len(q)
      BY <1>2, <1>4, <1>5, <1>7
    <2>2. In(ht, q[p])
      BY <1>1, <2>1 DEF In, Contains
    <2> QED BY <1>2, <1>4, <2>1, <2>2
  <1> QED BY <1>6, <1>7

\* rem_hashentry removes one entry, that of the name.
LEMMA HashTakes ==
    ASSUME NEW nc \in BOOLEAN, NEW ht, Hash(ht, nc), NEW e, In(ht, e)
    PROVE  /\ Hash(rem_hashentry(ht, e.name, nc), nc)
           /\ \A x : In(rem_hashentry(ht, e.name, nc), x) <=> In(ht, x) /\ x # e
  <1>1. PICK b \in Buckets : \E i \in 1 .. Len(ht[b]) : ht[b][i] = e
    BY DEF In, Contains
  <1>2. PICK k \in 1 .. Len(ht[b]) : ht[b][k] = e
    BY <1>1
  <1> DEFINE q == ht[b]
             r == RemoveAt(q, k)
             new == [ht EXCEPT ![b] = r]
  <1>3. ChainOf(q, b, nc) /\ ht = [c \in Buckets |-> ht[c]]
    BY HashIsChains
  <1>4. e \in Entry /\ Bucket(e.name, nc) = b
    BY <1>2, <1>3, ElementOfSeq DEF ChainOf
  <1>5. e.name \in Word
    BY <1>4 DEF Entry
  <1>6. Len(q) \in Nat
    BY <1>3, LenProperties DEF ChainOf
  <1>7. Position(q, e.name, nc) = k /\ k # 0
    BY <1>2, <1>3, <1>5, <1>6, PositionIs, NameFacts DEF ChainOf
  <1>8. rem_hashentry(ht, e.name, nc) = new
    <2>1. rem_hashentry(ht, e.name, nc)
            = [ht EXCEPT ![b] = IF Position(ht[b], e.name, nc) = 0 THEN @
                                ELSE RemoveAt(@, Position(ht[b], e.name, nc))]
      BY <1>4 DEF rem_hashentry
    <2> QED BY <1>7, <2>1
  <1>9. /\ ChainOf(r, b, nc)
        /\ \A x : Contains(r, x) <=> x # e /\ Contains(q, x)
    <2>1. PICK old : old = ht[b]
      OBVIOUS
    <2>2. ChainOf(old, b, nc) /\ k \in 1 .. Len(old) /\ old[k] = e
      BY <1>2, <1>3, <2>1
    <2>3. /\ ChainOf(RemoveAt(old, k), b, nc)
          /\ \A x : Contains(RemoveAt(old, k), x) <=> x # old[k] /\ Contains(old, x)
      BY <2>2, ChainTakes
    <2> QED BY <2>1, <2>2, <2>3
  <1> HIDE DEF r
  <1>10. /\ new = [c \in Buckets |-> new[c]] /\ new[b] = r
         /\ \A c \in Buckets : c # b => new[c] = ht[c]
    BY <1>3
  <1> HIDE DEF new
  <1>11. Hash(new, nc)
    <2>1. \A c \in Buckets : ChainOf(new[c], c, nc)
      BY <1>9, <1>10, HashIsChains
    <2> QED BY <1>10, <2>1, HashIsChains
  <1>12. \A c \in Buckets : Contains(ht[c], e) => c = b
    <2> SUFFICES ASSUME NEW c \in Buckets, NEW i \in 1 .. Len(ht[c]), ht[c][i] = e PROVE c = b
      BY DEF Contains
    <2> QED BY <1>4 DEF Hash
  <1>13. \A x : In(new, x) <=> In(ht, x) /\ x # e
    BY <1>9, <1>10, <1>12 DEF In
  <1> QED BY <1>8, <1>11, <1>13

-----------------------------------------------------------------------------
(* The list                                                                *)

\* A list of different symbols, each created.
ListOf(list, n) ==
    /\ list \in Seq(Nat)
    /\ \A i \in 1 .. Len(list) : list[i] \in 1 .. n
    /\ \A i, j \in 1 .. Len(list) : list[i] = list[j] => i = j

\* A symbol is put in front of the list.
LEMMA ListAdds ==
    ASSUME NEW n \in Nat, NEW list, ListOf(list, n), NEW m \in Nat, n <= m,
           NEW e \in 1 .. m, ~Contains(list, e)
    PROVE  /\ ListOf(<< e >> \o list, m)
           /\ \A x : Contains(<< e >> \o list, x) <=> x = e \/ Contains(list, x)
  <1>1. PICK l \in Nat : l = Len(list)
    BY LenProperties DEF ListOf
  <1>2. PICK r : r = << e >> \o list
    OBVIOUS
  <1>3. /\ r \in Seq(Nat) /\ Len(r) = l + 1 /\ r[1] = e
        /\ \A i \in 2 .. l + 1 : r[i] = list[i - 1]
    <2>1. e \in Nat
      OBVIOUS
    <2> QED BY <1>1, <1>2, <2>1, ConsIs DEF ListOf
  <1>4. \A i \in 1 .. l : list[i] \in 1 .. m /\ list[i] # e
    BY <1>1 DEF ListOf, Contains
  <1>5. \A i, j \in 1 .. l : list[i] = list[j] => i = j
    BY <1>1 DEF ListOf
  <1>6. \A i \in 1 .. l + 1 : i = 1 \/ (i \in 2 .. l + 1 /\ i - 1 \in 1 .. l)
    OBVIOUS
  <1>7. \A i \in 1 .. l + 1 : r[i] \in 1 .. m
    BY <1>3, <1>4, <1>6
  <1>8. ASSUME NEW i \in 1 .. l + 1, NEW j \in 1 .. l + 1, r[i] = r[j] PROVE i = j
    <2>1. CASE i = 1 \/ j = 1
      BY <1>3, <1>4, <1>6, <1>8, <2>1
    <2>2. CASE i # 1 /\ j # 1
      <3>1. i - 1 \in 1 .. l /\ j - 1 \in 1 .. l /\ r[i] = list[i - 1] /\ r[j] = list[j - 1]
        BY <1>3, <1>6, <2>2
      <3>2. i - 1 = j - 1
        BY <1>5, <1>8, <3>1
      <3> QED BY <3>2
    <2> QED BY <2>1, <2>2
  <1>9. ListOf(r, m)
    BY <1>3, <1>7, <1>8 DEF ListOf
  <1>10. ASSUME NEW x PROVE Contains(r, x) <=> x = e \/ Contains(list, x)
    <2>1. ASSUME NEW i \in 1 .. l, list[i] = x PROVE \E j \in 1 .. l + 1 : r[j] = x
      <3>1. PICK j \in 2 .. l + 1 : j \in 1 .. l + 1 /\ j - 1 = i
        <4>1. i + 1 \in 2 .. l + 1 /\ i + 1 \in 1 .. l + 1 /\ (i + 1) - 1 = i
          OBVIOUS
        <4> QED BY <4>1
      <3> QED BY <1>3, <2>1, <3>1
    <2>2. 1 \in 1 .. l + 1
      OBVIOUS
    <2> QED BY <1>1, <1>3, <1>6, <2>1, <2>2 DEF Contains
  <1> QED BY <1>2, <1>9, <1>10

\* r is list without its element k.
TakenFrom(r, list, k) ==
    /\ r \in Seq(Nat) /\ Len(r) = Len(list) - 1
    /\ \A i \in 1 .. Len(list) - 1 : r[i] = IF i < k THEN list[i] ELSE list[i + 1]

\* A symbol is taken out of the list.
LEMMA ListTakes ==
    ASSUME NEW n \in Nat, NEW list, ListOf(list, n), NEW k \in 1 .. Len(list),
           NEW r, TakenFrom(r, list, k)
    PROVE  /\ ListOf(r, n)
           /\ \A x : Contains(r, x) <=> Contains(list, x) /\ x # list[k]
  <1>1. PICK l \in Nat : l = Len(list)
    BY LenProperties DEF ListOf
  <1>2. r \in Seq(Nat) /\ Len(r) = l - 1 /\ k \in 1 .. l
    BY <1>1 DEF TakenFrom
  <1> DEFINE Old(i) == IF i < k THEN i ELSE i + 1
  <1>3. \A i \in 1 .. l - 1 : Old(i) \in 1 .. l /\ Old(i) # k /\ r[i] = list[Old(i)]
    BY <1>1, <1>2 DEF TakenFrom
  <1>4. \A i, j \in 1 .. l - 1 : Old(i) = Old(j) => i = j
    BY <1>2
  <1>5. ASSUME NEW m \in 1 .. l, m # k PROVE \E i \in 1 .. l - 1 : Old(i) = m
    <2>1. CASE m < k
      <3>1. m \in 1 .. l - 1 /\ Old(m) = m
        BY <1>2, <2>1
      <3> QED BY <3>1
    <2>2. CASE m > k
      <3>1. m - 1 \in 1 .. l - 1 /\ ~(m - 1 < k) /\ (m - 1) + 1 = m
        BY <1>2, <2>2
      <3> QED BY <3>1
    <2> QED BY <1>2, <1>5, <2>1, <2>2
  <1> HIDE DEF Old
  <1>6. \A i \in 1 .. l : list[i] \in 1 .. n
    BY <1>1 DEF ListOf
  <1>7. \A i, j \in 1 .. l : list[i] = list[j] => i = j
    BY <1>1 DEF ListOf
  <1>8. ListOf(r, n)
    <2>1. \A i \in 1 .. l - 1 : r[i] \in 1 .. n
      BY <1>3, <1>6
    <2>2. ASSUME NEW i \in 1 .. l - 1, NEW j \in 1 .. l - 1, r[i] = r[j] PROVE i = j
      <3>1. Old(i) = Old(j)
        <4>1. Old(i) \in 1 .. l /\ Old(j) \in 1 .. l /\ list[Old(i)] = list[Old(j)]
          BY <1>3, <2>2
        <4> QED BY <1>7, <4>1
      <3> QED BY <1>4, <3>1
    <2> QED BY <1>2, <2>1, <2>2 DEF ListOf
  <1>9. ASSUME NEW x
        PROVE  (\E i \in 1 .. l - 1 : r[i] = x) <=> (\E i \in 1 .. l : list[i] = x) /\ x # list[k]
    <2>1. ASSUME NEW i \in 1 .. l - 1, r[i] = x PROVE (\E j \in 1 .. l : list[j] = x) /\ x # list[k]
      <3>1. PICK j : j = Old(i) /\ j \in 1 .. l /\ j # k /\ list[j] = x
        BY <1>3, <2>1
      <3>2. list[j] # list[k]
        BY <1>2, <1>7, <3>1
      <3> QED BY <3>1, <3>2
    <2>2. ASSUME NEW m \in 1 .. l, list[m] = x, x # list[k] PROVE \E i \in 1 .. l - 1 : r[i] = x
      BY <1>3, <1>5, <2>2
    <2> QED BY <2>1, <2>2
  <1>10. \A x : Contains(r, x) <=> Contains(list, x) /\ x # list[k]
    BY <1>1, <1>2, <1>9 DEF Contains
  <1> QED BY <1>8, <1>10

\* The first one is.
LEMMA ListTail ==
    ASSUME NEW n \in Nat, NEW list, ListOf(list, n), list # << >>
    PROVE  /\ ListOf(Tail(list), n) /\ Head(list) = list[1] /\ 1 \in 1 .. Len(list)
           /\ Len(Tail(list)) = Len(list) - 1 /\ Len(list) \in Nat \ {0}
           /\ \A i \in 1 .. Len(list) - 1 : Tail(list)[i] = list[i + 1]
           /\ \A x : Contains(Tail(list), x) <=> Contains(list, x) /\ x # list[1]
  <1>1. PICK l \in Nat \ {0} : l = Len(list)
    BY EmptySeq DEF ListOf
  <1>2. PICK r : r = Tail(list)
    OBVIOUS
  <1>3. /\ r \in Seq(Nat) /\ Len(r) = l - 1
        /\ \A i \in 1 .. l - 1 : r[i] = list[i + 1]
    BY <1>1, <1>2, HeadTailProperties DEF ListOf
  <1>4. Head(list) = list[1]
    BY DEF ListOf
  <1>5. \A i \in 1 .. l - 1 : ~(i < 1)
    OBVIOUS
  <1>6. 1 \in 1 .. l
    OBVIOUS
  <1>7. ListOf(r, n) /\ \A x : Contains(r, x) <=> Contains(list, x) /\ x # list[1]
    <2>1. TakenFrom(r, list, 1)
      BY <1>1, <1>3, <1>5 DEF TakenFrom
    <2>2. 1 \in 1 .. Len(list)
      BY <1>1, <1>6
    <2> QED BY <2>1, <2>2, ListTakes
  <1> QED BY <1>1, <1>2, <1>3, <1>4, <1>6, <1>7

-----------------------------------------------------------------------------
(* The list and the table                                                  *)

Types == {"IMPORT", "LABSYM", "EXPRESSION", "INTERNAL"}
Symbol == [name : Name, type : Types, flags : SUBSET {"VASMINTERN", "PROTECTED"}]

\* A symbol is in the list, or restore_symbols is about to put it back.
Alive(list, kept, s) == Contains(list, s) \/ s \in kept

\* The symbol of the current pc, the only protected one.
Pc(list, syms, cpc, kept) ==
    /\ cpc \in 0 .. Len(syms)
    /\ \A s \in 1 .. Len(syms) : "PROTECTED" \in syms[s].flags <=> s = cpc
    /\ cpc # None => Alive(list, kept, cpc) /\ syms[cpc].name = CPC /\ syms[cpc].type = "LABSYM"
    /\ \A s \in kept : s = cpc /\ s # None /\ ~Contains(list, s)

\* What the table has is what lives, and only an internal symbol has a second name.
Agree(ht, list, syms, cpc, kept) ==
    /\ \A s : Alive(list, kept, s) => In(ht, [name |-> syms[s].name, data |-> s])
    /\ \A e : In(ht, e) => /\ Alive(list, kept, e.data) /\ e.name \in Name
                           /\ e.name = syms[e.data].name \/ syms[e.data].type = "INTERNAL"
                           /\ e.name = CPC => e.data = cpc

Sound(ht, list, syms, cpc, kept, nc) ==
    /\ nc \in BOOLEAN /\ Hash(ht, nc)
    /\ syms \in Seq(Symbol) /\ ListOf(list, Len(syms))
    /\ Pc(list, syms, cpc, kept) /\ Agree(ht, list, syms, cpc, kept)

\* The entries of a table.
LEMMA Entries ==
    ASSUME NEW nc, NEW ht, Hash(ht, nc), NEW e, In(ht, e)
    PROVE  e = [name |-> e.name, data |-> e.data] /\ e.name \in Word /\ e.data \in Nat \ {0}
  <1>1. PICK b \in Buckets : \E i \in 1 .. Len(ht[b]) : ht[b][i] = e
    BY DEF In, Contains
  <1>2. PICK i \in 1 .. Len(ht[b]) : ht[b][i] = e
    BY <1>1
  <1>3. ht[b] \in Seq(Entry)
    BY DEF Hash
  <1>4. e \in Entry
    BY <1>2, <1>3, ElementOfSeq
  <1> QED BY <1>4 DEF Entry

\* The symbols that live have been created.
LEMMA AliveIsSymbol ==
    ASSUME NEW ht, NEW list, NEW syms, NEW cpc, NEW kept, NEW nc,
           Sound(ht, list, syms, cpc, kept, nc), NEW s, Alive(list, kept, s)
    PROVE  s \in 1 .. Len(syms) /\ syms[s] \in Symbol /\ Len(syms) \in Nat
  <1>1. Len(syms) \in Nat
    BY LenProperties DEF Sound
  <1>2. s \in 1 .. Len(syms)
    BY <1>1 DEF Sound, Pc, ListOf, Alive, Contains, None
  <1> QED BY <1>1, <1>2, ElementOfSeq DEF Sound

\* add_symbol: a new symbol is put in front of the list and into the table.
LEMMA SoundAdds ==
    ASSUME NEW ht, NEW list, NEW syms, NEW cpc, NEW nc, Sound(ht, list, syms, cpc, {}, nc),
           NEW name \in Name, \A e : In(ht, e) => ~SameName(e.name, name, nc),
           NEW type \in Types, NEW flags \in SUBSET {"VASMINTERN", "PROTECTED"}, NEW new, new = Len(syms) + 1,
           NEW c, \/ name # CPC /\ "PROTECTED" \notin flags /\ c = cpc
                  \/ name = CPC /\ "PROTECTED" \in flags /\ cpc = None /\ c = new /\ type = "LABSYM"
    PROVE  Sound(add_hashentry(ht, name, new, nc), << new >> \o list,
                 Append(syms, [name |-> name, type |-> type, flags |-> flags]), c, {}, nc)
  <1>1. PICK n \in Nat : n = Len(syms)
    BY LenProperties DEF Sound
  <1>2. PICK ss : ss = Append(syms, [name |-> name, type |-> type, flags |-> flags])
    OBVIOUS
  <1>3. PICK rec : rec = [name |-> name, type |-> type, flags |-> flags]
    OBVIOUS
  <1>4. rec \in Symbol /\ rec.name = name /\ rec.type = type /\ rec.flags = flags
    BY <1>3 DEF Symbol
  <1>5. /\ ss \in Seq(Symbol) /\ Len(ss) = n + 1 /\ ss[n + 1] = rec
        /\ \A i \in 1 .. n : ss[i] = syms[i]
    BY <1>1, <1>2, <1>3, <1>4, AppendProperties DEF Sound
  <1>6. new = n + 1 /\ new \in 1 .. n + 1 /\ new \in Nat \ {0} /\ n <= n + 1 /\ n + 1 \in Nat
    BY <1>1
  <1>7. ~Contains(list, new)
    BY <1>1, <1>6 DEF Sound, ListOf, Contains
  <1>8. PICK l : l = << new >> \o list
    OBVIOUS
  <1>9. ListOf(l, n + 1) /\ \A x : Contains(l, x) <=> x = new \/ Contains(list, x)
    BY <1>1, <1>6, <1>7, <1>8, ListAdds DEF Sound
  <1>10. PICK h : h = add_hashentry(ht, name, new, nc)
    OBVIOUS
  <1>11. Hash(h, nc) /\ \A x : In(h, x) <=> In(ht, x) \/ x = [name |-> name, data |-> new]
    BY <1>6, <1>10, HashAdds, NamesAreWords DEF Sound
  <1>12. Pc(l, ss, c, {})
    <2>1. c \in 0 .. n + 1
      BY <1>1, <1>6 DEF Sound, Pc
    <2>2. ASSUME NEW s \in 1 .. n + 1 PROVE "PROTECTED" \in ss[s].flags <=> s = c
      <3>1. CASE s = new
        BY <1>1, <1>4, <1>5, <1>6, <3>1 DEF Sound, Pc, None
      <3>2. CASE s # new
        <4>1. s \in 1 .. n
          BY <1>6, <3>2
        <4>2. "PROTECTED" \in ss[s].flags <=> s = cpc
          BY <1>1, <1>5, <4>1 DEF Sound, Pc
        <4> QED BY <3>2, <4>1, <4>2 DEF None
      <3> QED BY <3>1, <3>2
    <2>3. c # None => Alive(l, {}, c) /\ ss[c].name = CPC /\ ss[c].type = "LABSYM"
      <3>1. CASE c = new
        BY <1>1, <1>4, <1>5, <1>6, <1>9, <3>1 DEF Alive, Sound, Pc
      <3>2. CASE c # new
        <4>1. c = cpc /\ (c # None => c \in 1 .. n)
          BY <1>1, <3>2 DEF Sound, Pc, None
        <4> QED BY <1>5, <1>9, <4>1 DEF Sound, Pc, Alive
      <3> QED BY <3>1, <3>2
    <2> QED BY <1>5, <2>1, <2>2, <2>3 DEF Pc
  <1>13. Agree(h, l, ss, c, {})
    <2>1. ASSUME NEW s, Alive(l, {}, s) PROVE In(h, [name |-> ss[s].name, data |-> s])
      <3>1. CASE s = new
        BY <1>4, <1>5, <1>6, <1>11, <3>1
      <3>2. CASE s # new
        <4>1. Alive(list, {}, s)
          BY <1>9, <2>1, <3>2 DEF Alive
        <4>2. s \in 1 .. n
          BY <1>1, <4>1, AliveIsSymbol
        <4>3. In(ht, [name |-> syms[s].name, data |-> s])
          BY <4>1 DEF Sound, Agree
        <4> QED BY <1>5, <1>11, <4>2, <4>3
      <3> QED BY <3>1, <3>2
    <2>2. ASSUME NEW e, In(h, e)
          PROVE  /\ Alive(l, {}, e.data) /\ e.name \in Name
                 /\ e.name = ss[e.data].name \/ ss[e.data].type = "INTERNAL"
                 /\ e.name = CPC => e.data = c
      <3>1. CASE In(ht, e)
        <4>1. /\ Alive(list, {}, e.data) /\ e.name \in Name
              /\ e.name = syms[e.data].name \/ syms[e.data].type = "INTERNAL"
              /\ e.name = CPC => e.data = cpc
          BY <3>1 DEF Sound, Agree
        <4>2. e.data \in 1 .. n
          BY <1>1, <4>1, AliveIsSymbol
        <4>3. e.name = CPC => c = cpc
          BY <4>1, <4>2 DEF None
        <4> QED BY <1>5, <1>9, <4>1, <4>2, <4>3 DEF Alive
      <3>2. CASE e = [name |-> name, data |-> new]
        <4>1. e.name = name /\ e.data = new
          BY <3>2
        <4> QED BY <1>4, <1>5, <1>6, <1>9, <4>1 DEF Alive
      <3> QED BY <1>11, <2>2, <3>1, <3>2
    <2> QED BY <2>1, <2>2 DEF Agree
  <1> QED BY <1>2, <1>5, <1>8, <1>9, <1>10, <1>11, <1>12, <1>13 DEF Sound

\* new_abs, new_equate, new_labsym: a symbol that is there gets a new type.
LEMMA SoundDefines ==
    ASSUME NEW ht, NEW list, NEW syms, NEW cpc, NEW nc, Sound(ht, list, syms, cpc, {}, nc),
           NEW s, Contains(list, s), s # cpc, NEW type \in Types
    PROVE  Sound(ht, list, [syms EXCEPT ![s].type = IF @ = "INTERNAL" THEN @ ELSE type], cpc, {}, nc)
  <1>1. s \in 1 .. Len(syms) /\ syms[s] \in Symbol /\ Len(syms) \in Nat
    BY AliveIsSymbol DEF Alive
  <1>2. PICK rec : rec = [syms[s] EXCEPT !.type = IF @ = "INTERNAL" THEN @ ELSE type]
    OBVIOUS
  <1>3. /\ rec \in Symbol /\ rec.name = syms[s].name /\ rec.flags = syms[s].flags
        /\ syms[s].type = "INTERNAL" => rec.type = "INTERNAL"
    BY <1>1, <1>2 DEF Symbol
  <1>4. PICK ss : ss = [syms EXCEPT ![s] = rec]
    OBVIOUS
  <1>5. ss = [syms EXCEPT ![s].type = IF @ = "INTERNAL" THEN @ ELSE type]
    BY <1>2, <1>4
  <1>6. /\ ss \in Seq(Symbol) /\ Len(ss) = Len(syms)
        /\ \A i \in 1 .. Len(syms) : ss[i] = IF i = s THEN rec ELSE syms[i]
    BY <1>1, <1>3, <1>4, ExceptSeq DEF Sound
  <1>7. \A i \in 1 .. Len(syms) : /\ ss[i].name = syms[i].name /\ ss[i].flags = syms[i].flags
                                  /\ syms[i].type = "INTERNAL" => ss[i].type = "INTERNAL"
                                  /\ i = cpc => ss[i].type = syms[i].type
    BY <1>3, <1>6
  <1>8. Pc(list, ss, cpc, {})
    BY <1>6, <1>7 DEF Sound, Pc, None
  <1>9. Agree(ht, list, ss, cpc, {})
    <2>1. \A x : Alive(list, {}, x) => x \in 1 .. Len(syms)
      BY AliveIsSymbol
    <2> QED BY <1>7, <2>1 DEF Sound, Agree
  <1> QED BY <1>5, <1>6, <1>8, <1>9 DEF Sound

\* refer_symbol: an internal symbol gets another name.
LEMMA SoundRefers ==
    ASSUME NEW ht, NEW list, NEW syms, NEW cpc, NEW nc, Sound(ht, list, syms, cpc, {}, nc),
           NEW s, Contains(list, s), syms[s].type = "INTERNAL",
           NEW name \in Names, \A e : In(ht, e) => ~SameName(e.name, name, nc)
    PROVE  Sound(add_hashentry(ht, name, s, nc), list, syms, cpc, {}, nc)
  <1>1. s \in 1 .. Len(syms) /\ Len(syms) \in Nat
    BY AliveIsSymbol DEF Alive
  <1>2. s \in Nat \ {0} /\ name \in Word /\ name \in Name /\ name # CPC
    BY <1>1, NamesAreWords, SymtabAssumption DEF Name
  <1>3. PICK h : h = add_hashentry(ht, name, s, nc)
    OBVIOUS
  <1>4. Hash(h, nc) /\ \A x : In(h, x) <=> In(ht, x) \/ x = [name |-> name, data |-> s]
    BY <1>2, <1>3, HashAdds DEF Sound
  <1>5. Agree(h, list, syms, cpc, {})
    <2>1. \A x : Alive(list, {}, x) => In(h, [name |-> syms[x].name, data |-> x])
      BY <1>4 DEF Sound, Agree
    <2>2. ASSUME NEW e, In(h, e)
          PROVE  /\ Alive(list, {}, e.data) /\ e.name \in Name
                 /\ e.name = syms[e.data].name \/ syms[e.data].type = "INTERNAL"
                 /\ e.name = CPC => e.data = cpc
      <3>1. CASE In(ht, e)
        BY <3>1 DEF Sound, Agree
      <3>2. CASE e = [name |-> name, data |-> s]
        <4>1. e.name = name /\ e.data = s
          BY <3>2
        <4> QED BY <1>2, <4>1 DEF Alive
      <3> QED BY <1>4, <2>2, <3>1, <3>2
    <2> QED BY <2>1, <2>2 DEF Agree
  <1> QED BY <1>3, <1>4, <1>5 DEF Sound

\* A symbol with one name is taken out of the list and its entry out of the table.
LEMMA SoundTakes ==
    ASSUME NEW ht, NEW list, NEW syms, NEW cpc, NEW kept, NEW nc, Sound(ht, list, syms, cpc, kept, nc),
           NEW s, Contains(list, s), s # cpc, syms[s].type # "INTERNAL",
           NEW l, ListOf(l, Len(syms)), \A x : Contains(l, x) <=> Contains(list, x) /\ x # s
    PROVE  Sound(rem_hashentry(ht, syms[s].name, nc), l, syms, cpc, kept, nc)
  <1>1. PICK e : e = [name |-> syms[s].name, data |-> s]
    OBVIOUS
  <1>2. In(ht, e) /\ e.name = syms[s].name /\ e.data = s
    BY <1>1 DEF Sound, Agree, Alive
  <1>3. PICK h : h = rem_hashentry(ht, syms[s].name, nc)
    OBVIOUS
  <1>4. Hash(h, nc) /\ \A x : In(h, x) <=> In(ht, x) /\ x # e
    BY <1>2, <1>3, HashTakes DEF Sound
  <1>5. \A x : Alive(l, kept, x) <=> Alive(list, kept, x) /\ x # s
    BY DEF Alive, Sound, Pc
  <1>6. Pc(l, syms, cpc, kept)
    BY <1>5 DEF Sound, Pc
  <1>7. Agree(h, l, syms, cpc, kept)
    <2>1. ASSUME NEW x, Alive(l, kept, x) PROVE In(h, [name |-> syms[x].name, data |-> x])
      <3>1. PICK f : f = [name |-> syms[x].name, data |-> x]
        OBVIOUS
      <3>2. f.data = x /\ x # s /\ In(ht, f)
        BY <1>5, <2>1, <3>1 DEF Sound, Agree
      <3> QED BY <1>2, <1>4, <3>1, <3>2
    <2>2. ASSUME NEW x, In(h, x)
          PROVE  /\ Alive(l, kept, x.data) /\ x.name \in Name
                 /\ x.name = syms[x.data].name \/ syms[x.data].type = "INTERNAL"
                 /\ x.name = CPC => x.data = cpc
      <3>1. /\ In(ht, x) /\ x # e /\ Alive(list, kept, x.data) /\ x.name \in Name
            /\ x.name = syms[x.data].name \/ syms[x.data].type = "INTERNAL"
            /\ x.name = CPC => x.data = cpc
        BY <1>4, <2>2 DEF Sound, Agree
      <3>2. x = [name |-> x.name, data |-> x.data]
        BY <3>1, Entries DEF Sound
      <3>3. x.data # s
        BY <1>1, <3>1, <3>2
      <3> QED BY <1>5, <3>1, <3>3
    <2> QED BY <2>1, <2>2 DEF Agree
  <1> QED BY <1>3, <1>4, <1>6, <1>7 DEF Sound

\* The symbol of the pc is set aside, its entry stays.
LEMMA SoundKeeps ==
    ASSUME NEW ht, NEW list, NEW syms, NEW cpc, NEW nc, Sound(ht, list, syms, cpc, {}, nc),
           Contains(list, cpc), cpc # None,
           NEW l, ListOf(l, Len(syms)), \A x : Contains(l, x) <=> Contains(list, x) /\ x # cpc
    PROVE  Sound(ht, l, syms, cpc, {cpc}, nc)
  <1>1. \A x : Alive(l, {cpc}, x) <=> Alive(list, {}, x)
    BY DEF Alive
  <1>2. Pc(l, syms, cpc, {cpc})
    BY <1>1 DEF Sound, Pc
  <1>3. Agree(ht, l, syms, cpc, {cpc})
    BY <1>1 DEF Sound, Agree
  <1> QED BY <1>2, <1>3 DEF Sound

\* What was set aside comes back to the list.
LEMMA SoundRestores ==
    ASSUME NEW ht, NEW list, NEW syms, NEW cpc, NEW kept, NEW nc, Sound(ht, list, syms, cpc, kept, nc),
           NEW l, ListOf(l, Len(syms)), \A x : Contains(l, x) <=> Contains(list, x) \/ x \in kept
    PROVE  Sound(ht, l, syms, cpc, {}, nc)
  <1>1. \A x : Alive(l, {}, x) <=> Alive(list, kept, x)
    BY DEF Alive
  <1>2. Pc(l, syms, cpc, {})
    BY <1>1 DEF Sound, Pc
  <1>3. Agree(ht, l, syms, cpc, {})
    BY <1>1 DEF Sound, Agree
  <1> QED BY <1>2, <1>3 DEF Sound

-----------------------------------------------------------------------------
(* The invariant                                                           *)

\* What restore_symbols has set aside.
Kept == {s \in {curpc} : firstprot # << >>}

\* Above the symbol save_symbols saw first are the pc and new imports only, which
\* no instruction but through the pc refers to.
Since(list, syms, cpc, saved, ins) ==
    \E p \in 1 .. Len(list) :
        /\ list[p] = saved
        /\ \A i \in 1 .. p - 1 : list[i] = cpc \/ syms[list[i]].type = "IMPORT"
        /\ \A s \in ins : s = cpc \/ \E i \in p .. Len(list) : list[i] = s

\* What new_inst is at.
Trying ==
    /\ attempt \in {"idle", "parse", "undo"}
    /\ firstprot # << >> => attempt = "undo" /\ firstprot = << curpc >> /\ curpc # None
    /\ attempt # "parse" => opsyms = {}
    /\ attempt = "undo" => saved_symbol # None
    /\ attempt # "idle" /\ saved_symbol # None =>
          Since(first_symbol, symbols, curpc, saved_symbol, insts)

SymInv ==
    /\ Sound(symhash, first_symbol, symbols, curpc, Kept, nocase)
    /\ Trying
    /\ \A s \in insts \cup opsyms : Alive(first_symbol, Kept, s)

\* What find_name says of a name of the source.
LEMMA Looked ==
    ASSUME NEW ht, NEW list, NEW syms, NEW cpc, NEW nc, Sound(ht, list, syms, cpc, {}, nc),
           NEW name \in Names
    PROVE  /\ find_name(ht, name, nc) = None => \A e : In(ht, e) => ~SameName(e.name, name, nc)
           /\ find_name(ht, name, nc) # None =>
                Contains(list, find_name(ht, name, nc)) /\ find_name(ht, name, nc) # cpc
  <1>1. name \in Word /\ name \in Name /\ name # CPC
    BY NamesAreWords, SymtabAssumption DEF Name
  <1>2. ASSUME find_name(ht, name, nc) = None, NEW e, In(ht, e), SameName(e.name, name, nc) PROVE FALSE
    <2>1. e.data = None
      BY <1>1, <1>2, HashFinds DEF Sound
    <2>2. e.data \in Nat \ {0}
      BY <1>2, Entries DEF Sound
    <2> QED BY <2>1, <2>2 DEF None
  <1>3. ASSUME find_name(ht, name, nc) # None
        PROVE  Contains(list, find_name(ht, name, nc)) /\ find_name(ht, name, nc) # cpc
    <2>1. PICK e : In(ht, e) /\ SameName(e.name, name, nc) /\ e.data = find_name(ht, name, nc)
      BY <1>1, <1>3, HashFinds DEF Sound
    <2>2. /\ Alive(list, {}, e.data) /\ e.name \in Name
          /\ e.name = syms[e.data].name \/ syms[e.data].type = "INTERNAL"
      BY <2>1 DEF Sound, Agree
    <2>3. ASSUME e.data = cpc PROVE FALSE
      <3>1. e.data # None
        BY <1>3, <2>1
      <3>2. syms[cpc].name = CPC /\ syms[cpc].type = "LABSYM"
        BY <2>3, <3>1 DEF Sound, Pc
      <3>3. SameName(CPC, name, nc)
        BY <2>1, <2>2, <2>3, <3>2
      <3>4. nc \in BOOLEAN /\ CPC \in Word
        BY NamesAreWords DEF Sound, Name
      <3>5. SameName(name, CPC, nc)
        BY <1>1, <3>3, <3>4, NameFacts
      <3> QED BY <1>1, <3>4, <3>5, NamesAreWords
    <2> QED BY <2>1, <2>2, <2>3 DEF Alive
  <1> QED BY <1>2, <1>3

\* The pc has no name yet before it has a symbol.
LEMMA NoPc ==
    ASSUME NEW ht, NEW list, NEW syms, NEW nc, Sound(ht, list, syms, None, {}, nc)
    PROVE  \A e : In(ht, e) => ~SameName(e.name, CPC, nc)
  <1> SUFFICES ASSUME NEW e, In(ht, e), SameName(e.name, CPC, nc) PROVE FALSE
    OBVIOUS
  <1>1. e.name \in Name /\ (e.name = CPC => e.data = None) /\ nc \in BOOLEAN
    BY DEF Sound, Agree
  <1>2. e.name = CPC
    BY <1>1, NamesAreWords
  <1>3. e.data \in Nat \ {0}
    BY Entries DEF Sound
  <1> QED BY <1>1, <1>2, <1>3 DEF None

\* save_symbols: nothing is above the first symbol.
LEMMA SinceSaved ==
    ASSUME NEW n \in Nat, NEW list, ListOf(list, n), list # << >>, NEW syms, NEW cpc,
           NEW ins, \A s \in ins : Contains(list, s)
    PROVE  Since(list, syms, cpc, Head(list), ins)
  <1>1. Head(list) = list[1] /\ 1 \in 1 .. Len(list) /\ Len(list) \in Nat \ {0}
    BY ListTail
  <1>2. \A i \in 1 .. 1 - 1 : FALSE
    OBVIOUS
  <1> QED BY <1>1, <1>2 DEF Since, Contains

\* The symbols added come above it.
LEMMA SinceAdds ==
    ASSUME NEW n \in Nat, NEW list, ListOf(list, n), NEW new \in Nat, NEW syms, NEW cpc, NEW saved, NEW ins,
           Since(list, syms, cpc, saved, ins), None \notin ins,
           NEW ss, \A i \in 1 .. n : ss[i].type = syms[i].type,
           NEW c, c = cpc \/ (cpc = None /\ c = new), new = c \/ ss[new].type = "IMPORT"
    PROVE  Since(<< new >> \o list, ss, c, saved, ins)
  <1>1. PICK l \in Nat : l = Len(list)
    BY LenProperties DEF ListOf
  <1>2. PICK r : r = << new >> \o list
    OBVIOUS
  <1>3. Len(r) = l + 1 /\ r[1] = new /\ \A i \in 2 .. l + 1 : r[i] = list[i - 1]
    BY <1>1, <1>2, ConsIs DEF ListOf
  <1>4. PICK p \in 1 .. l :
          /\ list[p] = saved
          /\ \A i \in 1 .. p - 1 : list[i] = cpc \/ syms[list[i]].type = "IMPORT"
          /\ \A s \in ins : s = cpc \/ \E i \in p .. l : list[i] = s
    BY <1>1 DEF Since
  <1>5. p + 1 \in 1 .. l + 1 /\ p + 1 \in 2 .. l + 1 /\ (p + 1) - 1 = p
    OBVIOUS
  <1>6. r[p + 1] = saved
    BY <1>3, <1>4, <1>5
  <1>7. ASSUME NEW i \in 1 .. (p + 1) - 1 PROVE r[i] = c \/ ss[r[i]].type = "IMPORT"
    <2>1. CASE i = 1
      BY <1>3, <2>1
    <2>2. CASE i # 1
      <3>1. i \in 2 .. l + 1 /\ i - 1 \in 1 .. p - 1 /\ i - 1 \in 1 .. l
        BY <2>2
      <3>2. r[i] = list[i - 1] /\ r[i] \in 1 .. n
        BY <1>1, <1>3, <3>1 DEF ListOf
      <3>3. r[i] = cpc \/ syms[r[i]].type = "IMPORT"
        BY <1>4, <3>1, <3>2
      <3> QED BY <3>2, <3>3 DEF None
    <2> QED BY <2>1, <2>2
  <1>8. ASSUME NEW s \in ins PROVE s = c \/ \E i \in p + 1 .. l + 1 : r[i] = s
    <2>1. CASE s = cpc
      BY <2>1
    <2>2. ASSUME NEW i \in p .. l, list[i] = s PROVE \E j \in p + 1 .. l + 1 : r[j] = s
      <3>1. i + 1 \in p + 1 .. l + 1 /\ i + 1 \in 2 .. l + 1 /\ (i + 1) - 1 = i
        OBVIOUS
      <3>2. r[i + 1] = s
        BY <1>3, <2>2, <3>1
      <3> QED BY <3>1, <3>2
    <2> QED BY <1>4, <2>1, <2>2
  <1>9. \E q \in 1 .. l + 1 :
          /\ r[q] = saved
          /\ \A i \in 1 .. q - 1 : r[i] = c \/ ss[r[i]].type = "IMPORT"
          /\ \A s \in ins : s = c \/ \E i \in q .. l + 1 : r[i] = s
    BY <1>5, <1>6, <1>7, <1>8
  <1>10. \E q \in 1 .. Len(r) :
           /\ r[q] = saved
           /\ \A i \in 1 .. q - 1 : r[i] = c \/ ss[r[i]].type = "IMPORT"
           /\ \A s \in ins : s = c \/ \E i \in q .. Len(r) : r[i] = s
    <2>1. Len(r) = l + 1
      BY <1>3
    <2>2. PICK q \in 1 .. l + 1 :
            /\ r[q] = saved
            /\ \A i \in 1 .. q - 1 : r[i] = c \/ ss[r[i]].type = "IMPORT"
            /\ \A s \in ins : s = c \/ \E i \in q .. l + 1 : r[i] = s
      BY <1>9, Zenon
    <2>3. q \in 1 .. Len(r) /\ \A s \in ins : s = c \/ \E i \in q .. Len(r) : r[i] = s
      BY <2>1, <2>2
    <2> QED BY <2>2, <2>3, Zenon
  <1>11. Since(r, ss, c, saved, ins)
    BY <1>10, Zenon DEF Since
  <1> QED BY <1>2, <1>11

\* The loop of restore_symbols takes the first one.
LEMMA SinceTaken ==
    ASSUME NEW n \in Nat, NEW list, ListOf(list, n), NEW syms, NEW cpc, NEW saved, NEW ins,
           Since(list, syms, cpc, saved, ins)
    PROVE  /\ list # << >>
           /\ Head(list) # saved =>
                /\ Since(Tail(list), syms, cpc, saved, ins)
                /\ Head(list) = cpc \/ syms[Head(list)].type = "IMPORT"
                /\ \A s \in ins : s = cpc \/ s # Head(list)
  <1>1. PICK l \in Nat : l = Len(list)
    BY LenProperties DEF ListOf
  <1>2. PICK p \in 1 .. l :
          /\ list[p] = saved
          /\ \A i \in 1 .. p - 1 : list[i] = cpc \/ syms[list[i]].type = "IMPORT"
          /\ \A s \in ins : s = cpc \/ \E i \in p .. l : list[i] = s
    BY <1>1 DEF Since
  <1>3. list # << >>
    BY <1>1, <1>2, EmptySeq
  <1>4. PICK r : r = Tail(list)
    OBVIOUS
  <1>5. Head(list) = list[1] /\ Len(r) = l - 1 /\ \A i \in 1 .. l - 1 : r[i] = list[i + 1]
    BY <1>1, <1>3, <1>4, ListTail
  <1>6. ASSUME list[1] # saved
        PROVE  /\ Since(r, syms, cpc, saved, ins)
               /\ list[1] = cpc \/ syms[list[1]].type = "IMPORT"
               /\ \A s \in ins : s = cpc \/ s # list[1]
    <2>1. p - 1 \in 1 .. l - 1 /\ (p - 1) + 1 = p /\ 1 \in 1 .. p - 1 /\ 1 \in 1 .. l /\ 1 < p
      BY <1>2, <1>6
    <2>2. r[p - 1] = saved
      BY <1>2, <1>5, <2>1
    <2>3. ASSUME NEW i \in 1 .. (p - 1) - 1 PROVE r[i] = cpc \/ syms[r[i]].type = "IMPORT"
      <3>1. i \in 1 .. l - 1 /\ i + 1 \in 1 .. p - 1
        OBVIOUS
      <3> QED BY <1>2, <1>5, <3>1
    <2>4. ASSUME NEW s \in ins, s # cpc PROVE s # list[1] /\ \E i \in p - 1 .. l - 1 : r[i] = s
      <3>1. PICK i \in p .. l : list[i] = s
        BY <1>2, <2>4
      <3>2. i - 1 \in p - 1 .. l - 1 /\ i - 1 \in 1 .. l - 1 /\ (i - 1) + 1 = i /\ i \in 1 .. l /\ i # 1
        BY <2>1
      <3>3. r[i - 1] = s
        BY <1>5, <3>1, <3>2
      <3>4. list[i] # list[1]
        BY <1>1, <2>1, <3>2 DEF ListOf
      <3> QED BY <3>1, <3>2, <3>3, <3>4
    <2>5. Since(r, syms, cpc, saved, ins)
      <3>1. \E q \in 1 .. l - 1 :
              /\ r[q] = saved
              /\ \A i \in 1 .. q - 1 : r[i] = cpc \/ syms[r[i]].type = "IMPORT"
              /\ \A s \in ins : s = cpc \/ \E i \in q .. l - 1 : r[i] = s
        BY <2>1, <2>2, <2>3, <2>4
      <3> QED BY <1>5, <3>1 DEF Since
    <2> QED BY <1>2, <2>1, <2>4, <2>5
  <1> QED BY <1>3, <1>4, <1>5, <1>6

-----------------------------------------------------------------------------
(* The steps                                                               *)

\* It holds at the start.
LEMMA InvInit == SymInit => SymInv
  <1> SUFFICES ASSUME SymInit PROVE SymInv
    OBVIOUS
  <1>1. /\ nocase \in BOOLEAN /\ symhash = [b \in Buckets |-> << >>] /\ first_symbol = << >>
        /\ symbols = << >> /\ curpc = None /\ firstprot = << >>
    BY DEF SymInit, Buckets
  <1>2. /\ attempt = "idle" /\ opsyms = {} /\ insts = {}
    BY DEF SymInit
  <1>3. Kept = {}
    BY <1>1 DEF Kept
  <1>4. /\ \A x : ~Contains(first_symbol, x) /\ ListOf(first_symbol, Len(symbols))
        /\ symbols \in Seq(Symbol) /\ Len(symbols) = 0
    BY <1>1, EmptySeq DEF Contains, ListOf
  <1>5. Hash(symhash, nocase) /\ \A e : ~In(symhash, e)
    <2>1. << >> \in Seq(Entry) /\ Len(<< >>) = 0
      BY EmptySeq
    <2>2. \A b \in Buckets : symhash[b] = << >>
      BY <1>1
    <2> QED BY <1>1, <2>1, <2>2 DEF Hash, In, Contains
  <1>6. Sound(symhash, first_symbol, symbols, curpc, Kept, nocase)
    BY <1>1, <1>3, <1>4, <1>5 DEF Sound, Pc, Agree, Alive, None
  <1> QED BY <1>1, <1>2, <1>6 DEF SymInv, Trying

\* What the invariant says between two attempts and within one.
LEMMA InvNotUndo ==
    ASSUME SymInv, attempt # "undo"
    PROVE  /\ Kept = {} /\ firstprot = << >> /\ Sound(symhash, first_symbol, symbols, curpc, {}, nocase)
           /\ \A s \in insts \cup opsyms : Contains(first_symbol, s)
           /\ None \notin insts \cup opsyms
           /\ Len(symbols) \in Nat /\ ListOf(first_symbol, Len(symbols))
  <1>1. Kept = {} /\ firstprot = << >>
    BY DEF SymInv, Trying, Kept
  <1>2. Sound(symhash, first_symbol, symbols, curpc, {}, nocase)
    BY <1>1 DEF SymInv
  <1>3. \A s \in insts \cup opsyms : Contains(first_symbol, s)
    BY <1>1 DEF SymInv, Alive
  <1>4. \A s \in insts \cup opsyms : s \in 1 .. Len(symbols)
    BY <1>2, <1>3, AliveIsSymbol DEF Alive
  <1>5. Len(symbols) \in Nat /\ ListOf(first_symbol, Len(symbols))
    BY <1>2, LenProperties DEF Sound
  <1> QED BY <1>1, <1>2, <1>3, <1>4, <1>5 DEF None

\* add_symbol for a name that has no entry.
LEMMA Adding ==
    ASSUME SymInv, attempt # "undo", NEW name \in Name, NEW type \in Types,
           NEW flags \in SUBSET {"VASMINTERN", "PROTECTED"},
           \A e : In(symhash, e) => ~SameName(e.name, name, nocase),
           add_symbol(name, type, flags), UNCHANGED nocase,
           \/ name # CPC /\ "PROTECTED" \notin flags /\ curpc' = curpc
           \/ name = CPC /\ "PROTECTED" \in flags /\ curpc = None /\ curpc' = Newest /\ type = "LABSYM"
    PROVE  /\ Sound(symhash', first_symbol', symbols', curpc', {}, nocase')
           /\ \A x : Contains(first_symbol', x) <=> x = Newest \/ Contains(first_symbol, x)
           /\ symbols'[Newest].type = type
           /\ \A i \in 1 .. Len(symbols) : symbols'[i] = symbols[i]
           /\ first_symbol' = << Newest >> \o first_symbol /\ Newest \in Nat
  <1>1. Sound(symhash, first_symbol, symbols, curpc, {}, nocase)
    BY InvNotUndo
  <1>2. PICK n \in Nat : n = Len(symbols) /\ Newest = n + 1
    BY <1>1, LenProperties DEF Sound, Newest
  <1>3. PICK rec : rec = [name |-> name, type |-> type, flags |-> flags]
    OBVIOUS
  <1>4. /\ first_symbol' = << Newest >> \o first_symbol
        /\ symbols' = Append(symbols, [name |-> name, type |-> type, flags |-> flags])
        /\ symhash' = add_hashentry(symhash, name, Newest, nocase)
    BY DEF add_symbol
  <1>5. PICK c : c = curpc'
    OBVIOUS
  <1>6. PICK new : new = Newest
    OBVIOUS
  <1>7. Sound(add_hashentry(symhash, name, new, nocase), << new >> \o first_symbol,
              Append(symbols, [name |-> name, type |-> type, flags |-> flags]), c, {}, nocase)
    <2>1. new = Len(symbols) + 1
      BY <1>2, <1>6
    <2>2. \/ name # CPC /\ "PROTECTED" \notin flags /\ c = curpc
          \/ name = CPC /\ "PROTECTED" \in flags /\ curpc = None /\ c = new /\ type = "LABSYM"
      BY <1>5, <1>6
    <2> QED BY <1>1, <2>1, <2>2, SoundAdds
  <1>8. Sound(symhash', first_symbol', symbols', curpc', {}, nocase')
    BY <1>4, <1>5, <1>6, <1>7
  <1>9. ~Contains(first_symbol, new)
    BY <1>1, <1>2, <1>6 DEF Sound, ListOf, Contains
  <1>10. \A x : Contains(<< new >> \o first_symbol, x) <=> x = new \/ Contains(first_symbol, x)
    <2>1. ListOf(first_symbol, n) /\ n <= n + 1 /\ new \in 1 .. n + 1 /\ n + 1 \in Nat
      BY <1>1, <1>2, <1>6 DEF Sound
    <2> QED BY <1>9, <2>1, ListAdds
  <1>11. rec \in Symbol /\ rec.type = type
    BY <1>3 DEF Symbol
  <1>12. symbols'[n + 1] = rec /\ \A i \in 1 .. n : symbols'[i] = symbols[i]
    BY <1>1, <1>2, <1>3, <1>4, <1>11, AppendProperties DEF Sound
  <1> QED BY <1>2, <1>4, <1>6, <1>8, <1>10, <1>11, <1>12

\* new_abs, new_equate and new_labsym.
LEMMA InvDefine ==
    ASSUME SymInv, NEW name \in Names, NEW type \in Types, Define(name, type)
    PROVE  SymInv'
  <1>1. /\ attempt = "idle"
        /\ UNCHANGED << nocase, curpc, saved_symbol, firstprot, attempt, opsyms, insts >>
    BY DEF Define
  <1>2. /\ Kept = {} /\ firstprot = << >> /\ Sound(symhash, first_symbol, symbols, curpc, {}, nocase)
        /\ \A s \in insts \cup opsyms : Contains(first_symbol, s)
    BY <1>1, InvNotUndo
  <1>3. /\ Sound(symhash', first_symbol', symbols', curpc', {}, nocase')
        /\ \A x : Contains(first_symbol, x) => Contains(first_symbol', x)
    <2>1. CASE find_symbol(name) # None
      <3>1. PICK s : s = find_name(symhash, name, nocase)
        OBVIOUS
      <3>2. /\ symbols' = [symbols EXCEPT ![s].type = IF @ = "INTERNAL" THEN @ ELSE type]
            /\ UNCHANGED << first_symbol, symhash >>
        BY <2>1, <3>1 DEF Define, find_symbol
      <3>3. Contains(first_symbol, s) /\ s # curpc
        BY <1>2, <2>1, <3>1, Looked DEF find_symbol
      <3>4. Sound(symhash, first_symbol, [symbols EXCEPT ![s].type = IF @ = "INTERNAL" THEN @ ELSE type],
                  curpc, {}, nocase)
        BY <1>2, <3>3, SoundDefines
      <3> QED BY <1>1, <3>2, <3>4
    <2>2. CASE find_symbol(name) = None
      <3>1. add_symbol(name, type, {})
        BY <2>2 DEF Define
      <3>2. \A e : In(symhash, e) => ~SameName(e.name, name, nocase)
        BY <1>2, <2>2, Looked DEF find_symbol
      <3>3. name \in Name /\ name # CPC
        BY SymtabAssumption DEF Name
      <3> QED BY <1>1, <3>1, <3>2, <3>3, Adding
    <2> QED BY <2>1, <2>2
  <1>4. Kept' = {}
    BY <1>1, <1>2 DEF Kept
  <1>5. Trying'
    BY <1>1, <1>2 DEF SymInv, Trying
  <1>6. \A s \in insts' \cup opsyms' : Alive(first_symbol', Kept', s)
    BY <1>1, <1>2, <1>3 DEF Alive
  <1> QED BY <1>3, <1>4, <1>5, <1>6 DEF SymInv

\* refer_symbol.
LEMMA InvRefer ==
    ASSUME SymInv, NEW sym, NEW name \in Names, Refer(sym, name)
    PROVE  SymInv'
  <1>1. /\ attempt = "idle" /\ Contains(first_symbol, sym) /\ symbols[sym].type = "INTERNAL"
        /\ find_name(symhash, name, nocase) = None
        /\ symhash' = add_hashentry(symhash, name, sym, nocase)
        /\ UNCHANGED << nocase, first_symbol, symbols, curpc, saved_symbol, firstprot, attempt, opsyms, insts >>
    BY DEF Refer, find_symbol
  <1>2. /\ Kept = {} /\ firstprot = << >> /\ Sound(symhash, first_symbol, symbols, curpc, {}, nocase)
        /\ \A s \in insts \cup opsyms : Contains(first_symbol, s)
    BY <1>1, InvNotUndo
  <1>3. \A e : In(symhash, e) => ~SameName(e.name, name, nocase)
    BY <1>1, <1>2, Looked
  <1>4. Sound(add_hashentry(symhash, name, sym, nocase), first_symbol, symbols, curpc, {}, nocase)
    BY <1>1, <1>2, <1>3, SoundRefers
  <1>5. Kept' = {}
    BY <1>1, <1>2 DEF Kept
  <1>6. Trying'
    BY <1>1, <1>2 DEF SymInv, Trying
  <1>7. \A s \in insts' \cup opsyms' : Alive(first_symbol', Kept', s)
    BY <1>1, <1>2 DEF Alive
  <1>8. Sound(symhash', first_symbol', symbols', curpc', Kept', nocase')
    BY <1>1, <1>4, <1>5
  <1> QED BY <1>6, <1>7, <1>8 DEF SymInv

\* rem_symbol.
LEMMA InvRemoveSymbol ==
    ASSUME SymInv, NEW sym, RemoveSymbol(sym)
    PROVE  SymInv'
  <1>1. PICK k : k = CHOOSE i \in DOMAIN first_symbol : first_symbol[i] = sym
    OBVIOUS
  <1>2. /\ attempt = "idle" /\ Contains(first_symbol, sym) /\ symbols[sym].type = "EXPRESSION"
        /\ first_symbol' = RemoveAt(first_symbol, k)
        /\ symhash' = rem_hashentry(symhash, symbols[sym].name, nocase) /\ insts' = {}
        /\ UNCHANGED << nocase, symbols, curpc, saved_symbol, firstprot, attempt, opsyms >>
    BY <1>1 DEF RemoveSymbol
  <1>3. /\ Kept = {} /\ firstprot = << >> /\ Sound(symhash, first_symbol, symbols, curpc, {}, nocase)
        /\ Len(symbols) \in Nat /\ ListOf(first_symbol, Len(symbols))
    BY <1>2, InvNotUndo
  <1>4. opsyms = {}
    BY <1>2 DEF SymInv, Trying
  <1>5. k \in 1 .. Len(first_symbol) /\ first_symbol[k] = sym
    <2>1. DOMAIN first_symbol = 1 .. Len(first_symbol)
      BY <1>3, LenProperties DEF ListOf
    <2>2. \E i \in DOMAIN first_symbol : first_symbol[i] = sym
      BY <1>2, <2>1 DEF Contains
    <2> QED BY <1>1, <2>1, <2>2
  <1>6. sym # curpc
    <2>1. sym # None
      BY <1>2, <1>3, AliveIsSymbol DEF Alive, None
    <2>2. curpc # None => symbols[curpc].type = "LABSYM"
      BY <1>3 DEF Sound, Pc
    <2> QED BY <1>2, <2>1, <2>2
  <1>7. PICK l : l = RemoveAt(first_symbol, k)
    OBVIOUS
  <1>8. TakenFrom(l, first_symbol, k)
    BY <1>3, <1>5, <1>7, RemoveIs DEF ListOf, TakenFrom
  <1>9. ListOf(l, Len(symbols)) /\ \A x : Contains(l, x) <=> Contains(first_symbol, x) /\ x # sym
    BY <1>3, <1>5, <1>8, ListTakes
  <1>10. Sound(rem_hashentry(symhash, symbols[sym].name, nocase), l, symbols, curpc, {}, nocase)
    BY <1>2, <1>3, <1>6, <1>9, SoundTakes
  <1>11. Kept' = {}
    BY <1>2, <1>3 DEF Kept
  <1>12. Trying'
    BY <1>2, <1>3, <1>4 DEF SymInv, Trying
  <1>13. insts' \cup opsyms' = {}
    BY <1>2, <1>4
  <1>14. Sound(symhash', first_symbol', symbols', curpc', Kept', nocase')
    BY <1>2, <1>7, <1>10, <1>11
  <1> QED BY <1>12, <1>13, <1>14 DEF SymInv

\* save_symbols.
LEMMA InvSaveSymbols ==
    ASSUME SymInv, SaveSymbols
    PROVE  SymInv'
  <1>1. /\ attempt = "idle" /\ attempt' = "parse" /\ opsyms' = {}
        /\ saved_symbol' = IF first_symbol = << >> THEN None ELSE Head(first_symbol)
        /\ UNCHANGED << nocase, symhash, first_symbol, symbols, curpc, firstprot, insts >>
    BY DEF SaveSymbols
  <1>2. /\ Kept = {} /\ firstprot = << >> /\ Sound(symhash, first_symbol, symbols, curpc, {}, nocase)
        /\ \A s \in insts \cup opsyms : Contains(first_symbol, s)
        /\ Len(symbols) \in Nat /\ ListOf(first_symbol, Len(symbols))
    BY <1>1, InvNotUndo
  <1>3. Kept' = {}
    BY <1>1, <1>2 DEF Kept
  <1>4. saved_symbol' # None => Since(first_symbol, symbols, curpc, saved_symbol', insts)
    BY <1>1, <1>2, SinceSaved
  <1>5. Trying'
    BY <1>1, <1>2, <1>4 DEF Trying
  <1>6. \A s \in insts' \cup opsyms' : Alive(first_symbol', Kept', s)
    BY <1>1, <1>2 DEF Alive
  <1>7. Sound(symhash', first_symbol', symbols', curpc', Kept', nocase')
    BY <1>1, <1>2, <1>3
  <1> QED BY <1>5, <1>6, <1>7 DEF SymInv

\* parse_operand adds at most one symbol, the pc or an import.
LEMMA InvParseOperand ==
    ASSUME SymInv, NEW name \in Name, ParseOperand(name)
    PROVE  SymInv'
  <1>1. /\ attempt = "parse"
        /\ UNCHANGED << nocase, saved_symbol, firstprot, attempt, insts >>
    BY DEF ParseOperand
  <1>2. /\ Kept = {} /\ firstprot = << >> /\ Sound(symhash, first_symbol, symbols, curpc, {}, nocase)
        /\ \A s \in insts \cup opsyms : Contains(first_symbol, s)
        /\ None \notin insts \cup opsyms /\ Len(symbols) \in Nat /\ ListOf(first_symbol, Len(symbols))
    BY <1>1, InvNotUndo
  <1>3. saved_symbol # None => Since(first_symbol, symbols, curpc, saved_symbol, insts)
    BY <1>1 DEF SymInv, Trying
  <1>4. Kept' = {}
    BY <1>1, <1>2 DEF Kept
  \* Enough is to follow the list and its table.
  <1>5. ASSUME Sound(symhash', first_symbol', symbols', curpc', {}, nocase'),
               \A x : Contains(first_symbol, x) => Contains(first_symbol', x),
               \A s \in opsyms' : s \in opsyms \/ Contains(first_symbol', s),
               saved_symbol # None => Since(first_symbol', symbols', curpc', saved_symbol, insts)
        PROVE  SymInv'
    <2>1. Trying'
      BY <1>1, <1>2, <1>5 DEF Trying
    <2>2. \A s \in insts' \cup opsyms' : Alive(first_symbol', Kept', s)
      BY <1>1, <1>2, <1>5 DEF Alive
    <2> QED BY <1>4, <1>5, <2>1, <2>2 DEF SymInv
  <1>6. ASSUME UNCHANGED << symhash, first_symbol, symbols, curpc >>, NEW s, Contains(first_symbol, s),
               opsyms' = opsyms \cup {s}
        PROVE  SymInv'
    BY <1>1, <1>2, <1>3, <1>5, <1>6
  <1>7. ASSUME NEW type \in Types, NEW flags \in SUBSET {"VASMINTERN", "PROTECTED"},
               \A e : In(symhash, e) => ~SameName(e.name, name, nocase), add_symbol(name, type, flags),
               opsyms' = opsyms \cup {Newest},
               \/ name # CPC /\ "PROTECTED" \notin flags /\ curpc' = curpc /\ type = "IMPORT"
               \/ name = CPC /\ "PROTECTED" \in flags /\ curpc = None /\ curpc' = Newest /\ type = "LABSYM"
        PROVE  SymInv'
    <2>1. /\ Sound(symhash', first_symbol', symbols', curpc', {}, nocase')
          /\ \A x : Contains(first_symbol', x) <=> x = Newest \/ Contains(first_symbol, x)
          /\ symbols'[Newest].type = type
          /\ \A i \in 1 .. Len(symbols) : symbols'[i] = symbols[i]
          /\ first_symbol' = << Newest >> \o first_symbol /\ Newest \in Nat
      BY <1>1, <1>7, Adding
    <2>2. ASSUME saved_symbol # None
          PROVE  Since(first_symbol', symbols', curpc', saved_symbol, insts)
      <3>1. PICK new : new = Newest
        OBVIOUS
      <3>2. PICK ss : ss = symbols'
        OBVIOUS
      <3>3. PICK c : c = curpc'
        OBVIOUS
      <3>4. /\ new \in Nat /\ \A i \in 1 .. Len(symbols) : ss[i].type = symbols[i].type
            /\ c = curpc \/ (curpc = None /\ c = new)
            /\ new = c \/ ss[new].type = "IMPORT"
        BY <1>7, <2>1, <3>1, <3>2, <3>3
      <3>5. None \notin insts
        BY <1>2
      <3>6. Since(<< new >> \o first_symbol, ss, c, saved_symbol, insts)
        BY <1>2, <1>3, <2>2, <3>4, <3>5, SinceAdds
      <3> QED BY <2>1, <3>1, <3>2, <3>3, <3>6
    <2> QED BY <1>5, <1>7, <2>1, <2>2
  <1>8. CASE name = CPC
    <2>1. curpc_expr /\ opsyms' = opsyms \cup {curpc'}
      BY <1>8 DEF ParseOperand
    <2>2. CASE curpc # None
      <3>1. UNCHANGED << first_symbol, symbols, symhash, curpc >>
        BY <2>1, <2>2 DEF curpc_expr
      <3>2. Contains(first_symbol, curpc)
        BY <1>2, <2>2 DEF Sound, Pc, Alive
      <3> QED BY <1>6, <2>1, <3>1, <3>2
    <2>3. CASE curpc = None
      <3>1. add_symbol(CPC, "LABSYM", {"VASMINTERN", "PROTECTED"}) /\ curpc' = Newest
        BY <2>1, <2>3 DEF curpc_expr
      <3>2. \A e : In(symhash, e) => ~SameName(e.name, CPC, nocase)
        BY <1>2, <2>3, NoPc
      <3>3. "LABSYM" \in Types
        BY DEF Types
      <3> QED BY <1>7, <1>8, <2>1, <2>3, <3>1, <3>2, <3>3
    <2> QED BY <2>2, <2>3
  <1>9. CASE name # CPC
    <2>1. /\ new_import(name) /\ UNCHANGED curpc /\ name \in Names
          /\ opsyms' = opsyms \cup {IF find_symbol(name) # None THEN find_symbol(name) ELSE Newest}
      BY <1>9 DEF ParseOperand, Name
    <2>2. CASE find_symbol(name) # None
      <3>1. UNCHANGED << first_symbol, symbols, symhash >>
        BY <2>1, <2>2 DEF new_import
      <3>2. Contains(first_symbol, find_symbol(name))
        BY <1>2, <2>1, <2>2, Looked DEF find_symbol
      <3> QED BY <1>6, <2>1, <2>2, <3>1, <3>2
    <2>3. CASE find_symbol(name) = None
      <3>1. add_symbol(name, "IMPORT", {}) /\ opsyms' = opsyms \cup {Newest} /\ curpc' = curpc
        BY <2>1, <2>3 DEF new_import
      <3>2. \A e : In(symhash, e) => ~SameName(e.name, name, nocase)
        BY <1>2, <2>1, <2>3, Looked DEF find_symbol
      <3>3. "IMPORT" \in Types
        BY DEF Types
      <3> QED BY <1>7, <1>9, <3>1, <3>2, <3>3
    <2> QED BY <2>2, <2>3
  <1> QED BY <1>8, <1>9

\* An instruction is made, or nothing is to be taken back.
LEMMA InvMatch ==
    ASSUME SymInv, Match \/ NoMatch
    PROVE  SymInv'
  <1>1. /\ attempt = "parse" /\ opsyms' = {} /\ insts' \subseteq insts \cup opsyms
        /\ UNCHANGED << nocase, symhash, first_symbol, symbols, curpc, saved_symbol, firstprot >>
        /\ \/ attempt' = "idle"
           \/ attempt' = "undo" /\ saved_symbol # None /\ insts' = insts
    BY DEF Match, NoMatch
  <1>2. /\ Kept = {} /\ firstprot = << >> /\ Sound(symhash, first_symbol, symbols, curpc, {}, nocase)
        /\ \A s \in insts \cup opsyms : Contains(first_symbol, s)
    BY <1>1, InvNotUndo
  <1>3. saved_symbol # None => Since(first_symbol, symbols, curpc, saved_symbol, insts)
    BY <1>1 DEF SymInv, Trying
  <1>4. Kept' = {}
    BY <1>1, <1>2 DEF Kept
  <1>5. Trying'
    <2>1. CASE attempt' = "idle"
      BY <1>1, <1>2, <2>1 DEF Trying
    <2>2. CASE attempt' = "undo" /\ saved_symbol # None /\ insts' = insts
      BY <1>1, <1>2, <1>3, <2>2 DEF Trying
    <2> QED BY <1>1, <2>1, <2>2
  <1>6. \A s \in insts' \cup opsyms' : Alive(first_symbol', Kept', s)
    BY <1>1, <1>2 DEF Alive
  <1>7. Sound(symhash', first_symbol', symbols', curpc', Kept', nocase')
    BY <1>1, <1>2, <1>4
  <1> QED BY <1>5, <1>6, <1>7 DEF SymInv

\* restore_symbols meets one symbol.
LEMMA InvTakeBack ==
    ASSUME SymInv, TakeBack
    PROVE  SymInv'
  <1>1. PICK sym : sym = Head(first_symbol)
    OBVIOUS
  <1>2. /\ attempt = "undo" /\ sym # saved_symbol /\ first_symbol' = Tail(first_symbol)
        /\ IF "PROTECTED" \in symbols[sym].flags
           THEN firstprot' = << sym >> \o firstprot /\ symhash' = symhash
           ELSE symhash' = rem_hashentry(symhash, symbols[sym].name, nocase) /\ firstprot' = firstprot
        /\ UNCHANGED << nocase, symbols, curpc, saved_symbol, attempt, opsyms, insts >>
    BY <1>1 DEF TakeBack
  <1>3. /\ Sound(symhash, first_symbol, symbols, curpc, Kept, nocase)
        /\ Since(first_symbol, symbols, curpc, saved_symbol, insts)
        /\ opsyms = {} /\ saved_symbol # None
        /\ firstprot # << >> => firstprot = << curpc >> /\ curpc # None
        /\ \A s \in insts : Alive(first_symbol, Kept, s)
    BY <1>2 DEF SymInv, Trying
  <1>4. ListOf(first_symbol, Len(symbols)) /\ Len(symbols) \in Nat
    BY <1>3, LenProperties DEF Sound
  <1>5. /\ first_symbol # << >>
        /\ Since(Tail(first_symbol), symbols, curpc, saved_symbol, insts)
        /\ sym = curpc \/ symbols[sym].type = "IMPORT"
        /\ \A s \in insts : s = curpc \/ s # sym
    BY <1>1, <1>2, <1>3, <1>4, SinceTaken
  <1>6. PICK l : l = Tail(first_symbol)
    OBVIOUS
  <1>7. /\ ListOf(l, Len(symbols)) /\ Contains(first_symbol, sym)
        /\ \A x : Contains(l, x) <=> Contains(first_symbol, x) /\ x # sym
    <2>1. sym = first_symbol[1] /\ 1 \in 1 .. Len(first_symbol)
      BY <1>1, <1>4, <1>5, ListTail
    <2>2. Contains(first_symbol, sym)
      BY <2>1 DEF Contains
    <2>3. /\ ListOf(Tail(first_symbol), Len(symbols))
          /\ \A x : Contains(Tail(first_symbol), x) <=> Contains(first_symbol, x) /\ x # first_symbol[1]
      BY <1>4, <1>5, ListTail
    <2> QED BY <1>6, <2>1, <2>2, <2>3
  <1>8. sym \in 1 .. Len(symbols)
    BY <1>3, <1>7, AliveIsSymbol DEF Alive
  <1>9. "PROTECTED" \in symbols[sym].flags <=> sym = curpc
    BY <1>3, <1>8 DEF Sound, Pc
  <1>10. ASSUME firstprot' # << >> => firstprot' = << curpc >> /\ curpc # None
         PROVE  Trying'
    BY <1>2, <1>3, <1>5, <1>10 DEF Trying
  <1>11. CASE sym = curpc
    <2>1. curpc # None
      BY <1>8, <1>11 DEF None
    <2>2. Kept = {} /\ firstprot = << >>
      <3>1. Kept = {}
        BY <1>3, <1>7, <1>11 DEF Sound, Pc, Kept
      <3> QED BY <3>1 DEF Kept
    <2>3. firstprot' = << curpc >> /\ symhash' = symhash
      <3>1. << curpc >> \o << >> = << curpc >>
        BY ConcatEmptySeq
      <3> QED BY <1>2, <1>9, <1>11, <2>2, <3>1
    <2>4. Kept' = {curpc}
      BY <1>2, <2>3 DEF Kept
    <2>5. Sound(symhash, l, symbols, curpc, {curpc}, nocase)
      BY <1>3, <1>7, <1>11, <2>1, <2>2, SoundKeeps
    <2>6. \A s \in insts' \cup opsyms' : Alive(first_symbol', Kept', s)
      BY <1>2, <1>3, <1>5, <1>6, <1>7, <1>11, <2>2, <2>4 DEF Alive
    <2>7. Sound(symhash', first_symbol', symbols', curpc', Kept', nocase')
      BY <1>2, <1>6, <2>3, <2>4, <2>5
    <2> QED BY <1>10, <2>1, <2>3, <2>6, <2>7 DEF SymInv
  <1>12. CASE sym # curpc
    <2>1. symhash' = rem_hashentry(symhash, symbols[sym].name, nocase) /\ firstprot' = firstprot
      BY <1>2, <1>9, <1>12
    <2>2. Kept' = Kept
      BY <1>2, <2>1 DEF Kept
    <2>3. symbols[sym].type # "INTERNAL"
      BY <1>5, <1>12
    <2>4. Sound(rem_hashentry(symhash, symbols[sym].name, nocase), l, symbols, curpc, Kept, nocase)
      BY <1>3, <1>7, <1>12, <2>3, SoundTakes
    <2>5. \A s \in insts' \cup opsyms' : Alive(first_symbol', Kept', s)
      BY <1>2, <1>3, <1>5, <1>6, <1>7, <1>12, <2>2 DEF Alive
    <2>6. Sound(symhash', first_symbol', symbols', curpc', Kept', nocase')
      BY <1>2, <1>6, <2>1, <2>2, <2>4
    <2> QED BY <1>3, <1>10, <2>1, <2>5, <2>6 DEF SymInv
  <1> QED BY <1>11, <1>12

\* restore_symbols is done.
LEMMA InvRestored ==
    ASSUME SymInv, Restored
    PROVE  SymInv'
  <1>1. /\ attempt = "undo" /\ first_symbol' = firstprot \o first_symbol
        /\ firstprot' = << >> /\ saved_symbol' = None /\ attempt' = "idle"
        /\ UNCHANGED << nocase, symhash, symbols, curpc, opsyms, insts >>
    BY DEF Restored
  <1>2. /\ Sound(symhash, first_symbol, symbols, curpc, Kept, nocase)
        /\ opsyms = {}
        /\ firstprot # << >> => firstprot = << curpc >> /\ curpc # None
        /\ \A s \in insts : Alive(first_symbol, Kept, s)
    BY <1>1 DEF SymInv, Trying
  <1>3. ListOf(first_symbol, Len(symbols)) /\ Len(symbols) \in Nat
    BY <1>2, LenProperties DEF Sound
  <1>4. PICK l : l = firstprot \o first_symbol
    OBVIOUS
  <1>5. ListOf(l, Len(symbols)) /\ \A x : Contains(l, x) <=> Contains(first_symbol, x) \/ x \in Kept
    <2>1. CASE firstprot = << >>
      <3>1. l = first_symbol
        BY <1>3, <1>4, <2>1, ConcatEmptySeq DEF ListOf
      <3> QED BY <1>3, <2>1, <3>1 DEF Kept
    <2>2. CASE firstprot # << >>
      <3>1. firstprot = << curpc >> /\ curpc # None /\ Kept = {curpc}
        BY <1>2, <2>2 DEF Kept
      <3>2. ~Contains(first_symbol, curpc) /\ curpc \in 1 .. Len(symbols)
        BY <1>2, <1>3, <3>1 DEF Sound, Pc, None
      <3>3. Len(symbols) <= Len(symbols)
        BY <1>3
      <3>4. /\ ListOf(<< curpc >> \o first_symbol, Len(symbols))
            /\ \A x : Contains(<< curpc >> \o first_symbol, x) <=> x = curpc \/ Contains(first_symbol, x)
        BY <1>3, <3>2, <3>3, ListAdds
      <3> QED BY <1>4, <3>1, <3>4
    <2> QED BY <2>1, <2>2
  <1>6. Sound(symhash, l, symbols, curpc, {}, nocase)
    BY <1>2, <1>5, SoundRestores
  <1>7. Kept' = {}
    BY <1>1 DEF Kept
  <1>8. Trying'
    BY <1>1, <1>2 DEF Trying
  <1>9. \A s \in insts' \cup opsyms' : Alive(first_symbol', Kept', s)
    BY <1>1, <1>2, <1>4, <1>5 DEF Alive
  <1>10. Sound(symhash', first_symbol', symbols', curpc', Kept', nocase')
    BY <1>1, <1>4, <1>6, <1>7
  <1> QED BY <1>8, <1>9, <1>10 DEF SymInv

\* Every step keeps it.
LEMMA InvNext == SymInv /\ [SymNext]_symvars => SymInv'
  <1> SUFFICES ASSUME SymInv, [SymNext]_symvars PROVE SymInv'
    OBVIOUS
  <1>1. ASSUME NEW n \in Names, NEW type \in {"EXPRESSION", "LABSYM", "INTERNAL"}, Define(n, type)
        PROVE  SymInv'
    BY <1>1, InvDefine DEF Types
  <1>2. ASSUME NEW sym, NEW n \in Names, Refer(sym, n) PROVE SymInv'
    BY <1>2, InvRefer
  <1>3. ASSUME NEW sym, RemoveSymbol(sym) PROVE SymInv'
    BY <1>3, InvRemoveSymbol
  <1>4. CASE SaveSymbols
    BY <1>4, InvSaveSymbols
  <1>5. ASSUME NEW n \in Name, ParseOperand(n) PROVE SymInv'
    BY <1>5, InvParseOperand
  <1>6. CASE Match \/ NoMatch
    BY <1>6, InvMatch
  <1>7. CASE TakeBack
    BY <1>7, InvTakeBack
  <1>8. CASE Restored
    BY <1>8, InvRestored
  <1>9. CASE UNCHANGED symvars
    BY <1>9 DEF symvars, SymInv, Trying, Kept
  <1> QED BY <1>1, <1>2, <1>3, <1>4, <1>5, <1>6, <1>7, <1>8, <1>9 DEF SymNext

\* The set of a sequence has what the sequence contains.
LEMMA SetContains ==
    ASSUME NEW S, NEW q \in Seq(S), NEW x
    PROVE  x \in ToSet(q) <=> Contains(q, x)
  <1>1. DOMAIN q = 1 .. Len(q)
    BY LenProperties
  <1> QED BY <1>1 DEF ToSet, Contains

\* It says that names and symbols are found.
LEMMA InvFound == SymInv => SymbolsFound
  <1> SUFFICES ASSUME SymInv, attempt # "undo" PROVE SymbolsFound
    BY DEF SymbolsFound
  <1>1. /\ Sound(symhash, first_symbol, symbols, curpc, {}, nocase)
        /\ \A s \in insts \cup opsyms : Contains(first_symbol, s)
    BY InvNotUndo
  <1>2. /\ Hash(symhash, nocase) /\ nocase \in BOOLEAN
        /\ Agree(symhash, first_symbol, symbols, curpc, {}) /\ first_symbol \in Seq(Nat)
        /\ DOMAIN symhash = Buckets /\ symhash \in [Buckets -> Seq(Entry)]
    BY <1>1 DEF Sound, Hash, ListOf
  <1>3. \A x : x \in ToSet(first_symbol) <=> Contains(first_symbol, x)
    BY <1>2, SetContains
  <1>4. ASSUME NEW e, In(symhash, e) PROVE find_symbol(e.name) = e.data /\ Contains(first_symbol, e.data)
    <2>1. e.name \in Word /\ SameName(e.name, e.name, nocase)
      BY <1>2, <1>4, Entries, NameFacts
    <2>2. Alive(first_symbol, {}, e.data)
      BY <1>2, <1>4 DEF Agree
    <2> QED BY <1>2, <1>4, <2>1, <2>2, HashFinds DEF find_symbol, Alive
  <1>5. ASSUME NEW s \in ToSet(first_symbol) PROVE find_symbol(symbols[s].name) = s
    <2>1. PICK e : e = [name |-> symbols[s].name, data |-> s]
      OBVIOUS
    <2>2. e.name = symbols[s].name /\ e.data = s /\ In(symhash, e)
      BY <1>2, <1>3, <2>1 DEF Agree, Alive
    <2> QED BY <1>4, <2>2
  <1>6. ASSUME NEW b \in DOMAIN symhash, NEW e \in ToSet(symhash[b])
        PROVE  e.data \in ToSet(first_symbol) /\ find_symbol(e.name) = e.data
    <2>1. In(symhash, e)
      BY <1>2, SetContains DEF In
    <2> QED BY <1>3, <1>4, <2>1
  <1>7. ASSUME nocase, NEW n \in Names PROVE find_symbol(Lower(n)) = find_symbol(n)
    <2>1. n \in Word /\ Lower(n) \in Word
      BY NamesAreWords, LowerFacts DEF Name
    <2>2. SameName(Lower(n), n, nocase) /\ SameName(n, Lower(n), nocase)
      BY <1>2, <1>7, <2>1, LowerSame, NameFacts
    <2>3. ASSUME NEW a \in Word, NEW c \in Word, SameName(a, c, nocase), find_name(symhash, a, nocase) # None
          PROVE  find_name(symhash, c, nocase) = find_name(symhash, a, nocase)
      <3>1. PICK x : In(symhash, x) /\ SameName(x.name, a, nocase) /\ x.data = find_name(symhash, a, nocase)
        BY <1>2, <2>3, HashFinds
      <3>2. x.name \in Word
        BY <1>2, <3>1, Entries
      <3>3. SameName(x.name, c, nocase)
        BY <1>2, <2>3, <3>1, <3>2, NameFacts
      <3> QED BY <1>2, <3>1, <3>3, HashFinds
    <2> QED BY <2>1, <2>2, <2>3 DEF find_symbol
  <1>8. insts \cup opsyms \subseteq ToSet(first_symbol)
    BY <1>1, <1>3
  <1>9. curpc # None => curpc \in ToSet(first_symbol)
    BY <1>1, <1>3 DEF Sound, Pc, Alive
  <1> QED BY <1>5, <1>6, <1>7, <1>8, <1>9 DEF SymbolsFound

-----------------------------------------------------------------------------

\* Whenever the parser goes on, the table and the list tell of the same symbols,
\* whatever the names, the size of the table and the number of symbols: no name
\* leads to a symbol that restore_symbols has freed (symbol.c:171), none that
\* lives is lost, and no instruction made holds one that was taken back.
THEOREM SymtabSymbolsFound == SymSpec => []SymbolsFound
  <1>1. SymInit => SymInv
    BY InvInit
  <1>2. SymInv /\ [SymNext]_symvars => SymInv'
    BY InvNext
  <1>3. SymInv => SymbolsFound
    BY InvFound
  <1> QED BY <1>1, <1>2, <1>3, PTL DEF SymSpec
=============================================================================
