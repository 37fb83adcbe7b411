----------------------------- MODULE CondProof ------------------------------
(***************************************************************************)
(* Proofs about conditional assembly, for every nesting limit and every    *)
(* bound: type correctness, which includes that cond[] is never indexed    *)
(* outside its MAXCONDLEV+1 entries, that at most one branch of a block is *)
(* assembled, and, for the syntax modules without an else-if directive, the*)
(* refinement of CondStack.                                                *)
(***************************************************************************)
EXTENDS CondHistory, TLAPS, SequenceTheorems

\* Returning from a source instance keeps the frames below it.
LEMMA PopFrames ==
    ASSUME NEW f \in Seq(Frame), f # << >>
    PROVE  /\ Pop(f) \in Seq(Frame)
           /\ Len(f) \in Nat \ {0}
           /\ Len(Pop(f)) = Len(f) - 1
           /\ \A i \in 1..Len(f) - 1 : Pop(f)[i] = f[i]
           /\ Top(f) \in Frame
  <1>1. Len(f) \in Nat \ {0}
    BY EmptySeq, LenProperties
  <1>2. /\ \A i \in 1..Len(f) : f[i] \in Frame
        /\ Len(f) - 1 \in 0..Len(f)
    BY <1>1, ElementOfSeq
  <1>3. /\ Pop(f) \in Seq(Frame)
        /\ Len(Pop(f)) = Len(f) - 1
        /\ \A i \in 1..Len(f) - 1 : Pop(f)[i] = f[i]
    <2>1. PICK n \in Nat : n = Len(f) - 1
      BY <1>1
    <2>2. /\ SubSeq(f, 1, n) \in Seq(Frame)
          /\ Len(SubSeq(f, 1, n)) = IF 1 <= n THEN n - 1 + 1 ELSE 0
          /\ \A i \in 1..n - 1 + 1 : SubSeq(f, 1, n)[i] = f[1 + i - 1]
      BY <1>1, <1>2, <2>1, SubSeqProperties
    <2>3. Len(SubSeq(f, 1, n)) = n /\ n - 1 + 1 = n
      BY <2>2
    <2>4. ASSUME NEW i \in 1..n PROVE SubSeq(f, 1, n)[i] = f[i]
      <3>1. SubSeq(f, 1, n)[i] = f[1 + i - 1]
        BY <2>2, <2>3
      <3>2. 1 + i - 1 = i
        OBVIOUS
      <3> QED BY <3>1, <3>2
    <2> QED BY <2>1, <2>2, <2>3, <2>4 DEF Pop
  <1> QED BY <1>1, <1>2, <1>3 DEF Top

\* What Append does to the frames.
LEMMA PushFrame ==
    ASSUME NEW f \in Seq(Frame), NEW e \in Frame
    PROVE  /\ Append(f, e) \in Seq(Frame)
           /\ Len(Append(f, e)) = Len(f) + 1
           /\ \A i \in 1..Len(f) : Append(f, e)[i] = f[i]
           /\ Append(f, e)[Len(f) + 1] = e
  BY AppendProperties

\* The levels that are, or may become, the current level index cond[] with
\* room for one more.
LevelsInRange == /\ phase = "parsing" => clev < MAXCONDLEV
                 /\ \A i \in 1..Len(frames) : frames[i].level < MAXCONDLEV

TInv == TypeOK /\ LevelsInRange

\* No block is open at first.
LEMMA TInvInit == Init => TInv
  BY CondAssumption, EmptySeq DEF Init, TInv, TypeOK, LevelsInRange, cond_init

\* Every message is one of Messages.
LEMMA DiagNext ==
    ASSUME diag \in SUBSET Messages, [Next]_vars
    PROVE  diag' \in SUBSET Messages
  <1> USE DEF Messages
  <1>1. ASSUME NEW flag \in BOOLEAN, IfLine(flag) PROVE diag' \in SUBSET Messages
    BY <1>1 DEF IfLine, cond_if, cond_skipif
  <1>2. ASSUME ElseLine PROVE diag' \in SUBSET Messages
    BY <1>2 DEF ElseLine, cond_else, cond_skipelse
  <1>3. ASSUME NEW flag \in BOOLEAN, ElifLine(flag) PROVE diag' \in SUBSET Messages
    BY <1>3 DEF ElifLine, cond_elseif, cond_skipelse
  <1>4. ASSUME EndifLine PROVE diag' \in SUBSET Messages
    BY <1>4 DEF EndifLine, cond_endif
  <1>5. ASSUME NEW macro \in BOOLEAN, CallLine(macro) PROVE diag' \in SUBSET Messages
    BY <1>5 DEF CallLine
  <1>6. ASSUME MExitLine PROVE diag' \in SUBSET Messages
    BY <1>6 DEF MExitLine
  <1>7. ASSUME EndOfText \/ cond_check PROVE diag' \in SUBSET Messages
    BY <1>7 DEF EndOfText, cond_check
  <1>8. CASE UNCHANGED vars
    BY <1>8 DEF vars
  <1> QED BY <1>1, <1>2, <1>3, <1>4, <1>5, <1>6, <1>7, <1>8 DEF Next

\* Every line keeps TInv.
LEMMA TInvNext == TInv /\ [Next]_vars => TInv'
  <1> SUFFICES ASSUME TInv, [Next]_vars PROVE TInv'
    OBVIOUS
  <1> USE CondAssumption DEF TInv, TypeOK, LevelsInRange
  <1>0. diag' \in SUBSET Messages
    BY DiagNext
  <1>1. ASSUME phase = "parsing", NEW flag \in BOOLEAN, IfLine(flag) PROVE TInv'
    <2>1. CASE cond_state /\ clev + 1 >= MAXCONDLEV
      <3>1. /\ clev' = clev + 1
            /\ phase' = "stopped"
            /\ UNCHANGED <<cond, ifnesting, frames>>
        BY <1>1, <2>1 DEF IfLine, cond_if
      <3> QED BY <1>0, <1>1, <2>1, <3>1
    <2>2. CASE cond_state /\ ~(clev + 1 >= MAXCONDLEV)
      BY <1>0, <1>1, <2>2 DEF IfLine, cond_if, Bit
    <2>3. CASE ~cond_state
      BY <1>0, <1>1, <2>3 DEF IfLine, cond_skipif
    <2> QED BY <2>1, <2>2, <2>3
  <1>2. ASSUME phase = "parsing", ElseLine PROVE TInv'
    BY <1>0, <1>2 DEF ElseLine, cond_else, cond_skipelse
  <1>3. ASSUME phase = "parsing", NEW flag \in BOOLEAN, ElifLine(flag) PROVE TInv'
    BY <1>0, <1>3 DEF ElifLine, cond_elseif, cond_skipelse, Bit
  <1>4. ASSUME phase = "parsing", EndifLine PROVE TInv'
    <2>1. /\ clev' = clev \/ (clev > 0 /\ clev' = clev - 1)
          /\ ifnesting' = ifnesting \/ (ifnesting # 0 /\ ifnesting' = ifnesting - 1)
          /\ UNCHANGED <<cond, frames, phase>>
      <3>1. CASE ifnesting = 0
        BY <1>4, <3>1 DEF EndifLine, cond_endif
      <3>2. CASE ifnesting # 0
        BY <1>4, <3>2 DEF EndifLine, cond_endif
      <3> QED BY <3>1, <3>2
    <2> QED BY <1>0, <1>4, <2>1
  <1>5. ASSUME phase = "parsing", NEW macro \in BOOLEAN, CallLine(macro) PROVE TInv'
    <2> DEFINE e == [level |-> clev, macro |-> macro]
    <2>1. e \in Frame /\ e.level < MAXCONDLEV
      BY <1>5 DEF Frame
    <2> HIDE DEF e
    <2>2. frames' = Append(frames, e)
      BY <1>5 DEF CallLine, e
    <2>3. /\ frames' \in Seq(Frame)
          /\ Len(frames') = Len(frames) + 1
          /\ \A i \in 1..Len(frames) : frames'[i] = frames[i]
          /\ frames'[Len(frames) + 1] = e
      BY <2>1, <2>2, PushFrame
    <2>4. Len(frames) \in Nat
      BY LenProperties
    <2> QED BY <1>5, <2>1, <2>3, <2>4 DEF CallLine
  <1>6. ASSUME phase = "parsing", MExitLine PROVE TInv'
    <2>1. CASE frames # << >> /\ Top(frames).macro
      BY <1>0, <1>6, <2>1, PopFrames DEF MExitLine, Top
    <2>2. CASE ~(frames # << >> /\ Top(frames).macro)
      BY <1>0, <1>6, <2>2 DEF MExitLine
    <2> QED BY <2>1, <2>2
  <1>7. ASSUME phase = "parsing", EndOfText PROVE TInv'
    <2>1. /\ frames # << >>
          /\ frames' = Pop(frames)
          /\ UNCHANGED <<clev, cond, ifnesting, diag, phase>>
      BY <1>7 DEF EndOfText
    <2>2. /\ frames' \in Seq(Frame)
          /\ \A i \in 1..Len(frames') : frames'[i].level < MAXCONDLEV
      <3>1. /\ Len(frames) \in Nat \ {0}
            /\ Len(frames') = Len(frames) - 1
            /\ frames' \in Seq(Frame)
            /\ \A i \in 1..Len(frames) - 1 : frames'[i] = frames[i]
        BY <2>1, PopFrames
      <3> QED BY <3>1
    <2> QED BY <1>0, <2>1, <2>2
  <1>8. ASSUME phase = "parsing", cond_check PROVE TInv'
    BY <1>0, <1>8 DEF cond_check
  <1>9. CASE UNCHANGED vars
    BY <1>9 DEF vars
  <1> QED BY <1>1, <1>2, <1>3, <1>4, <1>5, <1>6, <1>7, <1>8, <1>9 DEF Next

\* cond.c keeps its variables in range for every nesting limit and with every
\* kind of directive: no sequence of lines makes it read or write cond[]
\* outside the array (TypeOK includes clev \in 0..MAXCONDLEV).
THEOREM CondTypeOK == Spec => []TypeOK
  <1>1. TInv => TypeOK
    BY DEF TInv
  <1> QED BY <1>1, TInvInit, TInvNext, PTL DEF Spec
-----------------------------------------------------------------------------
(***************************************************************************)
(* Without an else-if directive, and with macros that leave the blocks of  *)
(* their caller alone, ifnesting is only counted while the innermost       *)
(* assembled block is skipped, and only the innermost block is ever        *)
(* switched.  The source instances remember levels that are still open, the*)
(* inner ones at least as many as the outer ones.                          *)
(***************************************************************************)
Plain == ~HasElif /\ ~CrossFrame

FramesOrdered ==
    /\ phase = "parsing" => \A i \in 1..Len(frames) : frames[i].level <= clev
    /\ \A i, j \in 1..Len(frames) : i <= j => frames[i].level <= frames[j].level

SInv == /\ TInv
        /\ cond[0] = 1
        /\ OuterBlocksOn
        /\ NestedBlocksDead
        /\ FramesOrdered
        /\ "nesting depth exceeded" \in diag => phase = "stopped"

\* Level 0 is on, and nothing is nested.
LEMMA SInvInit == Init => SInv
  <1> SUFFICES ASSUME Init PROVE SInv
    OBVIOUS
  <1>1. TInv
    BY TInvInit
  <1>2. /\ clev = 0 /\ ifnesting = 0 /\ cond[0] = 1
        /\ Len(frames) = 0 /\ diag = {} 
    BY CondAssumption, EmptySeq DEF Init, cond_init
  <1> QED BY <1>1, <1>2 DEF SInv, OuterBlocksOn, NestedBlocksDead, FramesOrdered

\* A level is opened by an assembled line, so those below it are on.
LEMMA OuterBlocksOnNext ==
    ASSUME Plain, SInv, [Next]_vars
    PROVE  cond'[0] = 1 /\ OuterBlocksOn'
  <1> DEFINE Goal == cond'[0] = 1 /\ OuterBlocksOn'
  <1>0. /\ MAXCONDLEV \in Nat \ {0}
        /\ clev \in 0..MAXCONDLEV
        /\ cond \in [0..MAXCONDLEV -> {-1, 0, 1}]
        /\ cond[0] = 1
        /\ phase = "parsing" => clev < MAXCONDLEV
        /\ \A i \in 0..MAXCONDLEV : i < clev => cond[i] = 1
    BY CondAssumption DEF SInv, TInv, TypeOK, LevelsInRange, OuterBlocksOn
  <1> USE <1>0 DEF OuterBlocksOn
  <1>1. ASSUME phase = "parsing", NEW flag \in BOOLEAN, IfLine(flag) PROVE Goal
    <2>1. CASE cond_state
      <3>1. cond[clev] = 1
        BY <2>1 DEF cond_state
      <3>2. CASE clev + 1 >= MAXCONDLEV
        <4>1. clev' = clev + 1 /\ cond' = cond
          BY <1>1, <2>1, <3>2 DEF IfLine, cond_if
        <4> QED BY <3>1, <4>1
      <3>3. CASE ~(clev + 1 >= MAXCONDLEV)
        <4>1. clev' = clev + 1 /\ cond' = [cond EXCEPT ![clev + 1] = Bit(flag)]
          BY <1>1, <2>1, <3>3 DEF IfLine, cond_if
        <4> QED BY <3>1, <4>1
      <3> QED BY <3>2, <3>3
    <2>2. CASE ~cond_state
      BY <1>1, <2>2 DEF IfLine, cond_skipif
    <2> QED BY <2>1, <2>2
  <1>2. ASSUME ElseLine PROVE Goal
    <2>1. CASE cond_state
      <3>1. clev' = clev /\ (cond' = cond \/ (clev > 0 /\ cond' = [cond EXCEPT ![clev] = -1]))
        BY <1>2, <2>1 DEF ElseLine, cond_skipelse
      <3> QED BY <3>1
    <2>2. CASE ~cond_state
      <3>1. clev # 0
        BY <2>2 DEF cond_state
      <3>2. clev' = clev /\ (cond' = cond \/ \E v \in {-1, 1} : cond' = [cond EXCEPT ![clev] = v])
        BY <1>2, <2>2 DEF ElseLine, cond_else
      <3> QED BY <3>1, <3>2
    <2> QED BY <2>1, <2>2
  <1>3. ASSUME NEW flag \in BOOLEAN, ElifLine(flag) PROVE Goal
    BY <1>3 DEF ElifLine, Plain
  <1>4. ASSUME EndifLine PROVE Goal
    <2>1. cond' = cond /\ (clev' = clev \/ clev' = clev - 1)
      BY <1>4 DEF EndifLine, cond_endif
    <2> QED BY <2>1
  <1>5. ASSUME NEW macro \in BOOLEAN, CallLine(macro) PROVE Goal
    BY <1>5 DEF CallLine
  <1>6. ASSUME phase = "parsing", MExitLine PROVE Goal
    <2>1. cond' = cond
      BY <1>6 DEF MExitLine
    <2>2. CASE frames # << >> /\ Top(frames).macro
      <3>1. clev' = frames[Len(frames)].level /\ Len(frames) \in Nat \ {0}
        BY <1>6, <2>2, PopFrames DEF MExitLine, Top, SInv, TInv, TypeOK
      <3>2. clev' <= clev /\ clev' \in Nat
        <4>1. Top(frames) \in Frame
          BY <2>2, PopFrames DEF SInv, TInv, TypeOK
        <4>2. frames[Len(frames)].level <= clev
          <5>1. \A i \in 1..Len(frames) : frames[i].level <= clev
            BY <1>6 DEF SInv, FramesOrdered
          <5> QED BY <3>1, <5>1
        <4>3. frames[Len(frames)].level \in Nat
          BY <4>1 DEF Top, Frame
        <4> QED BY <3>1, <4>2, <4>3
      <3> QED BY <2>1, <3>2
    <2>3. CASE ~(frames # << >> /\ Top(frames).macro)
      <3>1. clev' = clev
        BY <1>6, <2>3 DEF MExitLine
      <3> QED BY <2>1, <3>1
    <2> QED BY <2>2, <2>3
  <1>7. ASSUME EndOfText \/ cond_check PROVE Goal
    <2>1. UNCHANGED <<clev, cond>>
      BY <1>7 DEF EndOfText, cond_check
    <2> QED BY <2>1
  <1>8. CASE UNCHANGED vars
    BY <1>8 DEF vars
  <1> QED BY <1>1, <1>2, <1>3, <1>4, <1>5, <1>6, <1>7, <1>8 DEF Next

\* ifnesting is only counted while the innermost level is not assembled, and
\* nothing but the ENDIF that brings it back to 0 lets that level change.
LEMMA NestedBlocksDeadNext ==
    ASSUME Plain, SInv, [Next]_vars
    PROVE  NestedBlocksDead'
  <1> DEFINE Goal == NestedBlocksDead'
  <1>0. /\ MAXCONDLEV \in Nat \ {0}
        /\ clev \in 0..MAXCONDLEV
        /\ cond \in [0..MAXCONDLEV -> {-1, 0, 1}]
        /\ cond[0] = 1
        /\ ifnesting \in Nat
        /\ phase = "parsing" => clev < MAXCONDLEV
        /\ phase = "parsing" /\ ifnesting > 0 => ~(cond[clev] > 0)
    <2>1. TypeOK /\ LevelsInRange /\ cond[0] = 1 /\ NestedBlocksDead
      BY DEF SInv, TInv
    <2> QED BY <2>1, CondAssumption DEF TypeOK, LevelsInRange, NestedBlocksDead, cond_state
  <1> USE <1>0 DEF NestedBlocksDead, cond_state
  <1>1. ASSUME phase = "parsing", NEW flag \in BOOLEAN, IfLine(flag) PROVE Goal
    <2>1. CASE cond_state
      <3>1. ifnesting = 0
        BY <1>1, <2>1
      <3>2. ifnesting' = 0
        BY <1>1, <2>1, <3>1 DEF IfLine, cond_if
      <3> QED BY <3>2
    <2>2. CASE ~cond_state
      BY <1>1, <2>2 DEF IfLine, cond_skipif
    <2> QED BY <2>1, <2>2
  <1>2. ASSUME phase = "parsing", ElseLine PROVE Goal
    <2>1. CASE ifnesting = 0
      <3>1. ifnesting' = 0
        BY <1>2, <2>1 DEF ElseLine, cond_else, cond_skipelse
      <3> QED BY <3>1
    <2>2. CASE ifnesting # 0
      <3>1. ~cond_state
        BY <1>2, <2>2
      <3>2. UNCHANGED <<clev, cond, phase>>
        BY <1>2, <2>2, <3>1 DEF ElseLine, cond_else
      <3> QED BY <1>2, <2>2, <3>1, <3>2
    <2> QED BY <2>1, <2>2
  <1>3. ASSUME NEW flag \in BOOLEAN, ElifLine(flag) PROVE Goal
    BY <1>3 DEF ElifLine, Plain
  <1>4. ASSUME phase = "parsing", EndifLine PROVE Goal
    <2>2. CASE ifnesting = 0
      <3>1. ifnesting' = 0
        BY <1>4, <2>2 DEF EndifLine, cond_endif
      <3> QED BY <3>1
    <2>3. CASE ifnesting # 0
      <3>1. UNCHANGED <<clev, cond, phase>>
        BY <1>4, <2>3 DEF EndifLine, cond_endif
      <3> QED BY <1>4, <2>3, <3>1
    <2> QED BY <2>2, <2>3
  <1>5. ASSUME NEW macro \in BOOLEAN, CallLine(macro) PROVE Goal
    BY <1>5 DEF CallLine
  <1>6. ASSUME phase = "parsing", MExitLine PROVE Goal
    <2>1. ifnesting = 0
      <3>1. cond_state
        BY <1>6 DEF MExitLine
      <3> QED BY <1>6, <3>1
    <2>2. ifnesting' = 0
      BY <1>6, <2>1 DEF MExitLine
    <2> QED BY <2>2
  <1>7. ASSUME EndOfText \/ cond_check PROVE Goal
    BY <1>7 DEF EndOfText, cond_check
  <1>8. CASE UNCHANGED vars
    BY <1>8 DEF vars
  <1> QED BY <1>1, <1>2, <1>3, <1>4, <1>5, <1>6, <1>7, <1>8 DEF Next

\* The nesting error ends the assembly.
LEMMA FatalNext ==
    ASSUME "nesting depth exceeded" \in diag => phase = "stopped", [Next]_vars
    PROVE  "nesting depth exceeded" \in diag' => phase' = "stopped"
  <1> DEFINE Quiet == \/ phase' = "stopped"
                      \/ UNCHANGED <<diag, phase>>
                      \/ \E m \in Messages \ {"nesting depth exceeded"} :
                            diag' = diag \cup {m} /\ phase' = phase
  <1>1. ASSUME NEW flag \in BOOLEAN, IfLine(flag) PROVE Quiet
    BY <1>1 DEF IfLine, cond_if, cond_skipif
  <1>2. ASSUME ElseLine PROVE Quiet
    BY <1>2 DEF ElseLine, cond_else, cond_skipelse, Messages
  <1>3. ASSUME NEW flag \in BOOLEAN, ElifLine(flag) PROVE Quiet
    BY <1>3 DEF ElifLine, cond_elseif, cond_skipelse, Messages
  <1>4. ASSUME EndifLine PROVE Quiet
    BY <1>4 DEF EndifLine, cond_endif, Messages
  <1>5. ASSUME NEW macro \in BOOLEAN, CallLine(macro) PROVE Quiet
    BY <1>5 DEF CallLine
  <1>6. ASSUME MExitLine PROVE Quiet
    BY <1>6 DEF MExitLine, Messages
  <1>7. ASSUME EndOfText \/ cond_check PROVE Quiet
    BY <1>7 DEF EndOfText, cond_check
  <1>8. ASSUME UNCHANGED vars PROVE Quiet
    BY <1>8 DEF vars
  <1> HIDE DEF Quiet
  <1>9. Quiet
    BY <1>1, <1>2, <1>3, <1>4, <1>5, <1>6, <1>7, <1>8 DEF Next
  <1> QED BY <1>9 DEF Quiet

\* The frames a step keeps stay ordered, and no step closes a block below the
\* level of the innermost frame it keeps.
LEMMA FramesOrderedNext ==
    ASSUME Plain, SInv, [Next]_vars
    PROVE  FramesOrdered'
  <1>0. /\ clev \in Nat
        /\ frames \in Seq(Frame)
        /\ Len(frames) \in Nat
        /\ FramesOrdered
    <2>1. TypeOK /\ FramesOrdered
      BY DEF SInv, TInv
    <2>2. clev \in Nat /\ frames \in Seq(Frame)
      BY <2>1, CondAssumption DEF TypeOK
    <2> QED BY <2>1, <2>2, LenProperties
  <1>a. ASSUME NEW i \in 1..Len(frames) PROVE frames[i].level \in Nat
    <2>1. frames[i] \in Frame
      BY <1>0, ElementOfSeq
    <2> QED BY <2>1 DEF Frame
  <1>1. ASSUME phase = "parsing", NEW flag \in BOOLEAN, IfLine(flag) PROVE FramesOrdered'
    <2>1. frames' = frames /\ (clev' = clev \/ clev' = clev + 1)
      BY <1>1 DEF IfLine, cond_if, cond_skipif
    <2> QED BY <1>0, <1>a, <1>1, <2>1 DEF FramesOrdered
  <1>2. ASSUME phase = "parsing", ElseLine PROVE FramesOrdered'
    <2>1. frames' = frames /\ clev' = clev
      BY <1>2 DEF ElseLine, cond_else, cond_skipelse
    <2> QED BY <1>0, <1>2, <2>1 DEF FramesOrdered
  <1>3. ASSUME NEW flag \in BOOLEAN, ElifLine(flag) PROVE FramesOrdered'
    BY <1>3 DEF ElifLine, Plain
  <1>4. ASSUME phase = "parsing", EndifLine PROVE FramesOrdered'
    <2>1. frames' = frames
      BY <1>4 DEF EndifLine, cond_endif
    <2>2. CASE clev' = clev
      BY <1>0, <1>4, <2>1, <2>2 DEF FramesOrdered
    <2>3. CASE clev' # clev
      <3>1. ifnesting = 0 /\ clev' = clev - 1
        BY <1>4, <2>3 DEF EndifLine, cond_endif
      <3>2. clev > Floor
        BY <1>4, <3>1 DEF EndifLine, OwnBlock, Plain
      <3>3. ASSUME NEW i \in 1..Len(frames) PROVE frames[i].level <= clev - 1
        <4>1. frames # << >> /\ Len(frames) \in 1..Len(frames)
          BY <1>0, <3>3, EmptySeq
        <4>2. frames[Len(frames)].level < clev
          BY <3>2, <4>1 DEF Floor, Top
        <4>3. frames[i].level <= frames[Len(frames)].level
          BY <1>0, <3>3, <4>1 DEF FramesOrdered
        <4> QED BY <1>0, <1>a, <4>1, <4>2, <4>3
      <3> QED BY <1>0, <2>1, <3>1, <3>3 DEF FramesOrdered
    <2> QED BY <2>2, <2>3
  <1>5. ASSUME phase = "parsing", NEW macro \in BOOLEAN, CallLine(macro) PROVE FramesOrdered'
    <2> DEFINE e == [level |-> clev, macro |-> macro]
    <2>1. e \in Frame /\ e.level = clev
      BY <1>0, <1>5 DEF Frame
    <2> HIDE DEF e
    <2>2. frames' = Append(frames, e) /\ clev' = clev
      BY <1>5 DEF CallLine, e
    <2>3. /\ Len(frames') = Len(frames) + 1
          /\ \A i \in 1..Len(frames) : frames'[i] = frames[i]
          /\ frames'[Len(frames) + 1] = e
      BY <1>0, <2>1, <2>2, PushFrame
    <2>4. ASSUME NEW i \in 1..Len(frames) + 1 PROVE frames'[i].level <= clev
      BY <1>0, <1>5, <2>1, <2>3 DEF FramesOrdered
    <2>5. ASSUME NEW i \in 1..Len(frames) + 1, NEW j \in 1..Len(frames) + 1, i <= j
          PROVE  frames'[i].level <= frames'[j].level
      <3>1. CASE j = Len(frames) + 1
        BY <2>1, <2>3, <2>4, <3>1
      <3>2. CASE j # Len(frames) + 1
        <4>1. i \in 1..Len(frames) /\ j \in 1..Len(frames)
          BY <1>0, <2>5, <3>2
        <4> QED BY <1>0, <2>3, <2>5, <4>1 DEF FramesOrdered
      <3> QED BY <3>1, <3>2
    <2> QED BY <2>2, <2>3, <2>4, <2>5 DEF FramesOrdered
  <1>b. ASSUME frames # << >>, frames' = Pop(frames), phase = "parsing",
               clev' = clev \/ clev' = Top(frames).level
        PROVE  FramesOrdered'
    <2>1. /\ Len(frames) \in 1..Len(frames)
          /\ Len(frames') = Len(frames) - 1
          /\ \A i \in 1..Len(frames) - 1 : frames'[i] = frames[i]
      BY <1>0, <1>b, PopFrames
    <2>2. ASSUME NEW i \in 1..Len(frames) - 1 PROVE frames'[i].level <= clev'
      <3>1. i \in 1..Len(frames) /\ i <= Len(frames)
        BY <1>0
      <3>2. frames[i].level <= clev /\ frames[i].level <= frames[Len(frames)].level
        BY <1>0, <1>b, <2>1, <3>1 DEF FramesOrdered
      <3> QED BY <1>b, <2>1, <2>2, <3>2 DEF Top
    <2>3. ASSUME NEW i \in 1..Len(frames) - 1, NEW j \in 1..Len(frames) - 1, i <= j
          PROVE  frames'[i].level <= frames'[j].level
      <3>1. i \in 1..Len(frames) /\ j \in 1..Len(frames)
        BY <1>0
      <3> QED BY <1>0, <2>1, <2>3, <3>1 DEF FramesOrdered
    <2> QED BY <2>1, <2>2, <2>3 DEF FramesOrdered
  <1>6. ASSUME phase = "parsing", MExitLine PROVE FramesOrdered'
    <2>1. CASE frames # << >> /\ Top(frames).macro
      BY <1>b, <1>6, <2>1 DEF MExitLine
    <2>2. CASE ~(frames # << >> /\ Top(frames).macro)
      <3>1. frames' = frames /\ clev' = clev
        BY <1>6, <2>2 DEF MExitLine
      <3> QED BY <1>0, <1>6, <3>1 DEF FramesOrdered
    <2> QED BY <2>1, <2>2
  <1>7. ASSUME phase = "parsing", EndOfText PROVE FramesOrdered'
    BY <1>b, <1>7 DEF EndOfText
  <1>8. ASSUME phase = "parsing", cond_check PROVE FramesOrdered'
    <2>1. frames' = frames /\ phase' = "stopped"
      BY <1>8 DEF cond_check
    <2> QED BY <1>0, <2>1 DEF FramesOrdered
  <1>9. CASE UNCHANGED vars
    <2>1. frames' = frames /\ clev' = clev /\ phase' = phase
      BY <1>9 DEF vars
    <2> QED BY <1>0, <2>1 DEF FramesOrdered
  <1> QED BY <1>1, <1>2, <1>3, <1>4, <1>5, <1>6, <1>7, <1>8, <1>9 DEF Next

\* Every line keeps SInv.
LEMMA SInvNext == Plain /\ SInv /\ [Next]_vars => SInv'
  <1> SUFFICES ASSUME Plain, SInv, [Next]_vars PROVE SInv'
    OBVIOUS
  <1>1. TInv'
    BY TInvNext DEF SInv
  <1>2. "nesting depth exceeded" \in diag' => phase' = "stopped"
    BY FatalNext DEF SInv
  <1> QED BY <1>1, <1>2, OuterBlocksOnNext, NestedBlocksDeadNext, FramesOrderedNext DEF SInv

\* In syntax modules without an else-if directive (oldstyle, madmac, merlin,
\* scmasm) no line of a block nested in skipped text is ever assembled,
\* however deep the nesting (cond_skipif, cond_else, cond_endif).
THEOREM NestedBlocksStayDead ==
    ASSUME Plain PROVE Spec => []NestedBlocksDead
  <1>1. SInv => NestedBlocksDead
    BY DEF SInv
  <1> QED BY <1>1, SInvInit, SInvNext, PTL DEF Spec
\* The same for the blocks around the innermost one: all of them are being
\* assembled, so cond_state may look at cond[clev] alone.
THEOREM OuterBlocksStayOn ==
    ASSUME Plain PROVE Spec => []OuterBlocksOn
  <1>1. SInv => OuterBlocksOn
    BY DEF SInv
  <1> QED BY <1>1, SInvInit, SInvNext, PTL DEF Spec
-----------------------------------------------------------------------------
(***************************************************************************)
(* One branch of a block, with else-if and with macros that work on the    *)
(* blocks of their caller.  A directive switches the innermost level only, *)
(* and switches it on only when none of its branches was assembled.  A     *)
(* source instance that closed no block of its caller is left with all of  *)
(* these blocks on, as they were when it was started.                      *)
(***************************************************************************)
HistoryTypes == taken \in [Levels -> Nat] /\ saved \in Seq(Saved)

BlocksCounted ==
    /\ cond[0] = 1
    /\ OuterBlocksOn
    /\ \A i \in Levels : i <= clev => taken[i] <= 1
    /\ phase = "parsing" => \A i \in Levels : i <= clev /\ cond[i] = 0 => taken[i] = 0

CallersKept ==
    /\ Len(saved) = Len(frames)
    /\ \A k \in 1..Len(frames) :
          \A i \in Levels : i <= frames[k].level => saved[k].taken[i] <= 1
    /\ phase = "parsing" =>
          \A k \in 1..Len(frames) : saved[k].closed \/ frames[k].level <= clev
    /\ \A j, k \in 1..Len(frames) :
          j <= k => saved[j].closed \/ frames[j].level <= frames[k].level

HInv == TInv /\ HistoryTypes /\ BlocksCounted /\ CallersKept

\* What HInv says of the variables' types.
LEMMA HistoryFacts ==
    ASSUME HInv
    PROVE  /\ MAXCONDLEV \in Nat \ {0}
           /\ clev \in 0..MAXCONDLEV
           /\ cond \in [0..MAXCONDLEV -> {-1, 0, 1}]
           /\ ifnesting \in Nat
           /\ frames \in Seq(Frame) /\ saved \in Seq(Saved)
           /\ Len(frames) \in Nat /\ Len(saved) = Len(frames)
           /\ \A k \in 1..Len(frames) :
                 /\ frames[k].level \in Nat
                 /\ saved[k] \in Saved
           /\ taken \in [Levels -> Nat]
           /\ phase = "parsing" => clev < MAXCONDLEV
  <1>1. frames \in Seq(Frame) /\ saved \in Seq(Saved) /\ Len(saved) = Len(frames)
    BY DEF HInv, TInv, TypeOK, HistoryTypes, CallersKept
  <1>2. Len(frames) \in Nat
    BY <1>1, LenProperties
  <1>3. ASSUME NEW k \in 1..Len(frames)
        PROVE  frames[k].level \in Nat /\ saved[k] \in Saved
    <2>1. frames[k] \in Frame /\ saved[k] \in Saved
      BY <1>1, ElementOfSeq
    <2> QED BY <2>1 DEF Frame
  <1> QED BY <1>1, <1>2, <1>3, CondAssumption
          DEF HInv, TInv, TypeOK, LevelsInRange, HistoryTypes

\* A step with history is a step of cond.c.
LEMMA HistoryStep == [HNext]_hvars => [Next]_vars
  BY DEF HNext, hvars, Next, vars, HIf, HElse, HElif, HEndif, HCall, HMExit, HEndOfText

\* No block, no source instance.
LEMMA HInvInit == HInit => HInv
  <1> SUFFICES ASSUME HInit PROVE HInv
    OBVIOUS
  <1>1. TInv
    BY TInvInit DEF HInit
  <1>2. clev = 0 /\ cond[0] = 1 /\ frames = << >> /\ saved = << >>
        /\ taken = [i \in Levels |-> 0]
    BY CondAssumption DEF HInit, Init, cond_init
  <1>3. Len(frames) = 0 /\ Len(saved) = 0 /\ saved \in Seq(Saved)
    BY <1>2, EmptySeq
  <1> QED BY <1>1, <1>2, <1>3
          DEF HInv, HistoryTypes, BlocksCounted, OuterBlocksOn, CallersKept, Levels

\* A source instance is entered,
LEMMA PushSaved ==
    ASSUME HInv, NEW macro \in BOOLEAN, HCall(macro)
    PROVE  /\ saved' \in Seq(Saved)
           /\ Len(saved') = Len(frames) + 1
           /\ \A k \in 1..Len(frames) : saved'[k] = saved[k]
           /\ saved'[Len(frames) + 1] = [taken |-> taken, closed |-> FALSE]
           /\ Len(frames') = Len(frames) + 1
           /\ \A k \in 1..Len(frames) : frames'[k] = frames[k]
           /\ frames'[Len(frames) + 1].level = clev
  <1> USE HistoryFacts
  <1> DEFINE e == [level |-> clev, macro |-> macro]
             s == [taken |-> taken, closed |-> FALSE]
  <1>1. e \in Frame /\ s \in Saved /\ e.level = clev
    BY DEF Frame, Saved
  <1>2. frames' = Append(frames, e) /\ saved' = Append(saved, s)
    BY DEF HCall, CallLine
  <1> HIDE DEF e, s
  <1>3. /\ Len(frames') = Len(frames) + 1
        /\ \A k \in 1..Len(frames) : frames'[k] = frames[k]
        /\ frames'[Len(frames) + 1] = e
    BY <1>1, <1>2, AppendProperties
  <1>4. /\ saved' \in Seq(Saved)
        /\ Len(saved') = Len(saved) + 1
        /\ \A k \in 1..Len(saved) : saved'[k] = saved[k]
        /\ saved'[Len(saved) + 1] = s
    BY <1>1, <1>2, AppendProperties
  <1> QED BY <1>1, <1>3, <1>4 DEF s

\* and left.
LEMMA PopSaved ==
    ASSUME HInv, frames # << >>, frames' = Pop(frames), saved' = Pop(saved)
    PROVE  /\ Len(frames) \in Nat \ {0}
           /\ saved' \in Seq(Saved)
           /\ Len(saved') = Len(frames) - 1
           /\ \A k \in 1..Len(frames) - 1 : saved'[k] = saved[k]
           /\ Len(frames') = Len(frames) - 1
           /\ \A k \in 1..Len(frames) - 1 : frames'[k] = frames[k]
  <1> USE HistoryFacts
  <1>1. /\ Len(frames) \in Nat \ {0}
        /\ Len(frames') = Len(frames) - 1
        /\ \A k \in 1..Len(frames) - 1 : frames'[k] = frames[k]
    BY PopFrames
  <1>2. saved # << >>
    BY <1>1, EmptySeq
  <1>3. PICK n \in Nat : n = Len(saved) - 1
    BY <1>1
  <1>4. \A k \in 1..n : saved[k] \in Saved
    BY <1>3
  <1>5. /\ saved' \in Seq(Saved)
        /\ Len(saved') = IF 1 <= n THEN n - 1 + 1 ELSE 0
        /\ \A k \in 1..n - 1 + 1 : saved'[k] = saved[1 + k - 1]
    BY <1>3, <1>4, SubSeqProperties DEF Pop
  <1>6. Len(saved') = n /\ n - 1 + 1 = n
    BY <1>5
  <1>7. ASSUME NEW k \in 1..n PROVE saved'[k] = saved[k]
    <2>1. saved'[k] = saved[1 + k - 1] /\ 1 + k - 1 = k
      BY <1>5, <1>6
    <2> QED BY <2>1
  <1> QED BY <1>1, <1>3, <1>5, <1>6, <1>7

\* ENDIF only notes the blocks of a caller that it closes.
LEMMA NoteClosed ==
    ASSUME HInv, HEndif
    PROVE  /\ saved' \in Seq(Saved)
           /\ Len(saved') = Len(frames)
           /\ \A k \in 1..Len(frames) :
                 /\ saved'[k].taken = saved[k].taken
                 /\ saved'[k].closed <=> saved[k].closed \/ clev' < frames[k].level
  <1> USE HistoryFacts
  <1> DEFINE s(k) == [taken |-> saved[k].taken,
                     closed |-> saved[k].closed \/ clev' < frames[k].level]
  <1>1. DOMAIN saved = 1..Len(frames)
    BY LenProperties
  <1>2. saved' = [k \in 1..Len(frames) |-> s(k)]
    BY <1>1 DEF HEndif
  <1>3. ASSUME NEW k \in 1..Len(frames)
        PROVE  /\ s(k) \in Saved
               /\ s(k).taken = saved[k].taken
               /\ s(k).closed <=> saved[k].closed \/ clev' < frames[k].level
    <2>1. saved[k] \in Saved
      OBVIOUS
    <2> QED BY <2>1 DEF Saved
  <1> HIDE DEF s
  <1>4. saved' \in Seq(Saved) /\ Len(saved') = Len(frames)
    BY <1>2, <1>3, IsASeq
  <1> QED BY <1>2, <1>3, <1>4

\* The innermost level is switched on only from 0, when none of its branches
\* was assembled (cond_else, cond_skipelse, cond_elseif).
LEMMA SwitchCounted ==
    ASSUME HInv, phase = "parsing", NEW v \in {-1, 0, 1}, clev > 0,
           cond' = [cond EXCEPT ![clev] = v], UNCHANGED <<clev, phase>>, NextBranch,
           cond[clev] # 0 => v = -1
    PROVE  BlocksCounted'
  <1> USE HistoryFacts
  <1>1. /\ cond'[clev] = v
        /\ \A i \in 0..MAXCONDLEV : i # clev => cond'[i] = cond[i]
        /\ \A i \in Levels : taken'[i] = taken[i] + IF i = clev /\ v = 1 THEN 1 ELSE 0
    BY DEF NextBranch, Levels
  <1>2. v = 1 => taken[clev] = 0
    BY DEF HInv, BlocksCounted, Levels
  <1>3. v = 0 => taken[clev] = 0
    BY DEF HInv, BlocksCounted, Levels
  <1>4. /\ cond[0] = 1
        /\ \A i \in 0..MAXCONDLEV : i < clev => cond[i] = 1
        /\ \A i \in Levels : i <= clev => taken[i] <= 1
        /\ \A i \in Levels : i <= clev /\ cond[i] = 0 => taken[i] = 0
    BY DEF HInv, BlocksCounted, OuterBlocksOn
  <1>5. cond'[0] = 1 /\ \A i \in 0..MAXCONDLEV : i < clev => cond'[i] = 1
    BY <1>1, <1>4
  <1>6. ASSUME NEW i \in Levels, i <= clev
        PROVE  taken'[i] <= 1 /\ (cond'[i] = 0 => taken'[i] = 0)
    <2>1. i \in 1..MAXCONDLEV /\ taken[i] \in Nat
      BY DEF Levels
    <2>2. CASE i = clev
      BY <1>1, <1>2, <1>3, <1>4, <1>6, <2>1, <2>2
    <2>3. CASE i # clev
      BY <1>1, <1>4, <1>6, <2>1, <2>3
    <2> QED BY <2>2, <2>3
  <1> QED BY <1>5, <1>6 DEF BlocksCounted, OuterBlocksOn

\* A line that switches nothing counts nothing: no level below the current one
\* has a branch that begins and is assembled, and the current one is off.
LEMMA SameCounted ==
    ASSUME HInv, UNCHANGED <<clev, cond, taken>>, phase = "parsing"
    PROVE  BlocksCounted'
  BY DEF HInv, BlocksCounted, OuterBlocksOn

\* ELSE and ELSE-IF.
LEMMA BranchCounted ==
    ASSUME HInv, phase = "parsing", NextBranch,
           ElseLine \/ \E flag \in BOOLEAN : ElifLine(flag)
    PROVE  BlocksCounted'
  <1> USE HistoryFacts
  <1>0. cond[0] = 1 /\ (~cond_state => clev > 0)
    BY DEF HInv, BlocksCounted, cond_state
  <1>1. UNCHANGED <<clev, phase>>
    BY DEF ElseLine, ElifLine, cond_else, cond_skipelse, cond_elseif
  <1>a. ASSUME cond' = cond, clev > 0 => cond[clev] # 1 PROVE BlocksCounted'
    <2>1. \A i \in Levels : taken'[i] = taken[i] + IF i = clev /\ cond[i] = 1 THEN 1 ELSE 0
      BY <1>a DEF NextBranch
    <2>2. ASSUME NEW i \in Levels PROVE taken'[i] = taken[i]
      <3>1. i > 0 /\ taken[i] \in Nat
        BY DEF Levels
      <3> QED BY <1>a, <2>1, <3>1
    <2>3. taken' = taken
      BY <2>2 DEF NextBranch
    <2> QED BY <1>1, <1>a, <2>3, SameCounted
  <1>2. CASE cond_state /\ cond_skipelse
    <2>1. CASE clev > 0
      <3>1. cond' = [cond EXCEPT ![clev] = -1]
        BY <1>2, <2>1 DEF cond_skipelse
      <3> QED BY <1>1, <2>1, <3>1, SwitchCounted
    <2>2. CASE ~(clev > 0)
      <3>1. cond' = cond
        BY <1>2, <2>2 DEF cond_skipelse
      <3> QED BY <1>a, <2>2, <3>1
    <2> QED BY <2>1, <2>2
  <1>3. CASE ~cond_state /\ cond_else
    <2>1. CASE ifnesting # 0
      <3>1. cond' = cond
        BY <1>3, <2>1 DEF cond_else
      <3> QED BY <1>3, <1>a, <3>1 DEF cond_state
    <2>2. CASE ifnesting = 0 /\ cond[clev] # 0
      <3>1. cond' = [cond EXCEPT ![clev] = -1]
        BY <1>3, <2>2 DEF cond_else
      <3> QED BY <1>0, <1>1, <1>3, <3>1, SwitchCounted
    <2>3. CASE ifnesting = 0 /\ cond[clev] = 0
      <3>1. cond' = [cond EXCEPT ![clev] = 1]
        BY <1>3, <2>3 DEF cond_else
      <3> QED BY <1>0, <1>1, <1>3, <2>3, <3>1, SwitchCounted
    <2> QED BY <2>1, <2>2, <2>3
  <1>4. ASSUME NEW flag \in BOOLEAN, ~cond_state, cond_elseif(flag) PROVE BlocksCounted'
    <2>1. CASE cond[clev] = 0
      <3>1. cond' = [cond EXCEPT ![clev] = Bit(flag)] /\ Bit(flag) \in {-1, 0, 1}
        BY <1>0, <1>4, <2>1 DEF cond_elseif, Bit
      <3> QED BY <1>0, <1>1, <1>4, <2>1, <3>1, SwitchCounted
    <2>2. CASE cond[clev] # 0
      <3>1. cond' = [cond EXCEPT ![clev] = -1]
        BY <1>0, <1>4, <2>2 DEF cond_elseif
      <3> QED BY <1>0, <1>1, <1>4, <3>1, SwitchCounted
    <2> QED BY <2>1, <2>2
  <1> QED BY <1>2, <1>3, <1>4 DEF ElseLine, ElifLine

\* A block begins with the branch of its IF.
LEMMA IfCounted ==
    ASSUME HInv, phase = "parsing", NEW flag \in BOOLEAN, HIf(flag)
    PROVE  BlocksCounted'
  <1> USE HistoryFacts
  <1>1. CASE ~cond_state
    <2>1. UNCHANGED <<clev, cond>>
      BY <1>1 DEF HIf, IfLine, cond_skipif
    <2>2. \A i \in Levels : taken'[i] = taken[i]
      BY <2>1 DEF HIf, Levels
    <2> QED BY <2>1, <2>2 DEF HInv, BlocksCounted, OuterBlocksOn
  <1>2. CASE cond_state
    <2>1. clev' = clev + 1 /\ cond[clev] = 1
      <3>1. clev' = clev + 1
        BY <1>2 DEF HIf, IfLine, cond_if
      <3>2. cond[clev] \in {-1, 0, 1} /\ cond[clev] > 0
        BY <1>2 DEF cond_state
      <3> QED BY <3>1, <3>2
    <2>a. /\ cond[0] = 1
          /\ \A i \in 0..MAXCONDLEV : i < clev => cond[i] = 1
          /\ \A i \in Levels : i <= clev => taken[i] <= 1
          /\ \A i \in Levels : i <= clev /\ cond[i] = 0 => taken[i] = 0
      BY DEF HInv, BlocksCounted, OuterBlocksOn
    <2>b. Bit(flag) \in {0, 1}
      BY DEF Bit
    <2>c. \A i \in Levels : i \in 1..MAXCONDLEV /\ taken[i] \in Nat
      BY DEF Levels
    <2>2. \A i \in Levels : taken'[i] = IF i = clev + 1 THEN Bit(flag) ELSE taken[i]
      BY <2>1 DEF HIf, Levels
    <2>3. CASE clev + 1 >= MAXCONDLEV
      <3>1. cond' = cond /\ phase' = "stopped"
        BY <1>2, <2>3 DEF HIf, IfLine, cond_if
      <3>2. \A i \in 0..MAXCONDLEV : i < clev' => cond'[i] = 1
        BY <2>1, <2>a, <3>1
      <3>3. ASSUME NEW i \in Levels, i <= clev' PROVE taken'[i] <= 1
        <4>1. CASE i = clev + 1
          BY <2>2, <2>b, <4>1
        <4>2. CASE i # clev + 1
          BY <2>1, <2>2, <2>a, <2>c, <3>3, <4>2
        <4> QED BY <4>1, <4>2
      <3>4. OuterBlocksOn'
        BY <3>2 DEF OuterBlocksOn
      <3>5. cond'[0] = 1 /\ phase' # "parsing"
        BY <2>a, <3>1
      <3> QED BY <3>3, <3>4, <3>5, Zenon DEF BlocksCounted
    <2>4. CASE ~(clev + 1 >= MAXCONDLEV)
      <3>1. cond' = [cond EXCEPT ![clev + 1] = Bit(flag)]
        BY <1>2, <2>4 DEF HIf, IfLine, cond_if
      <3>2. /\ cond'[clev + 1] = Bit(flag)
            /\ \A i \in 0..MAXCONDLEV : i # clev + 1 => cond'[i] = cond[i]
        BY <2>4, <3>1
      <3>a. ASSUME NEW i \in 0..MAXCONDLEV, i < clev' PROVE cond'[i] = 1
        <4>1. (i = clev \/ i < clev) /\ i # clev + 1
          BY <2>1, <3>a
        <4>2. cond[i] = 1 /\ cond'[i] = cond[i]
          BY <2>1, <2>a, <3>2, <4>1
        <4> QED BY <4>2
      <3>b. cond'[0] = 1
        BY <2>1, <3>a
      <3>3. cond'[0] = 1 /\ \A i \in 0..MAXCONDLEV : i < clev' => cond'[i] = 1
        BY <3>a, <3>b
      <3>4. ASSUME NEW i \in Levels, i <= clev'
            PROVE  taken'[i] <= 1 /\ (cond'[i] = 0 => taken'[i] = 0)
        <4>1. CASE i = clev + 1
          BY <2>2, <2>b, <3>2, <4>1
        <4>2. CASE i # clev + 1
          BY <2>1, <2>2, <2>a, <2>c, <3>2, <3>4, <4>2
        <4> QED BY <4>1, <4>2
      <3> QED BY <3>3, <3>4 DEF BlocksCounted, OuterBlocksOn
    <2> QED BY <2>3, <2>4
  <1> QED BY <1>1, <1>2

\* MEXIT goes back to blocks that are all on, as they were at the call.
LEMMA MExitCounted ==
    ASSUME HInv, ~MExitClosed, phase = "parsing", HMExit
    PROVE  BlocksCounted'
  <1> USE HistoryFacts
  <1>1. CASE frames' # frames
    <2>1. /\ frames # << >> /\ clev' = Top(frames).level
          /\ UNCHANGED <<cond, phase>> /\ cond_state
      BY <1>1 DEF HMExit, MExitLine
    <2>2. ~Top(saved).closed /\ taken' = Top(saved).taken
      BY <1>1 DEF HMExit
    <2>3. PICK n \in 1..Len(frames) : n = Len(frames)
      BY <2>1, PopFrames
    <2>4. clev' = frames[n].level /\ ~saved[n].closed /\ taken' = saved[n].taken
      BY <2>1, <2>2, <2>3 DEF Top
    <2>5. clev' <= clev /\ clev' \in Nat
      BY <2>4 DEF HInv, CallersKept
    <2>6. \A i \in 0..MAXCONDLEV : i <= clev' => cond'[i] = 1
      BY <2>1, <2>5 DEF HInv, BlocksCounted, OuterBlocksOn, cond_state
    <2>7. \A i \in Levels : i <= clev' => taken'[i] <= 1
      BY <2>4 DEF HInv, CallersKept
    <2> QED BY <2>5, <2>6, <2>7 DEF BlocksCounted, OuterBlocksOn, Levels
  <1>2. CASE frames' = frames
    <2>1. frames # << >> => Pop(frames) # frames
      BY PopFrames
    <2>2. UNCHANGED <<clev, cond, taken>>
      BY <1>2, <2>1 DEF HMExit, MExitLine
    <2> QED BY <2>2, SameCounted
  <1> QED BY <1>1, <1>2

\* The blocks' part of the invariant.
LEMMA BlocksCountedNext ==
    ASSUME HInv, ~MExitClosed, [HNext]_hvars
    PROVE  BlocksCounted'
  <1>1. ASSUME phase = "parsing", NEW flag \in BOOLEAN, HIf(flag) PROVE BlocksCounted'
    BY <1>1, IfCounted
  <1>2. ASSUME phase = "parsing", HElse PROVE BlocksCounted'
    BY <1>2, BranchCounted DEF HElse
  <1>3. ASSUME phase = "parsing", NEW flag \in BOOLEAN, HElif(flag) PROVE BlocksCounted'
    BY <1>3, BranchCounted DEF HElif
  <1>4. ASSUME phase = "parsing", HEndif PROVE BlocksCounted'
    <2>1. UNCHANGED <<cond, taken, phase>> /\ (clev' = clev \/ clev' = clev - 1)
      BY <1>4 DEF HEndif, EndifLine, cond_endif
    <2> QED BY <2>1, HistoryFacts DEF HInv, BlocksCounted, OuterBlocksOn, Levels
  <1>5. ASSUME phase = "parsing", NEW macro \in BOOLEAN, HCall(macro) PROVE BlocksCounted'
    BY <1>5, SameCounted DEF HCall, CallLine
  <1>6. ASSUME phase = "parsing", HMExit PROVE BlocksCounted'
    BY <1>6, MExitCounted
  <1>7. ASSUME phase = "parsing", HEndOfText PROVE BlocksCounted'
    BY <1>7, SameCounted DEF HEndOfText, EndOfText
  <1>8. ASSUME phase = "parsing", cond_check, UNCHANGED <<taken, saved>> PROVE BlocksCounted'
    BY <1>8, SameCounted DEF cond_check
  <1>9. CASE UNCHANGED hvars
    BY <1>9 DEF hvars, HInv, BlocksCounted, OuterBlocksOn
  <1> QED BY <1>1, <1>2, <1>3, <1>4, <1>5, <1>6, <1>7, <1>8, <1>9 DEF HNext

\* The levels of the source instances: what they saved stays, and a level that
\* is closed under one of them is noted.
LEMMA CallersKeptNext ==
    ASSUME HInv, [HNext]_hvars
    PROVE  HistoryTypes' /\ CallersKept'
  <1> DEFINE Goal == HistoryTypes' /\ CallersKept'
  <1> USE HistoryFacts
  <1>a. /\ \A k \in 1..Len(frames) :
              \A i \in Levels : i <= frames[k].level => saved[k].taken[i] <= 1
        /\ phase = "parsing" =>
              \A k \in 1..Len(frames) : saved[k].closed \/ frames[k].level <= clev
        /\ \A j, k \in 1..Len(frames) :
              j <= k => saved[j].closed \/ frames[j].level <= frames[k].level
    BY DEF HInv, CallersKept
  <1>b. ASSUME UNCHANGED <<frames, saved>>, taken' \in [Levels -> Nat],
               phase = "parsing", clev' \in Nat, clev' >= clev
        PROVE  Goal
    <2>1. \A k \in 1..Len(frames) : saved[k].closed \/ frames[k].level <= clev'
      BY <1>a, <1>b
    <2> QED BY <1>a, <1>b, <2>1 DEF HistoryTypes, CallersKept
  <1> HIDE DEF Goal
  <1>1. ASSUME phase = "parsing", NEW flag \in BOOLEAN, HIf(flag) PROVE Goal
    <2>a. UNCHANGED <<frames, saved>> /\ (clev' = clev \/ clev' = clev + 1)
      BY <1>1, Zenon DEF HIf, IfLine, cond_if, cond_skipif
    <2>1. UNCHANGED <<frames, saved>> /\ clev' \in Nat /\ clev' >= clev
      BY <2>a
    <2>2. \A i \in Levels : Bit(flag) \in Nat /\ taken[i] \in Nat
      BY DEF Bit
    <2>3. taken' \in [Levels -> Nat]
      BY <1>1, <2>2 DEF HIf
    <2> QED BY <1>1, <1>b, <2>1, <2>3
  <1>2. ASSUME phase = "parsing", NextBranch,
               ElseLine \/ \E flag \in BOOLEAN : ElifLine(flag)
        PROVE  Goal
    <2>1. UNCHANGED <<frames, clev>>
      BY <1>2 DEF ElseLine, ElifLine, cond_else, cond_skipelse, cond_elseif
    <2>2. taken' \in [Levels -> Nat] /\ saved' = saved
      BY <1>2 DEF NextBranch
    <2> QED BY <1>2, <1>b, <2>1, <2>2
  <1>4. ASSUME phase = "parsing", HEndif PROVE Goal
    <2>1. frames' = frames /\ taken' = taken
      BY <1>4 DEF HEndif, EndifLine, cond_endif
    <2>a. clev' = clev \/ (clev > 0 /\ clev' = clev - 1)
      BY <1>4, Zenon DEF HEndif, EndifLine, cond_endif
    <2>2. clev' \in Nat
      BY <2>a
    <2>3. \A k \in 1..Len(frames) :
             /\ saved'[k].taken = saved[k].taken
             /\ saved'[k].closed <=> saved[k].closed \/ clev' < frames[k].level
      BY <1>4, NoteClosed
    <2>4. saved' \in Seq(Saved) /\ Len(saved') = Len(frames)
      BY <1>4, NoteClosed
    <2>5. \A k \in 1..Len(frames) : saved'[k].closed \/ frames[k].level <= clev'
      BY <2>2, <2>3
    <2>6. \A j, k \in 1..Len(frames) :
             j <= k => saved'[j].closed \/ frames[j].level <= frames[k].level
      BY <1>a, <2>3
    <2> QED BY <1>a, <2>1, <2>3, <2>4, <2>5, <2>6 DEF Goal, HistoryTypes, CallersKept
  <1>5. ASSUME phase = "parsing", NEW macro \in BOOLEAN, HCall(macro) PROVE Goal
    <2> DEFINE n == Len(frames)
    <2>1. /\ saved' \in Seq(Saved) /\ Len(saved') = n + 1 /\ Len(frames') = n + 1
          /\ \A k \in 1..n : saved'[k] = saved[k] /\ frames'[k] = frames[k]
          /\ saved'[n + 1] = [taken |-> taken, closed |-> FALSE]
          /\ frames'[n + 1].level = clev
      BY <1>5, PushSaved
    <2>2. UNCHANGED <<clev, taken, phase>>
      BY <1>5 DEF HCall, CallLine
    <2>3. \A i \in Levels : i <= clev => taken[i] <= 1
      BY DEF HInv, BlocksCounted
    <2>4. n \in Nat
      OBVIOUS
    <2> HIDE DEF n
    <2>5. ASSUME NEW k \in 1..n + 1
          PROVE  /\ \A i \in Levels : i <= frames'[k].level => saved'[k].taken[i] <= 1
                 /\ saved'[k].closed \/ frames'[k].level <= clev
      <3>1. CASE k = n + 1
        BY <2>1, <2>3, <3>1
      <3>2. CASE k # n + 1
        BY <1>5, <1>a, <2>1, <2>4, <3>2 DEF n
      <3> QED BY <3>1, <3>2
    <2>6. ASSUME NEW j \in 1..n + 1, NEW k \in 1..n + 1, j <= k
          PROVE  saved'[j].closed \/ frames'[j].level <= frames'[k].level
      <3>1. CASE k = n + 1
        BY <2>1, <2>5, <3>1
      <3>2. CASE k # n + 1
        <4>1. j \in 1..n /\ k \in 1..n
          BY <2>4, <2>6, <3>2
        <4> QED BY <1>a, <2>1, <2>6, <4>1 DEF n
      <3> QED BY <3>1, <3>2
    <2> QED BY <2>1, <2>2, <2>5, <2>6 DEF Goal, HistoryTypes, CallersKept
  <1>c. ASSUME phase = "parsing", frames # << >>, frames' = Pop(frames), saved' = Pop(saved),
               taken' \in [Levels -> Nat],
               clev' = clev \/ clev' = Top(frames).level
        PROVE  Goal
    <2>1. PICK n \in Nat : n = Len(frames) - 1
      BY <1>c, PopSaved
    <2>2. /\ saved' \in Seq(Saved) /\ Len(saved') = n /\ Len(frames') = n
          /\ \A k \in 1..n : saved'[k] = saved[k] /\ frames'[k] = frames[k]
      BY <1>c, <2>1, PopSaved
    <2>3. /\ n + 1 \in 1..Len(frames) /\ Top(frames) = frames[n + 1]
          /\ \A k \in 1..n : k \in 1..Len(frames) /\ k <= n + 1
      BY <2>1 DEF Top
    <2>4. ASSUME NEW k \in 1..n PROVE saved[k].closed \/ frames[k].level <= clev'
      <3>1. CASE clev' = clev
        BY <1>a, <1>c, <2>3, <3>1
      <3>2. CASE clev' = Top(frames).level
        BY <1>a, <2>3, <3>2
      <3> QED BY <1>c, <3>1, <3>2
    <2> QED BY <1>a, <1>c, <2>2, <2>3, <2>4 DEF Goal, HistoryTypes, CallersKept
  <1>6. ASSUME phase = "parsing", HMExit PROVE Goal
    <2>1. CASE frames' # frames
      <3>1. /\ frames # << >> /\ frames' = Pop(frames) /\ clev' = Top(frames).level
            /\ saved' = Pop(saved) /\ taken' = Top(saved).taken
        BY <1>6, <2>1 DEF HMExit, MExitLine
      <3>2. Len(frames) \in 1..Len(frames)
        BY <3>1, PopFrames
      <3>3. saved[Len(frames)] \in Saved
        BY <3>2
      <3>4. taken' \in [Levels -> Nat]
        BY <3>1, <3>3 DEF Top, Saved
      <3> QED BY <1>6, <1>c, <3>1, <3>4
    <2>2. CASE frames' = frames
      <3>1. frames # << >> => Pop(frames) # frames
        BY PopFrames
      <3>2. UNCHANGED <<clev, frames, taken, saved>>
        BY <2>2, <1>6, <3>1 DEF HMExit, MExitLine
      <3> QED BY <1>6, <1>b, <3>2
    <2> QED BY <2>1, <2>2
  <1>7. ASSUME phase = "parsing", HEndOfText PROVE Goal
    BY <1>7, <1>c DEF HEndOfText, EndOfText
  <1>8. ASSUME phase = "parsing", cond_check, UNCHANGED <<taken, saved>> PROVE Goal
    <2>1. UNCHANGED <<clev, frames, taken, saved>>
      BY <1>8 DEF cond_check
    <2>2. clev' \in Nat /\ clev' >= clev /\ taken' \in [Levels -> Nat]
      BY <2>1
    <2> QED BY <1>8, <1>b, <2>1, <2>2
  <1>9. CASE UNCHANGED hvars
    BY <1>9, <1>a DEF Goal, hvars, HistoryTypes, CallersKept
  <1> QED BY <1>1, <1>2, <1>4, <1>5, <1>6, <1>7, <1>8, <1>9 DEF Goal, HNext, HElse, HElif

\* Every line keeps HInv.
LEMMA HInvNext == HInv /\ ~MExitClosed /\ [HNext]_hvars => HInv'
  <1> SUFFICES ASSUME HInv, ~MExitClosed, [HNext]_hvars PROVE HInv'
    OBVIOUS
  <1>1. TInv'
    BY HistoryStep, TInvNext DEF HInv
  <1> QED BY <1>1, BlocksCountedNext, CallersKeptNext DEF HInv

\* In every syntax module, with else-if and with macros that switch, close and
\* reopen the blocks of their caller, at most one branch of a block is
\* assembled, counted over its whole life, unless a macro that closed a block
\* of its caller uses MEXIT (cond_else, cond_skipelse, cond_elseif, end_source).
THEOREM OneBranchOnly ==
    ASSUME ~MExitClosed PROVE HSpec => []OneBranch
  <1>1. HInv => OneBranch
    BY DEF HInv, BlocksCounted, OneBranch
  <1>2. HInv /\ [HNext]_hvars => HInv'
    BY HInvNext
  <1> QED BY <1>1, <1>2, HInvInit, PTL DEF HSpec
-----------------------------------------------------------------------------
(***************************************************************************)
(* The refinement of CondStack: every line's effect on the counters and the*)
(* array is the effect of that line on the stack of blocks they stand for. *)
(***************************************************************************)
LEMMA TypeFacts ==
    ASSUME SInv
    PROVE  /\ MAXCONDLEV \in Nat \ {0}
           /\ clev \in 0..MAXCONDLEV /\ clev \in Nat
           /\ cond \in [0..MAXCONDLEV -> {-1, 0, 1}]
           /\ cond[0] = 1
           /\ ifnesting \in Nat
           /\ frames \in Seq(Frame)
           /\ Len(frames) \in Nat
           /\ \A i \in 0..MAXCONDLEV : i < clev => cond[i] = 1
  <1>1. TypeOK /\ OuterBlocksOn /\ cond[0] = 1
    BY DEF SInv, TInv
  <1>2. /\ clev \in 0..MAXCONDLEV /\ cond \in [0..MAXCONDLEV -> {-1, 0, 1}]
        /\ ifnesting \in Nat /\ frames \in Seq(Frame) /\ MAXCONDLEV \in Nat \ {0}
    BY <1>1, CondAssumption DEF TypeOK
  <1> QED BY <1>1, <1>2, LenProperties DEF OuterBlocksOn

\* The depth of the abstract stack while lines are read.
LEMMA ParsingDepth ==
    ASSUME SInv, phase = "parsing"
    PROVE  /\ AbsDepth = clev + ifnesting
           /\ clev < MAXCONDLEV
           /\ cond_state => ifnesting = 0
  <1>1. /\ "nesting depth exceeded" \notin diag
        /\ LevelsInRange
        /\ NestedBlocksDead
    BY DEF SInv, TInv
  <1>2. cond_state => ~(ifnesting > 0)
    BY <1>1 DEF NestedBlocksDead
  <1>3. AbsDepth = clev + ifnesting
    BY <1>1 DEF AbsDepth
  <1>4. clev < MAXCONDLEV
    BY <1>1 DEF LevelsInRange
  <1>5. cond_state => ifnesting = 0
    BY <1>2, TypeFacts
  <1> QED BY <1>3, <1>4, <1>5

\* A line is assembled exactly when all the blocks around it are "on".
LEMMA LiveIsCondState ==
    ASSUME SInv, phase = "parsing"
    PROVE  Stack!Live <=> cond_state
  <1> USE TypeFacts, ParsingDepth
  <1>1. ASSUME cond_state PROVE Stack!Live
    <2>1. cond[clev] = 1
      BY <1>1 DEF cond_state
    <2>2. ASSUME NEW i \in 1..AbsDepth PROVE AbsBlk[i] = "on"
      <3>1. i \in 0..MAXCONDLEV /\ ~(i > clev) /\ cond[i] = 1
        BY <1>1, <2>1
      <3> QED BY <3>1 DEF AbsBlk, LevelStatus
    <2> QED BY <2>2 DEF Stack!Live
  <1>2. ASSUME ~cond_state PROVE ~Stack!Live
    <2>1. clev \in 1..AbsDepth /\ cond[clev] \in {-1, 0}
      BY <1>2 DEF cond_state
    <2>2. AbsBlk[clev] # "on"
      BY <2>1 DEF AbsBlk, LevelStatus
    <2> QED BY <2>1, <2>2 DEF Stack!Live
  <1> QED BY <1>1, <1>2

\* While neither of two states is stopped by the fatal error, the blocks they
\* stand for are determined by the counters and the array.
LEMMA BlocksNow ==
    ASSUME SInv, phase = "parsing"
    PROVE  AbsBlk = [i \in 1..clev + ifnesting |->
                       IF i > clev THEN "dead" ELSE LevelStatus(cond[i])]
  BY ParsingDepth DEF AbsBlk

\* The abstract stack after a step, from the depth and the level:
LEMMA BlocksOf ==
    ASSUME NEW d, AbsDepth' = d, NEW c \in Nat, clev' = c
    PROVE  AbsBlk' = [i \in 1..d |-> IF i > c THEN "dead" ELSE LevelStatus(cond'[i])]
  BY DEF AbsBlk

\* without the nesting error,
LEMMA BlocksNext ==
    ASSUME "nesting depth exceeded" \notin diag',
           NEW c \in Nat, NEW n \in Nat, clev' = c, ifnesting' = n
    PROVE  /\ AbsDepth' = c + n
           /\ AbsBlk' = [i \in 1..c + n |->
                           IF i > c THEN "dead" ELSE LevelStatus(cond'[i])]
  <1>1. AbsDepth' = c + n
    BY DEF AbsDepth
  <1> QED BY <1>1, BlocksOf

\* and with it.
LEMMA BlocksFatal ==
    ASSUME "nesting depth exceeded" \in diag', NEW c \in Nat, clev' = c
    PROVE  /\ AbsDepth' = c - 1
           /\ AbsBlk' = [i \in 1..c - 1 |->
                           IF i > c THEN "dead" ELSE LevelStatus(cond'[i])]
  <1>1. AbsDepth' = c - 1
    BY DEF AbsDepth
  <1> QED BY <1>1, BlocksOf

\* Steps that leave the three variables of cond.c alone leave the blocks alone.
LEMMA SameBlocks ==
    ASSUME SInv, phase = "parsing", UNCHANGED <<clev, cond, ifnesting>>,
           "nesting depth exceeded" \notin diag'
    PROVE  AbsDepth' = AbsDepth /\ AbsBlk' = AbsBlk
  <1>1. /\ AbsDepth' = clev + ifnesting
        /\ AbsBlk' = [i \in 1..clev + ifnesting |->
                        IF i > clev THEN "dead" ELSE LevelStatus(cond'[i])]
    BY BlocksNext, TypeFacts
  <1> QED BY <1>1, BlocksNow, ParsingDepth

\* An IF opens one abstract block,
LEMMA IfRefines ==
    ASSUME SInv, phase = "parsing", NEW flag \in BOOLEAN, IfLine(flag)
    PROVE  Stack!If(flag)
  <1> USE TypeFacts, ParsingDepth
  <1>0. "nesting depth exceeded" \notin diag
    BY DEF SInv
  <1>1. CASE ~cond_state
    <2>1. /\ ifnesting' = ifnesting + 1
          /\ UNCHANGED <<clev, cond, frames, diag, phase>>
      BY <1>1 DEF IfLine, cond_skipif
    <2>a. /\ AbsDepth' = clev + (ifnesting + 1)
          /\ AbsBlk' = [i \in 1..clev + (ifnesting + 1) |->
                          IF i > clev THEN "dead" ELSE LevelStatus(cond'[i])]
      <3>1. ifnesting + 1 \in Nat
        OBVIOUS
      <3>2. "nesting depth exceeded" \notin diag'
        BY <1>0, <2>1
      <3> QED BY <2>1, <3>1, <3>2, BlocksNext
    <2>2. AbsDepth' = AbsDepth + 1
      BY <2>a
    <2>3. AbsBlk' = [i \in 1..AbsDepth + 1 |-> IF i <= AbsDepth THEN AbsBlk[i] ELSE "dead"]
      BY <2>1, <2>a, BlocksNow
    <2>4. AbsBase' = AbsBase
      BY <2>1 DEF AbsBase
    <2>5. ~Stack!Live
      BY <1>1, LiveIsCondState
    <2> QED BY <2>1, <2>2, <2>3, <2>4, <2>5 DEF Stack!If, Stack!Open
  <1>2. CASE cond_state /\ clev + 1 >= MAXCONDLEV
    <2>1. /\ clev' = clev + 1
          /\ diag' = diag \cup {"nesting depth exceeded"}
          /\ phase' = "stopped"
          /\ UNCHANGED <<cond, ifnesting, frames>>
      BY <1>2 DEF IfLine, cond_if
    <2>a. /\ AbsDepth' = (clev + 1) - 1
          /\ AbsBlk' = [i \in 1..(clev + 1) - 1 |->
                          IF i > clev + 1 THEN "dead" ELSE LevelStatus(cond'[i])]
      <3>1. clev + 1 \in Nat
        OBVIOUS
      <3>2. "nesting depth exceeded" \in diag'
        BY <2>1
      <3> QED BY <2>1, <3>1, <3>2, BlocksFatal
    <2>2. AbsDepth' = clev
      BY <2>a
    <2>3. AbsBlk' = AbsBlk
      <3>0. (clev + 1) - 1 = clev /\ \A i \in 1..clev : ~(i > clev + 1)
        OBVIOUS
      <3>1. AbsBlk' = [i \in 1..clev |-> LevelStatus(cond[i])]
        BY <2>1, <2>a, <3>0
      <3>2. AbsBlk = [i \in 1..clev |-> LevelStatus(cond[i])]
        BY <1>2, BlocksNow
      <3> QED BY <3>1, <3>2
    <2>4. AbsBase' = AbsBase
      BY <2>1 DEF AbsBase
    <2>5. Stack!Live
      BY <1>2, LiveIsCondState
    <2>6. AbsDepth' = AbsDepth /\ ~(AbsDepth + 1 < MAXCONDLEV)
      BY <1>2, <2>2
    <2> QED BY <2>1, <2>3, <2>4, <2>5, <2>6 DEF Stack!If
  <1>3. CASE cond_state /\ ~(clev + 1 >= MAXCONDLEV)
    <2>1. /\ clev' = clev + 1
          /\ cond' = [cond EXCEPT ![clev + 1] = Bit(flag)]
          /\ UNCHANGED <<diag, phase, ifnesting, frames>>
      BY <1>3 DEF IfLine, cond_if
    <2>2. AbsDepth = clev /\ ifnesting = 0
      BY <1>3
    <2>a. /\ AbsDepth' = (clev + 1) + 0
          /\ AbsBlk' = [i \in 1..(clev + 1) + 0 |->
                          IF i > clev + 1 THEN "dead" ELSE LevelStatus(cond'[i])]
      <3>1. clev + 1 \in Nat /\ 0 \in Nat
        OBVIOUS
      <3>2. "nesting depth exceeded" \notin diag'
        BY <1>0, <2>1
      <3> QED BY <2>1, <2>2, <3>1, <3>2, BlocksNext
    <2>3. AbsDepth' = AbsDepth + 1
      BY <2>2, <2>a
    <2>4. cond'[clev + 1] = Bit(flag) /\ \A i \in 1..clev : cond'[i] = cond[i]
      BY <1>3, <2>1
    <2> DEFINE st == IF flag THEN "on" ELSE "pending"
    <2>5. LevelStatus(Bit(flag)) = st
      BY DEF LevelStatus, Bit
    <2>6. AbsBlk' = [i \in 1..clev + 1 |-> LevelStatus(cond'[i])]
      BY <2>a
    <2>7. AbsBlk = [i \in 1..clev |-> LevelStatus(cond[i])]
      BY <2>2, BlocksNow
    <2> HIDE DEF st
    <2>8. AbsBlk' = [i \in 1..AbsDepth + 1 |-> IF i <= AbsDepth THEN AbsBlk[i] ELSE st]
      <3>1. ASSUME NEW i \in 1..clev + 1
            PROVE  LevelStatus(cond'[i]) = IF i <= clev THEN AbsBlk[i] ELSE st
        <4>1. CASE i <= clev
          BY <2>4, <2>7, <4>1
        <4>2. CASE i = clev + 1
          BY <2>4, <2>5, <4>2
        <4> QED BY <4>1, <4>2
      <3> QED BY <2>2, <2>6, <3>1
    <2>9. Stack!Live /\ AbsDepth + 1 < MAXCONDLEV
      BY <1>3, <2>2, LiveIsCondState
    <2>10. AbsBase' = AbsBase
      BY <2>1 DEF AbsBase
    <2> QED BY <2>1, <2>3, <2>8, <2>9, <2>10 DEF Stack!If, Stack!Open, st
  <1> QED BY <1>1, <1>2, <1>3

\* Writing the innermost level writes the innermost block.
LEMMA SwitchBlock ==
    ASSUME SInv, phase = "parsing", clev > 0, ifnesting = 0,
           NEW v \in {-1, 1}, cond' = [cond EXCEPT ![clev] = v],
           UNCHANGED <<clev, ifnesting, diag>>
    PROVE  /\ AbsDepth = clev
           /\ AbsDepth' = AbsDepth
           /\ AbsBlk' = [AbsBlk EXCEPT ![AbsDepth] = LevelStatus(v)]
           /\ AbsBlk[AbsDepth] = LevelStatus(cond[clev])
  <1> USE TypeFacts, ParsingDepth
  <1>1. "nesting depth exceeded" \notin diag'
    BY DEF SInv
  <1>2. /\ AbsDepth' = clev + 0
        /\ AbsBlk' = [i \in 1..clev + 0 |->
                        IF i > clev THEN "dead" ELSE LevelStatus(cond'[i])]
    <2>1. ifnesting' = 0 /\ clev' = clev
      OBVIOUS
    <2> QED BY <1>1, <2>1, BlocksNext
  <1>3. AbsDepth = clev /\ AbsDepth' = clev
    BY <1>2
  <1>4. AbsBlk' = [i \in 1..clev |-> LevelStatus(cond'[i])]
    BY <1>2
  <1>5. AbsBlk = [i \in 1..clev |-> LevelStatus(cond[i])]
    BY BlocksNow
  <1>6. ASSUME NEW i \in 1..clev
        PROVE  LevelStatus(cond'[i]) = IF i = clev THEN LevelStatus(v) ELSE AbsBlk[i]
    <2>1. i \in 0..MAXCONDLEV
      OBVIOUS
    <2>2. cond'[i] = IF i = clev THEN v ELSE cond[i]
      BY <2>1
    <2> QED BY <1>5, <2>2
  <1>7. clev \in 1..clev
    OBVIOUS
  <1>8. AbsBlk' = [AbsBlk EXCEPT ![clev] = LevelStatus(v)]
    BY <1>4, <1>5, <1>6, <1>7
  <1> QED BY <1>3, <1>5, <1>7, <1>8

\* an ELSE switches the innermost one,
LEMMA ElseRefines ==
    ASSUME SInv, phase = "parsing", ElseLine
    PROVE  Stack!Branch(TRUE) \/ UNCHANGED Stack!absvars
  <1> USE TypeFacts, ParsingDepth
  <1>0. UNCHANGED <<frames, phase, clev, ifnesting>> /\ AbsBase' = AbsBase
    BY DEF ElseLine, cond_else, cond_skipelse, AbsBase
  <1>1. CASE cond_state /\ clev > 0
    <2>1. cond' = [cond EXCEPT ![clev] = -1] /\ diag' = diag
      BY <1>1 DEF ElseLine, cond_skipelse
    <2>2. /\ AbsDepth = clev /\ AbsDepth' = AbsDepth
          /\ AbsBlk' = [AbsBlk EXCEPT ![AbsDepth] = LevelStatus(-1)]
          /\ AbsBlk[AbsDepth] = LevelStatus(cond[clev])
      <3>1. ifnesting = 0 /\ -1 \in {-1, 1}
        BY <1>1
      <3> QED BY <1>0, <1>1, <2>1, <3>1, SwitchBlock
    <2>3. LevelStatus(-1) = "done" /\ LevelStatus(cond[clev]) = "on"
      BY <1>1 DEF LevelStatus, cond_state
    <2>4. AbsDepth # 0
      BY <1>1, <2>2
    <2> QED BY <1>0, <2>1, <2>2, <2>3, <2>4 DEF Stack!Branch
  <1>2. CASE cond_state /\ ~(clev > 0)
    <2>1. /\ diag' = diag \cup {"else without if"}
          /\ cond' = cond
      BY <1>2 DEF ElseLine, cond_skipelse
    <2>2. "nesting depth exceeded" \notin diag'
      BY <2>1 DEF SInv
    <2>3. AbsDepth' = AbsDepth /\ AbsBlk' = AbsBlk
      BY <1>0, <2>1, <2>2, SameBlocks
    <2>4. AbsDepth = 0
      BY <1>2
    <2> QED BY <1>0, <2>1, <2>3, <2>4 DEF Stack!Branch
  <1>3. CASE ~cond_state /\ ifnesting = 0
    <2>1. /\ cond' = [cond EXCEPT ![clev] = IF cond[clev] # 0 THEN -1 ELSE 1]
          /\ diag' = diag
      BY <1>3 DEF ElseLine, cond_else
    <2>2. clev > 0 /\ cond[clev] \in {-1, 0}
      BY <1>3 DEF cond_state
    <2> DEFINE v == IF cond[clev] # 0 THEN -1 ELSE 1
    <2>3. v \in {-1, 1}
      OBVIOUS
    <2>4. /\ LevelStatus(v) = IF cond[clev] = 0 THEN "on" ELSE "done"
          /\ LevelStatus(cond[clev]) = IF cond[clev] = 0 THEN "pending" ELSE "done"
      BY <2>2 DEF LevelStatus
    <2>5. cond' = [cond EXCEPT ![clev] = v]
      BY <2>1
    <2> HIDE DEF v
    <2>6. /\ AbsDepth = clev /\ AbsDepth' = AbsDepth
          /\ AbsBlk' = [AbsBlk EXCEPT ![AbsDepth] = LevelStatus(v)]
          /\ AbsBlk[AbsDepth] = LevelStatus(cond[clev])
      BY <1>0, <1>3, <2>1, <2>2, <2>3, <2>5, SwitchBlock
    <2>7. AbsDepth # 0
      BY <2>2, <2>6
    <2> QED BY <1>0, <2>1, <2>4, <2>6, <2>7 DEF Stack!Branch
  <1>4. CASE ~cond_state /\ ifnesting # 0
    <2>1. cond' = cond /\ diag' = diag
      BY <1>4 DEF ElseLine, cond_else
    <2>2. "nesting depth exceeded" \notin diag'
      BY <2>1 DEF SInv
    <2>3. AbsDepth' = AbsDepth /\ AbsBlk' = AbsBlk
      BY <1>0, <2>1, <2>2, SameBlocks
    <2> QED BY <1>0, <2>1, <2>3 DEF Stack!absvars
  <1> QED BY <1>1, <1>2, <1>3, <1>4

\* an ENDIF closes it, a level or a dead block.
LEMMA EndifRefines ==
    ASSUME SInv, phase = "parsing", EndifLine
    PROVE  Stack!EndIf
  <1> USE TypeFacts, ParsingDepth
  <1>0. UNCHANGED <<cond, frames, phase>> /\ AbsBase' = AbsBase
    BY DEF EndifLine, cond_endif, AbsBase
  <1>a. "nesting depth exceeded" \notin diag
    BY DEF SInv
  <1>1. CASE ifnesting = 0 /\ clev > 0
    <2>1. clev' = clev - 1 /\ ifnesting' = 0 /\ diag' = diag
      BY <1>1 DEF EndifLine, cond_endif
    <2>2. PICK n \in Nat : n = clev - 1
      BY <1>1
    <2>3. /\ AbsDepth' = n + 0
          /\ AbsBlk' = [i \in 1..n + 0 |->
                          IF i > n THEN "dead" ELSE LevelStatus(cond'[i])]
      <3>1. clev' = n /\ 0 \in Nat
        BY <2>1, <2>2
      <3> QED BY <1>a, <2>1, <2>2, <3>1, BlocksNext
    <2>4. AbsDepth = clev /\ AbsDepth # 0 /\ AbsDepth' = AbsDepth - 1
      BY <1>1, <2>2, <2>3
    <2>5. AbsBlk' = [i \in 1..n |-> LevelStatus(cond[i])]
      BY <1>0, <2>3
    <2>6. AbsBlk = [i \in 1..clev |-> LevelStatus(cond[i])]
      BY <1>1, BlocksNow
    <2>7. AbsBlk' = [i \in 1..n |-> AbsBlk[i]]
      BY <2>2, <2>5, <2>6
    <2>8. AbsBlk' = Stack!Outer(AbsDepth - 1)
      BY <2>2, <2>4, <2>7 DEF Stack!Outer
    <2> QED BY <1>0, <2>1, <2>4, <2>8 DEF Stack!EndIf
  <1>2. CASE ifnesting = 0 /\ ~(clev > 0)
    <2>1. /\ diag' = diag \cup {"unexpected endif without if"}
          /\ UNCHANGED <<clev, ifnesting>>
      BY <1>2 DEF EndifLine, cond_endif
    <2>2. "nesting depth exceeded" \notin diag'
      BY <1>a, <2>1
    <2>3. AbsDepth' = AbsDepth /\ AbsBlk' = AbsBlk
      BY <1>0, <2>1, <2>2, SameBlocks
    <2>4. AbsDepth = 0
      BY <1>2
    <2> QED BY <1>0, <2>1, <2>3, <2>4 DEF Stack!EndIf
  <1>3. CASE ifnesting # 0
    <2>1. ifnesting' = ifnesting - 1 /\ clev' = clev /\ diag' = diag
      BY <1>3 DEF EndifLine, cond_endif
    <2>2. PICK n \in Nat : n = ifnesting - 1
      BY <1>3
    <2>3. /\ AbsDepth' = clev + n
          /\ AbsBlk' = [i \in 1..clev + n |->
                          IF i > clev THEN "dead" ELSE LevelStatus(cond'[i])]
      <3>1. ifnesting' = n
        BY <2>1, <2>2
      <3> QED BY <1>a, <2>1, <3>1, BlocksNext
    <2>4. AbsDepth # 0 /\ AbsDepth' = AbsDepth - 1 /\ AbsDepth - 1 = clev + n
      BY <1>3, <2>2, <2>3
    <2>5. AbsBlk = [i \in 1..clev + ifnesting |->
                      IF i > clev THEN "dead" ELSE LevelStatus(cond[i])]
      BY BlocksNow
    <2>6. \A i \in 1..clev + n : i \in 1..clev + ifnesting
      BY <2>2
    <2>7. AbsBlk' = [i \in 1..clev + n |-> AbsBlk[i]]
      BY <1>0, <2>3, <2>5, <2>6
    <2>8. AbsBlk' = Stack!Outer(AbsDepth - 1)
      BY <2>4, <2>7 DEF Stack!Outer
    <2> QED BY <1>0, <2>1, <2>4, <2>8 DEF Stack!EndIf
  <1> QED BY <1>1, <1>2, <1>3

\* What Append does to the remembered depths.
LEMMA AppendToNats ==
    ASSUME NEW s \in Seq(Nat), NEW n \in Nat
    PROVE  /\ Append(s, n) \in Seq(Nat)
           /\ Len(Append(s, n)) = Len(s) + 1
           /\ \A i \in 1..Len(s) : Append(s, n)[i] = s[i]
           /\ Append(s, n)[Len(s) + 1] = n
  BY AppendProperties

\* A call remembers the depth,
LEMMA CallRefines ==
    ASSUME SInv, phase = "parsing", NEW macro \in BOOLEAN, CallLine(macro)
    PROVE  Stack!Call
  <1> USE TypeFacts, ParsingDepth
  <1> DEFINE e == [level |-> clev, macro |-> macro]
  <1>1. /\ cond_state
        /\ frames' = Append(frames, e)
        /\ UNCHANGED <<clev, cond, ifnesting, diag, phase>>
    BY DEF CallLine
  <1>2. "nesting depth exceeded" \notin diag'
    BY <1>1 DEF SInv
  <1>3. AbsDepth' = AbsDepth /\ AbsBlk' = AbsBlk
    BY <1>1, <1>2, SameBlocks
  <1>4. e \in Frame /\ e.level = AbsDepth
    BY <1>1 DEF Frame
  <1> HIDE DEF e
  <1>5. /\ Len(frames') = Len(frames) + 1
        /\ \A i \in 1..Len(frames) : frames'[i] = frames[i]
        /\ frames'[Len(frames) + 1] = e
    BY <1>1, <1>4, PushFrame
  <1>6. AbsBase' = [i \in 1..Len(frames') |-> frames'[i].level]
    BY DEF AbsBase
  <1>7. AbsBase \in Seq(Nat) /\ Len(AbsBase) = Len(frames)
    <2>1. \A i \in 1..Len(frames) : frames[i].level \in Nat
      <3>1. \A i \in 1..Len(frames) : frames[i] \in Frame
        BY ElementOfSeq
      <3> QED BY <3>1 DEF Frame
    <2> QED BY <2>1, IsASeq DEF AbsBase
  <1>8. AbsDepth \in Nat
    OBVIOUS
  <1>9. /\ Append(AbsBase, AbsDepth) \in Seq(Nat)
        /\ Len(Append(AbsBase, AbsDepth)) = Len(frames) + 1
        /\ \A i \in 1..Len(frames) : Append(AbsBase, AbsDepth)[i] = AbsBase[i]
        /\ Append(AbsBase, AbsDepth)[Len(frames) + 1] = AbsDepth
    <2>1. /\ Append(AbsBase, AbsDepth) \in Seq(Nat)
          /\ Len(Append(AbsBase, AbsDepth)) = Len(AbsBase) + 1
          /\ \A i \in 1..Len(AbsBase) : Append(AbsBase, AbsDepth)[i] = AbsBase[i]
          /\ Append(AbsBase, AbsDepth)[Len(AbsBase) + 1] = AbsDepth
      BY <1>7, <1>8, AppendToNats
    <2> QED BY <1>7, <2>1
  <1>10. AbsBase' \in Seq(Nat) /\ Len(AbsBase') = Len(frames) + 1
    <2>1. \A i \in 1..Len(frames) + 1 : frames'[i].level \in Nat
      <3>1. \A i \in 1..Len(frames) : frames[i] \in Frame
        BY ElementOfSeq
      <3>2. \A i \in 1..Len(frames) : frames[i].level \in Nat
        BY <3>1 DEF Frame
      <3>3. frames'[Len(frames) + 1].level \in Nat
        BY <1>4, <1>5, <1>8
      <3>4. Len(frames) \in Nat
        BY LenProperties
      <3>5. \A i \in 1..Len(frames) + 1 : i \in 1..Len(frames) \/ i = Len(frames) + 1
        BY <3>4
      <3> QED BY <1>5, <3>2, <3>3, <3>5
    <2> QED BY <1>5, <1>6, <2>1, IsASeq
  <1>11. \A i \in 1..Len(frames) + 1 : AbsBase'[i] = Append(AbsBase, AbsDepth)[i]
    BY <1>4, <1>5, <1>6, <1>9 DEF AbsBase
  <1>12. AbsBase' = Append(AbsBase, AbsDepth)
    <2> SUFFICES ASSUME NEW s, s = AbsBase', NEW t, t = Append(AbsBase, AbsDepth)
                 PROVE  s = t
      OBVIOUS
    <2>1. s \in Seq(Nat) /\ t \in Seq(Nat) /\ Len(s) = Len(frames) + 1 /\ Len(t) = Len(s)
      BY <1>9, <1>10
    <2>2. \A i \in 1..Len(s) : s[i] = t[i]
      BY <1>11, <2>1
    <2> QED BY <2>1, <2>2, SeqEqual
  <1> QED BY <1>1, <1>3, <1>12, LiveIsCondState DEF Stack!Call

\* Dropping a frame drops its level from the abstract base.
LEMMA PopBase ==
    ASSUME SInv, frames # << >>, frames' = Pop(frames)
    PROVE  /\ AbsBase # << >>
           /\ Len(AbsBase) = Len(frames)
           /\ AbsBase[Len(AbsBase)] = Top(frames).level
           /\ AbsBase' = SubSeq(AbsBase, 1, Len(AbsBase) - 1)
  <1> USE TypeFacts
  <1>1. /\ Len(frames) \in Nat \ {0}
        /\ Len(frames') = Len(frames) - 1
        /\ \A i \in 1..Len(frames) - 1 : frames'[i] = frames[i]
    BY PopFrames
  <1>2. \A i \in 1..Len(frames) : frames[i].level \in Nat
    <2>1. \A i \in 1..Len(frames) : frames[i] \in Frame
      BY ElementOfSeq
    <2> QED BY <2>1 DEF Frame
  <1>3. AbsBase \in Seq(Nat) /\ Len(AbsBase) = Len(frames)
    BY <1>2, IsASeq DEF AbsBase
  <1>4. PICK n \in Nat : n = Len(frames) - 1
    BY <1>1
  <1>5. AbsBase' = [i \in 1..n |-> frames[i].level]
    <2>1. AbsBase' = [i \in 1..Len(frames') |-> frames'[i].level]
      BY DEF AbsBase
    <2>2. Len(frames') = n
      BY <1>1, <1>4
    <2> QED BY <1>1, <1>4, <2>1, <2>2
  <1>6. AbsBase = [i \in 1..Len(frames) |-> frames[i].level]
    BY DEF AbsBase
  <1>7. AbsBase' = [i \in 1..n |-> AbsBase[i]]
    BY <1>1, <1>4, <1>5, <1>6
  <1>8. SubSeq(AbsBase, 1, n) = [i \in 1..n |-> AbsBase[i]]
    <2>1. \A i \in 1..n : AbsBase[i] \in Nat
      BY <1>2, <1>4, <1>6
    <2>2. /\ SubSeq(AbsBase, 1, n) \in Seq(Nat)
          /\ Len(SubSeq(AbsBase, 1, n)) = IF 1 <= n THEN n - 1 + 1 ELSE 0
          /\ \A i \in 1..n - 1 + 1 : SubSeq(AbsBase, 1, n)[i] = AbsBase[1 + i - 1]
      BY <2>1, SubSeqProperties
    <2>3. Len(SubSeq(AbsBase, 1, n)) = n /\ n - 1 + 1 = n
      BY <2>2
    <2>4. ASSUME NEW i \in 1..n PROVE SubSeq(AbsBase, 1, n)[i] = AbsBase[i]
      <3>1. SubSeq(AbsBase, 1, n)[i] = AbsBase[1 + i - 1]
        BY <2>2, <2>3
      <3>2. 1 + i - 1 = i
        OBVIOUS
      <3> QED BY <3>1, <3>2
    <2>5. SubSeq(AbsBase, 1, n) \in [1..n -> Nat]
      BY <2>2, <2>3, LenProperties
    <2> QED BY <2>4, <2>5
  <1>9. AbsBase[Len(frames)] = Top(frames).level
    BY <1>1, <1>6 DEF Top
  <1>10. AbsBase # << >>
    BY <1>1, <1>3, EmptySeq
  <1> QED BY <1>3, <1>4, <1>7, <1>8, <1>9, <1>10

\* and MEXIT goes back to it.
LEMMA MExitRefines ==
    ASSUME SInv, phase = "parsing", MExitLine
    PROVE  Stack!MExit \/ Stack!MExitError
  <1> USE TypeFacts, ParsingDepth
  <1>0. cond_state /\ UNCHANGED <<cond, ifnesting, phase>>
    BY DEF MExitLine
  <1>a. Stack!Live /\ ifnesting = 0 /\ AbsDepth = clev
    BY <1>0, LiveIsCondState
  <1>b. "nesting depth exceeded" \notin diag
    BY DEF SInv
  <1>1. CASE frames # << >> /\ Top(frames).macro
    <2>1. clev' = Top(frames).level /\ frames' = Pop(frames) /\ diag' = diag
      BY <1>1 DEF MExitLine
    <2>2. PICK n \in Nat : n = Top(frames).level
      <3>1. Top(frames) \in Frame
        BY <1>1, PopFrames
      <3> QED BY <3>1 DEF Frame
    <2>3. n <= clev
      <3>1. Len(frames) \in 1..Len(frames)
        BY <1>1, PopFrames
      <3>2. \A i \in 1..Len(frames) : frames[i].level <= clev
        BY DEF SInv, FramesOrdered
      <3> QED BY <2>2, <3>1, <3>2 DEF Top
    <2>4. /\ AbsDepth' = n + 0
          /\ AbsBlk' = [i \in 1..n + 0 |->
                          IF i > n THEN "dead" ELSE LevelStatus(cond'[i])]
      <3>1. clev' = n /\ ifnesting' = 0 /\ 0 \in Nat
        BY <1>0, <1>a, <2>1, <2>2
      <3> QED BY <1>b, <2>1, <3>1, BlocksNext
    <2>5. AbsDepth' = n /\ AbsBlk' = [i \in 1..n |-> LevelStatus(cond[i])]
      BY <1>0, <2>4
    <2>6. AbsBlk = [i \in 1..clev |-> LevelStatus(cond[i])]
      BY <1>a, BlocksNow
    <2>7. AbsBlk' = Stack!Outer(n)
      BY <2>3, <2>5, <2>6 DEF Stack!Outer
    <2>8. /\ AbsBase # << >>
          /\ AbsBase[Len(AbsBase)] = n
          /\ AbsBase' = SubSeq(AbsBase, 1, Len(AbsBase) - 1)
      BY <1>1, <2>1, <2>2, PopBase
    <2> QED BY <1>0, <1>a, <2>1, <2>3, <2>5, <2>7, <2>8 DEF Stack!MExit
  <1>2. CASE ~(frames # << >> /\ Top(frames).macro)
    <2>1. /\ diag' = diag \cup {"no current macro to exit"}
          /\ UNCHANGED <<clev, frames>>
      BY <1>2 DEF MExitLine
    <2>2. "nesting depth exceeded" \notin diag'
      BY <1>b, <2>1
    <2>3. AbsDepth' = AbsDepth /\ AbsBlk' = AbsBlk
      BY <1>0, <2>1, <2>2, SameBlocks
    <2>4. AbsBase' = AbsBase
      BY <2>1 DEF AbsBase
    <2> QED BY <1>0, <1>a, <2>1, <2>3, <2>4 DEF Stack!MExitError
  <1> QED BY <1>1, <1>2

\* Every line is a step of the abstract stack.
LEMMA StepRefines ==
    ASSUME Plain, SInv, [Next]_vars
    PROVE  [Stack!Next]_(Stack!absvars)
  <1>1. ASSUME phase = "parsing", NEW flag \in BOOLEAN, IfLine(flag) PROVE Stack!Next
    BY <1>1, IfRefines DEF Stack!Next
  <1>2. ASSUME phase = "parsing", ElseLine PROVE Stack!Next \/ UNCHANGED Stack!absvars
    BY <1>2, ElseRefines DEF Stack!Next
  <1>3. ASSUME NEW flag \in BOOLEAN, ElifLine(flag) PROVE FALSE
    BY <1>3 DEF ElifLine, Plain
  <1>4. ASSUME phase = "parsing", EndifLine PROVE Stack!Next
    BY <1>4, EndifRefines DEF Stack!Next
  <1>5. ASSUME phase = "parsing", NEW macro \in BOOLEAN, CallLine(macro) PROVE Stack!Next
    BY <1>5, CallRefines DEF Stack!Next
  <1>6. ASSUME phase = "parsing", MExitLine PROVE Stack!Next
    BY <1>6, MExitRefines DEF Stack!Next
  <1>7. ASSUME phase = "parsing", EndOfText PROVE Stack!Next
    <2>1. /\ frames # << >> /\ frames' = Pop(frames)
          /\ UNCHANGED <<clev, cond, ifnesting, diag, phase>>
      BY <1>7 DEF EndOfText
    <2>2. "nesting depth exceeded" \notin diag'
      BY <1>7, <2>1 DEF SInv
    <2>3. AbsDepth' = AbsDepth /\ AbsBlk' = AbsBlk
      BY <1>7, <2>1, <2>2, SameBlocks
    <2>4. Stack!Return
      BY <2>1, <2>3, PopBase DEF Stack!Return
    <2> QED BY <1>7, <2>4 DEF Stack!Next
  <1>8. ASSUME phase = "parsing", cond_check PROVE Stack!Next
    <2>1. /\ frames = << >> /\ phase' = "stopped"
          /\ diag' = IF clev > 0 THEN diag \cup {"endc/endif missing"} ELSE diag
          /\ UNCHANGED <<clev, cond, ifnesting, frames>>
      BY <1>8 DEF cond_check
    <2>2. "nesting depth exceeded" \notin diag
      BY <1>8 DEF SInv
    <2>3. "nesting depth exceeded" \notin diag'
      BY <2>1, <2>2
    <2>4. AbsDepth' = AbsDepth /\ AbsBlk' = AbsBlk
      BY <1>8, <2>1, <2>3, SameBlocks
    <2>5. AbsBase = << >> /\ AbsBase' = AbsBase
      <3>1. AbsBase' = AbsBase
        BY <2>1 DEF AbsBase
      <3>2. Len(frames) = 0
        BY <2>1, EmptySeq
      <3>3. AbsBase = << >>
        BY <3>2 DEF AbsBase
      <3> QED BY <3>1, <3>3
    <2>6. clev > 0 <=> AbsDepth > 0
      <3>1. clev = 0 => cond_state
        BY <1>8, TypeFacts DEF cond_state
      <3> QED BY <1>8, <3>1, TypeFacts, ParsingDepth
    <2>7. Stack!Finish
      BY <2>1, <2>4, <2>5, <2>6 DEF Stack!Finish
    <2> QED BY <1>8, <2>7 DEF Stack!Next
  <1>9. ASSUME UNCHANGED vars PROVE UNCHANGED Stack!absvars
    BY <1>9 DEF vars, Stack!absvars, AbsDepth, AbsBlk, AbsBase, LevelStatus
  <1> QED BY <1>1, <1>2, <1>3, <1>4, <1>5, <1>6, <1>7, <1>8, <1>9 DEF Next

\* The initial states agree.
LEMMA InitRefines == Init => Stack!Init
  <1> SUFFICES ASSUME Init PROVE Stack!Init
    OBVIOUS
  <1>1. clev = 0 /\ ifnesting = 0 /\ frames = << >> /\ diag = {} /\ phase = "parsing"
    BY DEF Init, cond_init
  <1>2. AbsDepth = 0
    BY <1>1 DEF AbsDepth
  <1>3. AbsBlk = << >>
    BY <1>2 DEF AbsBlk
  <1>4. AbsBase = << >>
    BY <1>1, EmptySeq DEF AbsBase
  <1> QED BY <1>1, <1>2, <1>3, <1>4 DEF Stack!Init

\* cond.c implements the stack of conditional blocks for every nesting limit,
\* every depth of skipped text and every nesting of source instances, in the
\* syntax modules without an else-if directive.
THEOREM CondImplementsStack ==
    ASSUME Plain PROVE Spec => StackSpec
  <1>1. SInv /\ [Next]_vars => [Stack!Next]_(Stack!absvars)
    BY StepRefines
  <1> QED BY <1>1, InitRefines, SInvInit, SInvNext, PTL DEF Spec, StackSpec, Stack!Spec
=============================================================================
