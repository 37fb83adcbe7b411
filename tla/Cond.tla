-------------------------------- MODULE Cond --------------------------------
(***************************************************************************)
(* Conditional assembly (cond.c) as the parse loops of the syntax modules  *)
(* drive it.  One step is one source line: a directive that opens, switches*)
(* or closes an IF block, a macro call or INCLUDE, a MEXIT, or the end of  *)
(* a source text.  Which cond_* function a directive calls depends on      *)
(* cond_state(): the skip loop of parse() on text that is not assembled,   *)
(* the directive's handler otherwise.  The conditions are free inputs.     *)
(***************************************************************************)
EXTENDS Integers, Sequences

CONSTANTS MAXCONDLEV,   \* cond.h
          HasElif,      \* the syntax module has an else-if directive
          CrossFrame,   \* macros may switch or close blocks of their caller
          MaxSkip,      \* bound: IFs nested in skipped text
          MaxFrames     \* bound: nested source instances

ASSUME CondAssumption == /\ MAXCONDLEV \in Nat \ {0}
                         /\ MaxSkip \in Nat
                         /\ MaxFrames \in Nat
                         /\ HasElif \in BOOLEAN
                         /\ CrossFrame \in BOOLEAN

VARIABLES clev,         \* conditional level
          cond,         \* 1 assembling, 0 no branch taken yet, -1 one was taken
          ifnesting,    \* IFs met in skipped text and not yet closed
          frames,       \* active source instances above the main source
          diag,         \* errors reported
          phase

vars == <<clev, cond, ifnesting, frames, diag, phase>>

\* A source instance keeps clev at its start (source.cond_level) and is a
\* macro (source.macro # NULL) or not (an include file, a REPT block).
Frame == [level : Nat, macro : BOOLEAN]

Top(f) == f[Len(f)]
Pop(f) == SubSeq(f, 1, Len(f) - 1)
Bit(flag) == IF flag THEN 1 ELSE 0

\* Errors 36, 63, 64, 65 (fatal) and 66 of general_errors.h.
Messages == {"no current macro to exit", "else without if",
             "unexpected endif without if", "nesting depth exceeded",
             "endc/endif missing"}

\* The level never leaves the array, not even at the nesting limit (cond_if) or
\* when MEXIT restores it.
TypeOK == /\ clev \in 0..MAXCONDLEV
          /\ cond \in [0..MAXCONDLEV -> {-1, 0, 1}]
          /\ ifnesting \in 0..MaxSkip
          /\ frames \in Seq(Frame)
          /\ diag \in SUBSET Messages
          /\ phase \in {"parsing", "stopped"}

cond_init == /\ clev = 0
             /\ cond = [i \in 0..MAXCONDLEV |-> IF i = 0 THEN 1 ELSE 0]
             /\ ifnesting = 0

cond_state == cond[clev] > 0

\* Whether a directive of the current source may touch block clev.
Floor == IF frames = << >> THEN -1 ELSE Top(frames).level
OwnBlock == CrossFrame \/ ifnesting > 0 \/ clev > Floor

\* Mutant: the nesting limit is noticed one level too late.
cond_if_late(flag) ==
    /\ clev' = clev + 1
    /\ IF clev + 1 > MAXCONDLEV
       THEN /\ diag' = diag \cup {"nesting depth exceeded"}
            /\ phase' = "stopped"
            /\ UNCHANGED cond
       ELSE /\ cond' = [cond EXCEPT ![clev + 1] = Bit(flag)]
            /\ UNCHANGED <<diag, phase>>
    /\ UNCHANGED <<ifnesting, frames>>

\* cond_if: error 65 is fatal, nothing is assembled after it.
cond_if(flag) ==
    /\ clev' = clev + 1
    /\ IF clev + 1 >= MAXCONDLEV
       THEN /\ diag' = diag \cup {"nesting depth exceeded"}
            /\ phase' = "stopped"
            /\ UNCHANGED cond
       ELSE /\ cond' = [cond EXCEPT ![clev + 1] = Bit(flag)]
            /\ UNCHANGED <<diag, phase>>
    /\ UNCHANGED <<ifnesting, frames>>

cond_skipif == /\ ifnesting < MaxSkip
               /\ ifnesting' = ifnesting + 1
               /\ UNCHANGED <<clev, cond, frames, diag, phase>>

\* Mutants: the nesting of skipped IFs is ignored; a block whose branch was
\* taken is switched on again.
cond_else_flat == /\ cond' = [cond EXCEPT ![clev] = IF @ # 0 THEN -1 ELSE 1]
                  /\ UNCHANGED <<clev, ifnesting, frames, diag, phase>>
cond_else_toggle == /\ cond' = IF ifnesting = 0
                               THEN [cond EXCEPT ![clev] = IF @ > 0 THEN -1 ELSE 1]
                               ELSE cond
                    /\ UNCHANGED <<clev, ifnesting, frames, diag, phase>>

cond_else == /\ cond' = IF ifnesting = 0
                        THEN [cond EXCEPT ![clev] = IF @ # 0 THEN -1 ELSE 1]
                        ELSE cond
             /\ UNCHANGED <<clev, ifnesting, frames, diag, phase>>

cond_skipelse == /\ IF clev > 0
                    THEN /\ cond' = [cond EXCEPT ![clev] = -1]
                         /\ UNCHANGED diag
                    ELSE /\ diag' = diag \cup {"else without if"}
                         /\ UNCHANGED cond
                 /\ UNCHANGED <<clev, ifnesting, frames, phase>>

cond_elseif(flag) ==
    /\ IF clev > 0
       THEN /\ cond' = [cond EXCEPT ![clev] = IF @ = 0 THEN Bit(flag) ELSE -1]
            /\ UNCHANGED diag
       ELSE /\ diag' = diag \cup {"else without if"}
            /\ UNCHANGED cond
    /\ UNCHANGED <<clev, ifnesting, frames, phase>>

\* Mutant: ENDIF closes a level before the IFs nested in its skipped text.
cond_endif_level ==
    /\ CASE clev > 0 -> clev' = clev - 1 /\ UNCHANGED <<ifnesting, diag>>
         [] clev = 0 /\ ifnesting > 0 -> ifnesting' = ifnesting - 1 /\ UNCHANGED <<clev, diag>>
         [] OTHER -> diag' = diag \cup {"unexpected endif without if"} /\ UNCHANGED <<clev, ifnesting>>
    /\ UNCHANGED <<cond, frames, phase>>

cond_endif == /\ IF ifnesting = 0
                 THEN IF clev > 0
                      THEN /\ clev' = clev - 1
                           /\ UNCHANGED <<ifnesting, diag>>
                      ELSE /\ diag' = diag \cup {"unexpected endif without if"}
                           /\ UNCHANGED <<clev, ifnesting>>
                 ELSE /\ ifnesting' = ifnesting - 1
                      /\ UNCHANGED <<clev, diag>>
              /\ UNCHANGED <<cond, frames, phase>>
-----------------------------------------------------------------------------
\* The lines of a source text.

\* Mutant: an IF in skipped text opens a level.
IfLineUnskipped(flag) == cond_if(flag)

IfLine(flag) == IF cond_state THEN cond_if(flag) ELSE cond_skipif

ElseLine == /\ OwnBlock
            /\ IF cond_state THEN cond_skipelse ELSE cond_else

ElifLine(flag) == /\ HasElif
                  /\ OwnBlock
                  /\ IF cond_state THEN cond_skipelse ELSE cond_elseif(flag)

EndifLine == OwnBlock /\ cond_endif

\* A macro call, INCLUDE or REPT starts a source instance (new_source).
CallLine(macro) ==
    /\ cond_state
    /\ Len(frames) < MaxFrames
    /\ frames' = Append(frames, [level |-> clev, macro |-> macro])
    /\ UNCHANGED <<clev, cond, ifnesting, diag, phase>>

\* MEXIT (leave_macro, end_source): the level is restored and the rest of
\* the text is not read, so read_next_line returns to the parent source.
MExitLine ==
    /\ cond_state
    /\ IF frames # << >> /\ Top(frames).macro
       THEN /\ clev' = Top(frames).level
            /\ frames' = Pop(frames)
            /\ UNCHANGED diag
       ELSE /\ diag' = diag \cup {"no current macro to exit"}
            /\ UNCHANGED <<clev, frames>>
    /\ UNCHANGED <<cond, ifnesting, phase>>

\* The text of an instance ends: read_next_line leaves the levels alone.
EndOfText == /\ frames # << >>
             /\ frames' = Pop(frames)
             /\ UNCHANGED <<clev, cond, ifnesting, diag, phase>>

\* The end of the main source (cond_check).
cond_check == /\ frames = << >>
              /\ phase' = "stopped"
              /\ diag' = IF clev > 0 THEN diag \cup {"endc/endif missing"} ELSE diag
              /\ UNCHANGED <<clev, cond, ifnesting, frames>>

Init == /\ cond_init
        /\ frames = << >>
        /\ diag = {}
        /\ phase = "parsing"

Next == /\ phase = "parsing"
        /\ \/ \E flag \in BOOLEAN : IfLine(flag)
           \/ ElseLine
           \/ \E flag \in BOOLEAN : ElifLine(flag)
           \/ EndifLine
           \/ \E macro \in BOOLEAN : CallLine(macro)
           \/ MExitLine
           \/ EndOfText
           \/ cond_check

Spec == Init /\ [][Next]_vars
-----------------------------------------------------------------------------
\* Blocks nested in skipped text are never assembled: while ifnesting counts
\* such a block, cond_state() is false.
NestedBlocksDead == phase = "parsing" /\ ifnesting > 0 => ~cond_state

\* Every block around the innermost one is being assembled, so the value of
\* cond[clev] alone may decide whether a line is.
OuterBlocksOn == \A i \in 0..MAXCONDLEV : i < clev => cond[i] = 1

\* The blocks cond.c represents: levels 1..clev of the array, then ifnesting
\* blocks of which nothing will ever be assembled.
AbsDepth == IF "nesting depth exceeded" \in diag THEN clev - 1 ELSE clev + ifnesting
LevelStatus(v) == CASE v > 0 -> "on"
                    [] v = 0 -> "pending"
                    [] v < 0 -> "done"
AbsBlk == [i \in 1..AbsDepth |-> IF i > clev THEN "dead" ELSE LevelStatus(cond[i])]
AbsBase == [i \in 1..Len(frames) |-> frames[i].level]
Stack == INSTANCE CondStack WITH
            MaxLevel <- MAXCONDLEV, depth <- AbsDepth, blk <- AbsBlk,
            base <- AbsBase

\* cond.c implements the stack of conditional blocks: its two counters and
\* its array never lose track of which block a directive belongs to.
StackSpec == Stack!Spec
=============================================================================
