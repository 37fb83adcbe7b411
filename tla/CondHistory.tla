---------------------------- MODULE CondHistory -----------------------------
(***************************************************************************)
(* Conditional assembly with the history of its blocks.  cond[] alone does *)
(* not tell how many branches of a block were assembled, least of all when *)
(* a macro closes blocks of its caller, opens others in their place and    *)
(* MEXIT goes back to the caller's level.  The history variables only      *)
(* record: a step of this module is a step of Cond.                        *)
(***************************************************************************)
EXTENDS Cond

CONSTANT MExitClosed    \* a macro that closed a block of its caller may use MEXIT

ASSUME HistoryAssumption == MExitClosed \in BOOLEAN

VARIABLES taken,        \* branches assembled so far of the block at each level
          saved         \* what each source instance found when it was started

hvars == <<clev, cond, ifnesting, frames, diag, phase, taken, saved>>

Levels == 1..MAXCONDLEV

\* taken at the call, and whether a block of the caller was closed since.
Saved == [taken : [Levels -> Nat], closed : BOOLEAN]

\* The next branch of the innermost block begins and is assembled or not.
NextBranch == /\ taken' = [i \in Levels |->
                             taken[i] + IF i = clev /\ cond'[i] = 1 THEN 1 ELSE 0]
              /\ UNCHANGED saved

HIf(flag) ==
    /\ IfLine(flag)
    /\ taken' = [i \in Levels |->
                   IF i > clev /\ i = clev' THEN Bit(flag) ELSE taken[i]]
    /\ UNCHANGED saved

HElse == ElseLine /\ NextBranch

HElif(flag) == ElifLine(flag) /\ NextBranch

HEndif == /\ EndifLine
          /\ saved' = [k \in DOMAIN saved |->
                         [taken |-> saved[k].taken,
                          closed |-> saved[k].closed \/ clev' < frames[k].level]]
          /\ UNCHANGED taken

HCall(macro) == /\ CallLine(macro)
                /\ saved' = Append(saved, [taken |-> taken, closed |-> FALSE])
                /\ UNCHANGED taken

\* The caller goes on in the blocks it was in when it called the macro.
HMExit == /\ MExitLine
          /\ IF frames' # frames
             THEN /\ MExitClosed \/ ~Top(saved).closed
                  /\ taken' = Top(saved).taken
                  /\ saved' = Pop(saved)
             ELSE UNCHANGED <<taken, saved>>

HEndOfText == /\ EndOfText
              /\ saved' = Pop(saved)
              /\ UNCHANGED taken

HInit == /\ Init
         /\ taken = [i \in Levels |-> 0]
         /\ saved = << >>

HNext == /\ phase = "parsing"
         /\ \/ \E flag \in BOOLEAN : HIf(flag)
            \/ HElse
            \/ \E flag \in BOOLEAN : HElif(flag)
            \/ HEndif
            \/ \E macro \in BOOLEAN : HCall(macro)
            \/ HMExit
            \/ HEndOfText
            \/ cond_check /\ UNCHANGED <<taken, saved>>

HSpec == HInit /\ [][HNext]_hvars
-----------------------------------------------------------------------------
\* At most one branch of a block is assembled, counted over the whole life of
\* the block: while a macro works on it, and when MEXIT goes back to the level
\* of the caller, whose ELSE and ELSE-IF then belong to the caller's block
\* again.  It holds unless a macro closes a block of its caller and then uses
\* MEXIT (MExitClosed): end_source restores clev but not cond[].
OneBranch == \A i \in Levels : i <= clev => taken[i] <= 1
=============================================================================
