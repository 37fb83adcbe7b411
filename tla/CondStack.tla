----------------------------- MODULE CondStack -----------------------------
(***************************************************************************)
(* What conditional assembly promises: a stack of open IF blocks, each of  *)
(* which has selected its current branch ("on"), none of its branches so   *)
(* far ("pending"), some earlier branch ("done"), or which was opened in   *)
(* text that is being skipped ("dead").  A line is assembled exactly when  *)
(* every open block is "on".  A source instance (macro, include file)      *)
(* remembers how many blocks were open when it started; MEXIT closes the   *)
(* ones opened since.                                                      *)
(*                                                                         *)
(* Module Cond, the translation of cond.c, implements this specification   *)
(* with a level counter, an array of signed chars and a second counter for *)
(* the blocks nested in skipped text.                                      *)
(***************************************************************************)
EXTENDS Naturals, Sequences

CONSTANTS MaxLevel,     \* assembled blocks may be open up to MaxLevel - 1
          HasElif       \* the syntax has an else-if directive

VARIABLES depth,        \* number of open blocks
          blk,          \* the status of each of them, outermost first
          base,         \* depth at the start of each active source instance
          diag,         \* the errors reported
          phase         \* "stopped" after a fatal error or the end of the source

absvars == <<depth, blk, base, diag, phase>>

Status == {"on", "pending", "done", "dead"}

Live == \A i \in 1..depth : blk[i] = "on"

\* The outermost n blocks.
Outer(n) == [i \in 1..n |-> blk[i]]

Init == /\ depth = 0
        /\ blk = << >>
        /\ base = << >>
        /\ diag = {}
        /\ phase = "parsing"

Open(status) == /\ depth' = depth + 1
                /\ blk' = [i \in 1..depth + 1 |-> IF i <= depth THEN blk[i] ELSE status]
                /\ UNCHANGED <<base, diag, phase>>

If(flag) == IF ~Live
            THEN Open("dead")
            ELSE IF depth + 1 < MaxLevel
                 THEN Open(IF flag THEN "on" ELSE "pending")
                 ELSE /\ diag' = diag \cup {"nesting depth exceeded"}
                      /\ phase' = "stopped"
                      /\ UNCHANGED <<depth, blk, base>>

\* ELSE and ELSE-IF select the next branch of the innermost block.
Branch(flag) ==
    IF depth = 0
    THEN /\ diag' = diag \cup {"else without if"}
         /\ UNCHANGED <<depth, blk, base, phase>>
    ELSE /\ blk' = [blk EXCEPT ![depth] =
                      CASE blk[depth] = "dead"    -> "dead"
                        [] blk[depth] = "pending" -> IF flag THEN "on" ELSE "pending"
                        [] OTHER                  -> "done"]
         /\ UNCHANGED <<depth, base, diag, phase>>

EndIf == IF depth = 0
         THEN /\ diag' = diag \cup {"unexpected endif without if"}
              /\ UNCHANGED <<depth, blk, base, phase>>
         ELSE /\ depth' = depth - 1
              /\ blk' = Outer(depth - 1)
              /\ UNCHANGED <<base, diag, phase>>

Call == /\ Live
        /\ base' = Append(base, depth)
        /\ UNCHANGED <<depth, blk, diag, phase>>

\* MEXIT, only obeyed where lines are assembled.
\* It belongs to a macro; elsewhere it is an error.
MExitError == /\ Live
              /\ diag' = diag \cup {"no current macro to exit"}
              /\ UNCHANGED <<depth, blk, base, phase>>

MExit == /\ Live
         /\ base # << >>
         /\ base[Len(base)] <= depth
         /\ depth' = base[Len(base)]
         /\ blk' = Outer(base[Len(base)])
         /\ base' = SubSeq(base, 1, Len(base) - 1)
         /\ UNCHANGED <<diag, phase>>

\* The text of a source instance ends: blocks it left open stay open.
Return == /\ base # << >>
          /\ base' = SubSeq(base, 1, Len(base) - 1)
          /\ UNCHANGED <<depth, blk, diag, phase>>

Finish == /\ base = << >>
          /\ phase' = "stopped"
          /\ diag' = IF depth > 0 THEN diag \cup {"endc/endif missing"} ELSE diag
          /\ UNCHANGED <<depth, blk, base>>

Next == /\ phase = "parsing"
        /\ \/ \E flag \in BOOLEAN : If(flag)
           \/ Branch(TRUE)
           \/ HasElif /\ Branch(FALSE)
           \/ EndIf
           \/ Call
           \/ MExit
           \/ MExitError
           \/ Return
           \/ Finish

Spec == Init /\ [][Next]_absvars
=============================================================================
