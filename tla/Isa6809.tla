------------------------------ MODULE Isa6809 ------------------------------
(***************************************************************************)
(* What the processors of the 6809 family do with the bytes of the         *)
(* instructions the backend is checked with, from their programming model: *)
(* an operation and the operand it works on.  An operand is an immediate   *)
(* value, or an address made of a register (or none), an offset and a step *)
(* before or after the access, taken directly or from memory.              *)
(***************************************************************************)
EXTENDS Integers, Sequences

CONSTANTS cpu, dp    \* the processor, and what its DP register holds

Wide(n) == n % 65536
Word16(b, i) == 256 * b[i] + b[i + 1]
S8(n) == IF n >= 128 THEN n - 256 ELSE n
S5(n) == IF n >= 16 THEN n - 32 ELSE n

Imm(n) == [kind |-> "imm", ind |-> FALSE, reg |-> "", off |-> n, step |-> 0, acc |-> ""]
At(ind, reg, off) == [kind |-> "mem", ind |-> ind, reg |-> reg, off |-> Wide(off), step |-> 0, acc |-> ""]
Step(ind, reg, when, n) == [At(ind, reg, 0) EXCEPT !.kind = when, !.step = n]
Acc(ind, reg, acc) == [At(ind, reg, 0) EXCEPT !.acc = acc]
Unknown == [At(FALSE, "", 0) EXCEPT !.kind = "unknown"]

\* The operations: opcode, name and how the operand is encoded.
Ops == CASE cpu \in {"6809", "6309"} ->
              {<<137, "adca", "imm8">>, <<153, "adca", "dir">>, <<169, "adca", "idx">>, <<185, "adca", "ext">>,
               <<142, "ldx", "imm16">>, <<158, "ldx", "dir">>, <<174, "ldx", "idx">>, <<190, "ldx", "ext">>,
               <<48, "leax", "idx">>, <<7, "asr", "dir">>,
               <<14, "jmp", "dir">>, <<110, "jmp", "idx">>, <<126, "jmp", "ext">>,
               <<157, "jsr", "dir">>, <<173, "jsr", "idx">>, <<189, "jsr", "ext">>,
               <<32, "jmp", "rel8">>, <<141, "jsr", "rel8">>, <<39, "beq", "rel8">>,
               <<22, "jmp", "rel16">>, <<23, "jsr", "rel16">>, <<4135, "beq", "rel16">>}
         [] cpu = "hc12" ->
              {<<137, "adca", "imm8">>, <<153, "adca", "dir">>, <<169, "adca", "idx">>, <<185, "adca", "ext">>,
               <<5, "jmp", "idx">>, <<6, "jmp", "ext">>,
               <<23, "jsr", "dir">>, <<21, "jsr", "idx">>, <<22, "jsr", "ext">>,
               <<32, "jmp", "rel8">>, <<7, "jsr", "rel8">>, <<39, "beq", "rel8">>,
               <<6176, "jmp", "rel16">>, <<6183, "beq", "rel16">>}
         [] cpu = "konami" ->
              {<<24, "adca", "imm8">>, <<26, "adca", "idx">>, <<168, "jmp", "idx">>, <<169, "jsr", "idx">>,
               <<96, "jmp", "rel8">>, <<170, "jsr", "rel8">>, <<115, "beq", "rel8">>,
               <<104, "jmp", "rel16">>, <<171, "jsr", "rel16">>, <<123, "beq", "rel16">>}

Prefixed(b) == (b[1] = 16 /\ cpu # "konami" /\ cpu # "hc12") \/ (b[1] = 24 /\ cpu = "hc12")
Opcode(b) == IF Prefixed(b) THEN Word16(b, 1) ELSE b[1]

\* The postbytes of the 6309's W register; the even ones are indirect.
IndexedW(b, i) ==
    LET ind == b[i] % 2 = 0
    IN  CASE b[i] \in {143, 144} -> At(ind, "W", 0)
          [] b[i] \in {175, 176} -> At(ind, "W", Word16(b, i + 1))
          [] b[i] \in {207, 208} -> Step(ind, "W", "post", 2)
          [] b[i] \in {239, 240} -> Step(ind, "W", "pre", -2)

\* The postbyte b[i] and what follows it, of an instruction that ends at next.
Indexed09(b, i, next) ==
    LET pb  == b[i]
        reg == <<"X", "Y", "U", "S">>[((pb \div 32) % 4) + 1]
        ind == (pb \div 16) % 2 = 1
        sub == pb % 16
    IN  CASE pb < 128 -> At(FALSE, reg, S5(pb % 32))
          [] pb \in {143, 144, 175, 176, 207, 208, 239, 240} ->
               IndexedW(b, i)
          [] OTHER ->
               CASE sub = 0 -> Step(ind, reg, "post", 1)
                 [] sub = 1 -> Step(ind, reg, "post", 2)
                 [] sub = 2 -> Step(ind, reg, "pre", -1)
                 [] sub = 3 -> Step(ind, reg, "pre", -2)
                 [] sub = 4 -> At(ind, reg, 0)
                 [] sub = 8 -> At(ind, reg, S8(b[i + 1]))
                 [] sub = 9 -> At(ind, reg, Word16(b, i + 1))
                 [] sub = 12 -> At(ind, "", next + S8(b[i + 1]))
                 [] sub = 13 -> At(ind, "", next + Word16(b, i + 1))
                 [] sub = 15 -> At(TRUE, "", Word16(b, i + 1))
                 [] OTHER -> Acc(ind, reg, CASE sub = 5 -> "B" [] sub = 6 -> "A" [] sub = 7 -> "E"
                                             [] sub = 10 -> "F" [] sub = 11 -> "D" [] sub = 14 -> "W")

Indexed12(b, i, next) ==
    LET pb == b[i]
        Reg(n) == <<"X", "Y", "S", "PC">>[(n % 4) + 1]
        From(reg, ind, n) == IF reg = "PC" THEN At(ind, "", next + n) ELSE At(ind, reg, n)
        step == IF pb % 16 >= 8 THEN (pb % 16) - 16 ELSE (pb % 16) + 1
    IN  CASE (pb \div 32) % 2 = 0 -> From(Reg(pb \div 64), FALSE, S5(pb % 32))
          [] (pb \div 32) % 2 = 1 /\ pb < 192 ->
               Step(FALSE, Reg(pb \div 64), IF (pb \div 16) % 2 = 1 THEN "post" ELSE "pre", step)
          [] pb >= 224 /\ pb % 8 \in {0, 1} ->
               From(Reg(pb \div 8), FALSE, b[i + 1] - (IF pb % 2 = 1 THEN 256 ELSE 0))
          [] pb >= 224 /\ pb % 8 \in {2, 3} -> From(Reg(pb \div 8), pb % 8 = 3, Word16(b, i + 1))
          [] OTHER -> Acc(pb % 8 = 7, Reg(pb \div 8), <<"A", "B", "D", "D">>[(pb % 4) + 1])

IndexedK(b, i, next) ==
    LET pb  == b[i]
        sub == pb % 8
        ind == (pb \div 8) % 2 = 1
        reg == CASE (pb \div 16) % 8 = 2 -> "X" [] (pb \div 16) % 8 = 3 -> "Y"
                 [] (pb \div 16) % 8 = 5 -> "U" [] (pb \div 16) % 8 = 6 -> "S" [] OTHER -> "?"
    IN  CASE pb = 196 -> At(FALSE, "", 256 * dp + b[i + 1])
          [] pb \in {7, 15} -> At(pb = 15, "", Word16(b, i + 1))
          [] reg = "?" -> Unknown
          [] pb >= 128 /\ reg # "?" /\ pb # 196 ->
               Acc(ind, reg, CASE sub = 0 -> "A" [] sub = 1 -> "B" [] sub = 7 -> "D")
          [] OTHER ->
               CASE sub = 0 -> Step(ind, reg, "post", 1) [] sub = 1 -> Step(ind, reg, "post", 2)
                 [] sub = 2 -> Step(ind, reg, "pre", -1) [] sub = 3 -> Step(ind, reg, "pre", -2)
                 [] sub = 4 -> At(ind, reg, S8(b[i + 1])) [] sub = 5 -> At(ind, reg, Word16(b, i + 1))
                 [] sub = 6 -> At(ind, reg, 0)

Indexed(b, i, next) == CASE cpu = "hc12" -> Indexed12(b, i, next)
                         [] cpu = "konami" -> IndexedK(b, i, next)
                         [] OTHER -> Indexed09(b, i, next)

\* The operand encoded as enc at b[i].
OperandAt(b, i, enc, next) ==
    CASE enc = "imm8"  -> Imm(b[i])
      [] enc = "imm16" -> Imm(Word16(b, i))
      [] enc = "dir"   -> At(FALSE, "", 256 * dp + b[i])
      [] enc = "ext"   -> At(FALSE, "", Word16(b, i))
      [] enc = "idx"   -> Indexed(b, i, next)
      [] enc = "rel8"  -> At(FALSE, "", next + S8(b[i]))
      [] enc = "rel16" -> At(FALSE, "", next + Word16(b, i))

\* What executing the bytes at pc does: the operation and its operand.
Effect(b, pc) ==
    LET ops == {o \in Ops : o[1] = Opcode(b)}
        o   == CHOOSE x \in ops : TRUE
    IN  IF ops = {} THEN <<"unknown", Unknown>>
        ELSE <<o[2], OperandAt(b, IF Prefixed(b) THEN 3 ELSE 2, o[3], pc + Len(b))>>
=============================================================================
