------------------------------ MODULE Cpu6502 ------------------------------
(***************************************************************************)
(* The 6502 family backend (cpus/6502/cpu.c): which addressing mode and    *)
(* encoding an instruction gets from the values of its operands, how large *)
(* it is, and what bytes are written.  An instruction is a mnemonic with   *)
(* its operands; an operand has an addressing mode, selector flags and an  *)
(* expression, of which only what eval_expr and find_base say is kept.     *)
(***************************************************************************)
EXTENDS Integers, Sequences, FiniteSets

CONSTANTS PAGE,         \* size of the zero/direct page: 256
          REACH,        \* an 8-bit branch reaches -REACH..REACH-1: 128
          dpage,        \* start of the direct page (SETDP)
          cpu_type,     \* the instruction sets enabled
          branchopt     \* option -opt-branch

WORD == PAGE * PAGE

\* Operand values: a number, and the base symbol when it is not a constant.
\* Symbols of this section, of another one, of a section with near or far
\* addressing; external symbols, possibly declared to be in the zero page.
Bases == {"none", "here", "there", "near", "far", "extern", "zpextern"}
ExtRef(base) == base \in {"extern", "zpextern"}
LocRef(base) == base \in {"here", "there", "near", "far"}

\* opcodes.h, one row of each kind: opcode, zp_opcode, al_opcode, available.
mnemonics ==
    [lda  |-> [op |-> <<"ABS">>,           opcode |-> 173, zp |-> 165, al |-> 175, avail |-> "6502"],
     lday |-> [op |-> <<"ABSY">>,          opcode |-> 185, zp |-> 0,   al |-> 0, avail |-> "6502"],
     ldai |-> [op |-> <<"IMMED8">>,        opcode |-> 169, zp |-> 0,   al |-> 0, avail |-> "6502"],
     jmp  |-> [op |-> <<"ABS">>,           opcode |-> 76,  zp |-> 0,   al |-> 92, avail |-> "6502"],
     beq  |-> [op |-> <<"REL8">>,          opcode |-> 240, zp |-> 0,   al |-> 0, avail |-> "6502"],
     bne  |-> [op |-> <<"REL8">>,          opcode |-> 208, zp |-> 0,   al |-> 0, avail |-> "6502"],
     bra  |-> [op |-> <<"REL8">>,          opcode |-> 128, zp |-> 0,   al |-> 0, avail |-> "65C02"],
     bsr  |-> [op |-> <<"REL8">>,          opcode |-> 68,  zp |-> 0,   al |-> 0, avail |-> "HU6280"],
     brl  |-> [op |-> <<"REL16">>,         opcode |-> 130, zp |-> 0,   al |-> 0, avail |-> "65816"],
     bbr0 |-> [op |-> <<"DPAGE", "REL8">>, opcode |-> 0,   zp |-> 15,  al |-> 0, avail |-> "WDC02"],
     rts  |-> [op |-> << >>,               opcode |-> 96,  zp |-> 0,   al |-> 0, avail |-> "6502"]]

\* Mutant: the size of the branch in B!cc/JMP is forgotten.
opsize_short == [ABS |-> 2, ABSY |-> 2, LABS |-> 3, DPAGE |-> 1, REL8 |-> 1, REL16 |-> 2,
                 RELJMP |-> 3, IMMED8 |-> 1]

opsize == [ABS |-> 2, ABSY |-> 2, LABS |-> 3, DPAGE |-> 1, REL8 |-> 1, REL16 |-> 2,
           RELJMP |-> 4, IMMED8 |-> 1]

IsAbs(type) == type \in {"ABS", "ABSY"}

\* MNEMONIC_VALID
cpu_available(code) == mnemonics[code].avail \in cpu_type

is_pc_reloc(base, secabs) == ExtRef(base) \/ (LocRef(base) /\ ~secabs /\ base # "here")
-----------------------------------------------------------------------------
\* optimize_instruction, for operand op of a mnemonic with value v.
ToZeroPage(mnemo, op, v) ==
    /\ mnemo.zp # 0
    /\ \/ "LO" \in op.flags
       \/ /\ op.flags \cap {"HI", "WA"} = {}
          /\ \/ v.base = "none" /\ v.val \in dpage..dpage + PAGE - 1
             \/ v.base \in {"zpextern", "near"}

ToLong(mnemo, op, v) ==
    /\ "65816" \in cpu_type
    /\ mnemo.al # 0
    /\ \/ "HI" \in op.flags
       \/ /\ op.flags \cap {"WA", "LO"} = {}
          /\ \/ v.base = "none" /\ v.val >= WORD
             \/ v.base = "far"

\* Mutant: the distance is taken from the opcode, not from the next instruction.
OutOfReachOff(op, v, pc, secabs) ==
    /\ branchopt /\ op.type = "REL8"
    /\ v.base = "none" \/ ~is_pc_reloc(v.base, secabs)
    /\ v.val - pc \notin -REACH..REACH - 1

OutOfReach(op, v, pc, secabs) ==
    /\ branchopt /\ op.type = "REL8"
    /\ v.base = "none" \/ ~is_pc_reloc(v.base, secabs)
    /\ v.val - (pc + 2) \notin -REACH..REACH - 1

IsBra(mnemo) == mnemo.opcode \in {128, 18}

\* JMP to BRA: only considered for operands that are not absolute.
InReach(ip, op, v, pc, secabs) ==
    /\ ~IsAbs(op.type)
    /\ branchopt /\ ip.code = "jmp" /\ cpu_type \cap {"DTV", "65C02"} # {}
    /\ v.base = "none" \/ ~is_pc_reloc(v.base, secabs)
    /\ v.val - (pc + 2) \in -REACH..REACH

OptType(ip, op, v, pc, secabs) ==
    LET mnemo == mnemonics[ip.code]
    IN  CASE IsAbs(op.type) /\ ToZeroPage(mnemo, op, v) -> "DPAGE"
          [] IsAbs(op.type) /\ ~ToZeroPage(mnemo, op, v) /\ ToLong(mnemo, op, v) -> "LABS"
          [] OutOfReach(op, v, pc, secabs) -> IF IsBra(mnemo) THEN "ABS" ELSE "RELJMP"
          [] InReach(ip, op, v, pc, secabs) -> "REL8"
          [] OTHER -> op.type

optimize_instruction(ip, vs, pc, secabs) ==
    [code |-> CASE \E i \in 1..Len(ip.op) : /\ OutOfReach(ip.op[i], vs[i], pc, secabs)
                                            /\ IsBra(mnemonics[ip.code]) -> "jmp"
                [] \E i \in 1..Len(ip.op) : InReach(ip, ip.op[i], vs[i], pc, secabs) -> "bra"
                [] OTHER -> ip.code,
     op |-> [i \in 1..Len(ip.op) |->
               [ip.op[i] EXCEPT !.type = OptType(ip, ip.op[i], vs[i], pc, secabs)]]]

get_inst_size(ip) ==
    LET size[i \in 0..Len(ip.op)] == IF i = 0 THEN 1 ELSE size[i - 1] + opsize[ip.op[i].type]
    IN  size[Len(ip.op)]

instruction_size(ip, vs, pc, secabs) ==
    get_inst_size(optimize_instruction(ip, vs, pc, secabs))
-----------------------------------------------------------------------------
\* eval_instruction.  The opcode: the one of the last operand that selects one.
FlipBit5(oc) == IF (oc \div 32) % 2 = 0 THEN oc + 32 ELSE oc - 32

Opcode(ip) ==
    LET m == mnemonics[ip.code]
        oc[i \in 0..Len(ip.op)] ==
            IF i = 0 THEN m.opcode
            ELSE CASE ip.op[i].type = "LABS"   -> m.al
                   [] ip.op[i].type = "DPAGE"  -> m.zp
                   [] ip.op[i].type = "RELJMP" -> FlipBit5(oc[i - 1])
                   [] OTHER                    -> oc[i - 1]
    IN  oc[Len(ip.op)]

Byte(n) == n % PAGE
Bytes2(n) == <<Byte(n), Byte(n \div PAGE)>>
Bytes3(n) == Bytes2(n) \o <<Byte(n \div WORD)>>

\* Local branches are resolved here, everything else with a base symbol is
\* left to a relocation.
Resolved(op, v, secabs) ==
    \/ v.base = "none"
    \/ op.type \in {"REL8", "REL16"} /\ ~is_pc_reloc(v.base, secabs)

\* The operand's value before the range check, at offset offs.
OperandValue(op, v, pc, offs, secabs) ==
    CASE op.type \in {"REL8", "REL16"} /\ Resolved(op, v, secabs)
           -> v.val - (pc + offs + opsize[op.type])
      [] op.type = "DPAGE" /\ v.base = "none"
           -> IF "LO" \in op.flags THEN Byte(v.val) ELSE v.val - dpage
      [] op.type \in {"ABS", "ABSY", "RELJMP"} /\ v.base = "none"
         /\ ("65816" \in cpu_type \/ op.flags \cap {"HI", "WA"} # {})
           -> v.val % WORD
      [] op.type = "LABS" /\ v.base = "none" -> v.val % (WORD * PAGE)
      [] op.type = "IMMED8" ->
           CASE "BK" \in op.flags -> Byte(v.val \div WORD)
             [] "BK" \notin op.flags /\ "HI" \in op.flags -> Byte(v.val \div PAGE)
             [] op.flags \cap {"BK", "HI"} = {} /\ "LO" \in op.flags -> Byte(v.val)
             [] OTHER -> v.val
      [] OTHER -> v.val

\* rangecheck: the errors and warnings 5, 6 and 11.
rangecheck(op, v, val) ==
    \/ op.type \in {"ABS", "ABSY", "RELJMP"} /\ v.base = "none" /\ val \notin 0..WORD - 1
    \/ op.type = "DPAGE" /\ v.base = "none" /\ val \notin 0..PAGE - 1
    \/ op.type = "IMMED8" /\ val \notin -REACH..PAGE - 1
    \/ op.type = "REL8" /\ val \notin -REACH..REACH - 1
    \/ op.type = "REL16" /\ val \notin -(WORD \div 2)..WORD \div 2 - 1

OperandBytes(op, val) ==
    CASE op.type \in {"ABS", "ABSY", "REL16"} -> Bytes2(val)
      [] op.type = "LABS"                     -> Bytes3(val)
      [] op.type = "RELJMP"                   -> <<3, 76>> \o Bytes2(val)
      [] OTHER                                -> <<Byte(val)>>

\* Errors 10 and 12 of optimize_instruction in the final pass.
SelectorError(mnemo, op) ==
    /\ IsAbs(op.type)
    /\ \/ "LO" \in op.flags /\ mnemo.zp = 0
       \/ "65816" \in cpu_type /\ "HI" \in op.flags /\ mnemo.al = 0

\* The bytes written, whether an error or warning was reported, whether a
\* relocation is needed, and whether the internal error at the RELJMP case
\* (a combination with an earlier operand) was hit.
eval_instruction(ip, vs, pc, secabs) ==
    LET new == optimize_instruction(ip, vs, pc, secabs)
        out[i \in 0..Len(ip.op)] ==
            IF i = 0
            THEN [bytes |-> <<Opcode(new)>>, err |-> FALSE, reloc |-> FALSE, ierror |-> FALSE]
            ELSE LET o   == out[i - 1]
                     op  == new.op[i]
                     val == OperandValue(op, vs[i], pc, Len(o.bytes), secabs)
                 IN  [bytes  |-> o.bytes \o OperandBytes(op, val),
                      err    |-> \/ o.err
                                 \/ SelectorError(mnemonics[ip.code], ip.op[i])
                                 \/ rangecheck(op, vs[i], val),
                      reloc  |-> o.reloc \/ ~Resolved(op, vs[i], secabs),
                      ierror |-> o.ierror \/ (op.type = "RELJMP" /\ Len(o.bytes) > 1)]
    IN  out[Len(ip.op)]
=============================================================================
