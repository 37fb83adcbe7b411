------------------------------ MODULE MCCpus ------------------------------
(***************************************************************************)
(* One instruction goes through the 6502 or the 6809 backend: its size is  *)
(* asked for (resolver), then it is evaluated (assemble).  Addresses and   *)
(* bytes have their real widths; the values are the ones around every      *)
(* boundary.                                                               *)
(***************************************************************************)
EXTENDS Integers, Sequences

CONSTANTS PAGE,      \* size of the 6502's zero page: 256
          REACH,     \* its branches reach -REACH .. REACH - 1: 128
          Codes,     \* 6502 mnemonics tried
          Names,     \* 6809 mnemonics tried
          Cpus,      \* members of the 6809 family tried
          Options,   \* their command line options
          Dpage,     \* the direct page of the 6502 (SETDP)
          Origins    \* addresses of the instruction

VARIABLES src,                  \* the line of a 6809 instruction, << >> for the 6502
          ip, vs, pc, secabs,   \* the instruction, its operands' values, where it is
          cpus, opt,            \* cpu_type and the options
          size,                 \* what instruction_size returned, 0 before
          out                   \* what eval_instruction produced

vars == <<src, ip, vs, pc, secabs, cpus, opt, size, out>>

Cpu(c, o) == INSTANCE Cpu6502 WITH dpage <- Dpage, cpu_type <- c, branchopt <- o
Cpu09(c, o) == INSTANCE Cpu6809 WITH cpu_type <- c, options <- o
Isa09 == INSTANCE Isa6809 WITH cpu <- cpus, dp <- src[1].dp

ASSUME PageAssumption == PAGE \in Nat \ {0} /\ REACH \in Nat
ASSUME DpageAssumption == Dpage \in Int
ASSUME OriginsAssumption == Origins \subseteq Int
ASSUME CodesAssumption == Codes \subseteq DOMAIN Cpu({"6502"}, FALSE)!mnemonics

Is6502 == src = << >>

Distances == {-32768, -131, -130, -129, -128, -127, -126, -125, -1, 0, 2, 3,
              126, 127, 128, 129, 130, 131, 132, 133, 32767}
Values(p) == {p + d : d \in Distances} \cup {-1, 0, 255, 256, 65535, 65536, 70000}
Flags == {{}, {"LO"}, {"HI"}, {"WA"}}

Nothing == [bytes |-> << >>, err |-> FALSE, reloc |-> FALSE, ierror |-> FALSE]

Instr6502(code, f) ==
    [code |-> code,
     op   |-> [i \in 1..Len(Cpu(cpus, opt)!mnemonics[code].op) |->
                 [type |-> Cpu(cpus, opt)!mnemonics[code].op[i],
                  flags |-> IF Cpu(cpus, opt)!mnemonics[code].op[i] = "REL8" THEN {} ELSE f]]]
Values6502(inst, v, b) ==
    [i \in 1..Len(inst.op) |-> IF Len(inst.op) = 2 /\ i = 1 THEN [val |-> 18, base |-> "none"]
                                                           ELSE [val |-> v, base |-> b]]

Init6502 ==
    /\ src = << >>
    /\ cpus \in {{"6502"}, {"6502", "65C02"}, {"6502", "65C02", "65816"},
                 {"6502", "65C02", "WDC02", "HU6280"}}
    /\ opt \in BOOLEAN
    /\ \E code \in Codes, f \in Flags, v \in Values(pc), b \in Cpu(cpus, opt)!Bases :
         /\ Cpu(cpus, opt)!cpu_available(code)
         /\ ip = Instr6502(code, f) /\ vs = Values6502(ip, v, b)
-----------------------------------------------------------------------------
\* Lines for the 6809.  An expression is a number, a label of this section or
\* an external symbol; a label of an absolute section is a number.
Symbol(v, b) == [type |-> "SYM", right |-> 0, left |-> [val |-> v, base |-> b, btype |-> "OK"]]
Text(open, sel, body, reg, pre, post) ==
    [open |-> open, sel |-> sel, body |-> body, reg |-> reg, pre |-> pre, post |-> post,
     e |-> Symbol(0, "none")]
Expr(open, sel, reg) == Text(open, sel, "expr", reg, 0, 0)
Index(reg, pre, post) == Text("", "", "", reg, pre, post)
NoText == Text("", "", "", "", 0, 0)

\* Forms whose only expression is the first argument's.
Forms == {<<Expr("#", "", "")>>, <<Expr("", "", "")>>, <<Expr("", ">", "")>>, <<Expr("[", "", "")>>,
          <<Expr("", "", ""), Index("X", 0, 0)>>, <<Expr("", "<", ""), Index("Y", 0, 0)>>,
          <<Expr("", "", ""), Index("PCR", 0, 0)>>, <<Expr("", "", ""), Index("PC", 0, 0)>>,
          <<Expr("", "", ""), Index("W", 0, 0)>>, <<Expr("[", "", "X")>>, <<Expr("[", "", "PCR")>>,
          <<Expr("", "", ""), Index("X", 0, 1)>>, <<Expr("", "", ""), Index("SP", -1, 0)>>}
FixedForms == {<<NoText, Index("U", 0, 0)>>, <<NoText, Index("X", 0, 2)>>, <<NoText, Index("S", -1, 0)>>,
               <<NoText, Index("W", -2, 0)>>, <<Text("", "", "A", "", 0, 0), Index("X", 0, 0)>>,
               <<Text("", "", "D", "", 0, 0), Index("Y", 0, 0)>>, <<Text("[", "", "D", "X", 0, 0)>>,
               <<Text("[", "", "", "Y", 0, 2)>>}
BranchNames == {"bra", "bsr", "beq", "lbra", "lbsr", "lbeq"}
ASSUME NamesAssumption == Names \subseteq {"adca", "jmp", "jsr", "ldx", "leax"} \cup BranchNames

\* The numbers around the bounds of 5, 8, 9 and 16 bits, and the labels as
\* far away as a branch and a PC-relative operand of any size reach.
Small == {-32768, -257, -129, -128, -18, -17, -16, 0, 15, 16, 127, 128, 256, 4660, 65536}
Near == {pc + d : d \in {-130, -129, -128, -127, -126, -125, -14, 0, 17, 129, 130, 131, 132, 300}}
Valued(args, v, b) == [args EXCEPT ![1].e = Symbol(v, b)]
Relative(f) == f[Len(f)].reg \in {"PC", "PCR"}
Labels(f, name) == (IF Relative(f) \/ name \in BranchNames THEN Near ELSE {pc})
                     \X {IF secabs THEN "none" ELSE "here"}
Lines(name) ==
    LET forms == CASE name \in BranchNames \cup {"jsr"} -> {<<Expr("", "", "")>>}
                   [] name = "ldx" -> {<<Expr("#", "", "")>>}
                   [] name = "leax" -> {f \in Forms : Len(f) = 2}
                   [] OTHER -> Forms
    IN  (UNION {{Valued(f, x[1], x[2]) :
                   x \in Labels(f, name) \cup (Small \X {"none"}) \cup ({0, 300} \X {"extern", "direct"})}
                : f \in forms}) \cup (IF name = "adca" THEN FixedForms ELSE {})

Settings == {Cpu09(cpus, {})!cpu_args(o) : o \in Options}
Unbracketed(line) == line[1].open = "" /\ Len(line) = 1
LineOf(name, line, dp) == [name |-> name, args |-> line, dp |-> Cpu09(cpus, opt)!setdp(0, dp)]
Chosen(name, line, dp) ==
    /\ name \notin BranchNames => pc = 1000
    /\ dp # 0 => Unbracketed(line)
    /\ src = <<LineOf(name, line, dp)>>

Init6809 ==
    /\ vs = << >>
    /\ ip = << >>
    /\ cpus \in Cpus
    /\ opt \in Settings
    /\ \E name \in Names : \E line \in Lines(name), dp \in {0, 4660} : Chosen(name, line, dp)

Init == /\ pc \in Origins
        /\ secabs \in BOOLEAN
        /\ size = 0
        /\ out = Nothing
        /\ \/ Init6502
           \/ Init6809
-----------------------------------------------------------------------------
Size6502 == /\ Is6502 /\ size = 0
            /\ size' = Cpu(cpus, opt)!instruction_size(ip, vs, pc, secabs)
            /\ UNCHANGED <<src, ip, vs, pc, secabs, cpus, opt, out>>

\* A line no row of the table matches is rejected, and stays as it is.
New6809 == /\ ~Is6502 /\ ip = << >>
           /\ \E inst \in {Cpu09(cpus, opt)!new_inst(src[1].name, src[1].args, src[1].dp)} :
                inst # << >> /\ ip' = inst[1]
           /\ UNCHANGED <<src, vs, pc, secabs, cpus, opt, size, out>>

Size6809 == /\ ~Is6502 /\ ip # << >> /\ size = 0
            /\ size' = Cpu09(cpus, opt)!instruction_size(ip, pc, secabs)
            /\ ip' = Cpu09(cpus, opt)!Shared(ip)
            /\ UNCHANGED <<src, vs, pc, secabs, cpus, opt, out>>

Emit6502 == /\ Is6502 /\ size # 0 /\ out = Nothing
            /\ out' = Cpu(cpus, opt)!eval_instruction(ip, vs, pc, secabs)
            /\ UNCHANGED <<src, ip, vs, pc, secabs, cpus, opt, size>>

Emit6809 == /\ ~Is6502 /\ size # 0 /\ out = Nothing
            /\ \E o \in {Cpu09(cpus, opt)!eval_instruction(ip, pc, secabs)} :
                   out' = [bytes |-> o.bytes, err |-> o.err # {}, reloc |-> o.relocs # {},
                           ierror |-> o.ierror]
            /\ UNCHANGED <<src, ip, vs, pc, secabs, cpus, opt, size>>

Next == New6809 \/ Size6502 \/ Size6809 \/ Emit6502 \/ Emit6809

Spec == Init /\ [][Next]_vars

Emitted == out # Nothing
Clean == Emitted /\ ~out.err /\ ~out.reloc /\ ~out.ierror
-----------------------------------------------------------------------------
\* What the 6502 does with the bytes: the operation, the condition under
\* which it happens and the address or value it is about.
Word(b, i) == b[i] + 256 * b[i + 1]
Signed8(n) == IF n >= 128 THEN n - 256 ELSE n
Signed16(n) == IF n >= 32768 THEN n - 65536 ELSE n

BranchTo(b, i) == pc + i + Signed8(b[i])
BranchOps == [k \in {240, 208, 128, 68} |->
                CASE k = 240 -> <<"jump", "Z">> [] k = 208 -> <<"jump", "not Z">>
                  [] k = 128 -> <<"jump", "always">> [] k = 68 -> <<"call", "always">>]
NotCond(c) == CASE c = "Z" -> "not Z" [] c = "not Z" -> "Z" [] OTHER -> "never"

Effect(b) ==
    CASE b[1] \in {240, 208, 128, 68} /\ Len(b) = 2 -> Append(BranchOps[b[1]], BranchTo(b, 2))
      [] b[1] \in {240, 208} /\ Len(b) = 5 /\ b[2] = 3 /\ b[3] = 76 ->
            <<"jump", NotCond(BranchOps[b[1]][2]), Word(b, 4)>>
      [] b[1] = 76 /\ Len(b) = 3  -> <<"jump", "always", Word(b, 2)>>
      [] b[1] = 92 /\ Len(b) = 4  -> <<"jump", "always", Word(b, 2) + 65536 * b[4]>>
      [] b[1] = 130 /\ Len(b) = 3 -> <<"jump", "always", pc + 3 + Signed16(Word(b, 2))>>
      [] b[1] = 165 /\ Len(b) = 2 -> <<"load", "always", b[2] + Dpage>>
      [] b[1] = 173 /\ Len(b) = 3 -> <<"load", "always", Word(b, 2)>>
      [] b[1] = 175 /\ Len(b) = 4 -> <<"load", "always", Word(b, 2) + 65536 * b[4]>>
      [] b[1] = 185 /\ Len(b) = 3 -> <<"load,y", "always", Word(b, 2)>>
      [] b[1] = 15 /\ Len(b) = 3  -> <<"jump", "bit clear", BranchTo(b, 3)>>
      [] b[1] = 169 /\ Len(b) = 2 -> <<"constant", "always", b[2]>>
      [] b[1] = 96                -> <<"return", "always", 0>>
      [] OTHER                    -> <<"other", "always", b>>

Meant == CASE ip.code = "beq"  -> <<"jump", "Z", vs[1].val>>
           [] ip.code = "bne"  -> <<"jump", "not Z", vs[1].val>>
           [] ip.code \in {"bra", "brl", "jmp"} -> <<"jump", "always", vs[1].val>>
           [] ip.code = "bsr"  -> <<"call", "always", vs[1].val>>
           [] ip.code = "bbr0" -> <<"jump", "bit clear", vs[2].val>>
           [] ip.code = "lda"  -> <<"load", "always", vs[1].val>>
           [] ip.code = "lday" -> <<"load,y", "always", vs[1].val>>
           [] ip.code = "ldai" -> <<"constant", "always", vs[1].val % 256>>
           [] ip.code = "rts"  -> <<"return", "always", 0>>

-----------------------------------------------------------------------------
\* What a 6809 line means, in the terms of Isa6809.
Line == src[1]
First == Line.args[1]
Number == First.e.left.val
LocalBase == IF secabs THEN First.e.left.base = "none" ELSE First.e.left.base = "here"
Operation == CASE Line.name \in {"bra", "lbra"} -> "jmp" [] Line.name \in {"bsr", "lbsr"} -> "jsr"
               [] Line.name = "lbeq" -> "beq" [] OTHER -> Line.name

\* The register that indexes: of the brackets, or of the second argument.
IndexText == IF First.open = "[" THEN First ELSE Line.args[2]
HasIndex == Len(Line.args) = 2 \/ First.reg # ""
Stepped(x) == x.pre # 0 \/ x.post # 0
Reg(x) == CASE x.reg = "PCR" -> "PC" [] x.reg = "SP" -> "S" [] OTHER -> x.reg
Sign(x) == IF x.pre + x.post < 0 THEN -1 ELSE 1

MeantOperand(end) ==
    LET ind == First.open = "["
        x   == IndexText
    IN  CASE First.open = "#" -> Isa09!Imm(IF Line.name = "ldx" THEN Number % 65536 ELSE Number % 256)
          [] First.open # "#" /\ ~HasIndex -> Isa09!At(ind, "", Number)
          [] First.open # "#" /\ HasIndex /\ First.body = "expr" ->
               CASE Stepped(x) ->   \* n,-R and n,R+ of the HC12
                      Isa09!Step(ind, Reg(x), IF x.pre # 0 THEN "pre" ELSE "post", Sign(x) * Number)
                 [] ~Stepped(x) /\ Reg(x) = "PC" -> Isa09!At(ind, "", IF LocalBase THEN Number ELSE end + Number)
                 [] OTHER -> Isa09!At(ind, Reg(x), Number)
          [] First.open # "#" /\ HasIndex /\ First.body # "expr" ->
               CASE First.body # "" -> Isa09!Acc(ind, Reg(x), First.body)
                 [] First.body = "" /\ Stepped(x) ->
                      Isa09!Step(ind, Reg(x), IF x.pre # 0 THEN "pre" ELSE "post", x.pre + x.post)
                 [] OTHER -> Isa09!At(ind, Reg(x), 0)

Right6809 == Isa09!Effect(out.bytes, pc) = <<Operation, MeantOperand(pc + Len(out.bytes))>>
Right6502 == \/ Effect(out.bytes) = Meant
             \/ /\ "65816" \in cpus
                /\ Effect(out.bytes) = [Meant EXCEPT ![3] = @ % 65536]

\* Where the 6809 backend is known to write something else (each one seen in
\* the output of the assembler): the long branch rows have two short rows of
\* other processors before them; the HC12 has no LBSR, and OC_LBSR is row 0;
\* a constant PC offset is compared with the bounds of a distance, and with
\* -opt-pc a constant address becomes one; an operand without a row opcode
\* gets 65535; the Konami cpu has no documented PC modes.
Rerouted == \/ "branch" \in opt /\ Line.name = "lbsr" /\ cpus \in {"6809", "6309"}
            \/ "branch" \in opt /\ Line.name \in {"lbra", "lbeq", "bsr"} /\ cpus = "hc12"
ConstantPc == /\ HasIndex /\ Reg(IndexText) = "PC" /\ First.body = "expr"
              /\ ~LocalBase /\ First.e.left.base = "none"
              /\ \/ Number \in {-257, -18, -17} /\ cpus = "hc12"
                 \/ Number = -129 /\ cpus # "hc12"
                 \/ "aggressive" \in opt
ConstantIndirect == "pc" \in opt /\ First.open = "[" /\ ~HasIndex /\ ~LocalBase
LowByte == cpus = "hc12" /\ First.sel = "<"     \* an operator of the expression there
NoOpcode == Line.name = "leax" /\ ~HasIndex
KonamiPc == /\ cpus = "konami"
            /\ IF HasIndex THEN Reg(IndexText) = "PC" ELSE "pc" \in opt /\ First.open = "["

\* The Konami cpu's extended opcodes have two bytes, the branches and the
\* indexed opcodes they are optimized into have one: an internal error.
KonamiOpt == cpus = "konami" /\ Line.name \in {"jmp", "jsr", "adca"} /\ opt # {}

\* In the final pass the resolver's size is the number of bytes written, or
\* every label behind the instruction would be wrong (instruction_size and
\* eval_instruction optimize independently, the 6502 with different tables,
\* the 6809 on a copy and in a second loop over the operands).
SizeIsWritten == Emitted => \/ Len(out.bytes) = size
                            \/ Is6502 /\ out.ierror
                            \/ ~Is6502 /\ KonamiOpt /\ out.ierror

\* The bytes do what the source line says: without an error, a relocation or
\* a selector prefix, the encoding chosen by optimize_instruction (6502) or
\* process_instruction (6809) reaches the operand's address, under the
\* branch's condition.  (The 65816 takes its bank from a register, so only 16
\* bits of an absolute address count.)
EmittedEffect ==
    Clean => IF Is6502 THEN (\A i \in 1..Len(ip.op) : ip.op[i].flags = {}) => Right6502
                       ELSE Rerouted \/ ConstantPc \/ ConstantIndirect \/ LowByte \/ NoOpcode \/ KonamiPc \/ Right6809

\* With -opt-branch no branch to an address of the 16-bit space is out of
\* range: optimize_instruction's test is exactly the complement of the range
\* check on the displacement that eval_instruction writes, and the 6809's
\* Bcc and LBcc replace each other at the same distance.
BranchesFit ==
    /\ Emitted /\ ~out.reloc
    /\ IF Is6502
       THEN opt /\ Len(ip.op) = 1 /\ ip.op[1].type = "REL8" /\ vs[1].val \in 0..65535
       ELSE "branch" \in opt /\ Line.name \in BranchNames /\ Number \in 0..65535
    => ~out.err
=============================================================================
