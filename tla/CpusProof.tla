----------------------------- MODULE CpusProof -----------------------------
(***************************************************************************)
(* The 6502 and the 6809 backends keep what the resolver asks of them: the *)
(* size that instruction_size announces is the number of bytes that        *)
(* eval_instruction writes.                                                *)
(*                                                                         *)
(* Of the 6502 the module proves it for every instruction and every value  *)
(* of its operands (SizeIsBytesWritten), and with it that values of other  *)
(* sections do not choose the encoding and that short branches reach.      *)
(* Of the 6809 it follows an instruction from its line to its bytes: the   *)
(* operand that new_inst parses (MemoryInst, BranchInst), the sizes that   *)
(* process_instruction counts (Processed), and the bytes that are written  *)
(* (CountedIsWritten, Written6809).  The specification of MCCpus then      *)
(* keeps the invariant Inv, which ties the instruction to its line, and    *)
(* size and out to it (SizesAreWritten).                                   *)
(*                                                                         *)
(* The last part is about -opt-branch: no branch to an address of the      *)
(* 16-bit space is out of range (BranchesReach).                           *)
(***************************************************************************)
EXTENDS MCCpus, Wellorder, SequenceTheorems, TLAPS

\* The types that operands of the 6502 have, and operands.
OpTypes == DOMAIN Cpu(cpus, opt)!opsize
Operand == [type : OpTypes, flags : SUBSET {"LO", "HI", "WA", "BK"}]

\* The types of operands and their sizes.
LEMMA TypeFacts ==
    /\ OpTypes = {"ABS", "ABSY", "LABS", "DPAGE", "REL8", "REL16", "RELJMP", "IMMED8"}
    /\ \A t \in OpTypes : Cpu(cpus, opt)!opsize[t] \in Nat
  BY DEF OpTypes, Cpu!opsize

\* The optimizer gives an operand one of them.
LEMMA OptTypeIs ==
    ASSUME NEW inst, NEW op \in Operand, NEW v, NEW at, NEW abs
    PROVE  Cpu(cpus, opt)!OptType(inst, op, v, at, abs) \in OpTypes
  BY TypeFacts DEF Cpu!OptType, Operand

\* An operand is written with as many bytes as its type has.
LEMMA OperandLength ==
    ASSUME NEW op, op.type \in OpTypes, NEW val
    PROVE  Len(Cpu(cpus, opt)!OperandBytes(op, val)) = Cpu(cpus, opt)!opsize[op.type]
  <1>1. CASE op.type \in {"ABS", "ABSY", "REL16"}
    <2>1. Cpu(cpus, opt)!OperandBytes(op, val) = Cpu(cpus, opt)!Bytes2(val)
      BY <1>1, Zenon DEF Cpu!OperandBytes
    <2> QED BY <1>1, <2>1 DEF Cpu!Bytes2, Cpu!opsize
  <1>2. CASE op.type = "LABS"
    <2>1. Cpu(cpus, opt)!OperandBytes(op, val) = Cpu(cpus, opt)!Bytes3(val)
      BY <1>2, Zenon DEF Cpu!OperandBytes
    <2> QED BY <1>2, <2>1 DEF Cpu!Bytes2, Cpu!Bytes3, Cpu!opsize
  <1>3. CASE op.type = "RELJMP"
    <2>1. Cpu(cpus, opt)!OperandBytes(op, val) = <<3, 76>> \o Cpu(cpus, opt)!Bytes2(val)
      BY <1>3, Zenon DEF Cpu!OperandBytes
    <2> QED BY <1>3, <2>1 DEF Cpu!Bytes2, Cpu!opsize
  <1>4. CASE op.type \in {"DPAGE", "REL8", "IMMED8"}
    <2>1. Cpu(cpus, opt)!OperandBytes(op, val) = <<Cpu(cpus, opt)!Byte(val)>>
      BY <1>4, Zenon DEF Cpu!OperandBytes
    <2> QED BY <1>4, <2>1 DEF Cpu!opsize
  <1> QED BY <1>1, <1>2, <1>3, <1>4, TypeFacts

\* An instruction, with operands of the types in its row, and what they
\* evaluate to.
Instruction ==
    {inst \in [code : DOMAIN Cpu(cpus, opt)!mnemonics, op : Seq(Operand)] :
       /\ Len(inst.op) = Len(Cpu(cpus, opt)!mnemonics[inst.code].op)
       /\ \A i \in 1 .. Len(inst.op) : inst.op[i].type = Cpu(cpus, opt)!mnemonics[inst.code].op[i]}
ValuesOf(inst) == [1 .. Len(inst.op) -> [val : Int, base : Cpu(cpus, opt)!Bases]]

\* The optimizer keeps the number of operands and gives each one a type.
LEMMA Optimized ==
    ASSUME NEW inst \in Instruction, NEW vals, NEW at, NEW abs
    PROVE  LET new == Cpu(cpus, opt)!optimize_instruction(inst, vals, at, abs)
           IN  /\ new.op \in Seq(Operand)
               /\ Len(new.op) = Len(inst.op)
               /\ \A i \in 1 .. Len(inst.op) :
                     new.op[i].type = Cpu(cpus, opt)!OptType(inst, inst.op[i], vals[i], at, abs)
  <1> DEFINE n == Len(inst.op)
             new == Cpu(cpus, opt)!optimize_instruction(inst, vals, at, abs)
             new_op(i) == [inst.op[i] EXCEPT !.type = Cpu(cpus, opt)!OptType(inst, inst.op[i], vals[i], at, abs)]
  <1>1. inst.op \in Seq(Operand) /\ n \in Nat
    BY DEF Instruction
  <1>2. new.op = [i \in 1 .. n |-> new_op(i)]
    BY DEF Cpu!optimize_instruction
  <1>3. ASSUME NEW i \in 1 .. n
        PROVE  new_op(i) \in Operand /\ new_op(i).type = Cpu(cpus, opt)!OptType(inst, inst.op[i], vals[i], at, abs)
    <2>1. inst.op[i] \in Operand
      BY <1>1
    <2>2. Cpu(cpus, opt)!OptType(inst, inst.op[i], vals[i], at, abs) \in OpTypes
      BY <2>1, OptTypeIs
    <2> QED BY <2>1, <2>2 DEF Operand
  <1> HIDE DEF new, new_op
  <1>4. new.op \in [1 .. n -> Operand]
    BY <1>2, <1>3
  <1>5. new.op \in Seq(Operand) /\ Len(new.op) = n
    BY <1>1, <1>4
  <1>6. \A i \in 1 .. n : new.op[i].type = Cpu(cpus, opt)!OptType(inst, inst.op[i], vals[i], at, abs)
    BY <1>2, <1>3
  <1> QED BY <1>5, <1>6 DEF new

\* get_inst_size adds the sizes of the operands up.
LEMMA SizeAddsUp ==
    ASSUME NEW inst, inst.op \in Seq(Operand)
    PROVE  \E sizes \in [0 .. Len(inst.op) -> Nat] :
              /\ sizes[0] = 1
              /\ \A i \in 1 .. Len(inst.op) : sizes[i] = sizes[i - 1] + Cpu(cpus, opt)!opsize[inst.op[i].type]
              /\ Cpu(cpus, opt)!get_inst_size(inst) = sizes[Len(inst.op)]
  <1> DEFINE n == Len(inst.op)
             next == [i \in 1 .. n |-> [s \in Nat |-> s + Cpu(cpus, opt)!opsize[inst.op[i].type]]]
             sum(f) == [i \in 0 .. n |-> IF i = 0 THEN 1 ELSE f[i - 1] + Cpu(cpus, opt)!opsize[inst.op[i].type]]
  <1>1. n \in Nat
    OBVIOUS
  <1>2. next \in [1 .. n -> [Nat -> Nat]]
    <2>1. \A i \in 1 .. n : Cpu(cpus, opt)!opsize[inst.op[i].type] \in Nat
      <3>1. \A i \in 1 .. n : inst.op[i] \in Operand
        OBVIOUS
      <3> QED BY <3>1, TypeFacts DEF Operand
    <2>2. \A i \in 1 .. n : [s \in Nat |-> s + Cpu(cpus, opt)!opsize[inst.op[i].type]] \in [Nat -> Nat]
      BY <2>1
    <2> QED BY <2>2
  <1>3. PICK f \in [0 .. n -> Nat] :
           f[0] = 1 /\ \A i \in 1 .. n : f[i] = next[i][f[i - 1]]
    <2>1. Recursive(n, Nat, 1, next) # {}
      <3> HIDE DEF n, next
      <3> QED BY <1>1, <1>2, Recursion
    <2> QED BY <2>1 DEF Recursive
  <1>4. \A i \in 1 .. n : f[i] = f[i - 1] + Cpu(cpus, opt)!opsize[inst.op[i].type]
    <2>1. \A i \in 1 .. n : i - 1 \in 0 .. n
      BY <1>1
    <2> QED BY <1>3, <2>1
  <1>5. f = sum(f)
    BY <1>1, <1>3, <1>4
  <1> DEFINE sizes == CHOOSE s : s = sum(s)
  <1>6. sizes = sum(sizes)
    <2> HIDE DEF sum
    <2> QED BY <1>5, Zenon
  <1>7. Cpu(cpus, opt)!get_inst_size(inst) = sizes[n]
    BY DEF Cpu!get_inst_size
  <1> HIDE DEF sizes
  <1>8. sizes \in [0 .. n -> Nat] /\ sizes[0] = 1
        /\ \A i \in 1 .. n : sizes[i] = sizes[i - 1] + Cpu(cpus, opt)!opsize[inst.op[i].type]
    <2> DEFINE add(i) == Cpu(cpus, opt)!opsize[inst.op[i].type]
    <2>1. sizes[0] = 1 /\ \A i \in 1 .. n : sizes[i] = sizes[i - 1] + add(i)
      <3>1. sizes = [i \in 0 .. n |-> IF i = 0 THEN 1 ELSE sizes[i - 1] + add(i)]
        BY <1>6
      <3> HIDE DEF add, n
      <3> QED BY <1>1, <3>1
    <2>2. \A i \in 1 .. n : Cpu(cpus, opt)!opsize[inst.op[i].type] \in Nat
      <3>1. \A i \in 1 .. n : inst.op[i] \in Operand
        OBVIOUS
      <3> QED BY <3>1, TypeFacts DEF Operand
    <2> DEFINE T == {i \in 0 .. n : sizes[i] \in Nat}
    <2>3. 0 \in T
      BY <1>1, <2>1
    <2>4. \A i \in 1 .. n : i - 1 \in T => i \in T
      BY <1>1, <2>1, <2>2
    <2>5. \A i \in 0 .. n : i \in T
      <3> HIDE DEF T, n
      <3> QED BY <1>1, <2>3, <2>4, Induction
    <2>6. sizes \in [0 .. n -> Nat]
      BY <1>6, <2>5
    <2> QED BY <2>1, <2>6
  <1> QED BY <1>7, <1>8

\* The parts of a value are numbers.
LEMMA BytesAreNumbers ==
    ASSUME NEW op, op.type \in OpTypes, NEW val \in Int
    PROVE  Cpu(cpus, opt)!OperandBytes(op, val) \in Seq(Int)
  <1>1. Cpu(cpus, opt)!WORD \in Nat \ {0}
    BY PageAssumption DEF Cpu!WORD
  <1>2. Cpu(cpus, opt)!Byte(val) \in Int /\ Cpu(cpus, opt)!Byte(val \div PAGE) \in Int /\ Cpu(cpus, opt)!Byte(val \div Cpu(cpus, opt)!WORD) \in Int
    <2>1. \A k \in Int : Cpu(cpus, opt)!Byte(k) \in Int
      BY PageAssumption DEF Cpu!Byte
    <2>2. val \div PAGE \in Int /\ val \div Cpu(cpus, opt)!WORD \in Int
      BY <1>1, PageAssumption
    <2> QED BY <2>1, <2>2
  <1>3. Cpu(cpus, opt)!Bytes2(val) \in Seq(Int) /\ Cpu(cpus, opt)!Bytes3(val) \in Seq(Int) /\ << Cpu(cpus, opt)!Byte(val) >> \in Seq(Int)
        /\ << 3, 76 >> \o Cpu(cpus, opt)!Bytes2(val) \in Seq(Int)
    BY <1>2 DEF Cpu!Bytes2, Cpu!Bytes3
  <1> QED BY <1>3, Zenon DEF Cpu!OperandBytes

\* So is the value of an operand.
LEMMA ValueIsNumber ==
    ASSUME NEW op, op.type \in OpTypes, NEW v, v.val \in Int, NEW at \in Int, NEW offs \in Int,
           NEW abs
    PROVE  Cpu(cpus, opt)!OperandValue(op, v, at, offs, abs) \in Int
  <1>1. Cpu(cpus, opt)!WORD \in Nat \ {0} /\ Cpu(cpus, opt)!WORD * PAGE \in Nat \ {0}
    BY PageAssumption DEF Cpu!WORD
  <1>2. \A k \in Int : Cpu(cpus, opt)!Byte(k) \in Int
    BY PageAssumption DEF Cpu!Byte
  <1>3. /\ v.val - (at + offs + Cpu(cpus, opt)!opsize[op.type]) \in Int
        /\ v.val - Dpage \in Int
        /\ v.val % Cpu(cpus, opt)!WORD \in Int
        /\ v.val % (Cpu(cpus, opt)!WORD * PAGE) \in Int
        /\ Cpu(cpus, opt)!Byte(v.val \div Cpu(cpus, opt)!WORD) \in Int
        /\ Cpu(cpus, opt)!Byte(v.val \div PAGE) \in Int
        /\ Cpu(cpus, opt)!Byte(v.val) \in Int
    <2>1. Cpu(cpus, opt)!opsize[op.type] \in Nat
      BY TypeFacts
    <2>2. v.val \div Cpu(cpus, opt)!WORD \in Int /\ v.val \div PAGE \in Int
      BY <1>1, PageAssumption
    <2>3. v.val % Cpu(cpus, opt)!WORD \in Int /\ v.val % (Cpu(cpus, opt)!WORD * PAGE) \in Int
      BY <1>1, PageAssumption
    <2> QED BY <1>2, <2>1, <2>2, <2>3, DpageAssumption
  <1> QED BY <1>3, Zenon DEF Cpu!OperandValue

\* What eval_instruction has after one more operand.
Emit(inst, vals, at, abs, i, o) ==
    LET op  == Cpu(cpus, opt)!optimize_instruction(inst, vals, at, abs).op[i]
        val == Cpu(cpus, opt)!OperandValue(op, vals[i], at, Len(o.bytes), abs)
    IN  [bytes  |-> o.bytes \o Cpu(cpus, opt)!OperandBytes(op, val),
         err    |-> \/ o.err
                    \/ Cpu(cpus, opt)!SelectorError(Cpu(cpus, opt)!mnemonics[inst.code], inst.op[i])
                    \/ Cpu(cpus, opt)!rangecheck(op, vals[i], val),
         reloc  |-> o.reloc \/ ~Cpu(cpus, opt)!Resolved(op, vals[i], abs),
         ierror |-> o.ierror \/ (op.type = "RELJMP" /\ Len(o.bytes) > 1)]

Output(X) == [bytes : Seq(X), err : BOOLEAN, reloc : BOOLEAN, ierror : BOOLEAN]

\* Writing one operand keeps the output well formed.
LEMMA EmitIsOutput ==
    ASSUME NEW inst \in Instruction, NEW vals \in ValuesOf(inst), NEW at \in Int, NEW abs,
           NEW oc, NEW i \in 1 .. Len(inst.op), NEW o \in Output(Int \cup {oc})
    PROVE  Emit(inst, vals, at, abs, i, o) \in Output(Int \cup {oc})
  <1> DEFINE op == Cpu(cpus, opt)!optimize_instruction(inst, vals, at, abs).op[i]
             val == Cpu(cpus, opt)!OperandValue(op, vals[i], at, Len(o.bytes), abs)
             e == Emit(inst, vals, at, abs, i, o)
  <1>1. op.type \in OpTypes
    <2>1. inst.op[i] \in Operand
      BY DEF Instruction
    <2> QED BY <2>1, Optimized, OptTypeIs
  <1>2. vals[i].val \in Int
    BY DEF ValuesOf
  <1>3. o.bytes \in Seq(Int \cup {oc}) /\ Len(o.bytes) \in Int
    BY DEF Output
  <1>4. val \in Int
    <2> HIDE DEF op
    <2> QED BY <1>1, <1>2, <1>3, ValueIsNumber
  <1>5. Cpu(cpus, opt)!OperandBytes(op, val) \in Seq(Int)
    <2> HIDE DEF op, val
    <2> QED BY <1>1, <1>4, BytesAreNumbers
  <1>6. o.bytes \o Cpu(cpus, opt)!OperandBytes(op, val) \in Seq(Int \cup {oc})
    <2>1. Cpu(cpus, opt)!OperandBytes(op, val) \in Seq(Int \cup {oc})
      <3> HIDE DEF op, val
      <3> QED BY <1>5
    <2> HIDE DEF op, val
    <2> QED BY <1>3, <2>1
  <1>7. /\ (\/ o.err
            \/ Cpu(cpus, opt)!SelectorError(Cpu(cpus, opt)!mnemonics[inst.code], inst.op[i])
            \/ Cpu(cpus, opt)!rangecheck(op, vals[i], val)) \in BOOLEAN
        /\ (o.reloc \/ ~Cpu(cpus, opt)!Resolved(op, vals[i], abs)) \in BOOLEAN
        /\ (o.ierror \/ (op.type = "RELJMP" /\ Len(o.bytes) > 1)) \in BOOLEAN
    <2> HIDE DEF op, val
    <2> QED BY Zenon
  <1> QED BY <1>6, <1>7, Zenon DEF Emit, Output

\* The outputs after the opcode and after each of the operands.
OutputsOf(inst, vals, at, abs, outs) ==
    LET X == Int \cup {Cpu(cpus, opt)!Opcode(Cpu(cpus, opt)!optimize_instruction(inst, vals, at, abs))}
    IN  /\ outs \in [0 .. Len(inst.op) -> Output(X)]
        /\ Len(outs[0].bytes) = 1 /\ ~outs[0].err /\ ~outs[0].reloc
        /\ \A i \in 1 .. Len(inst.op) : outs[i] = Emit(inst, vals, at, abs, i, outs[i - 1])
        /\ Cpu(cpus, opt)!eval_instruction(inst, vals, at, abs) = outs[Len(inst.op)]

\* eval_instruction writes the opcode and then one operand after the other.
LEMMA OutputAddsUp ==
    ASSUME NEW inst \in Instruction, NEW vals \in ValuesOf(inst), NEW at \in Int, NEW abs
    PROVE  \E outs : OutputsOf(inst, vals, at, abs, outs)
  <1> DEFINE n == Len(inst.op)
             oc == Cpu(cpus, opt)!Opcode(Cpu(cpus, opt)!optimize_instruction(inst, vals, at, abs))
             X == Int \cup {oc}
             first == [bytes |-> << oc >>, err |-> FALSE, reloc |-> FALSE, ierror |-> FALSE]
             next == [i \in 1 .. n |-> [o \in Output(X) |-> Emit(inst, vals, at, abs, i, o)]]
             all(f) == [i \in 0 .. n |-> IF i = 0 THEN first ELSE Emit(inst, vals, at, abs, i, f[i - 1])]
  <1>1. n \in Nat
    BY DEF Instruction
  <1>2. first \in Output(X) /\ Len(first.bytes) = 1 /\ ~first.err /\ ~first.reloc
    <2>1. << oc >> \in Seq(X) /\ Len(<< oc >>) = 1
      <3> HIDE DEF oc
      <3> QED OBVIOUS
    <2> HIDE DEF oc, X
    <2> QED BY <2>1 DEF Output
  <1>3. \A i \in 1 .. n : \A o \in Output(X) : Emit(inst, vals, at, abs, i, o) \in Output(X)
    <2> HIDE DEF oc
    <2> QED BY EmitIsOutput
  <1> DEFINE outs == CHOOSE f : f = all(f)
  <1>4. Cpu(cpus, opt)!eval_instruction(inst, vals, at, abs) = outs[n]
    BY DEF Cpu!eval_instruction, Emit
  <1> HIDE DEF oc, X
  <1>5. next \in [1 .. n -> [Output(X) -> Output(X)]]
    <2>1. ASSUME NEW i \in 1 .. n
          PROVE  [o \in Output(X) |-> Emit(inst, vals, at, abs, i, o)] \in [Output(X) -> Output(X)]
      BY <1>3
    <2> QED BY <2>1
  <1>6. PICK f \in [0 .. n -> Output(X)] :
           f[0] = first /\ \A i \in 1 .. n : f[i] = Emit(inst, vals, at, abs, i, f[i - 1])
    <2>1. Recursive(n, Output(X), first, next) # {}
      <3> HIDE DEF n, next, first
      <3> QED BY <1>1, <1>2, <1>5, Recursion
    <2>2. PICK f \in Recursive(n, Output(X), first, next) : TRUE
      BY <2>1
    <2>3. f \in [0 .. n -> Output(X)] /\ f[0] = first /\ \A i \in 1 .. n : f[i] = next[i][f[i - 1]]
      <3> HIDE DEF n, next, first
      <3> QED BY <2>2 DEF Recursive
    <2>4. ASSUME NEW i \in 1 .. n PROVE f[i] = Emit(inst, vals, at, abs, i, f[i - 1])
      <3>1. i - 1 \in 0 .. n
        BY <1>1
      <3>2. f[i - 1] \in Output(X)
        BY <2>3, <3>1
      <3>3. next[i][f[i - 1]] = Emit(inst, vals, at, abs, i, f[i - 1])
        <4> HIDE DEF n
        <4> QED BY <3>2
      <3> HIDE DEF n, next, first
      <3> QED BY <2>3, <3>3
    <2> HIDE DEF n, next, first
    <2> QED BY <2>3, <2>4
  <1> HIDE DEF n, next, first
  <1>7. f = all(f)
    <2>1. DOMAIN f = 0 .. n
      BY <1>6
    <2>2. \A i \in 0 .. n : i # 0 => i \in 1 .. n
      BY <1>1
    <2> QED BY <1>6, <2>1, <2>2
  <1>8. outs = all(outs)
    <2> HIDE DEF all
    <2> QED BY <1>7, Zenon
  <1> HIDE DEF outs
  <1>9. outs[0] = first /\ \A i \in 1 .. n : outs[i] = Emit(inst, vals, at, abs, i, outs[i - 1])
    BY <1>1, <1>8
  <1>10. outs \in [0 .. n -> Output(X)]
    <2> DEFINE T == {i \in 0 .. n : outs[i] \in Output(X)}
    <2>1. 0 \in T
      BY <1>1, <1>2, <1>9
    <2>2. \A i \in 1 .. n : i - 1 \in T => i \in T
      BY <1>1, <1>3, <1>9
    <2>3. \A i \in 0 .. n : i \in T
      <3> HIDE DEF T
      <3> QED BY <1>1, <2>1, <2>2, Induction
    <2> QED BY <1>8, <2>3
  <1>11. Len(outs[0].bytes) = 1 /\ ~outs[0].err /\ ~outs[0].reloc
    BY <1>2, <1>9
  <1>12. OutputsOf(inst, vals, at, abs, outs)
    BY <1>4, <1>9, <1>10, <1>11, Zenon DEF OutputsOf, n, X, oc
  <1> QED BY <1>12

\* Whatever an instruction, the values of its operands, the pc and the kind
\* of the section: instruction_size, by which the resolver places what
\* follows, is the number of bytes that eval_instruction writes for the same
\* values (cpu.c:609, 677), also where the optimizer has changed modes.
THEOREM SizeIsBytesWritten ==
    ASSUME NEW inst \in Instruction, NEW vals \in ValuesOf(inst), NEW at \in Int,
           NEW abs \in BOOLEAN
    PROVE  Len(Cpu(cpus, opt)!eval_instruction(inst, vals, at, abs).bytes) = Cpu(cpus, opt)!instruction_size(inst, vals, at, abs)
  <1> DEFINE n == Len(inst.op)
             new == Cpu(cpus, opt)!optimize_instruction(inst, vals, at, abs)
             X == Int \cup {Cpu(cpus, opt)!Opcode(new)}
  <1>1. n \in Nat
    BY DEF Instruction
  <1>2. new.op \in Seq(Operand) /\ Len(new.op) = n
    BY Optimized
  <1>3. \A i \in 1 .. n : new.op[i].type \in OpTypes
    <2> HIDE DEF new
    <2>1. \A i \in 1 .. n : new.op[i] \in Operand
      BY <1>1, <1>2
    <2> QED BY <2>1 DEF Operand
  <1>4. PICK sizes \in [0 .. n -> Nat] :
           /\ sizes[0] = 1
           /\ \A i \in 1 .. n : sizes[i] = sizes[i - 1] + Cpu(cpus, opt)!opsize[new.op[i].type]
           /\ Cpu(cpus, opt)!get_inst_size(new) = sizes[n]
    <2> HIDE DEF new
    <2> QED BY <1>2, SizeAddsUp
  <1>0. PICK outs : OutputsOf(inst, vals, at, abs, outs)
    BY OutputAddsUp, Zenon
  <1>5. /\ outs \in [0 .. n -> Output(X)]
        /\ Len(outs[0].bytes) = 1
        /\ \A i \in 1 .. n : outs[i] = Emit(inst, vals, at, abs, i, outs[i - 1])
        /\ Cpu(cpus, opt)!eval_instruction(inst, vals, at, abs) = outs[n]
    BY <1>0, Zenon DEF OutputsOf
  <1>6. ASSUME NEW i \in 1 .. n, Len(outs[i - 1].bytes) = sizes[i - 1]
        PROVE  Len(outs[i].bytes) = sizes[i]
    <2> DEFINE val == Cpu(cpus, opt)!OperandValue(new.op[i], vals[i], at, Len(outs[i - 1].bytes), abs)
               tail == Cpu(cpus, opt)!OperandBytes(new.op[i], val)
    <2>1. outs[i].bytes = outs[i - 1].bytes \o tail
      <3>1. outs[i] = Emit(inst, vals, at, abs, i, outs[i - 1])
        BY <1>5
      <3>2. Emit(inst, vals, at, abs, i, outs[i - 1]).bytes = outs[i - 1].bytes \o tail
        <4> DEFINE o == outs[i - 1]
        <4>1. Emit(inst, vals, at, abs, i, o).bytes
                 = o.bytes \o Cpu(cpus, opt)!OperandBytes(new.op[i], Cpu(cpus, opt)!OperandValue(new.op[i], vals[i], at, Len(o.bytes), abs))
          <5> HIDE DEF o
          <5> QED BY DEF Emit
        <4> QED BY <4>1
      <3> HIDE DEF X, n, new, tail
      <3> QED BY <3>1, <3>2
    <2>2. outs[i - 1] \in Output(X)
      <3> HIDE DEF X, new, n
      <3>1. i - 1 \in 0 .. n
        BY <1>1
      <3> QED BY <1>5, <3>1
    <2>3. outs[i - 1].bytes \in Seq(X) /\ Len(outs[i - 1].bytes) \in Nat
      <3> HIDE DEF X, new, n
      <3> QED BY <2>2 DEF Output
    <2>4. vals[i].val \in Int
      BY DEF ValuesOf
    <2> HIDE DEF new, n
    <2>5. val \in Int
      BY <1>3, <2>3, <2>4, ValueIsNumber
    <2> HIDE DEF val
    <2>6. tail \in Seq(Int) /\ Len(tail) = Cpu(cpus, opt)!opsize[new.op[i].type]
      BY <1>3, <2>5, BytesAreNumbers, OperandLength
    <2>7. tail \in Seq(X)
      <3> HIDE DEF tail
      <3> QED BY <2>6 DEF X
    <2> HIDE DEF tail, X
    <2>8. Len(outs[i].bytes) = Len(outs[i - 1].bytes) + Len(tail)
      BY <2>1, <2>3, <2>7
    <2> QED BY <1>4, <1>6, <2>6, <2>8
  <1> DEFINE T == {i \in 0 .. n : Len(outs[i].bytes) = sizes[i]}
  <1> HIDE DEF n, new, X
  <1>7. 0 \in T
    <2>1. Len(outs[0].bytes) = sizes[0]
      BY <1>4, <1>5, Zenon
    <2> QED BY <1>1, <2>1
  <1>8. \A i \in 1 .. n : i - 1 \in T => i \in T
    BY <1>1, <1>6
  <1>9. n \in T
    <2> HIDE DEF T
    <2>1. \A i \in 0 .. n : i \in T
      BY <1>1, <1>7, <1>8, Induction
    <2> QED BY <1>1, <2>1
  <1> QED BY <1>4, <1>5, <1>9 DEF Cpu!instruction_size, new

\* The alternatives of optimize_instruction exclude each other: an absolute
\* operand is no branch, and an instruction with a branch is not JMP.
LEMMA AbsIsNoBranch ==
    ASSUME NEW inst, NEW op, Cpu(cpus, opt)!IsAbs(op.type), NEW v, NEW at, NEW abs
    PROVE  ~Cpu(cpus, opt)!OutOfReach(op, v, at, abs) /\ ~Cpu(cpus, opt)!InReach(inst, op, v, at, abs)
  BY DEF Cpu!IsAbs, Cpu!OutOfReach, Cpu!InReach

\* A branch that is out of reach is no jump that a branch could replace.
LEMMA BranchIsNoJump ==
    ASSUME NEW inst \in Instruction, NEW i \in 1 .. Len(inst.op), NEW u, NEW v, NEW at, NEW abs,
           Cpu(cpus, opt)!OutOfReach(inst.op[i], u, at, abs)
    PROVE  ~Cpu(cpus, opt)!InReach(inst, inst.op[i], v, at, abs)
  <1>1. inst.op[i].type = "REL8" /\ inst.op[i].type = Cpu(cpus, opt)!mnemonics[inst.code].op[i]
    BY DEF Cpu!OutOfReach, Instruction
  <1>2. inst.code # "jmp"
    <2>1. Cpu(cpus, opt)!mnemonics["jmp"].op = << "ABS" >>
      BY DEF Cpu!mnemonics
    <2>2. Len(inst.op) = Len(Cpu(cpus, opt)!mnemonics[inst.code].op)
      BY DEF Instruction
    <2> QED BY <1>1, <2>1, <2>2
  <1> QED BY <1>2 DEF Cpu!InReach

\* The type in each alternative.
LEMMA ZeroPageType ==
    ASSUME NEW inst, NEW op, NEW v, NEW at, NEW abs, Cpu(cpus, opt)!IsAbs(op.type),
           Cpu(cpus, opt)!ToZeroPage(Cpu(cpus, opt)!mnemonics[inst.code], op, v)
    PROVE  Cpu(cpus, opt)!OptType(inst, op, v, at, abs) = "DPAGE"
  BY AbsIsNoBranch, Zenon DEF Cpu!OptType

\* An absolute operand that needs a bank byte becomes a long one.
LEMMA LongType ==
    ASSUME NEW inst, NEW op, NEW v, NEW at, NEW abs, Cpu(cpus, opt)!IsAbs(op.type),
           ~Cpu(cpus, opt)!ToZeroPage(Cpu(cpus, opt)!mnemonics[inst.code], op, v), Cpu(cpus, opt)!ToLong(Cpu(cpus, opt)!mnemonics[inst.code], op, v)
    PROVE  Cpu(cpus, opt)!OptType(inst, op, v, at, abs) = "LABS"
  BY AbsIsNoBranch, Zenon DEF Cpu!OptType

\* A branch out of reach becomes a jump, over it when it has a condition.
LEMMA FarBranchType ==
    ASSUME NEW inst, NEW op, NEW v, NEW at, NEW abs, ~Cpu(cpus, opt)!IsAbs(op.type),
           Cpu(cpus, opt)!OutOfReach(op, v, at, abs), ~Cpu(cpus, opt)!InReach(inst, op, v, at, abs)
    PROVE  Cpu(cpus, opt)!OptType(inst, op, v, at, abs) = IF Cpu(cpus, opt)!IsBra(Cpu(cpus, opt)!mnemonics[inst.code]) THEN "ABS" ELSE "RELJMP"
  BY Zenon DEF Cpu!OptType

\* A jump within reach becomes a branch.
LEMMA NearJumpType ==
    ASSUME NEW inst, NEW op, NEW v, NEW at, NEW abs, ~Cpu(cpus, opt)!IsAbs(op.type),
           ~Cpu(cpus, opt)!OutOfReach(op, v, at, abs), Cpu(cpus, opt)!InReach(inst, op, v, at, abs)
    PROVE  Cpu(cpus, opt)!OptType(inst, op, v, at, abs) = "REL8"
  BY Zenon DEF Cpu!OptType

\* An operand that optimize_instruction leaves as it is: it keeps its type.
Stays(inst, op, v, at, abs) ==
    /\ ~(Cpu(cpus, opt)!IsAbs(op.type) /\ Cpu(cpus, opt)!ToZeroPage(Cpu(cpus, opt)!mnemonics[inst.code], op, v))
    /\ ~(Cpu(cpus, opt)!IsAbs(op.type) /\ Cpu(cpus, opt)!ToLong(Cpu(cpus, opt)!mnemonics[inst.code], op, v))
    /\ ~Cpu(cpus, opt)!OutOfReach(op, v, at, abs) /\ ~Cpu(cpus, opt)!InReach(inst, op, v, at, abs)

\* In a relocatable section no size depends on where another section ends up:
\* the size of an instruction is the same for two values of an operand based
\* on a label of another section or an external symbol (is_pc_reloc,
\* reloc.c:66, and the tests of base in optimize_instruction, cpu.c:543-578).  The
\* resolver takes this for granted when it resolves one section at a time.
THEOREM ForeignValuesIrrelevant ==
    ASSUME NEW inst \in Instruction, NEW vals \in ValuesOf(inst), NEW ws \in ValuesOf(inst), NEW at \in Int,
           \A i \in 1 .. Len(inst.op) :
              \/ ws[i] = vals[i]
              \/ ws[i].base = vals[i].base /\ vals[i].base \notin {"none", "here"}
    PROVE  Cpu(cpus, opt)!instruction_size(inst, ws, at, FALSE) = Cpu(cpus, opt)!instruction_size(inst, vals, at, FALSE)
  <1>1. ASSUME NEW i \in 1 .. Len(inst.op), NEW mnemo, NEW op
        PROVE  /\ Cpu(cpus, opt)!ToZeroPage(mnemo, op, ws[i]) <=> Cpu(cpus, opt)!ToZeroPage(mnemo, op, vals[i])
               /\ Cpu(cpus, opt)!ToLong(mnemo, op, ws[i]) <=> Cpu(cpus, opt)!ToLong(mnemo, op, vals[i])
               /\ Cpu(cpus, opt)!OutOfReach(op, ws[i], at, FALSE) <=> Cpu(cpus, opt)!OutOfReach(op, vals[i], at, FALSE)
               /\ Cpu(cpus, opt)!InReach(inst, op, ws[i], at, FALSE) <=> Cpu(cpus, opt)!InReach(inst, op, vals[i], at, FALSE)
    <2>1. CASE ws[i] = vals[i]
      BY <2>1
    <2>2. CASE ws[i].base = vals[i].base /\ vals[i].base \notin {"none", "here"}
      <3>1. vals[i].base \in Cpu(cpus, opt)!Bases
        BY DEF ValuesOf
      <3>2. Cpu(cpus, opt)!is_pc_reloc(vals[i].base, FALSE)
        BY <2>2, <3>1 DEF Cpu!is_pc_reloc, Cpu!ExtRef, Cpu!LocRef, Cpu!Bases
      <3>3. Cpu(cpus, opt)!ToZeroPage(mnemo, op, ws[i]) <=> Cpu(cpus, opt)!ToZeroPage(mnemo, op, vals[i])
        BY <2>2, Zenon DEF Cpu!ToZeroPage
      <3>4. Cpu(cpus, opt)!ToLong(mnemo, op, ws[i]) <=> Cpu(cpus, opt)!ToLong(mnemo, op, vals[i])
        BY <2>2, Zenon DEF Cpu!ToLong
      <3>5. ~Cpu(cpus, opt)!OutOfReach(op, ws[i], at, FALSE) /\ ~Cpu(cpus, opt)!OutOfReach(op, vals[i], at, FALSE)
        BY <2>2, <3>2, Zenon DEF Cpu!OutOfReach
      <3>6. ~Cpu(cpus, opt)!InReach(inst, op, ws[i], at, FALSE) /\ ~Cpu(cpus, opt)!InReach(inst, op, vals[i], at, FALSE)
        BY <2>2, <3>2, Zenon DEF Cpu!InReach
      <3> QED BY <3>3, <3>4, <3>5, <3>6, Zenon
    <2> QED BY <2>1, <2>2
  <1>2. ASSUME NEW i \in 1 .. Len(inst.op)
        PROVE  Cpu(cpus, opt)!OptType(inst, inst.op[i], ws[i], at, FALSE) = Cpu(cpus, opt)!OptType(inst, inst.op[i], vals[i], at, FALSE)
    <2> DEFINE op == inst.op[i]
               m == Cpu(cpus, opt)!mnemonics[inst.code]
               type(us) == Cpu(cpus, opt)!OptType(inst, op, us[i], at, FALSE)
    <2>1. op \in Operand
      BY DEF Instruction
    <2>2. CASE Cpu(cpus, opt)!IsAbs(op.type)
      <3>1. ~Cpu(cpus, opt)!OutOfReach(op, vals[i], at, FALSE) /\ ~Cpu(cpus, opt)!OutOfReach(op, ws[i], at, FALSE)
        BY <2>2, AbsIsNoBranch
      <3>2. ~Cpu(cpus, opt)!InReach(inst, op, vals[i], at, FALSE) /\ ~Cpu(cpus, opt)!InReach(inst, op, ws[i], at, FALSE)
        BY <2>2, AbsIsNoBranch
      <3>3. CASE Cpu(cpus, opt)!ToZeroPage(m, op, vals[i])
        <4>1. type(vals) = "DPAGE" /\ type(ws) = "DPAGE"
          BY <1>1, <2>2, <3>1, <3>2, <3>3, ZeroPageType
        <4> QED BY <4>1
      <3>4. CASE ~Cpu(cpus, opt)!ToZeroPage(m, op, vals[i]) /\ Cpu(cpus, opt)!ToLong(m, op, vals[i])
        <4>1. type(vals) = "LABS" /\ type(ws) = "LABS"
          BY <1>1, <2>2, <3>4, LongType
        <4> QED BY <4>1
      <3>5. CASE ~Cpu(cpus, opt)!ToZeroPage(m, op, vals[i]) /\ ~Cpu(cpus, opt)!ToLong(m, op, vals[i])
        <4>1. ~Cpu(cpus, opt)!ToZeroPage(m, op, ws[i]) /\ ~Cpu(cpus, opt)!ToLong(m, op, ws[i])
          BY <1>1, <3>5
        <4>2. Stays(inst, op, vals[i], at, FALSE) /\ Stays(inst, op, ws[i], at, FALSE)
          BY <3>1, <3>2, <3>5, <4>1, Zenon DEF Stays
        <4>3. type(vals) = op.type /\ type(ws) = op.type
          BY <4>2, Zenon DEF Stays, Cpu!OptType
        <4> QED BY <4>3
      <3> QED BY <3>3, <3>4, <3>5
    <2>3. CASE ~Cpu(cpus, opt)!IsAbs(op.type)
      <3>1. CASE Cpu(cpus, opt)!OutOfReach(op, vals[i], at, FALSE)
        <4>1. Cpu(cpus, opt)!OutOfReach(op, ws[i], at, FALSE)
          BY <1>1, <3>1
        <4>2. ~Cpu(cpus, opt)!InReach(inst, op, vals[i], at, FALSE) /\ ~Cpu(cpus, opt)!InReach(inst, op, ws[i], at, FALSE)
          BY <3>1, BranchIsNoJump
        <4> QED BY <2>3, <3>1, <4>1, <4>2, FarBranchType
      <3>2. CASE ~Cpu(cpus, opt)!OutOfReach(op, vals[i], at, FALSE) /\ Cpu(cpus, opt)!InReach(inst, op, vals[i], at, FALSE)
        <4>1. type(vals) = "REL8" /\ type(ws) = "REL8"
          BY <1>1, <2>3, <3>2, NearJumpType
        <4> QED BY <4>1
      <3>3. CASE ~Cpu(cpus, opt)!OutOfReach(op, vals[i], at, FALSE) /\ ~Cpu(cpus, opt)!InReach(inst, op, vals[i], at, FALSE)
        <4>1. ~Cpu(cpus, opt)!OutOfReach(op, ws[i], at, FALSE) /\ ~Cpu(cpus, opt)!InReach(inst, op, ws[i], at, FALSE)
          BY <1>1, <3>3
        <4>2. Stays(inst, op, vals[i], at, FALSE) /\ Stays(inst, op, ws[i], at, FALSE)
          BY <2>3, <3>3, <4>1, Zenon DEF Stays
        <4>3. type(vals) = op.type /\ type(ws) = op.type
          BY <4>2, Zenon DEF Stays, Cpu!OptType
        <4> QED BY <4>3
      <3> QED BY <3>1, <3>2, <3>3
    <2> QED BY <2>2, <2>3
  <1> DEFINE new(us) == Cpu(cpus, opt)!optimize_instruction(inst, us, at, FALSE)
  <1>3. new(ws).op = new(vals).op
    BY <1>2 DEF Cpu!optimize_instruction
  <1>4. Cpu(cpus, opt)!get_inst_size(new(ws)) = Cpu(cpus, opt)!get_inst_size(new(vals))
    <2> HIDE DEF new
    <2> QED BY <1>3 DEF Cpu!get_inst_size
  <1> QED BY <1>4 DEF Cpu!instruction_size

\* Option -opt-branch.
Branchopt == opt = TRUE

\* With -opt-branch, a branch to a label of the same section or to an
\* absolute address that instruction_size has left short (cpu.c:566) is
\* written without a message: its distance, counted by eval_instruction from
\* the end of the instruction (cpu.c:745), passes the range check.  Bit
\* branches, whose instructions are one byte longer than the test of the
\* distance assumes, have two operands.
THEOREM ShortBranchesReach ==
    ASSUME Branchopt, NEW inst \in Instruction, Len(inst.op) = 1, NEW vals \in ValuesOf(inst),
           NEW at \in Int, NEW abs \in BOOLEAN,
           Cpu(cpus, opt)!optimize_instruction(inst, vals, at, abs).op[1].type = "REL8",
           Cpu(cpus, opt)!Resolved(inst.op[1], vals[1], abs)
    PROVE  /\ ~Cpu(cpus, opt)!eval_instruction(inst, vals, at, abs).err
           /\ ~Cpu(cpus, opt)!eval_instruction(inst, vals, at, abs).reloc
  <1> DEFINE op == inst.op[1]
             v == vals[1]
             new == Cpu(cpus, opt)!optimize_instruction(inst, vals, at, abs).op[1]
  <1>1. 1 \in 1 .. Len(inst.op) /\ op \in Operand /\ v.val \in Int
    BY DEF Instruction, ValuesOf
  <1>2. Cpu(cpus, opt)!OptType(inst, op, v, at, abs) = "REL8" /\ new.type = "REL8"
    <2>1. \A i \in 1 .. Len(inst.op) :
             Cpu(cpus, opt)!optimize_instruction(inst, vals, at, abs).op[i].type
               = Cpu(cpus, opt)!OptType(inst, inst.op[i], vals[i], at, abs)
      BY Optimized
    <2> QED BY <1>1, <2>1
  <1>3. ~Cpu(cpus, opt)!InReach(inst, op, v, at, abs)
    <2>1. CASE inst.code = "jmp"
      <3>1. op.type = "ABS"
        <4>1. Cpu(cpus, opt)!mnemonics["jmp"].op = << "ABS" >>
          BY DEF Cpu!mnemonics
        <4>2. op.type = Cpu(cpus, opt)!mnemonics[inst.code].op[1]
          BY <1>1 DEF Instruction
        <4> QED BY <2>1, <4>1, <4>2
      <3> QED BY <3>1 DEF Cpu!InReach, Cpu!IsAbs
    <2>2. CASE inst.code # "jmp"
      BY <2>2 DEF Cpu!InReach
    <2> QED BY <2>1, <2>2
  <1>4. ~Cpu(cpus, opt)!OutOfReach(op, v, at, abs)
    <2>1. ASSUME Cpu(cpus, opt)!OutOfReach(op, v, at, abs) PROVE FALSE
      <3>1. ~Cpu(cpus, opt)!IsAbs(op.type)
        BY <2>1 DEF Cpu!OutOfReach, Cpu!IsAbs
      <3>2. Cpu(cpus, opt)!OptType(inst, op, v, at, abs) = IF Cpu(cpus, opt)!IsBra(Cpu(cpus, opt)!mnemonics[inst.code]) THEN "ABS" ELSE "RELJMP"
        BY <1>3, <2>1, <3>1, FarBranchType
      <3> QED BY <1>2, <3>2
    <2> QED BY <2>1
  <1>5. op.type = "REL8"
    <2>1. CASE Cpu(cpus, opt)!IsAbs(op.type) /\ Cpu(cpus, opt)!ToZeroPage(Cpu(cpus, opt)!mnemonics[inst.code], op, v)
      BY <1>2, <2>1, ZeroPageType
    <2>2. CASE /\ Cpu(cpus, opt)!IsAbs(op.type) /\ ~Cpu(cpus, opt)!ToZeroPage(Cpu(cpus, opt)!mnemonics[inst.code], op, v)
               /\ Cpu(cpus, opt)!ToLong(Cpu(cpus, opt)!mnemonics[inst.code], op, v)
      BY <1>2, <2>2, LongType
    <2>3. CASE /\ ~(Cpu(cpus, opt)!IsAbs(op.type) /\ Cpu(cpus, opt)!ToZeroPage(Cpu(cpus, opt)!mnemonics[inst.code], op, v))
               /\ ~(Cpu(cpus, opt)!IsAbs(op.type) /\ Cpu(cpus, opt)!ToLong(Cpu(cpus, opt)!mnemonics[inst.code], op, v))
      <3>1. Stays(inst, op, v, at, abs)
        BY <1>3, <1>4, <2>3, Zenon DEF Stays
      <3>2. Cpu(cpus, opt)!OptType(inst, op, v, at, abs) = op.type
        BY <3>1, Zenon DEF Stays, Cpu!OptType
      <3> QED BY <1>2, <3>2
    <2> QED BY <2>1, <2>2, <2>3
  <1>6. /\ v.base = "none" \/ ~Cpu(cpus, opt)!is_pc_reloc(v.base, abs)
        /\ Cpu(cpus, opt)!Resolved(new, v, abs)
    BY <1>2, <1>5 DEF Cpu!Resolved
  <1>7. v.val - (at + 2) \in -REACH .. REACH - 1
    BY <1>4, <1>5, <1>6 DEF Cpu!OutOfReach, Branchopt
  <1>8. PICK outs : /\ Len(outs[0].bytes) = 1
                   /\ ~outs[0].err /\ ~outs[0].reloc
                   /\ outs[1] = Emit(inst, vals, at, abs, 1, outs[0])
                   /\ Cpu(cpus, opt)!eval_instruction(inst, vals, at, abs) = outs[1]
    <2>0. PICK outs : OutputsOf(inst, vals, at, abs, outs)
      BY OutputAddsUp, Zenon
    <2>1. /\ Len(outs[0].bytes) = 1 /\ ~outs[0].err /\ ~outs[0].reloc
          /\ \A i \in 1 .. Len(inst.op) : outs[i] = Emit(inst, vals, at, abs, i, outs[i - 1])
          /\ Cpu(cpus, opt)!eval_instruction(inst, vals, at, abs) = outs[Len(inst.op)]
      BY <2>0, Zenon DEF OutputsOf
    <2>2. outs[1] = Emit(inst, vals, at, abs, 1, outs[1 - 1])
      BY <1>1, <2>1
    <2>3. 1 - 1 = 0
      OBVIOUS
    <2>4. outs[1] = Emit(inst, vals, at, abs, 1, outs[0])
      BY <2>2, <2>3
    <2>5. Cpu(cpus, opt)!eval_instruction(inst, vals, at, abs) = outs[1]
      BY <2>1
    <2> QED BY <2>1, <2>4, <2>5, Zenon
  <1> DEFINE val == Cpu(cpus, opt)!OperandValue(new, v, at, 1, abs)
  <1>9. val = v.val - (at + 2)
    <2>1. val = v.val - (at + 1 + Cpu(cpus, opt)!opsize[new.type])
      BY <1>2, <1>6, Zenon DEF Cpu!OperandValue
    <2> QED BY <1>1, <1>2, <2>1 DEF Cpu!opsize
  <1>10. ~Cpu(cpus, opt)!rangecheck(new, v, val)
    BY <1>2, <1>7, <1>9 DEF Cpu!rangecheck
  <1>11. ~Cpu(cpus, opt)!SelectorError(Cpu(cpus, opt)!mnemonics[inst.code], op)
    BY <1>5 DEF Cpu!SelectorError, Cpu!IsAbs
  <1>12. ~outs[1].err /\ ~outs[1].reloc
    <2> DEFINE o == outs[0]
               val0 == Cpu(cpus, opt)!OperandValue(new, v, at, Len(o.bytes), abs)
    <2>1. val0 = val
      BY <1>8
    <2>2. /\ Emit(inst, vals, at, abs, 1, o).err
                = (o.err \/ Cpu(cpus, opt)!SelectorError(Cpu(cpus, opt)!mnemonics[inst.code], op) \/ Cpu(cpus, opt)!rangecheck(new, v, val0))
          /\ Emit(inst, vals, at, abs, 1, o).reloc = (o.reloc \/ ~Cpu(cpus, opt)!Resolved(new, v, abs))
      <3> HIDE DEF o
      <3> QED BY DEF Emit
    <2>3. ~o.err /\ ~o.reloc /\ outs[1] = Emit(inst, vals, at, abs, 1, o)
      BY <1>8
    <2>4. ~Cpu(cpus, opt)!rangecheck(new, v, val0)
      <3> HIDE DEF val0, val, new, v, o
      <3> QED BY <1>10, <2>1
    <2> HIDE DEF val0, new, op, v, o
    <2> QED BY <1>6, <1>11, <2>2, <2>3, <2>4, Zenon
  <1> QED BY <1>8, <1>12

\* The rows of the table, by name.
LEMMA RowNames ==
    /\ DOMAIN Cpu09(cpus, opt)!mnemonics = 0 .. 43
    /\ \A name : Cpu09(cpus, opt)!RowsOf(name) = {i \in 0 .. 43 : Cpu09(cpus, opt)!mnemonics[i].name = name}
  <1>1. Len(Cpu09(cpus, opt)!Rows) = 44
    BY DEF Cpu09!Rows
  <1> QED BY <1>1 DEF Cpu09!mnemonics, Cpu09!RowsOf

BranchRow(i, name, type, bytes, where) ==
    /\ Cpu09(cpus, opt)!mnemonics[i].name = name
    /\ Cpu09(cpus, opt)!mnemonics[i].op = << {type} >>
    /\ Cpu09(cpus, opt)!OcSize(i, "STD") = bytes
    /\ Cpu09(cpus, opt)!mnemonics[i].cpus = where

MemoryRow(i, types, dir, idx, ext, where) ==
    /\ Cpu09(cpus, opt)!mnemonics[i].op = << types >>
    /\ Cpu09(cpus, opt)!OcSize(i, "DIR") = dir /\ Cpu09(cpus, opt)!OcSize(i, "IDX") = idx /\ Cpu09(cpus, opt)!OcSize(i, "EXT") = ext
    /\ Cpu09(cpus, opt)!mnemonics[i].cpus = where

\* The rows of the branches: their name, distance, opcode size and
\* processors.
LEMMA BranchRows ==
    /\ BranchRow(27, "bsr", "RLS", 1, Cpu09(cpus, opt)!M09)
    /\ BranchRow(28, "bsr", "RLS", 1, {"hc12"})
    /\ BranchRow(29, "bsr", "RLS", 1, {"konami"})
    /\ BranchRow(30, "lbsr", "RLL", 1, Cpu09(cpus, opt)!M09)
    /\ BranchRow(31, "lbsr", "RLL", 1, {"konami"})
    /\ BranchRow(32, "bra", "RLS", 1, Cpu09(cpus, opt)!M09)
    /\ BranchRow(33, "bra", "RLS", 1, {"hc12"})
    /\ BranchRow(34, "bra", "RLS", 1, {"konami"})
    /\ BranchRow(35, "lbra", "RLL", 1, Cpu09(cpus, opt)!M09)
    /\ BranchRow(36, "lbra", "RLL", 2, {"hc12"})
    /\ BranchRow(37, "lbra", "RLL", 1, {"konami"})
    /\ BranchRow(38, "beq", "RLS", 1, Cpu09(cpus, opt)!M09)
    /\ BranchRow(39, "beq", "RLS", 1, {"hc12"})
    /\ BranchRow(40, "beq", "RLS", 1, {"konami"})
    /\ BranchRow(41, "lbeq", "RLL", 2, Cpu09(cpus, opt)!M09)
    /\ BranchRow(42, "lbeq", "RLL", 2, {"hc12"})
    /\ BranchRow(43, "lbeq", "RLL", 1, {"konami"})
  <1>1. BranchRow(27, "bsr", "RLS", 1, Cpu09(cpus, opt)!M09)
    <2>1. Cpu09(cpus, opt)!mnemonics[27] = Cpu09(cpus, opt)!Branch("bsr", "RLS", 141, Cpu09(cpus, opt)!M09)
      BY SMTT(30) DEF Cpu09!mnemonics, Cpu09!Rows
    <2> QED BY <2>1 DEF BranchRow, Cpu09!Row, Cpu09!Branch, Cpu09!OcSize, Cpu09!NA
  <1>2. BranchRow(28, "bsr", "RLS", 1, {"hc12"})
    <2>1. Cpu09(cpus, opt)!mnemonics[28] = Cpu09(cpus, opt)!Branch("bsr", "RLS", 7, {"hc12"})
      BY SMTT(30) DEF Cpu09!mnemonics, Cpu09!Rows
    <2> QED BY <2>1 DEF BranchRow, Cpu09!Row, Cpu09!Branch, Cpu09!OcSize, Cpu09!NA
  <1>3. BranchRow(29, "bsr", "RLS", 1, {"konami"})
    <2>1. Cpu09(cpus, opt)!mnemonics[29] = Cpu09(cpus, opt)!Branch("bsr", "RLS", 170, {"konami"})
      BY SMTT(30) DEF Cpu09!mnemonics, Cpu09!Rows
    <2> QED BY <2>1 DEF BranchRow, Cpu09!Row, Cpu09!Branch, Cpu09!OcSize, Cpu09!NA
  <1>4. BranchRow(30, "lbsr", "RLL", 1, Cpu09(cpus, opt)!M09)
    <2>1. Cpu09(cpus, opt)!mnemonics[30] = Cpu09(cpus, opt)!Branch("lbsr", "RLL", 23, Cpu09(cpus, opt)!M09)
      BY SMTT(30) DEF Cpu09!mnemonics, Cpu09!Rows
    <2> QED BY <2>1 DEF BranchRow, Cpu09!Row, Cpu09!Branch, Cpu09!OcSize, Cpu09!NA
  <1>5. BranchRow(31, "lbsr", "RLL", 1, {"konami"})
    <2>1. Cpu09(cpus, opt)!mnemonics[31] = Cpu09(cpus, opt)!Branch("lbsr", "RLL", 171, {"konami"})
      BY SMTT(30) DEF Cpu09!mnemonics, Cpu09!Rows
    <2> QED BY <2>1 DEF BranchRow, Cpu09!Row, Cpu09!Branch, Cpu09!OcSize, Cpu09!NA
  <1>6. BranchRow(32, "bra", "RLS", 1, Cpu09(cpus, opt)!M09)
    <2>1. Cpu09(cpus, opt)!mnemonics[32] = Cpu09(cpus, opt)!Branch("bra", "RLS", 32, Cpu09(cpus, opt)!M09)
      BY SMTT(30) DEF Cpu09!mnemonics, Cpu09!Rows
    <2> QED BY <2>1 DEF BranchRow, Cpu09!Row, Cpu09!Branch, Cpu09!OcSize, Cpu09!NA
  <1>7. BranchRow(33, "bra", "RLS", 1, {"hc12"})
    <2>1. Cpu09(cpus, opt)!mnemonics[33] = Cpu09(cpus, opt)!Branch("bra", "RLS", 32, {"hc12"})
      BY SMTT(30) DEF Cpu09!mnemonics, Cpu09!Rows
    <2> QED BY <2>1 DEF BranchRow, Cpu09!Row, Cpu09!Branch, Cpu09!OcSize, Cpu09!NA
  <1>8. BranchRow(34, "bra", "RLS", 1, {"konami"})
    <2>1. Cpu09(cpus, opt)!mnemonics[34] = Cpu09(cpus, opt)!Branch("bra", "RLS", 96, {"konami"})
      BY SMTT(30) DEF Cpu09!mnemonics, Cpu09!Rows
    <2> QED BY <2>1 DEF BranchRow, Cpu09!Row, Cpu09!Branch, Cpu09!OcSize, Cpu09!NA
  <1>9. BranchRow(35, "lbra", "RLL", 1, Cpu09(cpus, opt)!M09)
    <2>1. Cpu09(cpus, opt)!mnemonics[35] = Cpu09(cpus, opt)!Branch("lbra", "RLL", 22, Cpu09(cpus, opt)!M09)
      BY SMTT(30) DEF Cpu09!mnemonics, Cpu09!Rows
    <2> QED BY <2>1 DEF BranchRow, Cpu09!Row, Cpu09!Branch, Cpu09!OcSize, Cpu09!NA
  <1>10. BranchRow(36, "lbra", "RLL", 2, {"hc12"})
    <2>1. Cpu09(cpus, opt)!mnemonics[36] = Cpu09(cpus, opt)!Branch("lbra", "RLL", 6176, {"hc12"})
      BY SMTT(30) DEF Cpu09!mnemonics, Cpu09!Rows
    <2> QED BY <2>1 DEF BranchRow, Cpu09!Row, Cpu09!Branch, Cpu09!OcSize, Cpu09!NA
  <1>11. BranchRow(37, "lbra", "RLL", 1, {"konami"})
    <2>1. Cpu09(cpus, opt)!mnemonics[37] = Cpu09(cpus, opt)!Branch("lbra", "RLL", 104, {"konami"})
      BY SMTT(30) DEF Cpu09!mnemonics, Cpu09!Rows
    <2> QED BY <2>1 DEF BranchRow, Cpu09!Row, Cpu09!Branch, Cpu09!OcSize, Cpu09!NA
  <1>12. BranchRow(38, "beq", "RLS", 1, Cpu09(cpus, opt)!M09)
    <2>1. Cpu09(cpus, opt)!mnemonics[38] = Cpu09(cpus, opt)!Branch("beq", "RLS", 39, Cpu09(cpus, opt)!M09)
      BY SMTT(30) DEF Cpu09!mnemonics, Cpu09!Rows
    <2> QED BY <2>1 DEF BranchRow, Cpu09!Row, Cpu09!Branch, Cpu09!OcSize, Cpu09!NA
  <1>13. BranchRow(39, "beq", "RLS", 1, {"hc12"})
    <2>1. Cpu09(cpus, opt)!mnemonics[39] = Cpu09(cpus, opt)!Branch("beq", "RLS", 39, {"hc12"})
      BY SMTT(30) DEF Cpu09!mnemonics, Cpu09!Rows
    <2> QED BY <2>1 DEF BranchRow, Cpu09!Row, Cpu09!Branch, Cpu09!OcSize, Cpu09!NA
  <1>14. BranchRow(40, "beq", "RLS", 1, {"konami"})
    <2>1. Cpu09(cpus, opt)!mnemonics[40] = Cpu09(cpus, opt)!Branch("beq", "RLS", 115, {"konami"})
      BY SMTT(30) DEF Cpu09!mnemonics, Cpu09!Rows
    <2> QED BY <2>1 DEF BranchRow, Cpu09!Row, Cpu09!Branch, Cpu09!OcSize, Cpu09!NA
  <1>15. BranchRow(41, "lbeq", "RLL", 2, Cpu09(cpus, opt)!M09)
    <2>1. Cpu09(cpus, opt)!mnemonics[41] = Cpu09(cpus, opt)!Branch("lbeq", "RLL", 4135, Cpu09(cpus, opt)!M09)
      BY SMTT(30) DEF Cpu09!mnemonics, Cpu09!Rows
    <2> QED BY <2>1 DEF BranchRow, Cpu09!Row, Cpu09!Branch, Cpu09!OcSize, Cpu09!NA
  <1>16. BranchRow(42, "lbeq", "RLL", 2, {"hc12"})
    <2>1. Cpu09(cpus, opt)!mnemonics[42] = Cpu09(cpus, opt)!Branch("lbeq", "RLL", 6183, {"hc12"})
      BY SMTT(30) DEF Cpu09!mnemonics, Cpu09!Rows
    <2> QED BY <2>1 DEF BranchRow, Cpu09!Row, Cpu09!Branch, Cpu09!OcSize, Cpu09!NA
  <1>17. BranchRow(43, "lbeq", "RLL", 1, {"konami"})
    <2>1. Cpu09(cpus, opt)!mnemonics[43] = Cpu09(cpus, opt)!Branch("lbeq", "RLL", 123, {"konami"})
      BY SMTT(30) DEF Cpu09!mnemonics, Cpu09!Rows
    <2> QED BY <2>1 DEF BranchRow, Cpu09!Row, Cpu09!Branch, Cpu09!OcSize, Cpu09!NA
  <1> QED BY <1>1, <1>2, <1>3, <1>4, <1>5, <1>6, <1>7, <1>8, <1>9, <1>10, <1>11, <1>12, <1>13, <1>14, <1>15, <1>16, <1>17

\* The rows of the mnemonics that the lines have.
LEMMA RowsByName ==
    /\ Cpu09(cpus, opt)!RowsOf("adca") = {1, 2}
    /\ Cpu09(cpus, opt)!RowsOf("jmp") = {8, 9, 10}
    /\ Cpu09(cpus, opt)!RowsOf("jsr") = {11, 12, 13}
    /\ Cpu09(cpus, opt)!RowsOf("ldx") = {14}
    /\ Cpu09(cpus, opt)!RowsOf("leax") = {15}
    /\ Cpu09(cpus, opt)!RowsOf("bra") = {32, 33, 34}
    /\ Cpu09(cpus, opt)!RowsOf("bsr") = {27, 28, 29}
    /\ Cpu09(cpus, opt)!RowsOf("beq") = {38, 39, 40}
    /\ Cpu09(cpus, opt)!RowsOf("lbra") = {35, 36, 37}
    /\ Cpu09(cpus, opt)!RowsOf("lbsr") = {30, 31}
    /\ Cpu09(cpus, opt)!RowsOf("lbeq") = {41, 42, 43}
  <1>1. Cpu09(cpus, opt)!mnemonics[0].name = "aba"
    BY SMTT(30) DEF Cpu09!mnemonics, Cpu09!Rows, Cpu09!Row
  <1>2. Cpu09(cpus, opt)!mnemonics[1].name = "adca"
    BY SMTT(30) DEF Cpu09!mnemonics, Cpu09!Rows, Cpu09!Row
  <1>3. Cpu09(cpus, opt)!mnemonics[2].name = "adca"
    BY SMTT(30) DEF Cpu09!mnemonics, Cpu09!Rows, Cpu09!Row
  <1>4. Cpu09(cpus, opt)!mnemonics[3].name = "aim"
    BY SMTT(30) DEF Cpu09!mnemonics, Cpu09!Rows, Cpu09!Row
  <1>5. Cpu09(cpus, opt)!mnemonics[4].name = "band"
    BY SMTT(30) DEF Cpu09!mnemonics, Cpu09!Rows, Cpu09!Row
  <1>6. Cpu09(cpus, opt)!mnemonics[5].name = "bset"
    BY SMTT(30) DEF Cpu09!mnemonics, Cpu09!Rows, Cpu09!Row
  <1>7. Cpu09(cpus, opt)!mnemonics[6].name = "dbeq"
    BY SMTT(30) DEF Cpu09!mnemonics, Cpu09!Rows, Cpu09!Row
  <1>8. Cpu09(cpus, opt)!mnemonics[7].name = "exg"
    BY SMTT(30) DEF Cpu09!mnemonics, Cpu09!Rows, Cpu09!Row
  <1>9. Cpu09(cpus, opt)!mnemonics[8].name = "jmp"
    BY SMTT(30) DEF Cpu09!mnemonics, Cpu09!Rows, Cpu09!Row
  <1>10. Cpu09(cpus, opt)!mnemonics[9].name = "jmp"
    BY SMTT(30) DEF Cpu09!mnemonics, Cpu09!Rows, Cpu09!Row
  <1>11. Cpu09(cpus, opt)!mnemonics[10].name = "jmp"
    BY SMTT(30) DEF Cpu09!mnemonics, Cpu09!Rows, Cpu09!Row
  <1>12. Cpu09(cpus, opt)!mnemonics[11].name = "jsr"
    BY SMTT(30) DEF Cpu09!mnemonics, Cpu09!Rows, Cpu09!Row
  <1>13. Cpu09(cpus, opt)!mnemonics[12].name = "jsr"
    BY SMTT(30) DEF Cpu09!mnemonics, Cpu09!Rows, Cpu09!Row
  <1>14. Cpu09(cpus, opt)!mnemonics[13].name = "jsr"
    BY SMTT(30) DEF Cpu09!mnemonics, Cpu09!Rows, Cpu09!Row
  <1>15. Cpu09(cpus, opt)!mnemonics[14].name = "ldx"
    BY SMTT(30) DEF Cpu09!mnemonics, Cpu09!Rows, Cpu09!Row
  <1>16. Cpu09(cpus, opt)!mnemonics[15].name = "leax"
    BY SMTT(30) DEF Cpu09!mnemonics, Cpu09!Rows, Cpu09!Row
  <1>17. Cpu09(cpus, opt)!mnemonics[16].name = "movb"
    BY SMTT(30) DEF Cpu09!mnemonics, Cpu09!Rows, Cpu09!Row
  <1>18. Cpu09(cpus, opt)!mnemonics[17].name = "movb"
    BY SMTT(30) DEF Cpu09!mnemonics, Cpu09!Rows, Cpu09!Row
  <1>19. Cpu09(cpus, opt)!mnemonics[18].name = "movb"
    BY SMTT(30) DEF Cpu09!mnemonics, Cpu09!Rows, Cpu09!Row
  <1>20. Cpu09(cpus, opt)!mnemonics[19].name = "movb"
    BY SMTT(30) DEF Cpu09!mnemonics, Cpu09!Rows, Cpu09!Row
  <1>21. Cpu09(cpus, opt)!mnemonics[20].name = "movb"
    BY SMTT(30) DEF Cpu09!mnemonics, Cpu09!Rows, Cpu09!Row
  <1>22. Cpu09(cpus, opt)!mnemonics[21].name = "movb"
    BY SMTT(30) DEF Cpu09!mnemonics, Cpu09!Rows, Cpu09!Row
  <1>23. Cpu09(cpus, opt)!mnemonics[22].name = "pshs"
    BY SMTT(30) DEF Cpu09!mnemonics, Cpu09!Rows, Cpu09!Row
  <1>24. Cpu09(cpus, opt)!mnemonics[23].name = "pshs"
    BY SMTT(30) DEF Cpu09!mnemonics, Cpu09!Rows, Cpu09!Row
  <1>25. Cpu09(cpus, opt)!mnemonics[24].name = "tfr"
    BY SMTT(30) DEF Cpu09!mnemonics, Cpu09!Rows, Cpu09!Row
  <1>26. Cpu09(cpus, opt)!mnemonics[25].name = "tfr"
    BY SMTT(30) DEF Cpu09!mnemonics, Cpu09!Rows, Cpu09!Row
  <1>27. Cpu09(cpus, opt)!mnemonics[26].name = "tfr"
    BY SMTT(30) DEF Cpu09!mnemonics, Cpu09!Rows, Cpu09!Row
  <1>28. Cpu09(cpus, opt)!mnemonics[27].name = "bsr"
    BY BranchRows DEF BranchRow
  <1>29. Cpu09(cpus, opt)!mnemonics[28].name = "bsr"
    BY BranchRows DEF BranchRow
  <1>30. Cpu09(cpus, opt)!mnemonics[29].name = "bsr"
    BY BranchRows DEF BranchRow
  <1>31. Cpu09(cpus, opt)!mnemonics[30].name = "lbsr"
    BY BranchRows DEF BranchRow
  <1>32. Cpu09(cpus, opt)!mnemonics[31].name = "lbsr"
    BY BranchRows DEF BranchRow
  <1>33. Cpu09(cpus, opt)!mnemonics[32].name = "bra"
    BY BranchRows DEF BranchRow
  <1>34. Cpu09(cpus, opt)!mnemonics[33].name = "bra"
    BY BranchRows DEF BranchRow
  <1>35. Cpu09(cpus, opt)!mnemonics[34].name = "bra"
    BY BranchRows DEF BranchRow
  <1>36. Cpu09(cpus, opt)!mnemonics[35].name = "lbra"
    BY BranchRows DEF BranchRow
  <1>37. Cpu09(cpus, opt)!mnemonics[36].name = "lbra"
    BY BranchRows DEF BranchRow
  <1>38. Cpu09(cpus, opt)!mnemonics[37].name = "lbra"
    BY BranchRows DEF BranchRow
  <1>39. Cpu09(cpus, opt)!mnemonics[38].name = "beq"
    BY BranchRows DEF BranchRow
  <1>40. Cpu09(cpus, opt)!mnemonics[39].name = "beq"
    BY BranchRows DEF BranchRow
  <1>41. Cpu09(cpus, opt)!mnemonics[40].name = "beq"
    BY BranchRows DEF BranchRow
  <1>42. Cpu09(cpus, opt)!mnemonics[41].name = "lbeq"
    BY BranchRows DEF BranchRow
  <1>43. Cpu09(cpus, opt)!mnemonics[42].name = "lbeq"
    BY BranchRows DEF BranchRow
  <1>44. Cpu09(cpus, opt)!mnemonics[43].name = "lbeq"
    BY BranchRows DEF BranchRow
  <1> DEFINE name(i) == Cpu09(cpus, opt)!mnemonics[i].name
  <1> USE <1>1, <1>2, <1>3, <1>4, <1>5, <1>6, <1>7, <1>8, <1>9, <1>10, <1>11, <1>12, <1>13,
    <1>14, <1>15, <1>16, <1>17, <1>18, <1>19, <1>20, <1>21, <1>22, <1>23, <1>24, <1>25, <1>26,
    <1>27, <1>28, <1>29, <1>30, <1>31, <1>32, <1>33, <1>34, <1>35, <1>36, <1>37, <1>38, <1>39,
    <1>40, <1>41, <1>42, <1>43, <1>44
  <1>45. Cpu09(cpus, opt)!RowsOf("adca") = {1, 2}
    <2>1. \A i \in 0 .. 43 : name(i) = "adca" <=> i \in {1, 2}
      OBVIOUS
    <2> QED BY ONLY <2>1, RowNames DEF name
  <1>46. Cpu09(cpus, opt)!RowsOf("jmp") = {8, 9, 10}
    <2>1. \A i \in 0 .. 43 : name(i) = "jmp" <=> i \in {8, 9, 10}
      OBVIOUS
    <2> QED BY ONLY <2>1, RowNames DEF name
  <1>47. Cpu09(cpus, opt)!RowsOf("jsr") = {11, 12, 13}
    <2>1. \A i \in 0 .. 43 : name(i) = "jsr" <=> i \in {11, 12, 13}
      OBVIOUS
    <2> QED BY ONLY <2>1, RowNames DEF name
  <1>48. Cpu09(cpus, opt)!RowsOf("ldx") = {14}
    <2>1. \A i \in 0 .. 43 : name(i) = "ldx" <=> i \in {14}
      OBVIOUS
    <2> QED BY ONLY <2>1, RowNames DEF name
  <1>49. Cpu09(cpus, opt)!RowsOf("leax") = {15}
    <2>1. \A i \in 0 .. 43 : name(i) = "leax" <=> i \in {15}
      OBVIOUS
    <2> QED BY ONLY <2>1, RowNames DEF name
  <1>50. Cpu09(cpus, opt)!RowsOf("bra") = {32, 33, 34}
    <2>1. \A i \in 0 .. 43 : name(i) = "bra" <=> i \in {32, 33, 34}
      OBVIOUS
    <2> QED BY ONLY <2>1, RowNames DEF name
  <1>51. Cpu09(cpus, opt)!RowsOf("bsr") = {27, 28, 29}
    <2>1. \A i \in 0 .. 43 : name(i) = "bsr" <=> i \in {27, 28, 29}
      OBVIOUS
    <2> QED BY ONLY <2>1, RowNames DEF name
  <1>52. Cpu09(cpus, opt)!RowsOf("beq") = {38, 39, 40}
    <2>1. \A i \in 0 .. 43 : name(i) = "beq" <=> i \in {38, 39, 40}
      OBVIOUS
    <2> QED BY ONLY <2>1, RowNames DEF name
  <1>53. Cpu09(cpus, opt)!RowsOf("lbra") = {35, 36, 37}
    <2>1. \A i \in 0 .. 43 : name(i) = "lbra" <=> i \in {35, 36, 37}
      OBVIOUS
    <2> QED BY ONLY <2>1, RowNames DEF name
  <1>54. Cpu09(cpus, opt)!RowsOf("lbsr") = {30, 31}
    <2>1. \A i \in 0 .. 43 : name(i) = "lbsr" <=> i \in {30, 31}
      OBVIOUS
    <2> QED BY ONLY <2>1, RowNames DEF name
  <1>55. Cpu09(cpus, opt)!RowsOf("lbeq") = {41, 42, 43}
    <2>1. \A i \in 0 .. 43 : name(i) = "lbeq" <=> i \in {41, 42, 43}
      OBVIOUS
    <2> QED BY ONLY <2>1, RowNames DEF name
  <1> QED BY ONLY <1>45, <1>46, <1>47, <1>48, <1>49, <1>50, <1>51, <1>52, <1>53, <1>54, <1>55

\* The rows of the memory operations: the operand's types, the opcode's size
\* in the direct, extended and indexed columns, and the processors.
LEMMA MemoryRows ==
    /\ MemoryRow(1, Cpu09(cpus, opt)!AL1, 1, 1, 1, Cpu09(cpus, opt)!M09 \cup {"hc12"})
    /\ MemoryRow(2, Cpu09(cpus, opt)!AL1, 2, 1, 2, {"konami"})
    /\ MemoryRow(8, Cpu09(cpus, opt)!MEM, 1, 1, 1, Cpu09(cpus, opt)!M09)
    /\ MemoryRow(9, Cpu09(cpus, opt)!IXE, 2, 1, 1, {"hc12"})
    /\ MemoryRow(10, Cpu09(cpus, opt)!MEM, 2, 1, 2, {"konami"})
    /\ MemoryRow(11, Cpu09(cpus, opt)!MEM, 1, 1, 1, Cpu09(cpus, opt)!M09)
    /\ MemoryRow(12, Cpu09(cpus, opt)!MEM, 1, 1, 1, {"hc12"})
    /\ MemoryRow(13, Cpu09(cpus, opt)!MEM, 2, 1, 2, {"konami"})
    /\ MemoryRow(14, Cpu09(cpus, opt)!AL2, 1, 1, 1, Cpu09(cpus, opt)!M09)
    /\ MemoryRow(15, Cpu09(cpus, opt)!IDX, 2, 1, 2, Cpu09(cpus, opt)!M09)
  <1>1. MemoryRow(1, Cpu09(cpus, opt)!AL1, 1, 1, 1, Cpu09(cpus, opt)!M09 \cup {"hc12"})
    <2>1. Cpu09(cpus, opt)!mnemonics[1] = Cpu09(cpus, opt)!Row("adca", <<Cpu09(cpus, opt)!AL1>>,                137, 153, 169, 185, Cpu09(cpus, opt)!M09 \cup {"hc12"})
      BY SMTT(30) DEF Cpu09!mnemonics, Cpu09!Rows
    <2> QED BY <2>1 DEF MemoryRow, Cpu09!Row, Cpu09!OcSize, Cpu09!NA
  <1>2. MemoryRow(2, Cpu09(cpus, opt)!AL1, 2, 1, 2, {"konami"})
    <2>1. Cpu09(cpus, opt)!mnemonics[2] = Cpu09(cpus, opt)!Row("adca", <<Cpu09(cpus, opt)!AL1>>,                24, 6852, 26, 6663, {"konami"})
      BY SMTT(30) DEF Cpu09!mnemonics, Cpu09!Rows
    <2> QED BY <2>1 DEF MemoryRow, Cpu09!Row, Cpu09!OcSize, Cpu09!NA
  <1>3. MemoryRow(8, Cpu09(cpus, opt)!MEM, 1, 1, 1, Cpu09(cpus, opt)!M09)
    <2>1. Cpu09(cpus, opt)!mnemonics[8] = Cpu09(cpus, opt)!Row("jmp",  <<Cpu09(cpus, opt)!MEM>>,                Cpu09(cpus, opt)!NA, 14, 110, 126, Cpu09(cpus, opt)!M09)
      BY SMTT(30) DEF Cpu09!mnemonics, Cpu09!Rows
    <2> QED BY <2>1 DEF MemoryRow, Cpu09!Row, Cpu09!OcSize, Cpu09!NA
  <1>4. MemoryRow(9, Cpu09(cpus, opt)!IXE, 2, 1, 1, {"hc12"})
    <2>1. Cpu09(cpus, opt)!mnemonics[9] = Cpu09(cpus, opt)!Row("jmp",  <<Cpu09(cpus, opt)!IXE>>,                Cpu09(cpus, opt)!NA, Cpu09(cpus, opt)!NA, 5, 6, {"hc12"})
      BY SMTT(30) DEF Cpu09!mnemonics, Cpu09!Rows
    <2> QED BY <2>1 DEF MemoryRow, Cpu09!Row, Cpu09!OcSize, Cpu09!NA
  <1>5. MemoryRow(10, Cpu09(cpus, opt)!MEM, 2, 1, 2, {"konami"})
    <2>1. Cpu09(cpus, opt)!mnemonics[10] = Cpu09(cpus, opt)!Row("jmp",  <<Cpu09(cpus, opt)!MEM>>,                Cpu09(cpus, opt)!NA, 43204, 168, 43015, {"konami"})
      BY SMTT(30) DEF Cpu09!mnemonics, Cpu09!Rows
    <2> QED BY <2>1 DEF MemoryRow, Cpu09!Row, Cpu09!OcSize, Cpu09!NA
  <1>6. MemoryRow(11, Cpu09(cpus, opt)!MEM, 1, 1, 1, Cpu09(cpus, opt)!M09)
    <2>1. Cpu09(cpus, opt)!mnemonics[11] = Cpu09(cpus, opt)!Row("jsr",  <<Cpu09(cpus, opt)!MEM>>,                Cpu09(cpus, opt)!NA, 157, 173, 189, Cpu09(cpus, opt)!M09)
      BY SMTT(30) DEF Cpu09!mnemonics, Cpu09!Rows
    <2> QED BY <2>1 DEF MemoryRow, Cpu09!Row, Cpu09!OcSize, Cpu09!NA
  <1>7. MemoryRow(12, Cpu09(cpus, opt)!MEM, 1, 1, 1, {"hc12"})
    <2>1. Cpu09(cpus, opt)!mnemonics[12] = Cpu09(cpus, opt)!Row("jsr",  <<Cpu09(cpus, opt)!MEM>>,                Cpu09(cpus, opt)!NA, 23, 21, 22, {"hc12"})
      BY SMTT(30) DEF Cpu09!mnemonics, Cpu09!Rows
    <2> QED BY <2>1 DEF MemoryRow, Cpu09!Row, Cpu09!OcSize, Cpu09!NA
  <1>8. MemoryRow(13, Cpu09(cpus, opt)!MEM, 2, 1, 2, {"konami"})
    <2>1. Cpu09(cpus, opt)!mnemonics[13] = Cpu09(cpus, opt)!Row("jsr",  <<Cpu09(cpus, opt)!MEM>>,                Cpu09(cpus, opt)!NA, 43460, 169, 43271, {"konami"})
      BY SMTT(30) DEF Cpu09!mnemonics, Cpu09!Rows
    <2> QED BY <2>1 DEF MemoryRow, Cpu09!Row, Cpu09!OcSize, Cpu09!NA
  <1>9. MemoryRow(14, Cpu09(cpus, opt)!AL2, 1, 1, 1, Cpu09(cpus, opt)!M09)
    <2>1. Cpu09(cpus, opt)!mnemonics[14] = Cpu09(cpus, opt)!Row("ldx",  <<Cpu09(cpus, opt)!AL2>>,                142, 158, 174, 190, Cpu09(cpus, opt)!M09)
      BY SMTT(30) DEF Cpu09!mnemonics, Cpu09!Rows
    <2> QED BY <2>1 DEF MemoryRow, Cpu09!Row, Cpu09!OcSize, Cpu09!NA
  <1>10. MemoryRow(15, Cpu09(cpus, opt)!IDX, 2, 1, 2, Cpu09(cpus, opt)!M09)
    <2>1. Cpu09(cpus, opt)!mnemonics[15] = Cpu09(cpus, opt)!Row("leax", <<Cpu09(cpus, opt)!IDX>>,                Cpu09(cpus, opt)!NA, Cpu09(cpus, opt)!NA, 48, Cpu09(cpus, opt)!NA, Cpu09(cpus, opt)!M09)
      BY SMTT(30) DEF Cpu09!mnemonics, Cpu09!Rows
    <2> QED BY <2>1 DEF MemoryRow, Cpu09!Row, Cpu09!OcSize, Cpu09!NA
  <1> QED BY <1>1, <1>2, <1>3, <1>4, <1>5, <1>6, <1>7, <1>8, <1>9, <1>10

\* The fields of an operand and of the state of the loop over the operands,
\* here of a single one.
IsOp(op) == DOMAIN op = {"mode", "flags", "cosz", "opreg", "offs_reg", "preinc", "postinc", "value", "base",
                         "curval"}
IsState(s) ==
    /\ DOMAIN s = {"code", "op", "dp", "orig", "pc", "ocidx", "mcv", "mpc", "err"}
    /\ DOMAIN s.op = {1}
    /\ IsOp(s.op[1])

\* The bytes of an operand in its final mode.
Written == {"IMM8", "IMM16", "DIR", "EXT", "NOFFS", "ROFFS", "COFFS", "REL8", "REL16"}
Width(op) ==
    CASE op.mode \in {"IMM16", "REL16"} -> 2
      [] op.mode = "EXT" -> IF "INDIR" \in op.flags THEN 3 ELSE 2
      [] op.mode = "COFFS" \/ (op.mode = "NOFFS" /\ Cpu09(cpus, opt)!HC12) -> 1 + Cpu09(cpus, opt)!coffs_size[op.cosz]
      [] OTHER -> 1

\* The state before the operand's bytes are counted, and the one after.
Opened(s, at) ==
    /\ IsState(s)
    /\ at \in Int /\ s.orig = at
    /\ s.pc = at + Cpu09(cpus, opt)!OcSize(s.code, s.ocidx)
    /\ s.op[1].cosz \in DOMAIN Cpu09(cpus, opt)!coffs_size

Counted(s, at) ==
    /\ IsState(s)
    /\ s.pc = at + Cpu09(cpus, opt)!OcSize(s.code, s.ocidx) + Width(s.op[1])
    /\ s.op[1].mode \in Written
    /\ s.op[1].cosz \in DOMAIN Cpu09(cpus, opt)!coffs_size

\* Opcodes have one or two bytes, offsets up to two.
LEMMA SizesAreInt ==
    /\ \A code, ocidx : Cpu09(cpus, opt)!OcSize(code, ocidx) \in {1, 2}
    /\ DOMAIN Cpu09(cpus, opt)!coffs_size = {"OFF5", "OFF8", "OFF9", "OFF16"}
    /\ \A c \in DOMAIN Cpu09(cpus, opt)!coffs_size : Cpu09(cpus, opt)!coffs_size[c] \in 0 .. 2
  BY DEF Cpu09!OcSize, Cpu09!coffs_size

\* Out writes an operand back and counts its bytes.
LEMMA OutCounts ==
    ASSUME NEW s, IsState(s), NEW op, IsOp(op), NEW bytes
    PROVE  /\ IsState(Cpu09(cpus, opt)!Out(s, 1, op, bytes))
           /\ Cpu09(cpus, opt)!Out(s, 1, op, bytes).op[1] = op
           /\ Cpu09(cpus, opt)!Out(s, 1, op, bytes).pc = s.pc + bytes
           /\ Cpu09(cpus, opt)!Out(s, 1, op, bytes).code = s.code
           /\ Cpu09(cpus, opt)!Out(s, 1, op, bytes).ocidx = s.ocidx
           /\ Cpu09(cpus, opt)!Out(s, 1, op, bytes).orig = s.orig
           /\ Cpu09(cpus, opt)!Out(s, 1, op, bytes).err = s.err
  BY DEF IsState, Cpu09!Out

\* Messages change nothing else.
LEMMA FailKeeps ==
    ASSUME NEW s, IsState(s), NEW nos
    PROVE  /\ IsState(Cpu09(cpus, opt)!Fail(s, nos))
           /\ Cpu09(cpus, opt)!Fail(s, nos).op = s.op
           /\ Cpu09(cpus, opt)!Fail(s, nos).pc = s.pc
           /\ Cpu09(cpus, opt)!Fail(s, nos).code = s.code
           /\ Cpu09(cpus, opt)!Fail(s, nos).ocidx = s.ocidx
           /\ Cpu09(cpus, opt)!Fail(s, nos).orig = s.orig
           /\ Cpu09(cpus, opt)!Fail(s, nos).err = s.err \cup nos
  BY DEF IsState, Cpu09!Fail

\* No operand has more than three bytes.
LEMMA WidthIs ==
    ASSUME NEW op, op.cosz \in DOMAIN Cpu09(cpus, opt)!coffs_size
    PROVE  Width(op) \in 1 .. 3
  <1>1. Cpu09(cpus, opt)!coffs_size[op.cosz] \in 0 .. 2
    BY SizesAreInt
  <1>2. 1 + Cpu09(cpus, opt)!coffs_size[op.cosz] \in 1 .. 3
    BY <1>1
  <1>3. 1 \in 1 .. 3 /\ 2 \in 1 .. 3 /\ 3 \in 1 .. 3
    OBVIOUS
  <1> QED BY <1>2, <1>3, Zenon DEF Width

\* An operand gets its final mode and is counted.
LEMMA Counts ==
    ASSUME NEW s, NEW at, Opened(s, at), NEW op, IsOp(op), op.mode \in Written,
           op.cosz \in DOMAIN Cpu09(cpus, opt)!coffs_size, NEW bytes, bytes = Width(op)
    PROVE  Counted(Cpu09(cpus, opt)!Out(s, 1, op, bytes), at)
  <1>1. IsState(s) /\ s.pc = at + Cpu09(cpus, opt)!OcSize(s.code, s.ocidx)
    BY DEF Opened
  <1> DEFINE r == Cpu09(cpus, opt)!Out(s, 1, op, bytes)
  <1>2. IsState(r) /\ r.op[1] = op /\ r.pc = s.pc + bytes /\ r.code = s.code /\ r.ocidx = s.ocidx
    BY <1>1, OutCounts
  <1> HIDE DEF r
  <1> QED BY <1>1, <1>2 DEF Counted, r

\* An error changes no size.
LEMMA FailCounts ==
    ASSUME NEW s, NEW at, Counted(s, at), NEW nos
    PROVE  Counted(Cpu09(cpus, opt)!Fail(s, nos), at)
  <1>1. IsState(s)
    BY DEF Counted
  <1> DEFINE r == Cpu09(cpus, opt)!Fail(s, nos)
  <1>2. IsState(r) /\ r.op = s.op /\ r.pc = s.pc /\ r.code = s.code /\ r.ocidx = s.ocidx
    BY <1>1, FailKeeps
  <1> HIDE DEF r
  <1> QED BY <1>2 DEF Counted, r

\* The bytes of an operand by its mode.
LEMMA WidthOf ==
    ASSUME NEW op
    PROVE  /\ op.mode \in {"IMM16", "REL16"} => Width(op) = 2
           /\ op.mode \in {"IMM8", "DIR", "ROFFS", "REL8"} => Width(op) = 1
           /\ op.mode = "EXT" /\ "INDIR" \in op.flags => Width(op) = 3
           /\ op.mode = "EXT" /\ "INDIR" \notin op.flags => Width(op) = 2
           /\ op.mode = "COFFS" => Width(op) = 1 + Cpu09(cpus, opt)!coffs_size[op.cosz]
           /\ op.mode = "NOFFS" /\ Cpu09(cpus, opt)!HC12 => Width(op) = 1 + Cpu09(cpus, opt)!coffs_size[op.cosz]
           /\ op.mode = "NOFFS" /\ ~Cpu09(cpus, opt)!HC12 => Width(op) = 1
  <1>1. op.mode \in {"IMM16", "REL16"} => Width(op) = 2
    BY Zenon DEF Width
  <1>5. /\ op.mode = "EXT" /\ "INDIR" \in op.flags => Width(op) = 3
        /\ op.mode = "EXT" /\ "INDIR" \notin op.flags => Width(op) = 2
    BY Zenon DEF Width
  <1>6. op.mode = "COFFS" => Width(op) = 1 + Cpu09(cpus, opt)!coffs_size[op.cosz]
    BY Zenon DEF Width
  <1>2. ASSUME op.mode = "NOFFS", Cpu09(cpus, opt)!HC12 PROVE Width(op) = 1 + Cpu09(cpus, opt)!coffs_size[op.cosz]
    BY <1>2, Zenon DEF Width
  <1>4. ASSUME op.mode = "NOFFS", ~Cpu09(cpus, opt)!HC12 PROVE Width(op) = 1
    BY <1>4, Zenon DEF Width
  <1>3. op.mode \in {"IMM8", "DIR", "ROFFS", "REL8"} => Width(op) = 1
    BY Zenon DEF Width
  <1> QED BY <1>1, <1>2, <1>3, <1>4, <1>5, <1>6

\* The end of do_rel.
LEMMA RelFinalCounts ==
    ASSUME NEW s, NEW at, Opened(s, at), s.op[1].mode \in {"REL8", "REL16"}, NEW pcd
    PROVE  Counted(Cpu09(cpus, opt)!RelFinal(s, 1, pcd), at)
  <1> DEFINE o == [s.op[1] EXCEPT !.curval = Cpu09(cpus, opt)!Wrapped(s.op[1].mode, pcd)]
             r == Cpu09(cpus, opt)!Out(s, 1, o, Cpu09(cpus, opt)!rel_size[s.op[1].mode])
  <1>1. IsOp(o) /\ o.mode = s.op[1].mode /\ o.cosz = s.op[1].cosz
    BY DEF Opened, IsState, IsOp
  <1>2. Cpu09(cpus, opt)!rel_size[s.op[1].mode] = Width(o)
    <2> HIDE DEF o
    <2>1. CASE s.op[1].mode = "REL16"
      BY <1>1, <2>1, WidthOf DEF Cpu09!rel_size
    <2>2. CASE s.op[1].mode = "REL8"
      BY <1>1, <2>2, WidthOf DEF Cpu09!rel_size
    <2> QED BY <2>1, <2>2
  <1>3. Counted(r, at)
    <2>1. o.mode \in Written /\ o.cosz \in DOMAIN Cpu09(cpus, opt)!coffs_size
      <3> HIDE DEF o
      <3> QED BY <1>1 DEF Opened, Written
    <2> HIDE DEF o
    <2> QED BY <1>1, <1>2, <2>1, Counts
  <1>4. Cpu09(cpus, opt)!RelFinal(s, 1, pcd) = Cpu09(cpus, opt)!Fail(r, Cpu09(cpus, opt)!OutOfRange(s.op[1].mode, pcd))
    BY Zenon DEF Cpu09!RelFinal
  <1> HIDE DEF r
  <1> QED BY <1>3, <1>4, FailCounts

\* do_rel, where a long branch has a short row two before it.
ShortBefore(code) ==
    Cpu09(cpus, opt)!mnemonics[code - 2].op = << {"RLS"} >> => Cpu09(cpus, opt)!OcSize(code - 2, "STD") = 1

\* A branch, which stays as it is or takes the other distance's row, is
\* counted with its new opcode and displacement.
LEMMA RelCounts ==
    ASSUME NEW s, NEW at, Opened(s, at), s.ocidx = "STD", s.op[1].mode \in {"REL8", "REL16"},
           s.op[1].mode = "REL16" => ShortBefore(s.code), NEW abs
    PROVE  Counted(Cpu09(cpus, opt)!Rel(s, 1, abs), at)
  <1> DEFINE op == s.op[1]
             link == Cpu09(cpus, opt)!NeedsLinker(op, abs)
             pcd == IF link THEN op.curval ELSE op.curval - (s.pc + Cpu09(cpus, opt)!rel_size[op.mode])
             new == [s EXCEPT !.op[1].flags = @ \cup (IF link THEN {"PC"} ELSE {"PC", "PCREL"})]
             opti == Cpu09(cpus, opt)!opt_bra /\ 1 = 1 /\ "PCREL" \in new.op[1].flags
             lcode == Cpu09(cpus, opt)!OC(Cpu09(cpus, opt)!LongForm[Cpu09(cpus, opt)!mnemonics[s.code].name])
             ldiff == Cpu09(cpus, opt)!OcSize(lcode, "STD") - (s.pc - s.orig)
             sdiff == 1 - (s.pc - s.orig)
             long == [new EXCEPT !.code = lcode, !.op[1].mode = "REL16", !.pc = @ + ldiff]
             short == [new EXCEPT !.code = @ - 2, !.op[1].mode = "REL8", !.pc = @ + sdiff]
  <1>1. /\ IsState(new) /\ new.op[1].mode = op.mode /\ new.op[1].cosz = op.cosz /\ new.pc = s.pc
        /\ new.code = s.code /\ new.ocidx = s.ocidx /\ new.orig = s.orig
    BY DEF Opened, IsState, IsOp
  <1>2. CASE opti /\ Cpu09(cpus, opt)!ToLong(s, 1, pcd)
    <2>1. Cpu09(cpus, opt)!Rel(s, 1, abs) = Cpu09(cpus, opt)!RelFinal(long, 1, pcd - 1 - ldiff)
      <3>1. ~Cpu09(cpus, opt)!ToShort(s, 1, pcd)
        BY <1>2 DEF Cpu09!ToLong, Cpu09!ToShort
      <3> QED BY <1>2, <3>1, Zenon DEF Cpu09!Rel
    <2>2. /\ IsState(long) /\ long.op[1].mode = "REL16" /\ long.op[1].cosz = op.cosz
          /\ long.pc = s.pc + ldiff /\ long.code = lcode /\ long.ocidx = s.ocidx /\ long.orig = s.orig
      <3> HIDE DEF new, lcode, ldiff
      <3> QED BY <1>1 DEF IsState, IsOp
    <2>3. Opened(long, at)
      <3>1. Cpu09(cpus, opt)!OcSize(lcode, "STD") \in Int /\ Cpu09(cpus, opt)!OcSize(s.code, s.ocidx) \in Int
        BY SizesAreInt
      <3>2. s.pc + ldiff = at + Cpu09(cpus, opt)!OcSize(lcode, "STD")
        <4> HIDE DEF lcode
        <4> QED BY <3>1 DEF Opened
      <3> HIDE DEF long, ldiff, lcode
      <3> QED BY <2>2, <3>2 DEF Opened
    <2> HIDE DEF long
    <2> QED BY <2>1, <2>2, <2>3, RelFinalCounts
  <1>3. CASE opti /\ ~Cpu09(cpus, opt)!ToLong(s, 1, pcd) /\ Cpu09(cpus, opt)!ToShort(s, 1, pcd)
    <2>1. Cpu09(cpus, opt)!Rel(s, 1, abs) = Cpu09(cpus, opt)!RelFinal(short, 1, pcd + 1 - sdiff)
      BY <1>3, Zenon DEF Cpu09!Rel
    <2>2. /\ IsState(short) /\ short.op[1].mode = "REL8" /\ short.op[1].cosz = op.cosz
          /\ short.pc = s.pc + sdiff /\ short.code = s.code - 2 /\ short.ocidx = s.ocidx /\ short.orig = s.orig
      <3> HIDE DEF new, sdiff
      <3> QED BY <1>1 DEF IsState, IsOp
    <2>3. Opened(short, at)
      <3>1. Cpu09(cpus, opt)!OcSize(s.code - 2, "STD") = 1
        BY <1>3 DEF Cpu09!ToShort, ShortBefore
      <3>2. s.pc + sdiff = at + 1
        BY SizesAreInt DEF Opened
      <3> HIDE DEF short, sdiff
      <3> QED BY <2>2, <3>1, <3>2 DEF Opened
    <2> HIDE DEF short
    <2> QED BY <2>1, <2>2, <2>3, RelFinalCounts
  <1>4. CASE ~(opti /\ Cpu09(cpus, opt)!ToLong(s, 1, pcd)) /\ ~(opti /\ Cpu09(cpus, opt)!ToShort(s, 1, pcd))
    <2>1. Cpu09(cpus, opt)!Rel(s, 1, abs) = Cpu09(cpus, opt)!RelFinal(new, 1, pcd)
      BY <1>4, Zenon DEF Cpu09!Rel
    <2>2. Opened(new, at)
      <3> HIDE DEF new
      <3> QED BY <1>1 DEF Opened
    <2> HIDE DEF new
    <2> QED BY <1>1, <2>1, <2>2, RelFinalCounts
  <1> QED BY <1>2, <1>3, <1>4

\* The state within do_coffs: the postbyte is counted, its offset is not.
HasPostbyte(s, at) ==
    /\ IsState(s)
    /\ at \in Int
    /\ s.pc = at + Cpu09(cpus, opt)!OcSize(s.code, s.ocidx) + 1
    /\ s.op[1].mode = "COFFS"

\* The offset behind a postbyte is counted by its size.
LEMMA OffsetCounts ==
    ASSUME NEW s, NEW at, HasPostbyte(s, at), NEW op, IsOp(op), op.mode = "COFFS",
           op.cosz \in DOMAIN Cpu09(cpus, opt)!coffs_size, NEW nos
    PROVE  Counted(Cpu09(cpus, opt)!Fail(Cpu09(cpus, opt)!Out(s, 1, op, Cpu09(cpus, opt)!coffs_size[op.cosz]), nos), at)
  <1> DEFINE r == Cpu09(cpus, opt)!Out(s, 1, op, Cpu09(cpus, opt)!coffs_size[op.cosz])
  <1>1. /\ IsState(r) /\ r.op[1] = op /\ r.pc = s.pc + Cpu09(cpus, opt)!coffs_size[op.cosz]
        /\ r.code = s.code /\ r.ocidx = s.ocidx
    BY OutCounts DEF HasPostbyte
  <1>2. Width(op) = 1 + Cpu09(cpus, opt)!coffs_size[op.cosz]
    BY WidthOf
  <1>3. Cpu09(cpus, opt)!coffs_size[op.cosz] \in Int /\ Cpu09(cpus, opt)!OcSize(s.code, s.ocidx) \in Int
    BY SizesAreInt
  <1>4. Counted(r, at)
    <2> HIDE DEF r
    <2> QED BY <1>1, <1>2, <1>3 DEF HasPostbyte, Counted, Written
  <1> HIDE DEF r
  <1> QED BY <1>4, FailCounts DEF r

\* The size chosen for an offset from the PC is one of the four.
LEMMA PcSizeIs ==
    ASSUME NEW op, NEW pcd, NEW abs
    PROVE  Cpu09(cpus, opt)!PcSize(op, pcd, abs) \in DOMAIN Cpu09(cpus, opt)!coffs_size
  <1>1. Cpu09(cpus, opt)!PcSize(op, pcd, abs) \in {"OFF5", "OFF8", "OFF9", "OFF16"}
    BY Zenon DEF Cpu09!PcSize
  <1> QED BY <1>1, SizesAreInt

\* So is the one chosen for a constant offset.
LEMMA ConstSizeIs ==
    ASSUME NEW op, NEW val
    PROVE  /\ Cpu09(cpus, opt)!ConstSize09(op, val) \in DOMAIN Cpu09(cpus, opt)!coffs_size
           /\ Cpu09(cpus, opt)!ConstSize12(op, val) \in DOMAIN Cpu09(cpus, opt)!coffs_size
  <1>1. Cpu09(cpus, opt)!ConstSize09(op, val) \in {"OFF5", "OFF8", "OFF9", "OFF16"}
    BY Zenon DEF Cpu09!ConstSize09
  <1>2. Cpu09(cpus, opt)!ConstSize12(op, val) \in {"OFF5", "OFF8", "OFF9", "OFF16"}
    BY Zenon DEF Cpu09!ConstSize12
  <1> QED BY <1>1, <1>2, SizesAreInt

\* An offset from the PC is counted behind its postbyte.
LEMMA PcOffsCounts ==
    ASSUME NEW s, NEW at, HasPostbyte(s, at), NEW abs
    PROVE  Counted(Cpu09(cpus, opt)!PcOffs(s, 1, abs), at)
  <1> DEFINE op   == s.op[1]
             sec  == Cpu09(cpus, opt)!SecRel(op, abs)
             far  == op.curval + s.mcv - (IF sec THEN s.pc + 2 + s.mpc ELSE 0)
             z    == Cpu09(cpus, opt)!PcSize(op, far, abs)
             pcd  == CASE ~sec \/ Cpu09(cpus, opt)!NeedsLinker(op, abs) -> far
                       [] sec /\ z = "OFF5" -> op.curval + s.mcv - (s.pc + s.mpc)
                       [] sec /\ z \in {"OFF8", "OFF9"} -> op.curval - (s.pc + 1)
                       [] OTHER -> far
             nos  == (IF far \notin Cpu09(cpus, opt)!Word16 THEN {3} ELSE {})
                     \cup (IF /\ ~Cpu09(cpus, opt)!HC12 /\ ~Cpu09(cpus, opt)!NeedsLinker(op, abs)
                              /\ "LO" \in op.flags /\ pcd \notin -128..127 THEN {3} ELSE {})
             o    == [op EXCEPT !.flags = @ \cup {"PC"} \cup (IF sec THEN {"PCREL"} ELSE {}),
                                !.cosz = z, !.curval = pcd]
  <1>1. Cpu09(cpus, opt)!PcOffs(s, 1, abs) = Cpu09(cpus, opt)!Fail(Cpu09(cpus, opt)!Out(s, 1, o, Cpu09(cpus, opt)!coffs_size[z]), nos)
    BY Zenon DEF Cpu09!PcOffs
  <1>2. z \in DOMAIN Cpu09(cpus, opt)!coffs_size
    BY PcSizeIs
  <1> HIDE DEF z, pcd, sec, nos
  <1>3. IsOp(o) /\ o.mode = "COFFS" /\ o.cosz = z
    BY DEF HasPostbyte, IsState, IsOp
  <1> HIDE DEF o
  <1> QED BY <1>1, <1>2, <1>3, OffsetCounts

\* And a constant offset from another register.
LEMMA ConstOffsCounts ==
    ASSUME NEW s, NEW at, HasPostbyte(s, at)
    PROVE  Counted(Cpu09(cpus, opt)!ConstOffs(s, 1), at)
  <1> DEFINE op == s.op[1]
             val == Cpu09(cpus, opt)!bf_sign_extend16(op.curval)
             auto == op.preinc # 0 \/ op.postinc # 0
             new == IF Cpu09(cpus, opt)!HC12 THEN [op EXCEPT !.flags = IF auto THEN @ \ {"INDIR"} ELSE @]
                                  ELSE [op EXCEPT !.preinc = 0, !.postinc = 0]
             Sized(z, nos) == Cpu09(cpus, opt)!Fail(Cpu09(cpus, opt)!Out(s, 1, [new EXCEPT !.cosz = z], Cpu09(cpus, opt)!coffs_size[z]), nos)
             none == [new EXCEPT !.mode = "NOFFS", !.cosz = "OFF5", !.value = << >>]
  <1>1. IsOp(new) /\ new.mode = "COFFS"
    BY DEF HasPostbyte, IsState, IsOp
  <1>2. ASSUME NEW z \in DOMAIN Cpu09(cpus, opt)!coffs_size, NEW nos PROVE Counted(Sized(z, nos), at)
    <2> DEFINE o == [new EXCEPT !.cosz = z]
    <2> HIDE DEF new
    <2>1. IsOp(o) /\ o.mode = "COFFS" /\ o.cosz = z
      BY <1>1 DEF IsOp
    <2> HIDE DEF o
    <2>2. Counted(Cpu09(cpus, opt)!Fail(Cpu09(cpus, opt)!Out(s, 1, o, Cpu09(cpus, opt)!coffs_size[z]), nos), at)
      BY <2>1, OffsetCounts
    <2> QED BY <2>2 DEF o
  <1>3. CASE Cpu09(cpus, opt)!HC12
    <2>1. \E nos : Cpu09(cpus, opt)!ConstOffs(s, 1) = Sized(Cpu09(cpus, opt)!ConstSize12(op, val), nos)
      BY <1>3, Zenon DEF Cpu09!ConstOffs
    <2> HIDE DEF Sized
    <2> QED BY <1>2, <2>1, ConstSizeIs
  <1>4. CASE ~Cpu09(cpus, opt)!HC12 /\ "offset" \in opt /\ val = 0 /\ op.base = "none"
    <2>1. \E nos : Cpu09(cpus, opt)!ConstOffs(s, 1) = Cpu09(cpus, opt)!Fail(Cpu09(cpus, opt)!Out(s, 1, none, 0), nos)
      BY <1>4, Zenon DEF Cpu09!ConstOffs
    <2>2. IsOp(none) /\ none.mode = "NOFFS" /\ none.cosz = "OFF5"
      <3> HIDE DEF new
      <3> QED BY <1>1 DEF IsOp
    <2> DEFINE r == Cpu09(cpus, opt)!Out(s, 1, none, 0)
    <2> HIDE DEF none, new
    <2>3. Width(none) = 1
      BY <1>4, <2>2, WidthOf
    <2>4. IsState(r) /\ r.op[1] = none /\ r.pc = s.pc + 0 /\ r.code = s.code /\ r.ocidx = s.ocidx
      BY <2>2, OutCounts DEF HasPostbyte
    <2> HIDE DEF r
    <2>5. Counted(r, at)
      <3>1. s.pc \in Int
        BY SizesAreInt DEF HasPostbyte
      <3> QED BY <2>2, <2>3, <2>4, <3>1, SizesAreInt DEF HasPostbyte, Counted, Written
    <2> QED BY <2>1, <2>5, FailCounts DEF r
  <1>5. CASE ~Cpu09(cpus, opt)!HC12 /\ ~("offset" \in opt /\ val = 0 /\ op.base = "none")
    <2>1. \E nos : Cpu09(cpus, opt)!ConstOffs(s, 1) = Sized(Cpu09(cpus, opt)!ConstSize09(op, val), nos)
      BY <1>5, Zenon DEF Cpu09!ConstOffs
    <2> HIDE DEF Sized
    <2> QED BY <1>2, <2>1, ConstSizeIs
  <1> QED BY <1>3, <1>4, <1>5

\* do_coffs, from the opcode on.
LEMMA CoffsCounts ==
    ASSUME NEW s, NEW at, Opened(s, at), s.op[1].mode = "COFFS", NEW abs
    PROVE  Counted(Cpu09(cpus, opt)!Coffs(s, 1, abs), at)
  <1> DEFINE op == Cpu09(cpus, opt)!check_opreg(s.op[1])
             m == [s EXCEPT !.op[1] = op, !.err = @ \cup Cpu09(cpus, opt)!MissingReg(s.op[1]), !.pc = @ + 1,
                            !.mcv = IF 1 > 1 THEN -@ ELSE @, !.mpc = IF 1 > 1 THEN 0 ELSE @]
  <1>1. IsOp(op) /\ op.mode = "COFFS"
    BY DEF Opened, IsState, IsOp, Cpu09!check_opreg
  <1>2. HasPostbyte(m, at)
    <2>1. IsState(m) /\ m.op[1] = op /\ m.pc = s.pc + 1 /\ m.code = s.code /\ m.ocidx = s.ocidx
      <3> HIDE DEF op
      <3> QED BY <1>1 DEF Opened, IsState
    <2> HIDE DEF m, op
    <2> QED BY <1>1, <2>1 DEF Opened, HasPostbyte
  <1>3. Cpu09(cpus, opt)!Coffs(s, 1, abs) = IF op.opreg = "PC" THEN Cpu09(cpus, opt)!PcOffs(m, 1, abs) ELSE Cpu09(cpus, opt)!ConstOffs(m, 1)
    BY DEF Cpu09!Coffs
  <1> HIDE DEF m, op
  <1> QED BY <1>2, <1>3, PcOffsCounts, ConstOffsCounts

\* An operand whose opcode is taken from another column of the row, of the
\* same size.
LEMMA PcIndexedCounts ==
    ASSUME NEW s, NEW at, Opened(s, at), Cpu09(cpus, opt)!OcSize(s.code, "IDX") = Cpu09(cpus, opt)!OcSize(s.code, s.ocidx), NEW abs
    PROVE  Counted(Cpu09(cpus, opt)!PcIndexed(s, 1, abs), at)
  <1> DEFINE r == [s EXCEPT !.ocidx = "IDX", !.op[1].mode = "COFFS", !.op[1].opreg = "PC"]
  <1>1. /\ IsState(r) /\ r.op[1].mode = "COFFS" /\ r.op[1].cosz = s.op[1].cosz
        /\ r.code = s.code /\ r.ocidx = "IDX" /\ r.pc = s.pc /\ r.orig = s.orig
    BY DEF Opened, IsState, IsOp
  <1>2. Cpu09(cpus, opt)!PcIndexed(s, 1, abs) = Cpu09(cpus, opt)!Coffs(r, 1, abs)
    BY DEF Cpu09!PcIndexed
  <1> HIDE DEF r
  <1>3. Opened(r, at)
    BY <1>1 DEF Opened
  <1> QED BY <1>1, <1>2, <1>3, CoffsCounts

\* The opcodes that an extended operand may get have the size of its own.
Interchangeable(code) ==
    /\ Cpu09(cpus, opt)!OcSize(code, "EXT") = Cpu09(cpus, opt)!OcSize(code, "IDX")
    /\ \A s : s.code = code /\ Cpu09(cpus, opt)!Jump(s) =>
          /\ Cpu09(cpus, opt)!OcSize(code, "EXT") = Cpu09(cpus, opt)!OcSize(Cpu09(cpus, opt)!ShortJump(s), "STD")
          /\ Cpu09(cpus, opt)!LongJump(s) # 0 =>
                /\ Cpu09(cpus, opt)!OcSize(Cpu09(cpus, opt)!LongJump(s), "STD")
                     = Cpu09(cpus, opt)!OcSize(code, "EXT") + (IF Cpu09(cpus, opt)!HC12 THEN 1 ELSE 0)
                /\ ShortBefore(Cpu09(cpus, opt)!LongJump(s))

\* An extended operand, which may turn into a direct or a PC-relative one.
LEMMA ExtCounts ==
    ASSUME NEW s, NEW at, Opened(s, at), s.op[1].mode = "EXT",
           s.ocidx = IF "INDIR" \in s.op[1].flags THEN "IDX" ELSE "EXT",
           "INDIR" \in s.op[1].flags \/ opt = {} \/ Interchangeable(s.code), NEW abs
    PROVE  Counted(Cpu09(cpus, opt)!Ext(s, 1, abs), at)
  <1> DEFINE op    == s.op[1]
             type  == Cpu09(cpus, opt)!mnemonics[s.code].op[1]
             pcd   == op.curval - (s.pc + 1)
             near  == /\ Cpu09(cpus, opt)!opt_bra \/ Cpu09(cpus, opt)!opt_pc
                      /\ Cpu09(cpus, opt)!Jump(s) /\ ~Cpu09(cpus, opt)!NeedsLinker(op, abs) /\ pcd \in -128..127
             indexed == Cpu09(cpus, opt)!opt_pc /\ type \cap Cpu09(cpus, opt)!IND # {}
             long == Cpu09(cpus, opt)!opt_pc /\ Cpu09(cpus, opt)!Jump(s) /\ Cpu09(cpus, opt)!LongJump(s) # 0
             direct == Cpu09(cpus, opt)!opt_pc /\ op.base # "none" /\ type \cap Cpu09(cpus, opt)!DIX # {}
             bra == [s EXCEPT !.code = Cpu09(cpus, opt)!ShortJump(s), !.ocidx = "STD", !.op[1].mode = "REL8",
                              !.op[1].flags = @ \cup {"PC", "PCREL"}]
             lbra == [s EXCEPT !.code = Cpu09(cpus, opt)!LongJump(s), !.ocidx = "STD", !.op[1].mode = "REL16",
                               !.pc = @ + (IF Cpu09(cpus, opt)!HC12 THEN 1 ELSE 0)]
  <1>1. IsOp(op) /\ op.cosz \in DOMAIN Cpu09(cpus, opt)!coffs_size
    BY DEF Opened, IsState
  <1>2. CASE "INDIR" \in op.flags /\ indexed
    <2>1. Cpu09(cpus, opt)!Ext(s, 1, abs) = Cpu09(cpus, opt)!PcIndexed(s, 1, abs)
      BY <1>2, Zenon DEF Cpu09!Ext
    <2> QED BY <1>2, <2>1, PcIndexedCounts
  <1>3. CASE "INDIR" \in op.flags /\ ~indexed
    <2>1. Cpu09(cpus, opt)!Ext(s, 1, abs) = Cpu09(cpus, opt)!Out(s, 1, op, 3)
      BY <1>3, Zenon DEF Cpu09!Ext
    <2>2. Width(op) = 3
      BY <1>3, WidthOf
    <2> HIDE DEF op
    <2> QED BY <1>1, <2>1, <2>2, Counts DEF op, Written
  <1>4. CASE "INDIR" \notin op.flags /\ near
    <2>1. Cpu09(cpus, opt)!Ext(s, 1, abs) = Cpu09(cpus, opt)!RelFinal(bra, 1, pcd)
      BY <1>4, Zenon DEF Cpu09!Ext
    <2>2. /\ IsState(bra) /\ bra.op[1].mode = "REL8" /\ bra.op[1].cosz = op.cosz
          /\ bra.code = Cpu09(cpus, opt)!ShortJump(s) /\ bra.ocidx = "STD" /\ bra.pc = s.pc /\ bra.orig = s.orig
      BY DEF Opened, IsState, IsOp
    <2>3. Interchangeable(s.code)
      BY <1>4 DEF Cpu09!opt_bra, Cpu09!opt_pc
    <2> HIDE DEF bra
    <2>4. Opened(bra, at)
      <3>1. Cpu09(cpus, opt)!Jump(s) /\ s.ocidx = "EXT"
        BY <1>4
      <3>2. Cpu09(cpus, opt)!OcSize(bra.code, bra.ocidx) = Cpu09(cpus, opt)!OcSize(s.code, s.ocidx)
        BY <2>2, <2>3, <3>1 DEF Interchangeable
      <3>3. /\ at \in Int /\ s.orig = at /\ s.pc = at + Cpu09(cpus, opt)!OcSize(s.code, s.ocidx)
            /\ op.cosz \in DOMAIN Cpu09(cpus, opt)!coffs_size
        BY DEF Opened
      <3> HIDE DEF op
      <3> QED BY <2>2, <3>2, <3>3 DEF Opened
    <2> QED BY <2>1, <2>2, <2>4, RelFinalCounts
  <1>5. CASE "INDIR" \notin op.flags /\ ~near /\ long
    <2>1. Cpu09(cpus, opt)!Ext(s, 1, abs) = Cpu09(cpus, opt)!Rel(lbra, 1, abs)
      BY <1>5, Zenon DEF Cpu09!Ext
    <2>2. /\ IsState(lbra) /\ lbra.op[1].mode = "REL16" /\ lbra.op[1].cosz = op.cosz
          /\ lbra.code = Cpu09(cpus, opt)!LongJump(s) /\ lbra.ocidx = "STD"
          /\ lbra.pc = s.pc + (IF Cpu09(cpus, opt)!HC12 THEN 1 ELSE 0) /\ lbra.orig = s.orig
      BY DEF Opened, IsState, IsOp
    <2>3. Interchangeable(s.code)
      BY <1>5 DEF Cpu09!opt_bra, Cpu09!opt_pc
    <2>4. /\ Cpu09(cpus, opt)!OcSize(Cpu09(cpus, opt)!LongJump(s), "STD")
               = Cpu09(cpus, opt)!OcSize(s.code, "EXT") + (IF Cpu09(cpus, opt)!HC12 THEN 1 ELSE 0)
          /\ ShortBefore(Cpu09(cpus, opt)!LongJump(s))
      BY <1>5, <2>3 DEF Interchangeable
    <2> HIDE DEF lbra
    <2>5. Opened(lbra, at)
      <3>1. Cpu09(cpus, opt)!OcSize(s.code, "EXT") \in Int
        BY SizesAreInt
      <3>2. s.ocidx = "EXT"
        BY <1>5
      <3>3. /\ at \in Int /\ s.orig = at /\ s.pc = at + Cpu09(cpus, opt)!OcSize(s.code, "EXT")
            /\ op.cosz \in DOMAIN Cpu09(cpus, opt)!coffs_size
        BY <3>2 DEF Opened
      <3> HIDE DEF op
      <3>4. lbra.pc = at + Cpu09(cpus, opt)!OcSize(lbra.code, lbra.ocidx)
        BY <2>2, <2>4, <3>1, <3>3
      <3> QED BY <2>2, <3>3, <3>4 DEF Opened
    <2> QED BY <2>1, <2>2, <2>4, <2>5, RelCounts
  <1>6. CASE "INDIR" \notin op.flags /\ ~near /\ ~long /\ direct
    <2>1. Cpu09(cpus, opt)!Ext(s, 1, abs) = Cpu09(cpus, opt)!PcIndexed(s, 1, abs)
      BY <1>6, Zenon DEF Cpu09!Ext
    <2>2. Interchangeable(s.code)
      BY <1>6 DEF Cpu09!opt_bra, Cpu09!opt_pc
    <2>3. Cpu09(cpus, opt)!OcSize(s.code, "IDX") = Cpu09(cpus, opt)!OcSize(s.code, "EXT")
      BY <2>2 DEF Interchangeable
    <2>4. s.ocidx = "EXT"
      BY <1>6
    <2>5. Counted(Cpu09(cpus, opt)!PcIndexed(s, 1, abs), at)
      BY <2>3, <2>4, PcIndexedCounts, Zenon
    <2> QED BY <2>1, <2>5
  <1>7. CASE "INDIR" \notin op.flags /\ ~near /\ ~long /\ ~direct
    <2>1. Cpu09(cpus, opt)!Ext(s, 1, abs) = Cpu09(cpus, opt)!Out(s, 1, op, 2)
      BY <1>7, Zenon DEF Cpu09!Ext
    <2>2. Width(op) = 2
      BY <1>7, WidthOf
    <2> HIDE DEF op
    <2> QED BY <1>1, <2>1, <2>2, Counts DEF op, Written
  <1> QED BY <1>2, <1>3, <1>4, <1>5, <1>6, <1>7

\* An address that may be a direct page address.
LEMMA AddrCounts ==
    ASSUME NEW s, NEW at, Opened(s, at), s.ocidx = "EXT", "INDIR" \notin s.op[1].flags,
           Cpu09(cpus, opt)!OcSize(s.code, "DIR") = Cpu09(cpus, opt)!OcSize(s.code, "EXT"),
           opt = {} \/ Interchangeable(s.code), NEW abs
    PROVE  Counted(Cpu09(cpus, opt)!Addr(s, 1, abs), at)
  <1> DEFINE op == s.op[1]
             d == [s EXCEPT !.ocidx = "DIR"]
             o == [op EXCEPT !.curval = @ % 256, !.mode = "DIR"]
             x == [s EXCEPT !.op[1].mode = "EXT"]
  <1>1. CASE Cpu09(cpus, opt)!ToDirect(s, op)
    <2>1. Cpu09(cpus, opt)!Addr(s, 1, abs) = Cpu09(cpus, opt)!Out(d, 1, o, 1)
      BY <1>1, Zenon DEF Cpu09!Addr
    <2>2. /\ IsState(d) /\ d.op = s.op /\ d.code = s.code /\ d.ocidx = "DIR" /\ d.pc = s.pc /\ d.orig = s.orig
          /\ IsOp(o) /\ o.mode = "DIR" /\ o.cosz = op.cosz
      BY DEF Opened, IsState, IsOp
    <2> HIDE DEF d, o
    <2>3. Opened(d, at) /\ o.mode \in Written /\ o.cosz \in DOMAIN Cpu09(cpus, opt)!coffs_size
      BY <2>2 DEF Opened, Written
    <2>4. Width(o) = 1
      BY <2>2, WidthOf
    <2> QED BY <2>1, <2>2, <2>3, <2>4, Counts
  <1>2. CASE ~Cpu09(cpus, opt)!ToDirect(s, op)
    <2>1. Cpu09(cpus, opt)!Addr(s, 1, abs) = Cpu09(cpus, opt)!Ext(x, 1, abs)
      BY <1>2, Zenon DEF Cpu09!Addr
    <2>2. /\ IsState(x) /\ x.op[1].mode = "EXT" /\ x.op[1].flags = op.flags /\ x.op[1].cosz = op.cosz
          /\ x.code = s.code /\ x.ocidx = "EXT" /\ x.pc = s.pc /\ x.orig = s.orig
      BY DEF Opened, IsState, IsOp
    <2> HIDE DEF x
    <2>3. Opened(x, at)
      BY <2>2 DEF Opened
    <2> QED BY <2>1, <2>2, <2>3, ExtCounts
  <1> QED BY <1>1, <1>2

\* An index register alone.
LEMMA NoffsCounts ==
    ASSUME NEW s, NEW at, Opened(s, at), s.op[1].mode = "NOFFS", s.op[1].cosz = "OFF5"
    PROVE  Counted(Cpu09(cpus, opt)!Noffs(s, 1), at)
  <1> DEFINE op == s.op[1]
             ind == Cpu09(cpus, opt)!HC12 /\ "INDIR" \in op.flags
             z == IF ind THEN "OFF16" ELSE op.cosz
             o == [Cpu09(cpus, opt)!check_opreg(op) EXCEPT !.cosz = z]
             bytes == IF ind THEN 3 ELSE 1
             r == Cpu09(cpus, opt)!Out(s, 1, o, bytes)
  <1>1. IsOp(o) /\ o.mode = "NOFFS" /\ o.cosz = z
    <2> HIDE DEF z
    <2> QED BY DEF Opened, IsState, IsOp, Cpu09!check_opreg
  <1>2. Cpu09(cpus, opt)!Noffs(s, 1) = Cpu09(cpus, opt)!Fail(r, Cpu09(cpus, opt)!MissingReg(op))
    <2>1. Cpu09(cpus, opt)!check_opreg(op).cosz = op.cosz
      BY DEF Opened, IsState, IsOp, Cpu09!check_opreg
    <2>2. [Cpu09(cpus, opt)!check_opreg(op) EXCEPT !.cosz = IF ind THEN "OFF16" ELSE @] = o
      BY <2>1
    <2> HIDE DEF o, ind
    <2> QED BY <2>2 DEF Cpu09!Noffs, ind
  <1>3. bytes = Width(o)
    <2>1. CASE ind
      <3>1. o.mode = "NOFFS" /\ o.cosz = "OFF16" /\ Cpu09(cpus, opt)!HC12
        BY <1>1, <2>1
      <3> HIDE DEF o, ind
      <3> QED BY <2>1, <3>1, WidthOf DEF Cpu09!coffs_size
    <2>2. CASE ~ind /\ Cpu09(cpus, opt)!HC12
      <3>1. o.mode = "NOFFS" /\ o.cosz = "OFF5"
        BY <1>1, <2>2
      <3> HIDE DEF o, ind
      <3> QED BY <2>2, <3>1, WidthOf DEF Cpu09!coffs_size
    <2>3. CASE ~ind /\ ~Cpu09(cpus, opt)!HC12
      <3> HIDE DEF o, ind
      <3> QED BY <1>1, <2>3, WidthOf
    <2> QED BY <2>1, <2>2, <2>3
  <1>4. o.mode \in Written /\ o.cosz \in DOMAIN Cpu09(cpus, opt)!coffs_size
    <2> HIDE DEF o
    <2> QED BY <1>1, SizesAreInt DEF Written
  <1>5. Counted(r, at)
    <2> HIDE DEF o, bytes
    <2> QED BY <1>1, <1>3, <1>4, Counts
  <1> HIDE DEF r
  <1> QED BY <1>2, <1>5, FailCounts

\* The modes in which the parser leaves a single operand of a row: opcode
\* column, prefix and offset size that process_instruction starts with.
Handled(s) ==
    LET op == s.op[1]
    IN  CASE op.mode = "ADDR"  -> /\ s.ocidx = "EXT" /\ "INDIR" \notin op.flags
                                  /\ Cpu09(cpus, opt)!OcSize(s.code, "DIR") = Cpu09(cpus, opt)!OcSize(s.code, "EXT")
                                  /\ opt = {} \/ Interchangeable(s.code)
          [] op.mode = "EXT"   -> /\ s.ocidx = IF "INDIR" \in op.flags THEN "IDX" ELSE "EXT"
                                  /\ "INDIR" \in op.flags \/ opt = {} \/ Interchangeable(s.code)
          [] op.mode = "NOFFS" -> op.cosz = "OFF5"
          [] op.mode \in {"REL8", "REL16"} -> s.ocidx = "STD" /\ (op.mode = "REL16" => ShortBefore(s.code))
          [] OTHER -> op.mode \in {"COFFS", "ROFFS", "DIR", "IMM8", "IMM16"}

\* Whatever handler takes the operand, all its bytes are counted.
LEMMA OperandCounts ==
    ASSUME NEW s, NEW at, Opened(s, at), Handled(s), NEW abs
    PROVE  Counted(Cpu09(cpus, opt)!Operand(s, 1, abs), at)
  <1> DEFINE op == s.op[1]
  <1>0. IsState(s) /\ IsOp(op) /\ op.cosz \in DOMAIN Cpu09(cpus, opt)!coffs_size
    BY DEF Opened, IsState
  <1>1. CASE op.mode = "ADDR"
    <2>1. /\ s.ocidx = "EXT" /\ "INDIR" \notin op.flags
          /\ Cpu09(cpus, opt)!OcSize(s.code, "DIR") = Cpu09(cpus, opt)!OcSize(s.code, "EXT")
          /\ opt = {} \/ Interchangeable(s.code)
      BY <1>1, Zenon DEF Handled
    <2>2. Cpu09(cpus, opt)!Operand(s, 1, abs) = Cpu09(cpus, opt)!Addr(s, 1, abs)
      BY <1>1, Zenon DEF Cpu09!Operand
    <2> QED BY <2>1, <2>2, AddrCounts
  <1>2. CASE op.mode = "EXT"
    <2>1. /\ s.ocidx = IF "INDIR" \in op.flags THEN "IDX" ELSE "EXT"
          /\ "INDIR" \in op.flags \/ opt = {} \/ Interchangeable(s.code)
      BY <1>2, Zenon DEF Handled
    <2>2. Cpu09(cpus, opt)!Operand(s, 1, abs) = Cpu09(cpus, opt)!Ext(s, 1, abs)
      BY <1>2, Zenon DEF Cpu09!Operand
    <2> QED BY <1>2, <2>1, <2>2, ExtCounts
  <1>3. CASE op.mode = "NOFFS"
    <2>1. op.cosz = "OFF5"
      BY <1>3, Zenon DEF Handled
    <2>2. Cpu09(cpus, opt)!Operand(s, 1, abs) = Cpu09(cpus, opt)!Noffs(s, 1)
      BY <1>3, Zenon DEF Cpu09!Operand
    <2> QED BY <1>3, <2>1, <2>2, NoffsCounts
  <1>4. CASE op.mode \in {"REL8", "REL16"}
    <2>1. s.ocidx = "STD" /\ (op.mode = "REL16" => ShortBefore(s.code))
      BY <1>4, Zenon DEF Handled
    <2>2. Cpu09(cpus, opt)!Operand(s, 1, abs) = Cpu09(cpus, opt)!Rel(s, 1, abs)
      BY <1>4, Zenon DEF Cpu09!Operand
    <2> QED BY <1>4, <2>1, <2>2, RelCounts
  <1>5. CASE op.mode = "COFFS"
    <2>1. Cpu09(cpus, opt)!Operand(s, 1, abs) = Cpu09(cpus, opt)!Coffs(s, 1, abs)
      BY <1>5, Zenon DEF Cpu09!Operand
    <2> QED BY <1>5, <2>1, CoffsCounts
  <1>6. CASE op.mode = "ROFFS"
    <2> DEFINE o == Cpu09(cpus, opt)!check_opreg(op)
               r == Cpu09(cpus, opt)!Out(s, 1, o, 1)
    <2>1. Cpu09(cpus, opt)!Operand(s, 1, abs) = Cpu09(cpus, opt)!Fail(r, Cpu09(cpus, opt)!MissingReg(op))
      BY <1>6, Zenon DEF Cpu09!Operand
    <2>2. IsOp(o) /\ o.mode = "ROFFS" /\ o.cosz = op.cosz
      BY <1>0, <1>6 DEF IsOp, Cpu09!check_opreg
    <2> HIDE DEF o
    <2>3. Width(o) = 1
      BY <2>2, WidthOf
    <2>4. o.mode \in Written /\ o.cosz \in DOMAIN Cpu09(cpus, opt)!coffs_size
      BY <1>0, <2>2 DEF Written
    <2>5. Counted(r, at)
      BY <2>2, <2>3, <2>4, Counts
    <2> HIDE DEF r
    <2> QED BY <2>1, <2>5, FailCounts
  <1>7. CASE op.mode \in {"DIR", "IMM8"}
    <2>1. Cpu09(cpus, opt)!Operand(s, 1, abs) = Cpu09(cpus, opt)!Out(s, 1, op, 1)
      BY <1>7, Zenon DEF Cpu09!Operand
    <2>2. Width(op) = 1
      BY <1>7, WidthOf
    <2>3. op.mode \in Written
      BY <1>7 DEF Written
    <2> HIDE DEF op
    <2> QED BY <1>0, <2>1, <2>2, <2>3, Counts
  <1>8. CASE op.mode = "IMM16"
    <2>1. Cpu09(cpus, opt)!Operand(s, 1, abs) = Cpu09(cpus, opt)!Out(s, 1, op, 2)
      BY <1>8, Zenon DEF Cpu09!Operand
    <2>2. Width(op) = 2
      BY <1>8, WidthOf
    <2>3. op.mode \in Written
      BY <1>8 DEF Written
    <2> HIDE DEF op
    <2> QED BY <1>0, <2>1, <2>2, <2>3, Counts
  <1>9. op.mode \in {"ADDR", "EXT", "NOFFS", "REL8", "REL16", "COFFS", "ROFFS", "DIR", "IMM8", "IMM16"}
    BY Zenon DEF Handled
  <1> QED BY <1>1, <1>2, <1>3, <1>4, <1>5, <1>6, <1>7, <1>8, <1>9

\* An instruction with one operand, as it is parsed.
Single(inst) ==
    /\ DOMAIN inst = {"code", "op", "dp"}
    /\ inst.op \in Seq({inst.op[1]}) /\ Len(inst.op) = 1
    /\ IsOp(inst.op[1])

\* Evaluating the expression leaves how it is addressed alone.
LEMMA EvaluatedKeeps ==
    ASSUME NEW op, IsOp(op)
    PROVE  /\ IsOp(Cpu09(cpus, opt)!Evaluated(op))
           /\ Cpu09(cpus, opt)!Evaluated(op).mode = op.mode
           /\ Cpu09(cpus, opt)!Evaluated(op).cosz = op.cosz
           /\ "INDIR" \in Cpu09(cpus, opt)!Evaluated(op).flags <=> "INDIR" \in op.flags
  <1> DEFINE e == op.value[1]
             f == Cpu09(cpus, opt)!ext_find_base(e)
             pc1 == IF f.btype = "PCREL" /\ f.modifier = "" /\ op.mode \in Cpu09(cpus, opt)!IMM THEN {"PC"} ELSE {}
             sel == CASE f.modifier = "LOBYTE" -> {"LO"}
                      [] f.modifier = "HIBYTE" -> {"HI"}
                      [] OTHER -> {}
             v == Cpu09(cpus, opt)!Value(e)
             w == <<[e EXCEPT !.type = Cpu09(cpus, opt)!NewType(e)]>>
             a == [op EXCEPT !.base = "none"]
             b == [op EXCEPT !.curval = v, !.base = "none"]
             c == [op EXCEPT !.curval = v, !.base = e.left.base, !.value = w, !.flags = @ \cup pc1 \cup sel]
  <1>1. "INDIR" \notin sel /\ "INDIR" \notin pc1
    <2>1. sel = {"LO"} \/ sel = {"HI"} \/ sel = {}
      BY Zenon
    <2> HIDE DEF sel
    <2> QED BY <2>1
  <1>2. Cpu09(cpus, opt)!Evaluated(op) = IF op.value = << >> THEN a ELSE IF e.left.base = "none" THEN b ELSE c
    BY DEF Cpu09!Evaluated
  <1> HIDE DEF sel, pc1, v, w
  <1>3. IsOp(a) /\ a.mode = op.mode /\ a.cosz = op.cosz /\ a.flags = op.flags
    BY DEF IsOp
  <1>4. IsOp(b) /\ b.mode = op.mode /\ b.cosz = op.cosz /\ b.flags = op.flags
    BY DEF IsOp
  <1>5. IsOp(c) /\ c.mode = op.mode /\ c.cosz = op.cosz /\ c.flags = op.flags \cup pc1 \cup sel
    BY DEF IsOp
  <1> HIDE DEF a, b, c, e
  <1> QED BY <1>1, <1>2, <1>3, <1>4, <1>5

\* The column of the row that the opcode is taken from.
Column(op) ==
    CASE op.mode = "DIR" -> "DIR"
      [] op.mode \in {"ADDR", "EXT"} -> IF "INDIR" \in op.flags THEN "IDX" ELSE "EXT"
      [] Cpu09(cpus, opt)!IsIndexed(op) -> "IDX"
      [] OTHER -> "STD"

\* The opcode's column follows from the operand's mode.
LEMMA OcIndexIs ==
    ASSUME NEW inst, Single(inst), ~Cpu09(cpus, opt)!IsMove(inst)
    PROVE  Cpu09(cpus, opt)!OcIndex(inst) = Column(inst.op[1])
  <1> DEFINE Of(op) == CASE op.mode = "DIR" -> {"DIR"}
                         [] op.mode \in {"ADDR", "EXT"} -> IF "INDIR" \in op.flags THEN {"IDX"} ELSE {"EXT"}
                         [] Cpu09(cpus, opt)!IsIndexed(op) -> {"IDX"}
                         [] OTHER -> {}
             all == UNION {Of(inst.op[i]) : i \in 1 .. Len(inst.op)}
             op1 == inst.op[1]
  <1>1. all = Of(op1)
    <2> HIDE DEF Of
    <2>1. 1 .. Len(inst.op) = {1}
      BY DEF Single
    <2>2. {Of(inst.op[i]) : i \in 1 .. Len(inst.op)} = {Of(op1)}
      BY <2>1
    <2> QED BY <2>2
  <1>2. Cpu09(cpus, opt)!OcIndex(inst) = IF all = {} THEN "STD" ELSE CHOOSE x \in all : TRUE
    <2>1. Cpu09(cpus, opt)!OcIndex(inst) = IF Cpu09(cpus, opt)!IsMove(inst) \/ all = {} THEN "STD" ELSE CHOOSE x \in all : TRUE
      BY Zenon DEF Cpu09!OcIndex
    <2> HIDE DEF all
    <2> QED BY <2>1
  <1>3. Cpu09(cpus, opt)!IsIndexed(op1) <=> op1.mode \in {"COFFS", "NOFFS", "ROFFS"}
    BY DEF Cpu09!IsIndexed
  <1> HIDE DEF all
  <1>4. CASE op1.mode = "DIR"
    <2>1. Of(op1) = {"DIR"} /\ Column(op1) = "DIR"
      <3>1. op1.mode \notin {"ADDR", "EXT"} /\ ~Cpu09(cpus, opt)!IsIndexed(op1)
        BY <1>3, <1>4
      <3> QED BY <1>4, <3>1, Zenon DEF Column
    <2> HIDE DEF Of
    <2> QED BY <1>1, <1>2, <2>1
  <1>5. CASE op1.mode \in {"ADDR", "EXT"}
    <2>1. /\ Of(op1) = (IF "INDIR" \in op1.flags THEN {"IDX"} ELSE {"EXT"})
          /\ Column(op1) = (IF "INDIR" \in op1.flags THEN "IDX" ELSE "EXT")
      <3>1. op1.mode # "DIR" /\ ~Cpu09(cpus, opt)!IsIndexed(op1)
        BY <1>3, <1>5
      <3> QED BY <1>5, <3>1, Zenon DEF Column
    <2> HIDE DEF Of
    <2> QED BY <1>1, <1>2, <2>1
  <1>6. CASE Cpu09(cpus, opt)!IsIndexed(op1)
    <2>1. Of(op1) = {"IDX"} /\ Column(op1) = "IDX"
      <3>1. op1.mode \notin {"DIR", "ADDR", "EXT"}
        BY <1>3, <1>6
      <3> QED BY <1>6, <3>1, Zenon DEF Column
    <2> HIDE DEF Of
    <2> QED BY <1>1, <1>2, <2>1
  <1>7. CASE op1.mode \notin {"DIR", "ADDR", "EXT"} /\ ~Cpu09(cpus, opt)!IsIndexed(op1)
    <2>1. Of(op1) = {} /\ Column(op1) = "STD"
      BY <1>7, Zenon DEF Column
    <2> HIDE DEF Of
    <2> QED BY <1>1, <1>2, <2>1
  <1> QED BY <1>4, <1>5, <1>6, <1>7

\* Before its operand is looked at, an instruction is as large as its opcode.
LEMMA BeginOpens ==
    ASSUME NEW inst, Single(inst), ~Cpu09(cpus, opt)!IsMove(inst), NEW at \in Int,
           inst.op[1].cosz \in DOMAIN Cpu09(cpus, opt)!coffs_size
    PROVE  LET s == Cpu09(cpus, opt)!Begin(inst, at)
           IN  /\ Opened(s, at)
               /\ s.code = inst.code
               /\ s.ocidx = Column(inst.op[1])
               /\ s.op[1] = Cpu09(cpus, opt)!Evaluated(inst.op[1])
  <1> DEFINE s == Cpu09(cpus, opt)!Begin(inst, at)
             op == [i \in 1 .. Len(inst.op) |-> Cpu09(cpus, opt)!Evaluated(inst.op[i])]
  <1>1. Len(inst.op) = 1 /\ 1 .. 1 = {1}
    BY DEF Single
  <1>2. /\ DOMAIN s = {"code", "op", "dp", "orig", "pc", "ocidx", "mcv", "mpc", "err"}
        /\ s.code = inst.code /\ s.orig = at /\ s.op = op
        /\ s.ocidx = Cpu09(cpus, opt)!OcIndex(inst)
        /\ s.pc = at + Cpu09(cpus, opt)!OcSize(inst.code, Cpu09(cpus, opt)!OcIndex(inst))
    BY DEF Cpu09!Begin
  <1>3. op = [i \in {1} |-> Cpu09(cpus, opt)!Evaluated(inst.op[i])]
    BY <1>1
  <1>4. op[1] = Cpu09(cpus, opt)!Evaluated(inst.op[1]) /\ DOMAIN op = {1}
    BY <1>3
  <1>5. IsOp(Cpu09(cpus, opt)!Evaluated(inst.op[1])) /\ Cpu09(cpus, opt)!Evaluated(inst.op[1]).cosz = inst.op[1].cosz
    BY EvaluatedKeeps DEF Single
  <1>6. Cpu09(cpus, opt)!OcIndex(inst) = Column(inst.op[1])
    BY OcIndexIs
  <1> HIDE DEF s, op
  <1> QED BY <1>2, <1>4, <1>5, <1>6 DEF Opened, IsState, s

\* process_instruction looks at the one operand once.
LEMMA OneOperand ==
    ASSUME NEW inst, Single(inst), NEW at, NEW abs
    PROVE  Cpu09(cpus, opt)!process_instruction(inst, at, abs) = Cpu09(cpus, opt)!Operand(Cpu09(cpus, opt)!Begin(inst, at), 1, abs)
  <1> DEFINE all(f) == [i \in 0 .. Len(inst.op) |->
                           IF i = 0 THEN Cpu09(cpus, opt)!Begin(inst, at) ELSE Cpu09(cpus, opt)!Operand(f[i - 1], i, abs)]
             b == Cpu09(cpus, opt)!Begin(inst, at)
             g == [i \in 0 .. 1 |-> IF i = 0 THEN b ELSE Cpu09(cpus, opt)!Operand(b, 1, abs)]
             st == CHOOSE f : f = all(f)
  <1>1. Len(inst.op) = 1
    BY DEF Single
  <1> HIDE DEF b
  <1>2. g = all(g)
    <2>1. \A i \in 0 .. 1 : g[i] = all(g)[i]
      BY <1>1 DEF b
    <2> QED BY <1>1, <2>1
  <1>3. st = all(st)
    <2> HIDE DEF all, g
    <2> QED BY <1>2, Zenon
  <1>4. Cpu09(cpus, opt)!process_instruction(inst, at, abs) = st[1]
    BY <1>1 DEF Cpu09!process_instruction
  <1> HIDE DEF st
  <1>5. st[0] = b /\ st[1] = Cpu09(cpus, opt)!Operand(st[0], 1, abs)
    BY <1>1, <1>3 DEF b
  <1> QED BY <1>4, <1>5 DEF b

\* What process_instruction accepts: an instruction as it is parsed.
Accepted(inst) ==
    /\ Single(inst) /\ ~Cpu09(cpus, opt)!IsMove(inst)
    /\ inst.op[1].cosz = "OFF5"
    /\ LET op == inst.op[1]
       IN  CASE op.mode = "ADDR"  -> /\ "INDIR" \notin op.flags
                                     /\ Cpu09(cpus, opt)!OcSize(inst.code, "DIR") = Cpu09(cpus, opt)!OcSize(inst.code, "EXT")
                                     /\ opt = {} \/ Interchangeable(inst.code)
             [] op.mode = "EXT"   -> "INDIR" \in op.flags \/ opt = {} \/ Interchangeable(inst.code)
             [] op.mode = "REL16" -> ShortBefore(inst.code)
             [] OTHER -> op.mode \in {"NOFFS", "COFFS", "ROFFS", "DIR", "REL8", "IMM8", "IMM16"}

\* process_instruction counts the bytes of every accepted instruction.
LEMMA Processed ==
    ASSUME NEW inst, Accepted(inst), NEW at \in Int, NEW abs
    PROVE  Counted(Cpu09(cpus, opt)!process_instruction(inst, at, abs), at)
  <1> DEFINE s == Cpu09(cpus, opt)!Begin(inst, at)
             op == inst.op[1]
  <1>1. Single(inst) /\ ~Cpu09(cpus, opt)!IsMove(inst) /\ op.cosz = "OFF5" /\ IsOp(op)
    BY DEF Accepted, Single
  <1>2. /\ Opened(s, at) /\ s.code = inst.code /\ s.ocidx = Column(op)
        /\ s.op[1] = Cpu09(cpus, opt)!Evaluated(op)
    BY <1>1, BeginOpens, SizesAreInt
  <1>3. /\ s.op[1].mode = op.mode /\ s.op[1].cosz = op.cosz
        /\ "INDIR" \in s.op[1].flags <=> "INDIR" \in op.flags
    BY <1>1, <1>2, EvaluatedKeeps
  <1> HIDE DEF s, op
  <1>4. Handled(s)
    <2>1. CASE op.mode = "ADDR"
      <3>1. /\ "INDIR" \notin op.flags
            /\ Cpu09(cpus, opt)!OcSize(inst.code, "DIR") = Cpu09(cpus, opt)!OcSize(inst.code, "EXT")
            /\ opt = {} \/ Interchangeable(inst.code)
        BY <2>1, Zenon DEF Accepted, op
      <3>2. s.ocidx = "EXT"
        <4>1. op.mode # "DIR" /\ ~Cpu09(cpus, opt)!IsIndexed(op)
          BY <2>1 DEF Cpu09!IsIndexed
        <4> QED BY <1>2, <2>1, <3>1, <4>1, Zenon DEF Column
      <3> QED BY <1>2, <1>3, <2>1, <3>1, <3>2, Zenon DEF Handled
    <2>2. CASE op.mode = "EXT"
      <3>1. "INDIR" \in op.flags \/ opt = {} \/ Interchangeable(inst.code)
        BY <2>2, Zenon DEF Accepted, op
      <3>2. s.ocidx = IF "INDIR" \in op.flags THEN "IDX" ELSE "EXT"
        <4>1. op.mode # "DIR" /\ ~Cpu09(cpus, opt)!IsIndexed(op)
          BY <2>2 DEF Cpu09!IsIndexed
        <4> QED BY <1>2, <2>2, <3>1, <4>1, Zenon DEF Column
      <3>3. s.ocidx = IF "INDIR" \in s.op[1].flags THEN "IDX" ELSE "EXT"
        BY <1>3, <3>2
      <3> QED BY <1>2, <1>3, <2>2, <3>1, <3>3, Zenon DEF Handled
    <2>3. CASE op.mode = "NOFFS"
      BY <1>1, <1>3, <2>3, Zenon DEF Handled
    <2>4. CASE op.mode \in {"REL8", "REL16"}
      <3>1. op.mode = "REL16" => ShortBefore(inst.code)
        BY Zenon DEF Accepted, op
      <3>2. s.ocidx = "STD"
        <4>1. op.mode \notin {"DIR", "ADDR", "EXT"} /\ ~Cpu09(cpus, opt)!IsIndexed(op)
          BY <2>4 DEF Cpu09!IsIndexed
        <4> QED BY <1>2, <4>1, Zenon DEF Column
      <3> QED BY <1>2, <1>3, <2>4, <3>1, <3>2, Zenon DEF Handled
    <2>5. CASE op.mode \in {"COFFS", "ROFFS", "DIR", "IMM8", "IMM16"}
      BY <1>3, <2>5, Zenon DEF Handled
    <2>6. op.mode \in {"ADDR", "EXT", "NOFFS", "REL8", "REL16", "COFFS", "ROFFS", "DIR", "IMM8", "IMM16"}
      BY Zenon DEF Accepted, op
    <2> QED BY <2>1, <2>2, <2>3, <2>4, <2>5, <2>6
  <1>5. Counted(Cpu09(cpus, opt)!Operand(s, 1, abs), at)
    BY <1>2, <1>4, OperandCounts
  <1> QED BY <1>1, <1>5, OneOperand DEF s

\* A sequence of n bytes.
Bytes(b, n) == \E S : b \in Seq(S) /\ Len(b) = n

\* Sequences of up to three bytes.
LEMMA FewBytes ==
    ASSUME NEW x, NEW y, NEW z
    PROVE  Bytes(<< >>, 0) /\ Bytes(<<x>>, 1) /\ Bytes(<<x, y>>, 2) /\ Bytes(<<x, y, z>>, 3)
  <1>1. << >> \in Seq({}) /\ Len(<< >>) = 0
    OBVIOUS
  <1>2. <<x>> \in Seq({x}) /\ Len(<<x>>) = 1
    OBVIOUS
  <1>3. <<x, y>> \in Seq({x, y}) /\ Len(<<x, y>>) = 2
    OBVIOUS
  <1>4. <<x, y, z>> \in Seq({x, y, z}) /\ Len(<<x, y, z>>) = 3
    OBVIOUS
  <1> QED BY <1>1, <1>2, <1>3, <1>4, Zenon DEF Bytes

\* Two sequences of bytes in a row.
LEMMA MoreBytes ==
    ASSUME NEW a, NEW b, NEW m, NEW n, Bytes(a, m), Bytes(b, n)
    PROVE  Bytes(a \o b, m + n)
  <1>1. PICK S : a \in Seq(S) /\ Len(a) = m
    BY DEF Bytes
  <1>2. PICK T : b \in Seq(T) /\ Len(b) = n
    BY DEF Bytes
  <1>3. a \in Seq(S \cup T) /\ b \in Seq(S \cup T)
    BY <1>1, <1>2
  <1>4. a \o b \in Seq(S \cup T) /\ Len(a \o b) = m + n
    BY <1>1, <1>2, <1>3
  <1> QED BY <1>4 DEF Bytes

\* A word has two bytes.
LEMMA WordBytes ==
    ASSUME NEW val
    PROVE  Bytes(Cpu09(cpus, opt)!Word(val), 2)
  <1> DEFINE x == Cpu09(cpus, opt)!Byte(val \div 256)
             y == Cpu09(cpus, opt)!Byte(val)
  <1>1. Cpu09(cpus, opt)!Word(val) = <<x, y>>
    BY DEF Cpu09!Word
  <1> HIDE DEF x, y
  <1> QED BY <1>1, FewBytes

\* A postbyte and the offset of its size.
LEMMA CoffsLength ==
    ASSUME NEW op, op.cosz \in DOMAIN Cpu09(cpus, opt)!coffs_size, NEW val
    PROVE  Bytes(Cpu09(cpus, opt)!CoffsBytes(op, val), 1 + Cpu09(cpus, opt)!coffs_size[op.cosz])
  <1>0. /\ op.cosz \in {"OFF5", "OFF8", "OFF9", "OFF16"}
        /\ Cpu09(cpus, opt)!coffs_size["OFF5"] = 0 /\ Cpu09(cpus, opt)!coffs_size["OFF8"] = 1
        /\ Cpu09(cpus, opt)!coffs_size["OFF9"] = 1 /\ Cpu09(cpus, opt)!coffs_size["OFF16"] = 2
    BY SizesAreInt DEF Cpu09!coffs_size
  <1>1. CASE op.cosz = "OFF5"
    <2>1. PICK x : Cpu09(cpus, opt)!CoffsBytes(op, val) = <<x>>
      BY <1>1, Zenon DEF Cpu09!CoffsBytes
    <2>2. Bytes(<<x>>, 1)
      BY FewBytes
    <2>3. 1 + Cpu09(cpus, opt)!coffs_size[op.cosz] = 1
      BY <1>0, <1>1
    <2> QED BY <2>1, <2>2, <2>3
  <1>2. CASE op.cosz = "OFF8"
    <2>1. PICK x, y : Cpu09(cpus, opt)!CoffsBytes(op, val) = <<x, y>>
      BY <1>2, Zenon DEF Cpu09!CoffsBytes
    <2>2. Bytes(<<x, y>>, 2)
      BY FewBytes
    <2>3. 1 + Cpu09(cpus, opt)!coffs_size[op.cosz] = 2
      BY <1>0, <1>2
    <2> QED BY <2>1, <2>2, <2>3
  <1>3. CASE op.cosz = "OFF9"
    <2>1. PICK x, y : Cpu09(cpus, opt)!CoffsBytes(op, val) = <<x, y>>
      BY <1>3, Zenon DEF Cpu09!CoffsBytes
    <2>2. Bytes(<<x, y>>, 2)
      BY FewBytes
    <2>3. 1 + Cpu09(cpus, opt)!coffs_size[op.cosz] = 2
      BY <1>0, <1>3
    <2> QED BY <2>1, <2>2, <2>3
  <1>4. CASE op.cosz = "OFF16"
    <2>1. Cpu09(cpus, opt)!CoffsBytes(op, val) = <<Cpu09(cpus, opt)!CoffsByte(op)>> \o Cpu09(cpus, opt)!Word(val)
      BY <1>4, Zenon DEF Cpu09!CoffsBytes
    <2>2. Bytes(<<Cpu09(cpus, opt)!CoffsByte(op)>>, 1)
      BY FewBytes, Zenon
    <2>3. Bytes(Cpu09(cpus, opt)!CoffsBytes(op, val), 1 + 2)
      BY <2>1, <2>2, WordBytes, MoreBytes
    <2> QED BY <1>0, <1>4, <2>3
  <1> QED BY <1>0, <1>1, <1>2, <1>3, <1>4

\* What an operand adds, without bits in the bytes before it.
Plain(a, n) == Bytes(a.bytes, n) /\ a.last = 0 /\ a.second = 0

\* Bytes that are added by themselves.
LEMMA AddsPlain ==
    ASSUME NEW bytes, NEW n, Bytes(bytes, n), NEW relocs, NEW err
    PROVE  Plain(Cpu09(cpus, opt)!Adds(bytes, relocs, err), n)
  BY DEF Plain, Cpu09!Adds

\* A single byte without an error.
LEMMA QuietPlain ==
    ASSUME NEW x
    PROVE  Plain(Cpu09(cpus, opt)!Quiet(<<x>>), 1)
  <1>1. Bytes(<<x>>, 1)
    BY FewBytes
  <1> QED BY <1>1, AddsPlain DEF Cpu09!Quiet

\* A one-byte operand.
LEMMA ByteLength ==
    ASSUME NEW op, NEW offs
    PROVE  Plain(Cpu09(cpus, opt)!ByteOperand(op, offs), 1)
  <1> DEFINE v == Cpu09(cpus, opt)!LateFix(op, offs)
             w == CASE op.base # "none" /\ "LO" \in op.flags -> v % 256
                    [] op.base # "none" /\ "LO" \notin op.flags /\ "HI" \in op.flags -> (v \div 256) % 256
                    [] OTHER -> v
             rel == Cpu09(cpus, opt)!If(op.base # "none", Cpu09(cpus, opt)!Reloc(op, v, Cpu09(cpus, opt)!AbsOrPc(op), 8))
             nos == Cpu09(cpus, opt)!If(w \notin -128..255, {15})
  <1>1. Cpu09(cpus, opt)!ByteOperand(op, offs) = Cpu09(cpus, opt)!Adds(<<Cpu09(cpus, opt)!Byte(w)>>, rel, nos)
    BY Zenon DEF Cpu09!ByteOperand
  <1> HIDE DEF v, w, rel, nos
  <1>2. PICK x, relocs, err : Cpu09(cpus, opt)!ByteOperand(op, offs) = Cpu09(cpus, opt)!Adds(<<x>>, relocs, err)
    BY <1>1
  <1>3. Bytes(<<x>>, 1)
    BY FewBytes
  <1> QED BY <1>2, <1>3, AddsPlain

\* A two-byte operand, behind its postbyte when it is indirect.
LEMMA WordLength ==
    ASSUME NEW op, op.mode \in {"EXT", "IMM16"}, NEW offs
    PROVE  Plain(Cpu09(cpus, opt)!WordOperand(op, offs), Width(op))
  <1> DEFINE prefix == IF op.mode = "EXT"
                       THEN Cpu09(cpus, opt)!Ind(op, <<IF Cpu09(cpus, opt)!KONAMI THEN 15 ELSE 159>>, << >>) ELSE << >>
             v == Cpu09(cpus, opt)!LateFix(op, offs)
             w == prefix \o Cpu09(cpus, opt)!Word(v)
  <1>1. \E relocs, err : Cpu09(cpus, opt)!WordOperand(op, offs) = Cpu09(cpus, opt)!Adds(w, relocs, err)
    <2> DEFINE rel == Cpu09(cpus, opt)!If(op.base # "none", Cpu09(cpus, opt)!Reloc(op, v, Cpu09(cpus, opt)!AbsOrPc(op), 16))
               nos == Cpu09(cpus, opt)!If(v \notin Cpu09(cpus, opt)!Word16, {15})
    <2>1. Cpu09(cpus, opt)!WordOperand(op, offs) = Cpu09(cpus, opt)!Adds(w, rel, nos)
      BY Zenon DEF Cpu09!WordOperand
    <2> HIDE DEF prefix, v, w, rel, nos
    <2> QED BY <2>1, Zenon
  <1>2. Bytes(w, Width(op))
    <2>1. CASE op.mode = "EXT" /\ "INDIR" \in op.flags
      <3> DEFINE x == IF Cpu09(cpus, opt)!KONAMI THEN 15 ELSE 159
      <3>1. prefix = <<x>>
        BY <2>1, Zenon DEF Cpu09!Ind
      <3> HIDE DEF x, prefix, v
      <3>2. Bytes(prefix, 1)
        BY <3>1, FewBytes
      <3>3. Bytes(w, 1 + 2)
        BY <3>2, WordBytes, MoreBytes
      <3> QED BY <2>1, <3>3, WidthOf
    <2>2. CASE ~(op.mode = "EXT" /\ "INDIR" \in op.flags)
      <3>1. prefix = << >>
        BY <2>2, Zenon DEF Cpu09!Ind
      <3> HIDE DEF prefix, v
      <3>2. Bytes(prefix, 0)
        BY <3>1, FewBytes
      <3>3. Bytes(w, 0 + 2)
        BY <3>2, WordBytes, MoreBytes
      <3>4. Width(op) = 2
        BY <2>2, WidthOf
      <3> QED BY <3>3, <3>4
    <2> QED BY <2>1, <2>2
  <1> HIDE DEF w
  <1> QED BY <1>1, <1>2, AddsPlain, Zenon

\* The displacement of a branch.
LEMMA BranchLength ==
    ASSUME NEW op, NEW fix, NEW abs
    PROVE  /\ Plain(Cpu09(cpus, opt)!Branching(op, 8, fix, abs), 1)
           /\ Plain(Cpu09(cpus, opt)!Branching(op, 16, fix, abs), 2)
  <1>1. \E x, relocs : Cpu09(cpus, opt)!Branching(op, 8, fix, abs) = Cpu09(cpus, opt)!Adds(<<x>>, relocs, {})
    <2>1. 8 # 16 /\ 8 # 9
      OBVIOUS
    <2> QED BY <2>1, Zenon DEF Cpu09!Branching
  <1>2. \E val, relocs : Cpu09(cpus, opt)!Branching(op, 16, fix, abs) = Cpu09(cpus, opt)!Adds(Cpu09(cpus, opt)!Word(val), relocs, {})
    <2>1. 16 # 9
      OBVIOUS
    <2> QED BY <2>1, Zenon DEF Cpu09!Branching
  <1>3. Plain(Cpu09(cpus, opt)!Branching(op, 8, fix, abs), 1)
    BY <1>1, FewBytes, AddsPlain, Zenon
  <1>4. Plain(Cpu09(cpus, opt)!Branching(op, 16, fix, abs), 2)
    BY <1>2, WordBytes, AddsPlain, Zenon
  <1> QED BY <1>3, <1>4

\* An operand in its final mode is written with the bytes it was counted for.
LEMMA OperandWidth ==
    ASSUME NEW s, s.op[1].mode \in Written, s.op[1].cosz \in DOMAIN Cpu09(cpus, opt)!coffs_size,
           NEW offs, NEW ocsz, NEW abs
    PROVE  Plain(Cpu09(cpus, opt)!Emit(s, 1, offs, ocsz, abs), Width(s.op[1]))
  <1> DEFINE op == s.op[1]
             a == Cpu09(cpus, opt)!Emit(s, 1, offs, ocsz, abs)
  <1>1. CASE op.mode \in {"DIR", "IMM8"}
    <2>1. a = Cpu09(cpus, opt)!ByteOperand(op, offs)
      BY <1>1, Zenon DEF Cpu09!Emit
    <2>2. Width(op) = 1
      BY <1>1, WidthOf
    <2> HIDE DEF op, a
    <2> QED BY <2>1, <2>2, ByteLength DEF op, a
  <1>2. CASE op.mode \in {"EXT", "IMM16"}
    <2>1. a = Cpu09(cpus, opt)!WordOperand(op, offs)
      BY <1>2, Zenon DEF Cpu09!Emit
    <2> QED BY <1>2, <2>1, WordLength
  <1>3. CASE op.mode = "REL8"
    <2>1. a = Cpu09(cpus, opt)!Branching(op, 8, 1, abs)
      BY <1>3, Zenon DEF Cpu09!Emit
    <2>2. Width(op) = 1
      BY <1>3, WidthOf
    <2> QED BY <2>1, <2>2, BranchLength
  <1>4. CASE op.mode = "REL16"
    <2>1. a = Cpu09(cpus, opt)!Branching(op, 16, 2, abs)
      BY <1>4, Zenon DEF Cpu09!Emit
    <2>2. Width(op) = 2
      BY <1>4, WidthOf
    <2> QED BY <2>1, <2>2, BranchLength
  <1>5. CASE op.mode = "ROFFS"
    <2>1. a = Cpu09(cpus, opt)!Quiet(<<Cpu09(cpus, opt)!RoffsByte(op)>>)
      BY <1>5, Zenon DEF Cpu09!Emit
    <2>2. Width(op) = 1
      BY <1>5, WidthOf
    <2> QED BY <2>1, <2>2, QuietPlain
  <1>6. CASE op.mode = "NOFFS" /\ ~Cpu09(cpus, opt)!HC12
    <2>1. a = Cpu09(cpus, opt)!Quiet(<<Cpu09(cpus, opt)!NoffsByte(op)>>)
      BY <1>6, Zenon DEF Cpu09!Emit
    <2>2. Width(op) = 1
      BY <1>6, WidthOf
    <2> QED BY <2>1, <2>2, QuietPlain
  <1>7. CASE op.mode = "NOFFS" /\ Cpu09(cpus, opt)!HC12
    <2> DEFINE val == Cpu09(cpus, opt)!CoffsValue([op EXCEPT !.curval = 0])
    <2>1. a = Cpu09(cpus, opt)!Adds(Cpu09(cpus, opt)!CoffsBytes(op, val), {}, {14})
      BY <1>7, Zenon DEF Cpu09!Emit
    <2>2. Width(op) = 1 + Cpu09(cpus, opt)!coffs_size[op.cosz]
      BY <1>7, WidthOf
    <2> HIDE DEF val
    <2>3. Bytes(Cpu09(cpus, opt)!CoffsBytes(op, val), Width(op))
      BY <2>2, CoffsLength
    <2> QED BY <2>1, <2>3, AddsPlain
  <1>8. CASE op.mode = "COFFS"
    <2>1. a = Cpu09(cpus, opt)!Offset(op, abs)
      BY <1>8, Zenon DEF Cpu09!Emit
    <2>2. \E val, relocs, err : Cpu09(cpus, opt)!Offset(op, abs) = Cpu09(cpus, opt)!Adds(Cpu09(cpus, opt)!CoffsBytes(op, val), relocs, err)
      BY Zenon DEF Cpu09!Offset
    <2>3. Width(op) = 1 + Cpu09(cpus, opt)!coffs_size[op.cosz]
      BY <1>8, WidthOf
    <2>4. \A val : Bytes(Cpu09(cpus, opt)!CoffsBytes(op, val), Width(op))
      BY <2>3, CoffsLength
    <2> HIDE DEF a, op
    <2> QED BY <2>1, <2>2, <2>4, AddsPlain DEF a, op
  <1> QED BY <1>1, <1>2, <1>3, <1>4, <1>5, <1>6, <1>7, <1>8 DEF Written

\* The opcode of a column of the row.
LEMMA OpcodeLength ==
    ASSUME NEW code, NEW col
    PROVE  Bytes(Cpu09(cpus, opt)!OpcodeBytes(Cpu09(cpus, opt)!mnemonics[code].oc[col]), Cpu09(cpus, opt)!OcSize(code, col))
  <1> DEFINE oc == Cpu09(cpus, opt)!mnemonics[code].oc[col]
  <1> HIDE DEF oc
  <1>1. CASE oc > 255
    <2>1. Cpu09(cpus, opt)!OpcodeBytes(oc) = Cpu09(cpus, opt)!Word(oc) /\ Cpu09(cpus, opt)!OcSize(code, col) = 2
      BY <1>1 DEF Cpu09!OpcodeBytes, Cpu09!OcSize, oc
    <2> QED BY <2>1, WordBytes DEF oc
  <1>2. CASE ~(oc > 255)
    <2>1. Cpu09(cpus, opt)!OpcodeBytes(oc) = <<oc>> /\ Cpu09(cpus, opt)!OcSize(code, col) = 1
      BY <1>2 DEF Cpu09!OpcodeBytes, Cpu09!OcSize, oc
    <2> QED BY <2>1, FewBytes DEF oc
  <1> QED BY <1>1, <1>2

\* A sequence with the domain {1} has one element.
LEMMA OneLong ==
    ASSUME NEW f, DOMAIN f = {1}
    PROVE  Len(f) = 1
  <1>1. DOMAIN f = 1 .. 1
    OBVIOUS
  <1> QED BY <1>1

\* The opcode and then the one operand, with nothing or-ed into it.
LEMMA OperandsAre ==
    ASSUME NEW s, IsState(s), NEW head, NEW abs, NEW n, NEW w, Len(head) = n, Plain(Cpu09(cpus, opt)!Emit(s, 1, n, n, abs), w)
    PROVE  /\ Cpu09(cpus, opt)!Operands(s, head, abs).bytes = head \o Cpu09(cpus, opt)!Emit(s, 1, n, n, abs).bytes
           /\ Cpu09(cpus, opt)!Operands(s, head, abs).relocs = Cpu09(cpus, opt)!Emit(s, 1, n, n, abs).relocs
           /\ Cpu09(cpus, opt)!Operands(s, head, abs).err = s.err \cup Cpu09(cpus, opt)!Emit(s, 1, n, n, abs).err
  <1> DEFINE first == [bytes |-> head, relocs |-> {}, err |-> s.err]
             all(f) == [i \in 0 .. Len(s.op) |->
                           IF i = 0 THEN first ELSE Cpu09(cpus, opt)!AddOperand(f[i - 1], s, i, n, abs)]
             a == Cpu09(cpus, opt)!Emit(s, 1, n, n, abs)
             g == [i \in 0 .. 1 |-> IF i = 0 THEN first ELSE Cpu09(cpus, opt)!AddOperand(first, s, 1, n, abs)]
             f1 == CHOOSE f : f = all(f)
  <1>1. Len(s.op) = 1
    BY OneLong DEF IsState
  <1>2. g = all(g)
    <2> HIDE DEF first
    <2>1. \A i \in 0 .. 1 : g[i] = all(g)[i]
      BY <1>1
    <2> QED BY <1>1, <2>1
  <1>3. f1 = all(f1)
    <2> HIDE DEF all, g
    <2> QED BY <1>2, Zenon
  <1>4. Cpu09(cpus, opt)!Operands(s, head, abs) = f1[1]
    BY <1>1 DEF Cpu09!Operands
  <1>5. first.bytes = head /\ first.relocs = {} /\ first.err = s.err
    OBVIOUS
  <1> HIDE DEF f1, first
  <1>6. f1[1] = Cpu09(cpus, opt)!AddOperand(first, s, 1, n, abs)
    BY <1>1, <1>3
  <1>7. f1[1] = Cpu09(cpus, opt)!Joined(first, a)
    BY <1>5, <1>6 DEF Cpu09!AddOperand
  <1>8. a.last = 0 /\ a.second = 0
    BY DEF Plain
  <1> HIDE DEF a
  <1>9. /\ Cpu09(cpus, opt)!Joined(first, a).bytes = head \o a.bytes
        /\ Cpu09(cpus, opt)!Joined(first, a).relocs = a.relocs
        /\ Cpu09(cpus, opt)!Joined(first, a).err = s.err \cup a.err
    BY <1>5, <1>8 DEF Cpu09!Joined, Cpu09!OrAt
  <1> QED BY <1>4, <1>7, <1>9 DEF a

\* The output o has the bytes counted, and what the operand a adds to it.
AsCounted(s, at, o, a) ==
    /\ Len(o.bytes) = s.pc - at
    /\ o.ierror = FALSE
    /\ o.relocs = a.relocs
    /\ o.err = s.err \cup a.err

\* eval_instruction writes the bytes that process_instruction counted.
LEMMA CountedIsWritten ==
    ASSUME NEW s, NEW at \in Int, Counted(s, at), NEW abs
    PROVE  AsCounted(s, at, Cpu09(cpus, opt)!Assembled(s, at, abs),
                     Cpu09(cpus, opt)!Emit(s, 1, Cpu09(cpus, opt)!OcSize(s.code, s.ocidx), Cpu09(cpus, opt)!OcSize(s.code, s.ocidx), abs))
  <1> DEFINE head == Cpu09(cpus, opt)!OpcodeBytes(Cpu09(cpus, opt)!mnemonics[s.code].oc[s.ocidx])
             n == Cpu09(cpus, opt)!OcSize(s.code, s.ocidx)
             r == Cpu09(cpus, opt)!Operands(s, head, abs)
             o == Cpu09(cpus, opt)!Assembled(s, at, abs)
             a == Cpu09(cpus, opt)!Emit(s, 1, n, n, abs)
             w == Width(s.op[1])
  <1>1. Bytes(head, n)
    BY OpcodeLength
  <1>2. Len(head) = n
    BY <1>1 DEF Bytes
  <1>3. Plain(a, w)
    BY OperandWidth DEF Counted
  <1>4. n \in Int /\ w \in Int
    BY SizesAreInt, WidthIs DEF Counted
  <1>5. o = Cpu09(cpus, opt)!Checked(r, s.pc - at) /\ IsState(s) /\ s.pc = at + n + w
    BY DEF Cpu09!Assembled, Counted
  <1> HIDE DEF head, n, w
  <1>6. r.bytes = head \o a.bytes /\ r.relocs = a.relocs /\ r.err = s.err \cup a.err
    BY <1>2, <1>3, <1>5, OperandsAre
  <1>7. Bytes(r.bytes, n + w)
    BY <1>1, <1>3, <1>6, MoreBytes DEF Plain
  <1>8. Len(r.bytes) = n + w /\ s.pc - at = n + w
    BY <1>4, <1>5, <1>7 DEF Bytes
  <1> HIDE DEF r, o, a
  <1>9. Len(o.bytes) = s.pc - at /\ o.ierror = FALSE /\ o.relocs = a.relocs /\ o.err = s.err \cup a.err
    BY <1>5, <1>6, <1>8 DEF Cpu09!Checked
  <1>10. AsCounted(s, at, o, a)
    BY <1>9, Zenon DEF AsCounted
  <1> QED BY <1>10, Zenon DEF o, a, n

\* The row of a mnemonic for the processor: the only one that is available.
LEMMA OCis ==
    ASSUME NEW name, NEW i \in Cpu09(cpus, opt)!RowsOf(name), i \in Int, Cpu09(cpus, opt)!cpu_available(i),
           \A j \in Cpu09(cpus, opt)!RowsOf(name) : Cpu09(cpus, opt)!cpu_available(j) => j = i
    PROVE  Cpu09(cpus, opt)!OC(name) = i
  <1> DEFINE rows == {j \in Cpu09(cpus, opt)!RowsOf(name) : Cpu09(cpus, opt)!cpu_available(j)}
  <1>1. rows = {i}
    OBVIOUS
  <1>2. Cpu09(cpus, opt)!OC(name) = Cpu09(cpus, opt)!LastRow(rows)
    BY DEF Cpu09!OC
  <1> HIDE DEF rows
  <1> QED BY <1>1, <1>2 DEF Cpu09!LastRow

\* A mnemonic that the processor does not have gets row 0.
LEMMA OCnone ==
    ASSUME NEW name, \A j \in Cpu09(cpus, opt)!RowsOf(name) : ~Cpu09(cpus, opt)!cpu_available(j)
    PROVE  Cpu09(cpus, opt)!OC(name) = 0
  <1> DEFINE rows == {j \in Cpu09(cpus, opt)!RowsOf(name) : Cpu09(cpus, opt)!cpu_available(j)}
  <1>1. rows = {}
    OBVIOUS
  <1>2. Cpu09(cpus, opt)!OC(name) = Cpu09(cpus, opt)!LastRow(rows)
    BY DEF Cpu09!OC
  <1> HIDE DEF rows
  <1> QED BY <1>1, <1>2 DEF Cpu09!LastRow

\* Which processors a row is for.
LEMMA Where ==
    /\ \A i \in {27, 30, 32, 35, 38, 41, 8, 11, 14, 15} : Cpu09(cpus, opt)!cpu_available(i) <=> cpus \in Cpu09(cpus, opt)!M09
    /\ \A i \in {28, 33, 36, 39, 42, 9, 12} : Cpu09(cpus, opt)!cpu_available(i) <=> cpus = "hc12"
    /\ \A i \in {29, 31, 34, 37, 40, 43, 2, 10, 13} : Cpu09(cpus, opt)!cpu_available(i) <=> cpus = "konami"
    /\ Cpu09(cpus, opt)!cpu_available(1) <=> cpus \in Cpu09(cpus, opt)!M09 \cup {"hc12"}
  BY BranchRows, MemoryRows, SMTT(30) DEF BranchRow, MemoryRow, Cpu09!cpu_available

LEMMA KonamiRows ==
    \A i \in {2, 10, 13} : Cpu09(cpus, opt)!cpu_available(i) => cpus = "konami"
  BY Where

\* The branches of each processor.
LEMMA Branches ==
    /\ cpus \in Cpu09(cpus, opt)!M09 =>
          /\ Cpu09(cpus, opt)!OC("bra") = 32 /\ Cpu09(cpus, opt)!OC("bsr") = 27 /\ Cpu09(cpus, opt)!OC("beq") = 38
          /\ Cpu09(cpus, opt)!OC("lbra") = 35 /\ Cpu09(cpus, opt)!OC("lbsr") = 30 /\ Cpu09(cpus, opt)!OC("lbeq") = 41
    /\ cpus = "hc12" =>
          /\ Cpu09(cpus, opt)!OC("bra") = 33 /\ Cpu09(cpus, opt)!OC("bsr") = 28 /\ Cpu09(cpus, opt)!OC("beq") = 39
          /\ Cpu09(cpus, opt)!OC("lbra") = 36 /\ Cpu09(cpus, opt)!OC("lbsr") = 0 /\ Cpu09(cpus, opt)!OC("lbeq") = 42
    /\ cpus = "konami" =>
          /\ Cpu09(cpus, opt)!OC("bra") = 34 /\ Cpu09(cpus, opt)!OC("bsr") = 29 /\ Cpu09(cpus, opt)!OC("beq") = 40
          /\ Cpu09(cpus, opt)!OC("lbra") = 37 /\ Cpu09(cpus, opt)!OC("lbsr") = 31 /\ Cpu09(cpus, opt)!OC("lbeq") = 43
  <1>0. cpus \in Cpu09(cpus, opt)!M09 => cpus # "hc12" /\ cpus # "konami"
    BY DEF Cpu09!M09
  <1>1. ASSUME cpus \in Cpu09(cpus, opt)!M09
        PROVE  /\ Cpu09(cpus, opt)!OC("bra") = 32 /\ Cpu09(cpus, opt)!OC("bsr") = 27 /\ Cpu09(cpus, opt)!OC("beq") = 38
               /\ Cpu09(cpus, opt)!OC("lbra") = 35 /\ Cpu09(cpus, opt)!OC("lbsr") = 30 /\ Cpu09(cpus, opt)!OC("lbeq") = 41
    <2>1. Cpu09(cpus, opt)!OC("bra") = 32
      BY <1>0, <1>1, Where, RowsByName, OCis
    <2>2. Cpu09(cpus, opt)!OC("bsr") = 27
      BY <1>0, <1>1, Where, RowsByName, OCis
    <2>3. Cpu09(cpus, opt)!OC("beq") = 38
      BY <1>0, <1>1, Where, RowsByName, OCis
    <2>4. Cpu09(cpus, opt)!OC("lbra") = 35
      BY <1>0, <1>1, Where, RowsByName, OCis
    <2>5. Cpu09(cpus, opt)!OC("lbsr") = 30
      BY <1>0, <1>1, Where, RowsByName, OCis
    <2>6. Cpu09(cpus, opt)!OC("lbeq") = 41
      BY <1>0, <1>1, Where, RowsByName, OCis
    <2> QED BY <2>1, <2>2, <2>3, <2>4, <2>5, <2>6
  <1>2. ASSUME cpus = "hc12"
        PROVE  /\ Cpu09(cpus, opt)!OC("bra") = 33 /\ Cpu09(cpus, opt)!OC("bsr") = 28 /\ Cpu09(cpus, opt)!OC("beq") = 39
               /\ Cpu09(cpus, opt)!OC("lbra") = 36 /\ Cpu09(cpus, opt)!OC("lbsr") = 0 /\ Cpu09(cpus, opt)!OC("lbeq") = 42
    <2>1. Cpu09(cpus, opt)!OC("bra") = 33
      BY <1>0, <1>2, Where, RowsByName, OCis
    <2>2. Cpu09(cpus, opt)!OC("bsr") = 28
      BY <1>0, <1>2, Where, RowsByName, OCis
    <2>3. Cpu09(cpus, opt)!OC("beq") = 39
      BY <1>0, <1>2, Where, RowsByName, OCis
    <2>4. Cpu09(cpus, opt)!OC("lbra") = 36
      BY <1>0, <1>2, Where, RowsByName, OCis
    <2>5. Cpu09(cpus, opt)!OC("lbsr") = 0
      BY <1>0, <1>2, Where, RowsByName, OCnone
    <2>6. Cpu09(cpus, opt)!OC("lbeq") = 42
      BY <1>0, <1>2, Where, RowsByName, OCis
    <2> QED BY <2>1, <2>2, <2>3, <2>4, <2>5, <2>6
  <1>3. ASSUME cpus = "konami"
        PROVE  /\ Cpu09(cpus, opt)!OC("bra") = 34 /\ Cpu09(cpus, opt)!OC("bsr") = 29 /\ Cpu09(cpus, opt)!OC("beq") = 40
               /\ Cpu09(cpus, opt)!OC("lbra") = 37 /\ Cpu09(cpus, opt)!OC("lbsr") = 31 /\ Cpu09(cpus, opt)!OC("lbeq") = 43
    <2>1. Cpu09(cpus, opt)!OC("bra") = 34
      BY <1>0, <1>3, Where, RowsByName, OCis
    <2>2. Cpu09(cpus, opt)!OC("bsr") = 29
      BY <1>0, <1>3, Where, RowsByName, OCis
    <2>3. Cpu09(cpus, opt)!OC("beq") = 40
      BY <1>0, <1>3, Where, RowsByName, OCis
    <2>4. Cpu09(cpus, opt)!OC("lbra") = 37
      BY <1>0, <1>3, Where, RowsByName, OCis
    <2>5. Cpu09(cpus, opt)!OC("lbsr") = 31
      BY <1>0, <1>3, Where, RowsByName, OCis
    <2>6. Cpu09(cpus, opt)!OC("lbeq") = 43
      BY <1>0, <1>3, Where, RowsByName, OCis
    <2> QED BY <2>1, <2>2, <2>3, <2>4, <2>5, <2>6
  <1> QED BY <1>1, <1>2, <1>3

\* The row two before a long branch is no short branch of two opcode bytes.
LEMMA LongRows ==
    ASSUME NEW i \in {30, 31, 35, 36, 37, 41, 42, 43}
    PROVE  ShortBefore(i)
  <1>1. CASE i \in {30, 31, 35, 36, 37, 41, 42}
    <2>1. i - 2 \in {28, 29, 33, 34, 35, 39, 40}
      BY <1>1
    <2>2. Cpu09(cpus, opt)!OcSize(i - 2, "STD") = 1
      BY <2>1, BranchRows DEF BranchRow
    <2> QED BY <2>2 DEF ShortBefore
  <1>2. CASE i = 43
    <2>1. i - 2 = 41
      BY <1>2
    <2>2. Cpu09(cpus, opt)!mnemonics[i - 2].op = << {"RLL"} >>
      BY <2>1, BranchRows DEF BranchRow
    <2>3. << {"RLL"} >> # << {"RLS"} >>
      <3>1. << {"RLL"} >>[1] # << {"RLS"} >>[1]
        OBVIOUS
      <3> QED BY <3>1
    <2> QED BY <2>2, <2>3 DEF ShortBefore
  <1> QED BY <1>1, <1>2

\* Where -opt-branch and -opt-pc may replace an opcode, the sizes agree.
LEMMA SameSizes ==
    ASSUME NEW i \in {1, 8, 9, 11, 12, 14}, Cpu09(cpus, opt)!cpu_available(i)
    PROVE  Interchangeable(i)
  <1>1. CASE i \in {1, 14}
    <2>1. Cpu09(cpus, opt)!mnemonics[i].name \in {"adca", "ldx"}
      BY <1>1, RowNames, RowsByName
    <2>2. Cpu09(cpus, opt)!OcSize(i, "EXT") = Cpu09(cpus, opt)!OcSize(i, "IDX")
      BY <1>1, MemoryRows DEF MemoryRow
    <2>3. \A s : s.code = i => ~Cpu09(cpus, opt)!Jump(s)
      BY <2>1 DEF Cpu09!Jump
    <2> QED BY <2>2, <2>3 DEF Interchangeable
  <1>2. CASE i \in {8, 9, 11, 12}
    <2>1. /\ Cpu09(cpus, opt)!OcSize(i, "EXT") = 1 /\ Cpu09(cpus, opt)!OcSize(i, "IDX") = 1
      BY <1>2, MemoryRows DEF MemoryRow
    <2>2. SUFFICES ASSUME NEW s, s.code = i
                   PROVE  /\ 1 = Cpu09(cpus, opt)!OcSize(Cpu09(cpus, opt)!ShortJump(s), "STD")
                          /\ Cpu09(cpus, opt)!LongJump(s) # 0 =>
                                /\ Cpu09(cpus, opt)!OcSize(Cpu09(cpus, opt)!LongJump(s), "STD") = 1 + (IF Cpu09(cpus, opt)!HC12 THEN 1 ELSE 0)
                                /\ ShortBefore(Cpu09(cpus, opt)!LongJump(s))
      BY <2>1 DEF Interchangeable
    <2>3. /\ Cpu09(cpus, opt)!ShortJump(s) \in {Cpu09(cpus, opt)!OC("bra"), Cpu09(cpus, opt)!OC("bsr")}
          /\ Cpu09(cpus, opt)!LongJump(s) \in {Cpu09(cpus, opt)!OC("lbra"), Cpu09(cpus, opt)!OC("lbsr")}
      BY DEF Cpu09!ShortJump, Cpu09!LongJump
    <2>4. CASE i \in {8, 11}
      <3>1. cpus \in Cpu09(cpus, opt)!M09 /\ ~Cpu09(cpus, opt)!HC12
        BY <2>4, Where DEF Cpu09!HC12, Cpu09!M09
      <3>2. Cpu09(cpus, opt)!ShortJump(s) \in {32, 27} /\ Cpu09(cpus, opt)!LongJump(s) \in {35, 30}
        BY <2>3, <3>1, Branches
      <3> QED BY <3>1, <3>2, BranchRows, LongRows DEF BranchRow
    <2>5. CASE i \in {9, 12}
      <3>1. cpus = "hc12" /\ Cpu09(cpus, opt)!HC12
        BY <2>5, Where DEF Cpu09!HC12
      <3>2. Cpu09(cpus, opt)!ShortJump(s) \in {33, 28} /\ Cpu09(cpus, opt)!LongJump(s) \in {36, 0}
        BY <2>3, <3>1, Branches
      <3> QED BY <3>1, <3>2, BranchRows, LongRows DEF BranchRow
    <2> QED BY <1>2, <2>4, <2>5
  <1> QED BY <1>1, <1>2

\* The state of new_inst's loop for a row with one operand.
IsLoop(s) ==
    /\ DOMAIN s = {"j", "k", "again", "go", "ops"}
    /\ s.ops = [i \in {1} |-> s.ops[1]]
At(s, j, k, again, go, op) ==
    j \in {1, 2} /\ k \in Nat /\ go \in BOOLEAN /\ IsLoop(s) /\ s.j = j /\ s.k = k /\ s.again = again /\ s.go = go /\ s.ops[1] = op

\* How the result of parsing an argument moves the loop on.
LEMMA ParsedIs ==
    ASSUME NEW s, NEW k, NEW again, NEW op, At(s, 1, k, again, TRUE, op), NEW r
    PROVE  /\ r.rc = "MATCH" => At(Cpu09(cpus, opt)!Parsed(s, r), 2, k + 1, again, TRUE, r.op)
           /\ r.rc = "COMB_OPT" => At(Cpu09(cpus, opt)!Parsed(s, r), 1, k + 1, 1, TRUE, r.op)
           /\ r.rc = "NEXT" => At(Cpu09(cpus, opt)!Parsed(s, r), 2, k, again, TRUE, op)
           /\ r.rc \in {"NOMATCH", "CORRUPT"} => At(Cpu09(cpus, opt)!Parsed(s, r), 1, k, again, FALSE, op)
  <1> DEFINE m == [s EXCEPT !.j = @ + 1, !.k = @ + 1, !.ops[s.j] = r.op]
             c == [s EXCEPT !.k = @ + 1, !.again = s.j, !.ops[s.j] = r.op]
             n == [s EXCEPT !.j = @ + 1]
             f == [s EXCEPT !.go = FALSE]
  <1>1. At(m, 2, k + 1, again, TRUE, r.op)
    BY DEF At, IsLoop
  <1>2. At(c, 1, k + 1, 1, TRUE, r.op)
    BY DEF At, IsLoop
  <1>3. At(n, 2, k, again, TRUE, op)
    BY DEF At, IsLoop
  <1>4. At(f, 1, k, again, FALSE, op)
    BY DEF At, IsLoop
  <1>5. r.rc = "MATCH" => Cpu09(cpus, opt)!Parsed(s, r) = m
    BY Zenon DEF Cpu09!Parsed
  <1>6. r.rc = "COMB_OPT" => Cpu09(cpus, opt)!Parsed(s, r) = c
    BY Zenon DEF Cpu09!Parsed
  <1>7. r.rc = "NEXT" => Cpu09(cpus, opt)!Parsed(s, r) = n
    BY Zenon DEF Cpu09!Parsed
  <1>8. r.rc \in {"NOMATCH", "CORRUPT"} => Cpu09(cpus, opt)!Parsed(s, r) = f
    BY Zenon DEF Cpu09!Parsed
  <1> HIDE DEF m, c, n, f
  <1> QED BY <1>1, <1>2, <1>3, <1>4, <1>5, <1>6, <1>7, <1>8

\* A line has one or two arguments.
OneOrTwo(args) == Len(args) \in {1, 2}

Beyond(args, k) == k > Len(args)

\* The three arms of a step.
LEMMA StepArms ==
    ASSUME NEW types, NEW args, NEW s
    PROVE  /\ (~s.go \/ s.j > Len(types)) /\ ~(s.go /\ s.j <= Len(types) /\ s.k > Len(args)) =>
                 Cpu09(cpus, opt)!ParseStep(s, types, args) = s
           /\ ~(~s.go \/ s.j > Len(types)) =>
                 IF s.go /\ s.j <= Len(types) /\ s.k > Len(args)
                 THEN Cpu09(cpus, opt)!ParseStep(s, types, args)
                        = [s EXCEPT !.go = FALSE, !.j = IF s.j = s.again THEN s.j + 1 ELSE s.j]
                 ELSE Cpu09(cpus, opt)!ParseStep(s, types, args)
                        = Cpu09(cpus, opt)!Parsed(s, Cpu09(cpus, opt)!parse_operand(args[s.k], s.ops[s.j], types[s.j]))
  <1> DEFINE done == ~s.go \/ s.j > Len(types)
             over == s.go /\ s.j <= Len(types) /\ s.k > Len(args)
             e == [s EXCEPT !.go = FALSE, !.j = IF s.j = s.again THEN s.j + 1 ELSE s.j]
             p == Cpu09(cpus, opt)!Parsed(s, Cpu09(cpus, opt)!parse_operand(args[s.k], s.ops[s.j], types[s.j]))
             new == Cpu09(cpus, opt)!ParseStep(s, types, args)
  <1>1. new = CASE done -> s [] over -> e [] OTHER -> p
    BY DEF Cpu09!ParseStep
  <1> HIDE DEF new, done, over, e, p
  <1>2. /\ done /\ ~over => new = s
        /\ over /\ ~done => new = e
        /\ ~done /\ ~over => new = p
    BY <1>1, Zenon
  <1> QED BY <1>2 DEF new, done, over, e, p

\* The loop has ended: no argument was accepted, or the operand is complete.
LEMMA StepStays ==
    ASSUME NEW t, NEW args, NEW s, NEW j, NEW k, NEW again, NEW go, NEW op, At(s, j, k, again, go, op),
           ~go \/ j = 2
    PROVE  Cpu09(cpus, opt)!ParseStep(s, <<t>>, args) = s
  <1>1. Len(<<t>>) = 1
    OBVIOUS
  <1>2. j \in {1, 2} /\ go \in BOOLEAN /\ s.j = j /\ s.go = go
    BY DEF At
  <1>3. /\ ~s.go \/ s.j > Len(<<t>>)
        /\ ~(s.go /\ s.j <= Len(<<t>>) /\ s.k > Len(args))
    BY <1>1, <1>2
  <1> QED BY <1>3, StepArms

\* There is no argument left for a second part of the operand.
LEMMA StepOver ==
    ASSUME NEW t, NEW args, OneOrTwo(args), NEW s, NEW k, NEW op, At(s, 1, k, 1, TRUE, op), Beyond(args, k)
    PROVE  At(Cpu09(cpus, opt)!ParseStep(s, <<t>>, args), 2, k, 1, FALSE, op)
  <1> DEFINE e == [s EXCEPT !.go = FALSE, !.j = 2]
  <1>1. Len(<<t>>) = 1
    OBVIOUS
  <1>2. s.j = 1 /\ s.go = TRUE /\ s.k = k /\ (IF s.j = s.again THEN s.j + 1 ELSE s.j) = 2
    BY DEF At
  <1>3. ~(~s.go \/ s.j > Len(<<t>>)) /\ (s.go /\ s.j <= Len(<<t>>) /\ s.k > Len(args))
    BY <1>1, <1>2 DEF Beyond
  <1>4. At(e, 2, k, 1, FALSE, op)
    <2>1. IsLoop(s) /\ s.k = k /\ k \in Nat /\ s.again = 1 /\ s.ops[1] = op
      BY DEF At
    <2>2. IsLoop(e) /\ e.k = k /\ e.again = 1 /\ e.ops[1] = op /\ e.j = 2 /\ e.go = FALSE
      BY <2>1 DEF IsLoop
    <2> HIDE DEF e
    <2> QED BY <2>1, <2>2 DEF At
  <1>5. Cpu09(cpus, opt)!ParseStep(s, <<t>>, args) = e
    <2>1. [s EXCEPT !.go = FALSE, !.j = IF s.j = s.again THEN s.j + 1 ELSE s.j] = e
      BY <1>2
    <2>2. Cpu09(cpus, opt)!ParseStep(s, <<t>>, args)
             = [s EXCEPT !.go = FALSE, !.j = IF s.j = s.again THEN s.j + 1 ELSE s.j]
      BY <1>3, StepArms
    <2> HIDE DEF e
    <2> QED BY <2>1, <2>2
  <1> HIDE DEF e
  <1> QED BY <1>4, <1>5

\* The next argument is parsed.
LEMMA StepTakes ==
    ASSUME NEW t, NEW args, OneOrTwo(args), NEW s, NEW k, NEW again, NEW op, At(s, 1, k, again, TRUE, op),
           ~Beyond(args, k)
    PROVE  Cpu09(cpus, opt)!ParseStep(s, <<t>>, args) = Cpu09(cpus, opt)!Parsed(s, Cpu09(cpus, opt)!parse_operand(args[k], op, t))
  <1>1. Len(<<t>>) = 1 /\ <<t>>[1] = t
    OBVIOUS
  <1>2. s.j = 1 /\ s.go = TRUE /\ s.k = k /\ s.ops[1] = op
    BY DEF At
  <1>3. ~(~s.go \/ s.j > Len(<<t>>)) /\ ~(s.go /\ s.j <= Len(<<t>>) /\ s.k > Len(args))
    BY <1>1, <1>2 DEF Beyond
  <1>4. Cpu09(cpus, opt)!ParseStep(s, <<t>>, args)
           = Cpu09(cpus, opt)!Parsed(s, Cpu09(cpus, opt)!parse_operand(args[s.k], s.ops[s.j], <<t>>[s.j]))
    BY <1>3, StepArms
  <1>5. args[s.k] = args[k] /\ s.ops[s.j] = op /\ <<t>>[s.j] = t
    BY <1>1, <1>2
  <1> QED BY <1>4, <1>5

\* The loop's counter for one or two arguments.
LEMMA UpToThree ==
    ASSUME NEW m \in {1, 2}
    PROVE  \A n \in 0 .. m + 1 : n \in {0, 1, 2, 3} /\ (n # 0 => n - 1 \in 0 .. m + 1)
  OBVIOUS

\* The loop makes one step for an argument, and one more.
Start == [j |-> 1, k |-> 1, again |-> 0, go |-> TRUE, ops |-> [j \in 1 .. 1 |-> Cpu09(cpus, opt)!NoOperand]]

\* The whole loop is two or three steps.
LEMMA ParseSteps ==
    ASSUME NEW t, NEW args, OneOrTwo(args)
    PROVE  LET s1 == Cpu09(cpus, opt)!ParseStep(Start, <<t>>, args)
               s2 == Cpu09(cpus, opt)!ParseStep(s1, <<t>>, args)
               s3 == Cpu09(cpus, opt)!ParseStep(s2, <<t>>, args)
           IN  Cpu09(cpus, opt)!ParseArgs(<<t>>, args) = IF Len(args) = 1 THEN s2 ELSE s3
  <1> DEFINE types == <<t>>
             s1 == Cpu09(cpus, opt)!ParseStep(Start, types, args)
             s2 == Cpu09(cpus, opt)!ParseStep(s1, types, args)
             s3 == Cpu09(cpus, opt)!ParseStep(s2, types, args)
             all(f) == [n \in 0 .. Len(args) + Len(types) |->
                           IF n = 0 THEN [j |-> 1, k |-> 1, again |-> 0, go |-> TRUE,
                                          ops |-> [j \in 1 .. Len(types) |-> Cpu09(cpus, opt)!NoOperand]]
                           ELSE Cpu09(cpus, opt)!ParseStep(f[n - 1], types, args)]
             g == [n \in 0 .. Len(args) + 1 |->
                      IF n = 0 THEN Start ELSE IF n = 1 THEN s1 ELSE IF n = 2 THEN s2 ELSE s3]
             st == CHOOSE f : f = all(f)
  <1>1. Len(types) = 1 /\ Len(args) \in {1, 2}
    BY DEF OneOrTwo
  <1> HIDE DEF types
  <1>2. Cpu09(cpus, opt)!ParseArgs(types, args) = st[Len(args) + Len(types)]
    BY DEF Cpu09!ParseArgs
  <1>0. [j |-> 1, k |-> 1, again |-> 0, go |-> TRUE, ops |-> [j \in 1 .. Len(types) |-> Cpu09(cpus, opt)!NoOperand]] = Start
    BY <1>1 DEF Start
  <1> HIDE DEF Start
  <1>3. \A f : all(f) = [n \in 0 .. Len(args) + 1 |->
                            IF n = 0 THEN Start ELSE Cpu09(cpus, opt)!ParseStep(f[n - 1], types, args)]
    BY <1>0, <1>1
  <1> HIDE DEF all
  <1>4. g = all(g)
    <2> DEFINE h == [n \in 0 .. Len(args) + 1 |->
                        IF n = 0 THEN Start ELSE Cpu09(cpus, opt)!ParseStep(g[n - 1], types, args)]
    <2>1. \A n \in 0 .. Len(args) + 1 : n \in {0, 1, 2, 3} /\ (n # 0 => n - 1 \in 0 .. Len(args) + 1)
      BY <1>1, UpToThree
    <2>2. \A n \in 0 .. Len(args) + 1 : g[n] = h[n]
      BY <2>1
    <2>3. g = h
      BY <2>2
    <2> QED BY <1>3, <2>3
  <1>5. st = all(st)
    <2> HIDE DEF g
    <2> QED BY <1>4, Zenon
  <1> HIDE DEF st
  <1>6. st = [n \in 0 .. Len(args) + 1 |-> IF n = 0 THEN Start ELSE Cpu09(cpus, opt)!ParseStep(st[n - 1], types, args)]
    BY <1>3, <1>5
  <1> HIDE DEF g
  <1>7. st[0] = Start /\ st[1] = s1 /\ st[2] = s2 /\ (Len(args) = 2 => st[3] = s3)
    <2>1. st[0] = Start
      BY <1>6
    <2>0. 0 \in 0 .. Len(args) + 1 /\ 1 \in 0 .. Len(args) + 1 /\ 2 \in 0 .. Len(args) + 1
      BY <1>1
    <2>2. st[1] = s1
      BY <1>6, <2>0, <2>1
    <2>3. st[2] = s2
      BY <1>6, <2>0, <2>2
    <2>4. Len(args) = 2 => st[3] = s3
      BY <1>6, <2>3
    <2> QED BY <2>1, <2>2, <2>3, <2>4
  <1>8. Cpu09(cpus, opt)!ParseArgs(types, args) = IF Len(args) = 1 THEN s2 ELSE s3
    <2>1. Len(args) = 1 => Cpu09(cpus, opt)!ParseArgs(types, args) = st[2]
      BY <1>1, <1>2
    <2>2. Len(args) = 2 => Cpu09(cpus, opt)!ParseArgs(types, args) = st[3]
      BY <1>1, <1>2
    <2> HIDE DEF s1, s2, s3
    <2> QED BY <1>1, <1>7, <2>1, <2>2
  <1> QED BY <1>8 DEF types

Only(op) == [i \in {1} |-> op]

\* What the loop returns: the first argument's operand, or the first one's
\* combined with the second one.
Parses(t, args, op) ==
    LET r1 == Cpu09(cpus, opt)!parse_operand(args[1], Cpu09(cpus, opt)!NoOperand, t)
        r2 == Cpu09(cpus, opt)!parse_operand(args[2], r1.op, t)
    IN  \/ Len(args) = 1 /\ r1.rc \in {"MATCH", "COMB_OPT"} /\ op = r1.op
        \/ Len(args) = 2 /\ r1.rc = "COMB_OPT" /\ r2.rc = "MATCH" /\ op = r2.op

\* The row matches when its operand is complete and no argument is left.
LEMMA CompleteIs ==
    ASSUME NEW t, NEW args, NEW s, NEW j, NEW k, NEW again, NEW go, NEW op,
           At(s, j, k, again, go, op), OneOrTwo(args)
    PROVE  Cpu09(cpus, opt)!Complete(s, <<t>>, args) = IF j = 2 /\ Beyond(args, k) THEN << Only(op) >> ELSE << >>
  <1>1. Len(<<t>>) = 1 /\ Len(args) \in {1, 2}
    BY DEF OneOrTwo
  <1>2. j \in {1, 2} /\ k \in Nat /\ s.j = j /\ s.k = k /\ s.ops = Only(op)
    BY DEF At, IsLoop, Only
  <1> QED BY <1>1, <1>2 DEF Beyond, Only, Cpu09!Complete

\* The operand of a loop that has ended so.
LEMMA CompletesWith ==
    ASSUME NEW t, NEW args, OneOrTwo(args)
    PROVE  \A s, k, again, go, op :
              At(s, 2, k, again, go, op) /\ Beyond(args, k) => Cpu09(cpus, opt)!Complete(s, <<t>>, args) = << Only(op) >>
  <1> SUFFICES ASSUME NEW s, NEW k, NEW again, NEW go, NEW op, At(s, 2, k, again, go, op), Beyond(args, k)
               PROVE  Cpu09(cpus, opt)!Complete(s, <<t>>, args) = << Only(op) >>
    OBVIOUS
  <1>1. Len(<<t>>) = 1 /\ Len(args) \in {1, 2}
    BY DEF OneOrTwo
  <1>2. k \in Nat /\ s.j = 2 /\ s.k = k /\ s.ops = Only(op)
    BY DEF At, IsLoop, Only
  <1> QED BY <1>1, <1>2 DEF Beyond, Only, Cpu09!Complete

\* A row with one operand that matches has been given it by the first
\* argument, or by the first one combined with the second.
LEMMA OneType ==
    ASSUME NEW t, NEW args, OneOrTwo(args),
           Cpu09(cpus, opt)!parse_operand(args[1], Cpu09(cpus, opt)!NoOperand, t).rc
             \in {"MATCH", "COMB_OPT", "NEXT", "NOMATCH", "CORRUPT"},
           Len(args) = 2 /\ Cpu09(cpus, opt)!parse_operand(args[1], Cpu09(cpus, opt)!NoOperand, t).rc = "COMB_OPT" =>
             Cpu09(cpus, opt)!parse_operand(args[2], Cpu09(cpus, opt)!parse_operand(args[1], Cpu09(cpus, opt)!NoOperand, t).op, t).rc
               \in {"MATCH", "NEXT", "NOMATCH", "CORRUPT"},
           Cpu09(cpus, opt)!Complete(Cpu09(cpus, opt)!ParseArgs(<<t>>, args), <<t>>, args) # << >>
    PROVE  \E op : /\ Cpu09(cpus, opt)!Complete(Cpu09(cpus, opt)!ParseArgs(<<t>>, args), <<t>>, args) = << Only(op) >>
                   /\ Parses(t, args, op)
  <1>10. \A s, k, again, go, op :
            At(s, 2, k, again, go, op) /\ Beyond(args, k) => Cpu09(cpus, opt)!Complete(s, <<t>>, args) = << Only(op) >>
    BY CompletesWith
  <1> DEFINE none == Cpu09(cpus, opt)!NoOperand
             r1 == Cpu09(cpus, opt)!parse_operand(args[1], none, t)
             r2 == Cpu09(cpus, opt)!parse_operand(args[2], r1.op, t)
             s1 == Cpu09(cpus, opt)!ParseStep(Start, <<t>>, args)
             s2 == Cpu09(cpus, opt)!ParseStep(s1, <<t>>, args)
             s3 == Cpu09(cpus, opt)!ParseStep(s2, <<t>>, args)
             end == IF Len(args) = 1 THEN s2 ELSE s3
             result == Cpu09(cpus, opt)!Complete(end, <<t>>, args)
  <1>1. Cpu09(cpus, opt)!ParseArgs(<<t>>, args) = end
    BY ParseSteps
  <1>2. At(Start, 1, 1, 0, TRUE, none)
    <2> HIDE DEF none
    <2>1. Start = [j |-> 1, k |-> 1, again |-> 0, go |-> TRUE, ops |-> [i \in {1} |-> none]]
      BY DEF Start, none
    <2> QED BY <2>1 DEF At, IsLoop
  <1> HIDE DEF none
  <1>0. /\ Len(args) = 1 \/ Len(args) = 2
        /\ Len(args) = 1 => Beyond(args, 2)
        /\ Len(args) = 2 => ~Beyond(args, 2) /\ Beyond(args, 3)
        /\ ~Beyond(args, 1)
    <2>1. Len(args) = 1 \/ Len(args) = 2
      BY DEF OneOrTwo
    <2>2. Len(args) = 1 => Beyond(args, 2) /\ ~Beyond(args, 1)
      BY DEF Beyond
    <2>3. Len(args) = 2 => ~Beyond(args, 1) /\ ~Beyond(args, 2) /\ Beyond(args, 3)
      BY DEF Beyond
    <2> QED BY <2>1, <2>2, <2>3
  <1>3. s1 = Cpu09(cpus, opt)!Parsed(Start, r1)
    <2>1. ~Beyond(args, 1)
      BY <1>0
    <2>2. Cpu09(cpus, opt)!ParseStep(Start, <<t>>, args)
            = Cpu09(cpus, opt)!Parsed(Start, Cpu09(cpus, opt)!parse_operand(args[1], none, t))
      BY <1>2, <2>1, StepTakes, Zenon
    <2> QED BY <2>2, Zenon DEF s1, r1
  <1> HIDE DEF s1, s2, s3, r1, r2
  <1>4. /\ r1.rc = "MATCH" => At(s1, 2, 2, 0, TRUE, r1.op)
        /\ r1.rc = "COMB_OPT" => At(s1, 1, 2, 1, TRUE, r1.op)
        /\ r1.rc = "NEXT" => At(s1, 2, 1, 0, TRUE, none)
        /\ r1.rc \in {"NOMATCH", "CORRUPT"} => At(s1, 1, 1, 0, FALSE, none)
    <2>1. 1 + 1 = 2 /\ 1 \in Nat
      OBVIOUS
    <2> QED BY <1>2, <1>3, <2>1, ParsedIs
  <1>5. CASE r1.rc = "MATCH"
    <2>1. At(s1, 2, 2, 0, TRUE, r1.op)
      BY <1>4, <1>5
    <2>2. s2 = s1
      BY <1>0, <2>1, StepStays DEF s2
    <2>3. s3 = s1
      BY <1>0, <2>1, <2>2, StepStays DEF s3
    <2>4. CASE Len(args) = 1
      <3>1. result = << Only(r1.op) >>
        <4>1. Cpu09(cpus, opt)!Complete(s1, <<t>>, args) = << Only(r1.op) >>
          <5>1. Beyond(args, 2)
            BY <1>0, <2>4
          <5> QED BY <1>10, <2>1, <5>1, Zenon
        <4> QED BY <2>2, <2>4, <4>1
      <3> QED BY <1>1, <1>5, <2>4, <3>1 DEF Parses, r1, none
    <2>5. CASE Len(args) = 2
      <3>1. result = << >>
        BY <1>0, <2>1, <2>3, <2>5, CompleteIs
      <3> QED BY <1>1, <3>1
    <2> QED BY <1>0, <2>4, <2>5
  <1>6. CASE r1.rc = "COMB_OPT"
    <2>1. At(s1, 1, 2, 1, TRUE, r1.op)
      BY <1>4, <1>6
    <2>2. CASE Len(args) = 1
      <3>1. At(s2, 2, 2, 1, FALSE, r1.op)
        BY <1>0, <2>1, <2>2, StepOver DEF s2
      <3>2. result = << Only(r1.op) >>
        <4>1. Cpu09(cpus, opt)!Complete(s2, <<t>>, args) = << Only(r1.op) >>
          <5>1. Beyond(args, 2)
            BY <1>0, <2>2
          <5> QED BY <1>10, <3>1, <5>1, Zenon
        <4> QED BY <2>2, <4>1
      <3> QED BY <1>1, <1>6, <2>2, <3>2 DEF Parses, r1, none
    <2>3. CASE Len(args) = 2
      <3>1. s2 = Cpu09(cpus, opt)!Parsed(s1, r2)
        <4>1. ~Beyond(args, 2)
          BY <1>0, <2>3
        <4>2. Cpu09(cpus, opt)!ParseStep(s1, <<t>>, args)
                = Cpu09(cpus, opt)!Parsed(s1, Cpu09(cpus, opt)!parse_operand(args[2], r1.op, t))
          BY <2>1, <4>1, StepTakes, Zenon
        <4> QED BY <4>2 DEF s2, r2
      <3>2. /\ r2.rc = "MATCH" => At(s2, 2, 3, 1, TRUE, r2.op)
            /\ r2.rc = "NEXT" => At(s2, 2, 2, 1, TRUE, r1.op)
            /\ r2.rc \in {"NOMATCH", "CORRUPT"} => At(s2, 1, 2, 1, FALSE, r1.op)
        <4>1. 2 + 1 = 3 /\ 2 \in Nat
          OBVIOUS
        <4> QED BY <2>1, <3>1, <4>1, ParsedIs
      <3>3. r2.rc \in {"MATCH", "NEXT", "NOMATCH", "CORRUPT"}
        BY <1>6, <2>3 DEF r1, r2, none
      <3>4. CASE r2.rc = "MATCH"
        <4>1. At(s2, 2, 3, 1, TRUE, r2.op)
          BY <3>2, <3>4
        <4>2. s3 = s2
          BY <1>0, <4>1, StepStays DEF s3
        <4>3. result = << Only(r2.op) >>
          <5>1. Cpu09(cpus, opt)!Complete(s2, <<t>>, args) = << Only(r2.op) >>
            <6>1. Beyond(args, 3)
              BY <1>0, <2>3
            <6> QED BY <1>10, <4>1, <6>1, Zenon
          <5> QED BY <2>3, <4>2, <5>1
        <4> QED BY <1>1, <1>6, <2>3, <3>4, <4>3 DEF Parses, r1, r2, none
      <3>5. CASE r2.rc = "NEXT"
        <4>1. At(s2, 2, 2, 1, TRUE, r1.op)
          BY <3>2, <3>5
        <4>2. s3 = s2
          BY <1>0, <4>1, StepStays DEF s3
        <4>3. result = << >>
          BY <1>0, <2>3, <4>1, <4>2, CompleteIs
        <4> QED BY <1>1, <4>3
      <3>6. CASE r2.rc \in {"NOMATCH", "CORRUPT"}
        <4>1. At(s2, 1, 2, 1, FALSE, r1.op)
          BY <3>2, <3>6
        <4>2. s3 = s2
          BY <1>0, <4>1, StepStays DEF s3
        <4>3. result = << >>
          BY <1>0, <2>3, <4>1, <4>2, CompleteIs
        <4> QED BY <1>1, <4>3
      <3> QED BY <3>3, <3>4, <3>5, <3>6
    <2> QED BY <1>0, <2>2, <2>3
  <1>7. CASE r1.rc = "NEXT"
    <2>1. At(s1, 2, 1, 0, TRUE, none)
      BY <1>4, <1>7
    <2>2. s2 = s1
      BY <1>0, <2>1, StepStays DEF s2
    <2>3. s3 = s1
      BY <1>0, <2>1, <2>2, StepStays DEF s3
    <2>4. result = << >>
      BY <1>0, <2>1, <2>2, <2>3, CompleteIs
    <2> QED BY <1>1, <2>4
  <1>8. CASE r1.rc \in {"NOMATCH", "CORRUPT"}
    <2>1. At(s1, 1, 1, 0, FALSE, none)
      BY <1>4, <1>8
    <2>2. s2 = s1
      BY <1>0, <2>1, StepStays DEF s2
    <2>3. s3 = s1
      BY <1>0, <2>1, <2>2, StepStays DEF s3
    <2>4. result = << >>
      BY <1>0, <2>1, <2>2, <2>3, CompleteIs
    <2> QED BY <1>1, <2>4
  <1>9. r1.rc \in {"MATCH", "COMB_OPT", "NEXT", "NOMATCH", "CORRUPT"}
    BY DEF r1, none
  <1> QED BY <1>5, <1>6, <1>7, <1>8, <1>9

IsFcn(x) == x = [k \in DOMAIN x |-> x[k]]

\* The first argument of a line: an expression without an operator, and
\* something to index with, or a register to index with in brackets.
Shaped(arg) ==
    /\ IsFcn(arg.e) /\ "type" \in DOMAIN arg.e /\ arg.e.type = "SYM"
    /\ arg.body # "" \/ Cpu09(cpus, opt)!Empty(arg) \/ (arg.open = "[" /\ arg.reg # "")

\* The second one: an index register.
Indexing(arg) == arg.open = "" /\ arg.body = "" /\ arg.reg # ""

\* The types of an operand in memory.
Memory(t) == ~(t \subseteq Cpu09(cpus, opt)!Singles) /\ "IDX0" \in t /\ t \cap Cpu09(cpus, opt)!DIX # {} /\ "IM4" \notin t

\* An operand as it is parsed.
Fields(op, arg) ==
    /\ IsOp(op) /\ IsFcn(op) /\ op.cosz = "OFF5"
    /\ op.value \in {<< >>, <<arg.e>>, <<Cpu09(cpus, opt)!parse_expr(arg)>>}
Fits(op, t, arg) ==
    /\ Fields(op, arg)
    /\ op.mode \in {"IMM8", "IMM16", "DIR", "EXT", "ADDR", "NOFFS", "ROFFS", "COFFS"}
    /\ op.mode = "ADDR" => "INDIR" \notin op.flags /\ ("EXT" \in t => "DIR" \in t)

\* The operand that parsing starts with.
LEMMA NoFields ==
    ASSUME NEW arg
    PROVE  Fields(Cpu09(cpus, opt)!NoOperand, arg)
  BY DEF Fields, IsOp, IsFcn, Cpu09!NoOperand

\* Giving an operand another mode keeps the rest of it.
LEMMA ModeFields ==
    ASSUME NEW op, NEW arg, Fields(op, arg), NEW mode
    PROVE  LET new == [op EXCEPT !.mode = mode]
           IN  Fields(new, arg) /\ new.mode = mode /\ new.flags = op.flags
  <1> DEFINE new == [op EXCEPT !.mode = mode]
  <1>1. IsOp(op) /\ IsFcn(op) /\ op.cosz = "OFF5"
    BY DEF Fields
  <1>2. IsOp(new) /\ IsFcn(new) /\ new.cosz = "OFF5" /\ new.value = op.value
    BY <1>1 DEF IsOp, IsFcn
  <1>3. new.mode = mode /\ new.flags = op.flags
    BY <1>1 DEF IsOp
  <1> HIDE DEF new
  <1> QED BY <1>2, <1>3 DEF Fields, new

\* Reading an index register keeps the operand's expression and flags.
LEMMA ReadIndexFields ==
    ASSUME NEW op, NEW arg, Fields(op, arg), NEW x
    PROVE  LET r == Cpu09(cpus, opt)!read_index(op, x)
           IN  r # << >> => Fields(r[1], arg) /\ r[1].flags = op.flags
  <1> DEFINE new == [op EXCEPT !.opreg = Cpu09(cpus, opt)!RegValue(x.reg), !.preinc = x.pre, !.postinc = x.post]
             r == Cpu09(cpus, opt)!read_index(op, x)
  <1>1. r = << >> \/ r = <<new>>
    BY Zenon DEF Cpu09!read_index
  <1>2. IsOp(op) /\ IsFcn(op) /\ op.cosz = "OFF5"
    BY DEF Fields
  <1>3. IsOp(new) /\ IsFcn(new) /\ new.cosz = "OFF5" /\ new.value = op.value /\ new.flags = op.flags
    BY <1>2 DEF IsOp, IsFcn
  <1> HIDE DEF new, r
  <1>4. Fields(new, arg)
    BY <1>3 DEF Fields
  <1>5. r = <<new>> => r[1] = new
    OBVIOUS
  <1> QED BY <1>1, <1>3, <1>4, <1>5 DEF r

\* What the parser has read when the mode is known.
LEMMA ReadFirstFields ==
    ASSUME NEW arg, NEW mode
    PROVE  LET op == Cpu09(cpus, opt)!ReadFirst(arg, Cpu09(cpus, opt)!NoOperand, mode)
           IN  Fields(op, arg) /\ ("INDIR" \in op.flags <=> arg.open = "[")
  <1> DEFINE hint == IF Cpu09(cpus, opt)!Hinted(arg, mode) THEN Cpu09(cpus, opt)!Hint(arg.sel) ELSE {}
             flags == hint \cup (IF arg.open = "[" THEN {"INDIR"} ELSE {})
             offs == IF mode = "ROFFS" THEN arg.body ELSE ""
             value == IF mode \in {"ROFFS", "NONE"} THEN << >>
                      ELSE <<IF hint # {} THEN arg.e ELSE Cpu09(cpus, opt)!parse_expr(arg)>>
             none == Cpu09(cpus, opt)!NoOperand
             op == [none EXCEPT !.flags = flags, !.offs_reg = offs, !.value = value]
  <1>1. value \in {<< >>, <<arg.e>>, <<Cpu09(cpus, opt)!parse_expr(arg)>>}
    <2> HIDE DEF hint
    <2>1. value = << >> \/ value = <<arg.e>> \/ value = <<Cpu09(cpus, opt)!parse_expr(arg)>>
      OBVIOUS
    <2> HIDE DEF value
    <2> QED BY <2>1
  <1>2. "INDIR" \in flags <=> arg.open = "["
    <2>1. Cpu09(cpus, opt)!Hint(arg.sel) = {"LO"} \/ Cpu09(cpus, opt)!Hint(arg.sel) = {"HI"} \/ Cpu09(cpus, opt)!Hint(arg.sel) = {}
      BY Zenon DEF Cpu09!Hint
    <2> QED BY <2>1
  <1>3. Cpu09(cpus, opt)!ReadFirst(arg, none, mode) = op
    BY DEF Cpu09!ReadFirst
  <1> HIDE DEF value, flags, offs
  <1>4. IsOp(none) /\ IsFcn(none) /\ none.cosz = "OFF5"
    BY NoFields DEF Fields
  <1> HIDE DEF none
  <1>5. IsOp(op) /\ IsFcn(op) /\ op.cosz = "OFF5" /\ op.value = value /\ op.flags = flags
    BY <1>4 DEF IsOp, IsFcn
  <1> HIDE DEF op
  <1> QED BY <1>1, <1>2, <1>3, <1>5 DEF Fields, none

\* The mode that the first argument asks for.
LEMMA FirstModeIs ==
    ASSUME NEW arg, Shaped(arg), ~Cpu09(cpus, opt)!Empty(arg), NEW t, Memory(t)
    PROVE  LET mode == Cpu09(cpus, opt)!FirstMode(arg, t)
           IN  /\ mode \in {"ROFFS", "IMM8", "IMM16", "IMM32", "DIR", "EXT", "ADDR", "NOMATCH", "NONE"}
               /\ mode = "ADDR" => ("EXT" \in t => "DIR" \in t)
               /\ mode = "IMM32" => arg.open = "#" /\ "IM1" \notin t /\ "IM2" \notin t
               /\ mode = "NONE" => arg.open = "[" /\ arg.reg # ""
               /\ mode \in {"IMM8", "IMM16"} => arg.open = "#"
  <1> DEFINE mode == Cpu09(cpus, opt)!FirstMode(arg, t)
             im == Cpu09(cpus, opt)!ImmMode(t)
             om == Cpu09(cpus, opt)!OffsetMode(arg, t)
             immediate == arg.open = "#"
             based == arg.body # "" /\ arg.open # "#"
             by == CASE immediate -> im [] based -> om [] OTHER -> "NONE"
  <1>1. mode = IF Cpu09(cpus, opt)!OffsReg(arg, t) THEN "ROFFS" ELSE by
    BY DEF Cpu09!FirstMode
  <1>2. im = "IMM8" \/ im = "IMM16" \/ (im = "IMM32" /\ "IM1" \notin t /\ "IM2" \notin t)
    BY Zenon DEF Cpu09!ImmMode
  <1>3. om = "DIR" \/ om = "EXT" \/ (om = "ADDR" /\ ("EXT" \in t => "DIR" \in t)) \/ om = "NOMATCH"
    BY Zenon DEF Cpu09!OffsetMode
  <1>4. immediate => ~based
    OBVIOUS
  <1> HIDE DEF im, om, mode, immediate, based
  <1>5. /\ immediate /\ ~based => by = im
        /\ based /\ ~immediate => by = om
        /\ ~immediate /\ ~based => by = "NONE"
    BY Zenon
  <1>6. ~immediate /\ ~based => arg.open = "[" /\ arg.reg # ""
    BY DEF Shaped, immediate, based
  <1> HIDE DEF by
  <1> QED BY <1>1, <1>2, <1>3, <1>4, <1>5, <1>6 DEF mode, immediate

\* The first argument of an operand in memory.
LEMMA FirstFits ==
    ASSUME NEW arg, Shaped(arg), ~Cpu09(cpus, opt)!Empty(arg), NEW t, Memory(t)
    PROVE  LET r == Cpu09(cpus, opt)!parse_first(arg, Cpu09(cpus, opt)!NoOperand, t)
           IN  /\ r.rc \in {"MATCH", "COMB_OPT", "NOMATCH", "CORRUPT"}
               /\ r.rc \in {"MATCH", "COMB_OPT"} => Fits(r.op, t, arg)
  <1> DEFINE none == Cpu09(cpus, opt)!NoOperand
             mode == Cpu09(cpus, opt)!FirstMode(arg, t)
             read == Cpu09(cpus, opt)!ReadFirst(arg, none, mode)
             ind == arg.open = "["
             hasreg == arg.reg # ""
             noreg == arg.reg = ""
             refused == \/ arg.open = "#" /\ t \cap {"IM1", "IM2", "IM4"} = {}
                        \/ ind /\ t \cap Cpu09(cpus, opt)!IND = {}
                        \/ mode = "NOMATCH"
             offset == mode \in Cpu09(cpus, opt)!Indexed
             comb == t \cap Cpu09(cpus, opt)!DIX # {}
             index == CASE mode = "NONE" -> "NOFFS" [] mode = "ROFFS" -> "ROFFS" [] OTHER -> "COFFS"
             a == Cpu09(cpus, opt)!Ret("NOMATCH", none)
             b == Cpu09(cpus, opt)!IndexOf(Cpu09(cpus, opt)!read_index(read, arg), none, "CORRUPT", index)
             c == IF ~Cpu09(cpus, opt)!HC12 /\ mode \in {"DIR", "ADDR", "EXT"} THEN Cpu09(cpus, opt)!Ret("MATCH", [read EXCEPT !.mode = "EXT"])
                  ELSE Cpu09(cpus, opt)!Ret("NOMATCH", [read EXCEPT !.mode = mode])
             d == Cpu09(cpus, opt)!Ret("COMB_OPT", [read EXCEPT !.mode = mode])
             e == Cpu09(cpus, opt)!Ret("MATCH", [read EXCEPT !.mode = mode])
             r == Cpu09(cpus, opt)!parse_first(arg, none, t)
             Good(x) == /\ x.rc \in {"MATCH", "COMB_OPT", "NOMATCH", "CORRUPT"}
                        /\ x.rc \in {"MATCH", "COMB_OPT"} => Fits(x.op, t, arg)
  <1>1. r = CASE refused -> a
              [] ~refused /\ ind /\ hasreg -> b
              [] ~refused /\ ind /\ noreg -> c
              [] ~refused /\ ~ind /\ comb /\ offset -> d
              [] OTHER -> e
    BY Zenon DEF Cpu09!parse_first, Cpu09!ModedOperand, Cpu09!FirstOperand
  <1>2. /\ mode \in {"ROFFS", "IMM8", "IMM16", "IMM32", "DIR", "EXT", "ADDR", "NOMATCH", "NONE"}
        /\ mode = "ADDR" => ("EXT" \in t => "DIR" \in t)
        /\ mode = "IMM32" => arg.open = "#" /\ "IM1" \notin t /\ "IM2" \notin t
        /\ mode = "NONE" => ind /\ hasreg
        /\ mode \in {"IMM8", "IMM16"} => arg.open = "#"
    BY FirstModeIs
  <1>3. Fields(read, arg) /\ ("INDIR" \in read.flags <=> ind)
    BY ReadFirstFields
  <1> HIDE DEF mode, read
  <1>4. Good(a)
    BY DEF Cpu09!Ret
  <1>5. Good(b)
    <2>1. index \in {"NOFFS", "ROFFS", "COFFS"}
      <3>1. index = "NOFFS" \/ index = "ROFFS" \/ index = "COFFS"
        BY Zenon
      <3> HIDE DEF index
      <3> QED BY <3>1
    <2> HIDE DEF index
    <2> DEFINE x == Cpu09(cpus, opt)!read_index(read, arg)
    <2>2. x # << >> => Fields(x[1], arg)
      BY <1>3, ReadIndexFields
    <2> HIDE DEF x
    <2>3. CASE x = << >>
      BY <2>3 DEF Cpu09!IndexOf, Cpu09!Ret, x
    <2>4. CASE x # << >>
      <3> DEFINE new == [x[1] EXCEPT !.mode = index]
      <3>1. Fields(new, arg) /\ new.mode = index
        BY <2>2, <2>4, ModeFields
      <3>2. b = Cpu09(cpus, opt)!Ret("MATCH", new)
        BY <2>4 DEF Cpu09!IndexOf, x
      <3> HIDE DEF new, b
      <3> QED BY <2>1, <3>1, <3>2 DEF Fits, Cpu09!Ret
    <2> QED BY <2>3, <2>4
  <1>6. Good(c)
    <2> DEFINE new == [read EXCEPT !.mode = "EXT"]
               old == [read EXCEPT !.mode = mode]
    <2>1. Fields(new, arg) /\ new.mode = "EXT"
      BY <1>3, ModeFields
    <2> HIDE DEF new, old
    <2>2. Fits(new, t, arg)
      BY <2>1 DEF Fits
    <2> QED BY <2>2 DEF Cpu09!Ret, new, old
  <1> DEFINE new == [read EXCEPT !.mode = mode]
  <1>7. Fields(new, arg) /\ new.mode = mode /\ new.flags = read.flags
    BY <1>3, ModeFields
  <1> HIDE DEF new
  <1>8. ~ind /\ offset => Good(d)
    <2>1. ~ind /\ offset => Fits(new, t, arg)
      BY <1>2, <1>3, <1>7 DEF Fits, Cpu09!Indexed
    <2> QED BY <2>1 DEF Cpu09!Ret, new
  <1>9. ~refused /\ ~ind /\ ~offset => Good(e)
    <2>1. t \cap {"IM1", "IM2", "IM4"} = {} \/ "IM1" \in t \/ "IM2" \in t \/ "IM4" \in t
      OBVIOUS
    <2>2. "IM4" \notin t
      BY DEF Memory
    <2>3. ~refused /\ ~ind => mode \notin {"IMM32", "NONE", "NOMATCH"}
      BY <1>2, <2>1, <2>2
    <2>4. ~offset => mode \in {"IMM8", "IMM16", "IMM32", "NONE", "NOMATCH"}
      BY <1>2 DEF Cpu09!Indexed
    <2>5. mode \in {"IMM8", "IMM16"} => Fits(new, t, arg)
      BY <1>7 DEF Fits
    <2>6. ~refused /\ ~ind /\ ~offset => Fits(new, t, arg)
      <3> HIDE DEF offset, ind, refused
      <3> QED BY <2>3, <2>4, <2>5
    <2> QED BY <2>6 DEF Cpu09!Ret, new
  <1>10. comb /\ (hasreg <=> ~noreg)
    BY DEF Memory
  <1> HIDE DEF a, b, c, d, e, r, ind, hasreg, noreg, refused, offset, comb, Good
  <1>11. /\ refused => r = a
         /\ ~refused /\ ind /\ hasreg /\ ~noreg => r = b
         /\ ~refused /\ ind /\ noreg /\ ~hasreg => r = c
         /\ ~refused /\ ~ind /\ comb /\ offset => r = d
         /\ ~refused /\ ~ind /\ ~offset => r = e
    BY <1>1, Zenon
  <1>12. Good(r)
    BY <1>4, <1>5, <1>6, <1>8, <1>9, <1>10, <1>11, Zenon
  <1> QED BY <1>12 DEF Good, r

\* The first argument of a memory operation gives an operand that its row can
\* be counted with.
LEMMA OperandFits ==
    ASSUME NEW arg, Shaped(arg), NEW t, Memory(t)
    PROVE  LET r == Cpu09(cpus, opt)!parse_operand(arg, Cpu09(cpus, opt)!NoOperand, t)
           IN  /\ r.rc \in {"MATCH", "COMB_OPT", "NOMATCH", "CORRUPT"}
               /\ r.rc \in {"MATCH", "COMB_OPT"} => Fits(r.op, t, arg)
  <1> DEFINE none == Cpu09(cpus, opt)!NoOperand
             r == Cpu09(cpus, opt)!parse_operand(arg, none, t)
             single == t \subseteq Cpu09(cpus, opt)!Singles
             empty == Cpu09(cpus, opt)!Empty(arg)
             taken == none.mode # "NONE"
             a == Cpu09(cpus, opt)!parse_single(arg, none, CHOOSE x \in t : TRUE)
             b == IF none.mode = "NONE" /\ "IDX0" \in t THEN Cpu09(cpus, opt)!Ret("COMB_OPT", [none EXCEPT !.mode = "NOFFS"])
                  ELSE Cpu09(cpus, opt)!Ret("NOMATCH", none)
             c == IF arg.open = "#" /\ t \cap {"IM1", "IM2", "IM4"} = {} THEN Cpu09(cpus, opt)!Ret("NOMATCH", none)
                  ELSE Cpu09(cpus, opt)!IndexOf(Cpu09(cpus, opt)!read_index(none, arg), none, "NEXT",
                         IF none.mode \in {"NOFFS", "COFFS", "ROFFS"} THEN none.mode ELSE "COFFS")
             d == Cpu09(cpus, opt)!parse_first(arg, none, t)
  <1>1. r = CASE single -> a [] ~single /\ empty -> b [] ~single /\ ~empty /\ taken -> c [] OTHER -> d
    BY Zenon DEF Cpu09!parse_operand
  <1>2. ~single /\ ~taken
    <2>1. none.mode = "NONE"
      BY DEF Cpu09!NoOperand
    <2> QED BY <2>1 DEF Memory
  <1>3. CASE empty
    <2> DEFINE new == [none EXCEPT !.mode = "NOFFS"]
    <2>1. Fields(new, arg) /\ new.mode = "NOFFS"
      BY NoFields, ModeFields
    <2> HIDE DEF new
    <2>2. Fits(new, t, arg)
      BY <2>1 DEF Fits
    <2>3. b = Cpu09(cpus, opt)!Ret("COMB_OPT", new)
      BY DEF Memory, Cpu09!NoOperand, new
    <2> HIDE DEF a, b, c, d, r, single, empty, taken
    <2>4. r = b
      BY <1>1, <1>2, <1>3, Zenon
    <2> QED BY <2>2, <2>3, <2>4 DEF Cpu09!Ret, r
  <1>4. CASE ~empty
    <2>1. d.rc \in {"MATCH", "COMB_OPT", "NOMATCH", "CORRUPT"} /\ (d.rc \in {"MATCH", "COMB_OPT"} => Fits(d.op, t, arg))
      BY <1>4, FirstFits
    <2> HIDE DEF a, b, c, d, r, single, empty, taken
    <2>2. r = d
      BY <1>1, <1>2, <1>4, Zenon
    <2> QED BY <2>1, <2>2 DEF r
  <1> QED BY <1>3, <1>4

\* The second one, an index register, makes an indexed operand of it.
LEMMA SecondFits ==
    ASSUME NEW arg, NEW t, Memory(t), NEW op, Fits(op, t, arg), NEW x, Indexing(x)
    PROVE  LET r == Cpu09(cpus, opt)!parse_operand(x, op, t)
           IN  /\ r.rc \in {"MATCH", "NEXT"}
               /\ r.rc = "MATCH" => Fits(r.op, t, arg) /\ r.op.mode \in {"NOFFS", "ROFFS", "COFFS"}
  <1> DEFINE r == Cpu09(cpus, opt)!parse_operand(x, op, t)
             single == t \subseteq Cpu09(cpus, opt)!Singles
             empty == Cpu09(cpus, opt)!Empty(x)
             taken == op.mode # "NONE"
             a == Cpu09(cpus, opt)!parse_single(x, op, CHOOSE y \in t : TRUE)
             b == IF op.mode = "NONE" /\ "IDX0" \in t THEN Cpu09(cpus, opt)!Ret("COMB_OPT", [op EXCEPT !.mode = "NOFFS"])
                  ELSE Cpu09(cpus, opt)!Ret("NOMATCH", op)
             mode == IF op.mode \in {"NOFFS", "COFFS", "ROFFS"} THEN op.mode ELSE "COFFS"
             n == Cpu09(cpus, opt)!read_index(op, x)
             c == IF x.open = "#" /\ t \cap {"IM1", "IM2", "IM4"} = {} THEN Cpu09(cpus, opt)!Ret("NOMATCH", op)
                  ELSE Cpu09(cpus, opt)!IndexOf(Cpu09(cpus, opt)!read_index(op, x), op, "NEXT", mode)
             d == Cpu09(cpus, opt)!parse_first(x, op, t)
  <1>1. r = CASE single -> a [] ~single /\ empty -> b [] ~single /\ ~empty /\ taken -> c [] OTHER -> d
    BY Zenon DEF Cpu09!parse_operand
  <1>2. ~single /\ ~empty /\ taken
    BY DEF Memory, Indexing, Fits, Cpu09!Empty
  <1>3. r = c
    <2> HIDE DEF a, b, c, d, r, single, empty, taken
    <2> QED BY <1>1, <1>2, Zenon
  <1>4. c = Cpu09(cpus, opt)!IndexOf(n, op, "NEXT", mode)
    BY DEF Indexing
  <1>5. mode \in {"NOFFS", "ROFFS", "COFFS"}
    OBVIOUS
  <1>6. n # << >> => Fields(n[1], arg)
    BY ReadIndexFields DEF Fits
  <1> HIDE DEF n, mode, c, r
  <1>7. CASE n = << >>
    BY <1>3, <1>4, <1>7 DEF Cpu09!IndexOf, Cpu09!Ret, r
  <1>8. CASE n # << >>
    <2> DEFINE new == [n[1] EXCEPT !.mode = mode]
    <2>1. Fields(new, arg) /\ new.mode = mode
      BY <1>6, <1>8, ModeFields
    <2>2. c = Cpu09(cpus, opt)!Ret("MATCH", new)
      BY <1>4, <1>8 DEF Cpu09!IndexOf
    <2> HIDE DEF new
    <2>3. Fits(new, t, arg)
      BY <1>5, <2>1 DEF Fits
    <2> QED BY <1>3, <1>5, <2>1, <2>2, <2>3 DEF Cpu09!Ret, r
  <1> QED BY <1>7, <1>8

\* The operand of a branch.
Target(mode, arg) == [Cpu09(cpus, opt)!NoOperand EXCEPT !.mode = mode, !.value = <<Cpu09(cpus, opt)!parse_expr(arg)>>]
Distance == [RLS |-> "REL8", RLL |-> "REL16"]

\* The modes of a short and of a long branch.
LEMMA DistanceIs == Distance["RLS"] = "REL8" /\ Distance["RLL"] = "REL16"
  BY DEF Distance

\* The argument of a branch is its target.
LEMMA BranchFits ==
    ASSUME NEW arg, ~Cpu09(cpus, opt)!Empty(arg), NEW t \in {"RLS", "RLL"}
    PROVE  LET r == Cpu09(cpus, opt)!parse_operand(arg, Cpu09(cpus, opt)!NoOperand, {t})
           IN  /\ r.rc \in {"MATCH", "NOMATCH"}
               /\ r.rc = "MATCH" => r.op = Target(Distance[t], arg)
  <1> DEFINE none == Cpu09(cpus, opt)!NoOperand
             r == Cpu09(cpus, opt)!parse_operand(arg, none, {t})
  <1>1. {t} \subseteq Cpu09(cpus, opt)!Singles
    BY DEF Cpu09!Singles
  <1>2. (CHOOSE x \in {t} : TRUE) = t
    OBVIOUS
  <1>3. r = Cpu09(cpus, opt)!parse_single(arg, none, t)
    <2> DEFINE single == {t} \subseteq Cpu09(cpus, opt)!Singles
               a == Cpu09(cpus, opt)!parse_single(arg, none, CHOOSE x \in {t} : TRUE)
               empty == Cpu09(cpus, opt)!Empty(arg)
               taken == none.mode # "NONE"
               b == IF none.mode = "NONE" /\ "IDX0" \in {t} THEN Cpu09(cpus, opt)!Ret("COMB_OPT", [none EXCEPT !.mode = "NOFFS"])
                    ELSE Cpu09(cpus, opt)!Ret("NOMATCH", none)
               c == IF arg.open = "#" /\ {t} \cap {"IM1", "IM2", "IM4"} = {} THEN Cpu09(cpus, opt)!Ret("NOMATCH", none)
                    ELSE Cpu09(cpus, opt)!IndexOf(Cpu09(cpus, opt)!read_index(none, arg), none, "NEXT",
                           IF none.mode \in {"NOFFS", "COFFS", "ROFFS"} THEN none.mode ELSE "COFFS")
               d == Cpu09(cpus, opt)!parse_first(arg, none, {t})
    <2>1. r = CASE single -> a [] ~single /\ empty -> b [] ~single /\ ~empty /\ taken -> c [] OTHER -> d
      BY Zenon DEF Cpu09!parse_operand
    <2>2. single
      BY <1>1
    <2>3. a = Cpu09(cpus, opt)!parse_single(arg, none, t)
      BY <1>2
    <2> HIDE DEF a, b, c, d, r, single
    <2>4. r = a
      BY <2>1, <2>2, Zenon
    <2> QED BY <2>3, <2>4
  <1>4. r = Cpu09(cpus, opt)!TakeExpr(arg, none, Distance[t])
    <2>1. CASE t = "RLS"
      <3>1. Distance[t] = "REL8"
        BY <2>1, DistanceIs
      <3>2. Cpu09(cpus, opt)!parse_single(arg, none, t) = Cpu09(cpus, opt)!TakeExpr(arg, none, "REL8")
        BY <2>1, Zenon DEF Cpu09!parse_single
      <3> QED BY <1>3, <3>1, <3>2
    <2>2. CASE t = "RLL"
      <3>1. Distance[t] = "REL16"
        BY <2>2, DistanceIs
      <3>2. Cpu09(cpus, opt)!parse_single(arg, none, t) = Cpu09(cpus, opt)!TakeExpr(arg, none, "REL16")
        BY <2>2, Zenon DEF Cpu09!parse_single
      <3> QED BY <1>3, <3>1, <3>2
    <2> QED BY <2>1, <2>2
  <1>5. Cpu09(cpus, opt)!TakeExpr(arg, none, Distance[t])
          = IF arg.open = "" /\ arg.body # "" THEN Cpu09(cpus, opt)!Ret("MATCH", Target(Distance[t], arg))
            ELSE Cpu09(cpus, opt)!Ret("NOMATCH", none)
    BY Zenon DEF Cpu09!TakeExpr, Target
  <1> HIDE DEF none, r
  <1> DEFINE new == Target(Distance[t], arg)
             yes == Cpu09(cpus, opt)!Ret("MATCH", new)
             no == Cpu09(cpus, opt)!Ret("NOMATCH", none)
  <1>6. yes.rc = "MATCH" /\ yes.op = new /\ no.rc = "NOMATCH"
    <2> HIDE DEF new
    <2> QED BY DEF Cpu09!Ret
  <1>7. r = yes \/ r = no
    BY <1>4, <1>5
  <1> HIDE DEF yes, no
  <1>8. r.rc \in {"MATCH", "NOMATCH"} /\ (r.rc = "MATCH" => r.op = new)
    BY <1>6, <1>7
  <1> QED BY <1>8 DEF none, r

\* The arguments of a line.
Legible(args) ==
    /\ OneOrTwo(args)
    /\ Shaped(args[1])
    /\ Len(args) = 2 => Indexing(args[2])

\* The operand of a row of a memory operation that matches.
LEMMA MemoryMatch ==
    ASSUME NEW i, NEW t, Memory(t), Cpu09(cpus, opt)!mnemonics[i].op = <<t>>,
           NEW args, Legible(args), Cpu09(cpus, opt)!Match(i, args) # << >>
    PROVE  \E op : /\ Cpu09(cpus, opt)!Match(i, args) = << Only(op) >>
                   /\ Fits(op, t, args[1])
                   /\ Len(args) = 2 => op.mode \in {"NOFFS", "ROFFS", "COFFS"}
  <1> DEFINE none == Cpu09(cpus, opt)!NoOperand
             m == Cpu09(cpus, opt)!Match(i, args)
             r1 == Cpu09(cpus, opt)!parse_operand(args[1], none, t)
             r2 == Cpu09(cpus, opt)!parse_operand(args[2], r1.op, t)
  <1>1. m = Cpu09(cpus, opt)!Complete(Cpu09(cpus, opt)!ParseArgs(<<t>>, args), <<t>>, args)
    BY DEF Cpu09!Match
  <1>2. OneOrTwo(args) /\ Shaped(args[1])
    BY DEF Legible
  <1>3. /\ r1.rc \in {"MATCH", "COMB_OPT", "NOMATCH", "CORRUPT"}
        /\ r1.rc \in {"MATCH", "COMB_OPT"} => Fits(r1.op, t, args[1])
    BY <1>2, OperandFits
  <1>4. ASSUME Len(args) = 2, r1.rc = "COMB_OPT"
        PROVE  /\ r2.rc \in {"MATCH", "NEXT"}
               /\ r2.rc = "MATCH" => Fits(r2.op, t, args[1]) /\ r2.op.mode \in {"NOFFS", "ROFFS", "COFFS"}
    <2>1. Indexing(args[2]) /\ Fits(r1.op, t, args[1])
      BY <1>3, <1>4 DEF Legible
    <2> QED BY <2>1, SecondFits
  <1>5. \E op : m = << Only(op) >> /\ Parses(t, args, op)
    <2>1. r1.rc \in {"MATCH", "COMB_OPT", "NEXT", "NOMATCH", "CORRUPT"}
      BY <1>3
    <2>2. Len(args) = 2 /\ r1.rc = "COMB_OPT" => r2.rc \in {"MATCH", "NEXT", "NOMATCH", "CORRUPT"}
      BY <1>4
    <2> HIDE DEF m
    <2>3. Cpu09(cpus, opt)!Complete(Cpu09(cpus, opt)!ParseArgs(<<t>>, args), <<t>>, args) # << >>
      BY <1>1 DEF m
    <2> QED BY <1>1, <1>2, <2>1, <2>2, <2>3, OneType
  <1>6. PICK op : m = << Only(op) >> /\ Parses(t, args, op)
    BY <1>5
  <1>7. \/ Len(args) = 1 /\ r1.rc \in {"MATCH", "COMB_OPT"} /\ op = r1.op
        \/ Len(args) = 2 /\ r1.rc = "COMB_OPT" /\ r2.rc = "MATCH" /\ op = r2.op
    BY <1>6 DEF Parses
  <1> HIDE DEF r1, r2, m
  <1>8. Fits(op, t, args[1]) /\ (Len(args) = 2 => op.mode \in {"NOFFS", "ROFFS", "COFFS"})
    BY <1>3, <1>4, <1>7
  <1> QED BY <1>6, <1>8 DEF m

\* The operand of a row of a branch that matches.
LEMMA BranchMatch ==
    ASSUME NEW i, NEW t \in {"RLS", "RLL"}, Cpu09(cpus, opt)!mnemonics[i].op = << {t} >>,
           NEW args, Len(args) = 1, ~Cpu09(cpus, opt)!Empty(args[1]), Cpu09(cpus, opt)!Match(i, args) # << >>
    PROVE  Cpu09(cpus, opt)!Match(i, args) = << Only(Target(Distance[t], args[1])) >>
  <1> DEFINE none == Cpu09(cpus, opt)!NoOperand
             m == Cpu09(cpus, opt)!Match(i, args)
             r1 == Cpu09(cpus, opt)!parse_operand(args[1], none, {t})
             r2 == Cpu09(cpus, opt)!parse_operand(args[2], r1.op, {t})
  <1>1. m = Cpu09(cpus, opt)!Complete(Cpu09(cpus, opt)!ParseArgs(<< {t} >>, args), << {t} >>, args)
    BY DEF Cpu09!Match
  <1>2. OneOrTwo(args)
    BY DEF OneOrTwo
  <1>3. r1.rc \in {"MATCH", "NOMATCH"} /\ (r1.rc = "MATCH" => r1.op = Target(Distance[t], args[1]))
    BY BranchFits
  <1>5. \E op : m = << Only(op) >> /\ Parses({t}, args, op)
    <2>1. r1.rc \in {"MATCH", "COMB_OPT", "NEXT", "NOMATCH", "CORRUPT"}
      BY <1>3
    <2>2. Len(args) = 2 /\ r1.rc = "COMB_OPT" => r2.rc \in {"MATCH", "NEXT", "NOMATCH", "CORRUPT"}
      OBVIOUS
    <2> HIDE DEF m
    <2>3. Cpu09(cpus, opt)!Complete(Cpu09(cpus, opt)!ParseArgs(<< {t} >>, args), << {t} >>, args) # << >>
      BY <1>1 DEF m
    <2> QED BY <1>1, <1>2, <2>1, <2>2, <2>3, OneType
  <1>6. PICK op : m = << Only(op) >> /\ Parses({t}, args, op)
    BY <1>5
  <1>7. r1.rc \in {"MATCH", "COMB_OPT"} /\ op = r1.op
    BY <1>6 DEF Parses
  <1> HIDE DEF r1, r2, m
  <1> QED BY <1>3, <1>6, <1>7 DEF m

\* An argument without an operator keeps its expression's type when a base
\* symbol is looked for.
LEMMA TypeStays ==
    ASSUME NEW arg, Shaped(arg), NEW e \in {arg.e, Cpu09(cpus, opt)!parse_expr(arg)}
    PROVE  IsFcn(e) /\ "type" \in DOMAIN e /\ Cpu09(cpus, opt)!NewType(e) = e.type
  <1> DEFINE lo == [arg.e EXCEPT !.type = "LOBYTE"]
             hi == [arg.e EXCEPT !.type = "HIBYTE"]
             p == Cpu09(cpus, opt)!parse_expr(arg)
  <1>1. IsFcn(arg.e) /\ "type" \in DOMAIN arg.e /\ arg.e.type = "SYM"
    BY DEF Shaped
  <1>2. IsFcn(lo) /\ "type" \in DOMAIN lo /\ lo.type = "LOBYTE"
    BY <1>1 DEF IsFcn
  <1>3. IsFcn(hi) /\ "type" \in DOMAIN hi /\ hi.type = "HIBYTE"
    BY <1>1 DEF IsFcn
  <1>4. p = lo \/ p = hi \/ p = arg.e
    BY Zenon DEF Cpu09!parse_expr
  <1> HIDE DEF lo, hi, p
  <1>5. IsFcn(e) /\ "type" \in DOMAIN e /\ e.type \in {"SYM", "LOBYTE", "HIBYTE"}
    BY <1>1, <1>2, <1>3, <1>4 DEF p
  <1>6. Cpu09(cpus, opt)!NewType(e) = e.type
    <2> DEFINE div == e.type \in {"DIV", "MOD"} /\ e.right = 256
               and == e.type = "BAND" /\ e.right = 255
               sel == IF e.type = "DIV" THEN "HIBYTE" ELSE "LOBYTE"
    <2>1. Cpu09(cpus, opt)!NewType(e) = CASE div -> sel [] and -> "LOBYTE" [] OTHER -> e.type
      BY DEF Cpu09!NewType
    <2>2. ~div /\ ~and
      BY <1>5
    <2> HIDE DEF div, and, sel
    <2> QED BY <2>1, <2>2, Zenon
  <1> QED BY <1>5, <1>6

\* The copy that instruction_size works on leaves such an operand as it is.
LEMMA SharedStays ==
    ASSUME NEW code, NEW dp, NEW op, NEW arg, Shaped(arg), Fields(op, arg)
    PROVE  LET inst == [code |-> code, op |-> Only(op), dp |-> dp] IN Cpu09(cpus, opt)!Shared(inst) = inst
  <1> DEFINE inst == [code |-> code, op |-> Only(op), dp |-> dp]
             e == op.value[1]
             new == [op EXCEPT !.value[1].type = Cpu09(cpus, opt)!NewType(e)]
             plain == op.value = << >> \/ e.left.base = "none"
  <1>1. op.value # << >> => new = op
    <2> SUFFICES ASSUME op.value # << >> PROVE new = op
      OBVIOUS
    <2>0. op.value = <<arg.e>> \/ op.value = <<Cpu09(cpus, opt)!parse_expr(arg)>>
      BY DEF Fields
    <2>1. e \in {arg.e, Cpu09(cpus, opt)!parse_expr(arg)} /\ op.value = <<e>>
      BY <2>0
    <2>2. IsFcn(e) /\ "type" \in DOMAIN e /\ Cpu09(cpus, opt)!NewType(e) = e.type
      BY <2>1, TypeStays
    <2>3. IsFcn(op) /\ IsOp(op)
      BY DEF Fields
    <2> HIDE DEF e
    <2>4. [e EXCEPT !.type = e.type] = e
      BY <2>2 DEF IsFcn
    <2>5. [op.value EXCEPT ![1] = e] = op.value
      BY <2>1
    <2>6. [op EXCEPT !.value = op.value] = op
      BY <2>3 DEF IsFcn, IsOp
    <2>7. op.value[1] = e
      BY <2>1
    <2>8. new = [op EXCEPT !.value = [op.value EXCEPT ![1] = [op.value[1] EXCEPT !.type = Cpu09(cpus, opt)!NewType(e)]]]
      BY DEF e
    <2> QED BY <2>2, <2>4, <2>5, <2>6, <2>7, <2>8
  <1>2. (IF plain THEN op ELSE new) = op
    BY <1>1
  <1>3. Only(op)[1] = op /\ DOMAIN Only(op) = {1}
    BY DEF Only
  <1> DEFINE all == [i \in DOMAIN inst.op |->
                        IF inst.op[i].value = << >> \/ inst.op[i].value[1].left.base = "none" THEN inst.op[i]
                        ELSE [inst.op[i] EXCEPT !.value[1].type = Cpu09(cpus, opt)!NewType(inst.op[i].value[1])]]
  <1>4. all = Only(op)
    <2>1. inst.op = Only(op)
      OBVIOUS
    <2> HIDE DEF inst
    <2>2. all[1] = IF plain THEN op ELSE new
      BY <1>3, <2>1
    <2>3. DOMAIN all = {1}
      BY <1>3, <2>1
    <2>4. all = [i \in {1} |-> all[i]]
      BY <2>3
    <2> HIDE DEF all
    <2> QED BY <1>2, <2>2, <2>4 DEF Only
  <1>5. Cpu09(cpus, opt)!Shared(inst) = [inst EXCEPT !.op = all]
    BY DEF Cpu09!Shared
  <1>6. [inst EXCEPT !.op = Only(op)] = inst
    <2> DEFINE o == Only(op)
    <2> HIDE DEF o
    <2> QED BY DEF o
  <1> HIDE DEF inst, all
  <1> QED BY <1>4, <1>5, <1>6 DEF inst

\* The instruction of a line comes from a row of its name, for the processor,
\* that its arguments match.
LEMMA RowTaken ==
    ASSUME NEW name, NEW args, NEW dp, Cpu09(cpus, opt)!new_inst(name, args, dp) # << >>
    PROVE  \E i \in Cpu09(cpus, opt)!RowsOf(name) :
              /\ i \in 0 .. 43
              /\ Cpu09(cpus, opt)!cpu_available(i)
              /\ Cpu09(cpus, opt)!Match(i, args) # << >>
              /\ Cpu09(cpus, opt)!new_inst(name, args, dp)
                   = << [code |-> i, op |-> Cpu09(cpus, opt)!Match(i, args)[1], dp |-> dp] >>
  <1> DEFINE rows == Cpu09(cpus, opt)!Matching(name, args)
             i == CHOOSE n \in rows : \A m \in rows : n <= m
  <1>1. rows # {} /\ Cpu09(cpus, opt)!new_inst(name, args, dp) = << Cpu09(cpus, opt)!Taken(i, args, dp) >>
    BY DEF Cpu09!new_inst, Cpu09!InstOf, Cpu09!FirstRow
  <1>2. \A n \in rows : n \in Cpu09(cpus, opt)!RowsOf(name) /\ n \in 0 .. 43 /\ Cpu09(cpus, opt)!cpu_available(n) /\ Cpu09(cpus, opt)!Match(n, args) # << >>
    BY RowNames DEF Cpu09!Matching
  <1> HIDE DEF rows
  <1>3. \E n \in rows : \A m \in rows : n <= m
    <2>1. \A n \in rows : n \in 0 .. 43
      BY <1>2
    <2>2. 0 .. 43 \subseteq Nat
      OBVIOUS
    <2>3. rows \subseteq Nat
      BY <2>1, <2>2, Zenon
    <2> QED BY <1>1, <2>3, Least
  <1>4. i \in rows
    BY <1>3
  <1> HIDE DEF i
  <1> QED BY <1>1, <1>2, <1>4 DEF Cpu09!Taken

\* An instruction with one operand.
Made(code, op, dp) == [code |-> code, op |-> Only(op), dp |-> dp]

\* The instruction made of a row and an operand.
LEMMA MadeSingle ==
    ASSUME NEW code, NEW op, NEW dp, IsOp(op)
    PROVE  /\ Single(Made(code, op, dp))
           /\ Made(code, op, dp).op[1] = op
           /\ Made(code, op, dp).code = code
  <1> DEFINE o == Only(op)
             inst == [code |-> code, op |-> o, dp |-> dp]
  <1>1. o[1] = op /\ DOMAIN o = {1}
    BY DEF Only
  <1>2. Len(o) = 1
    BY <1>1, OneLong
  <1>3. o \in Seq({op})
    <2>1. 1 .. 1 = {1}
      OBVIOUS
    <2>2. Only(op) = [i \in 1 .. 1 |-> op]
      BY <2>1 DEF Only
    <2> QED BY <2>2
  <1> HIDE DEF o
  <1>4. DOMAIN inst = {"code", "op", "dp"} /\ inst.op = o /\ inst.code = code
    OBVIOUS
  <1> HIDE DEF inst
  <1>5. Single(inst) /\ inst.op[1] = op
    BY <1>1, <1>2, <1>3, <1>4 DEF Single
  <1> QED BY <1>4, <1>5 DEF Made, inst, o

\* The operand types of the memory operations.
LEMMA MemoryTypes ==
    /\ Memory(Cpu09(cpus, opt)!AL1) /\ Memory(Cpu09(cpus, opt)!AL2) /\ Memory(Cpu09(cpus, opt)!MEM) /\ Memory(Cpu09(cpus, opt)!IXE) /\ Memory(Cpu09(cpus, opt)!IDX)
    /\ "EXT" \in Cpu09(cpus, opt)!IXE /\ "DIR" \notin Cpu09(cpus, opt)!IXE
  <1> USE DEF Cpu09!MEM, Cpu09!IDX, Cpu09!DIX, Cpu09!IND, Cpu09!Singles, Memory
  <1>1. Memory(Cpu09(cpus, opt)!AL1)
    BY DEF Cpu09!AL1
  <1>2. Memory(Cpu09(cpus, opt)!AL2)
    BY DEF Cpu09!AL2
  <1>3. Memory(Cpu09(cpus, opt)!MEM)
    OBVIOUS
  <1>4. Memory(Cpu09(cpus, opt)!IXE)
    BY DEF Cpu09!IXE
  <1>5. Memory(Cpu09(cpus, opt)!IDX)
    OBVIOUS
  <1>6. "EXT" \in Cpu09(cpus, opt)!IXE /\ "DIR" \notin Cpu09(cpus, opt)!IXE
    BY DEF Cpu09!IXE
  <1> QED BY <1>1, <1>2, <1>3, <1>4, <1>5, <1>6

\* The rows of the table that the lines come from: of an operand in memory,
\* and of a branch.
MemoryCodes == {1, 2, 8, 9, 10, 11, 12, 13, 14, 15}
BranchCodes == 27 .. 43

\* Every row of a memory operation has one of them.
LEMMA TypeOfRow ==
    ASSUME NEW i \in MemoryCodes
    PROVE  \E t : /\ Memory(t) /\ Cpu09(cpus, opt)!mnemonics[i].op = <<t>>
                  /\ i = 9 => "EXT" \in t /\ "DIR" \notin t
  <1>1. CASE i \in {1, 2}
    BY <1>1, MemoryRows, MemoryTypes DEF MemoryRow
  <1>2. CASE i \in {8, 10, 11, 12, 13}
    BY <1>2, MemoryRows, MemoryTypes DEF MemoryRow
  <1>3. CASE i \in {9, 14, 15}
    BY <1>3, MemoryRows, MemoryTypes DEF MemoryRow
  <1> QED BY <1>1, <1>2, <1>3 DEF MemoryCodes

\* None of the rows is one of a block move.
LEMMA NoMove ==
    ASSUME NEW i \in MemoryCodes \cup BranchCodes
    PROVE  "move" \notin Cpu09(cpus, opt)!mnemonics[i].cpus
  <1>1. CASE i \in MemoryCodes
    BY <1>1, MemoryRows DEF MemoryRow, MemoryCodes, Cpu09!M09
  <1>2. CASE i \in BranchCodes
    <2>1. i \in {27, 28, 29, 30, 31, 32, 33, 34, 35, 36, 37, 38, 39, 40, 41, 42, 43}
      BY <1>2 DEF BranchCodes
    <2> QED BY <2>1, BranchRows DEF BranchRow, Cpu09!M09
  <1> QED BY <1>1, <1>2

\* What an operand has to be for its instruction to be accepted.
Admitted(code, op) ==
    /\ op.mode \in {"ADDR", "EXT", "REL16", "NOFFS", "COFFS", "ROFFS", "DIR", "REL8", "IMM8", "IMM16"}
    /\ op.mode = "ADDR" => /\ "INDIR" \notin op.flags
                           /\ Cpu09(cpus, opt)!OcSize(code, "DIR") = Cpu09(cpus, opt)!OcSize(code, "EXT")
    /\ op.mode \in {"ADDR", "EXT"} => opt = {} \/ Interchangeable(code)
    /\ op.mode = "REL16" => ShortBefore(code)

\* An instruction with an admitted operand is counted right.
LEMMA AdmittedAccepted ==
    ASSUME NEW inst, Single(inst), ~Cpu09(cpus, opt)!IsMove(inst), inst.op[1].cosz = "OFF5",
           Admitted(inst.code, inst.op[1])
    PROVE  Accepted(inst)
  <1> DEFINE op == inst.op[1]
             same == Cpu09(cpus, opt)!OcSize(inst.code, "DIR") = Cpu09(cpus, opt)!OcSize(inst.code, "EXT")
             plain == opt = {} \/ Interchangeable(inst.code)
             arms == CASE op.mode = "ADDR"  -> "INDIR" \notin op.flags /\ same /\ plain
                       [] op.mode = "EXT"   -> "INDIR" \in op.flags \/ plain
                       [] op.mode = "REL16" -> ShortBefore(inst.code)
                       [] OTHER -> op.mode \in {"NOFFS", "COFFS", "ROFFS", "DIR", "REL8", "IMM8", "IMM16"}
  <1>1. /\ op.mode \in {"ADDR", "EXT", "REL16", "NOFFS", "COFFS", "ROFFS", "DIR", "REL8", "IMM8", "IMM16"}
        /\ op.mode = "ADDR" => "INDIR" \notin op.flags /\ same
        /\ op.mode \in {"ADDR", "EXT"} => plain
        /\ op.mode = "REL16" => ShortBefore(inst.code)
    BY DEF Admitted
  <1> HIDE DEF op, same, plain
  <1>2. op.mode = "ADDR" => arms
    <2> SUFFICES ASSUME op.mode = "ADDR" PROVE arms
      OBVIOUS
    <2>1. "INDIR" \notin op.flags /\ same /\ plain
      BY <1>1
    <2> QED BY <2>1, Zenon
  <1>3. op.mode = "EXT" => arms
    <2> SUFFICES ASSUME op.mode = "EXT" PROVE arms
      OBVIOUS
    <2>1. plain
      BY <1>1
    <2> QED BY <2>1, Zenon
  <1>4. op.mode = "REL16" => arms
    <2> SUFFICES ASSUME op.mode = "REL16" PROVE arms
      OBVIOUS
    <2>1. ShortBefore(inst.code)
      BY <1>1
    <2> QED BY <2>1, Zenon
  <1>5. op.mode \in {"NOFFS", "COFFS", "ROFFS", "DIR", "REL8", "IMM8", "IMM16"} => arms
    <2> SUFFICES ASSUME op.mode \in {"NOFFS", "COFFS", "ROFFS", "DIR", "REL8", "IMM8", "IMM16"} PROVE arms
      OBVIOUS
    <2>1. op.mode # "ADDR" /\ op.mode # "EXT" /\ op.mode # "REL16"
      OBVIOUS
    <2> QED BY <2>1, Zenon
  <1>6. arms
    <2> HIDE DEF arms
    <2> QED BY <1>1, <1>2, <1>3, <1>4, <1>5
  <1> QED BY <1>6, Zenon DEF Accepted, op, same, plain

\* Every row but Konami's that the optimizations change keeps its size.
LEMMA MemoryAccepted ==
    ASSUME NEW i \in MemoryCodes, Cpu09(cpus, opt)!cpu_available(i), NEW t, NEW arg, NEW op, Fits(op, t, arg),
           i = 9 => "EXT" \in t /\ "DIR" \notin t,
           i = 15 => op.mode \in {"NOFFS", "ROFFS", "COFFS"},
           i \notin {2, 10, 13} \/ opt = {}, NEW dp
    PROVE  Accepted(Made(i, op, dp))
  <1> DEFINE inst == Made(i, op, dp)
  <1>1. IsOp(op) /\ op.cosz = "OFF5"
    BY DEF Fits, Fields
  <1>2. Single(inst) /\ inst.op[1] = op /\ inst.code = i
    BY <1>1, MadeSingle
  <1> HIDE DEF inst
  <1>3. ~Cpu09(cpus, opt)!IsMove(inst)
    BY <1>2, NoMove DEF Cpu09!IsMove
  <1>4. op.mode = "ADDR" => Cpu09(cpus, opt)!OcSize(i, "DIR") = Cpu09(cpus, opt)!OcSize(i, "EXT")
    <2>1. CASE i \in {1, 2, 8, 10, 11, 12, 13, 14}
      BY <2>1, MemoryRows DEF MemoryRow
    <2>2. CASE i \in {9, 15}
      BY <2>2 DEF Fits
    <2> QED BY <2>1, <2>2 DEF MemoryCodes
  <1>5. op.mode \in {"ADDR", "EXT"} => opt = {} \/ Interchangeable(i)
    <2>1. CASE i \in {1, 8, 9, 11, 12, 14}
      BY <2>1, SameSizes
    <2>2. CASE i \in {2, 10, 13}
      BY <2>2
    <2>3. CASE i = 15
      BY <2>3
    <2> QED BY <2>1, <2>2, <2>3 DEF MemoryCodes
  <1>6. Admitted(i, op)
    BY <1>4, <1>5 DEF Admitted, Fits
  <1> QED BY <1>1, <1>2, <1>3, <1>6, AdmittedAccepted DEF inst

\* The fields of a branch's operand.
LEMMA TargetIs ==
    ASSUME NEW mode, NEW arg
    PROVE  LET op == Target(mode, arg)
           IN  /\ IsOp(op) /\ IsFcn(op) /\ op.cosz = "OFF5" /\ op.mode = mode /\ op.flags = {}
               /\ op.value = <<Cpu09(cpus, opt)!parse_expr(arg)>>
               /\ Fields(op, arg)
  <1> DEFINE v == Cpu09(cpus, opt)!parse_expr(arg)
             none == Cpu09(cpus, opt)!NoOperand
             op == [none EXCEPT !.mode = mode, !.value = <<v>>]
  <1>1. IsOp(none) /\ IsFcn(none) /\ none.cosz = "OFF5" /\ none.flags = {}
    BY DEF Cpu09!NoOperand, IsOp, IsFcn
  <1>2. Target(mode, arg) = op
    BY DEF Target
  <1> HIDE DEF none, v
  <1>3. IsOp(op) /\ IsFcn(op) /\ op.cosz = "OFF5" /\ op.mode = mode /\ op.flags = {} /\ op.value = <<v>>
    BY <1>1 DEF IsOp, IsFcn
  <1> HIDE DEF op
  <1> QED BY <1>2, <1>3 DEF Fields, v

\* A branch of either kind.
LEMMA BranchAccepted ==
    ASSUME NEW i \in BranchCodes, NEW t \in {"RLS", "RLL"}, Cpu09(cpus, opt)!mnemonics[i].op = << {t} >>,
           NEW arg, NEW dp
    PROVE  Accepted(Made(i, Target(Distance[t], arg), dp))
  <1> DEFINE op == Target(Distance[t], arg)
             inst == Made(i, op, dp)
  <1>1. IsOp(op) /\ op.cosz = "OFF5" /\ op.mode = Distance[t]
    BY TargetIs
  <1> HIDE DEF op
  <1>2. Single(inst) /\ inst.op[1] = op /\ inst.code = i
    BY <1>1, MadeSingle
  <1> HIDE DEF inst
  <1>3. ~Cpu09(cpus, opt)!IsMove(inst)
    BY <1>2, NoMove DEF Cpu09!IsMove
  <1>4. op.mode = "REL16" => ShortBefore(i)
    <2>1. CASE i \in {30, 31, 35, 36, 37, 41, 42, 43}
      BY <2>1, LongRows
    <2>2. CASE i \in {27, 28, 29, 32, 33, 34, 38, 39, 40}
      <3>1. Cpu09(cpus, opt)!mnemonics[i].op = << {"RLS"} >>
        <4> DEFINE row(n) == Cpu09(cpus, opt)!mnemonics[n].op = << {"RLS"} >>
        <4>1. row(27) /\ row(28) /\ row(29) /\ row(32) /\ row(33) /\ row(34) /\ row(38) /\ row(39) /\ row(40)
          BY BranchRows DEF BranchRow
        <4> QED BY <2>2, <4>1
      <3>2. t = "RLS"
        <4>1. << {t} >>[1] = << {"RLS"} >>[1]
          BY <3>1
        <4> QED BY <4>1
      <3> QED BY <1>1, <3>2, DistanceIs
    <2> QED BY <2>1, <2>2 DEF BranchCodes
  <1>5. op.mode \in {"REL8", "REL16"}
    BY <1>1, DistanceIs
  <1>6. Admitted(i, op)
    BY <1>4, <1>5 DEF Admitted
  <1> QED BY <1>1, <1>2, <1>3, <1>6, AdmittedAccepted DEF inst, op

Handled6809 == {"adca", "jmp", "jsr", "ldx", "leax"} \cup BranchNames

Readable(name, args) ==
    /\ Legible(args)
    /\ name = "leax" => Len(args) = 2
    /\ name \in BranchNames => Len(args) = 1 /\ ~Cpu09(cpus, opt)!Empty(args[1])

\* How far the branch of a name reaches.
Reach(name) == IF name \in {"bra", "bsr", "beq"} THEN "RLS" ELSE "RLL"

\* The distance of each branch's row.
LEMMA ReachOfRow ==
    /\ \A i \in {27, 28, 29, 32, 33, 34, 38, 39, 40} :
          i \in BranchCodes /\ Cpu09(cpus, opt)!mnemonics[i].op = << {"RLS"} >>
    /\ \A i \in {30, 31, 35, 36, 37, 41, 42, 43} :
          i \in BranchCodes /\ Cpu09(cpus, opt)!mnemonics[i].op = << {"RLL"} >>
  <1>1. {27, 28, 29, 32, 33, 34, 38, 39, 40} \cup {30, 31, 35, 36, 37, 41, 42, 43} \subseteq BranchCodes
    BY DEF BranchCodes
  <1> DEFINE op(i) == Cpu09(cpus, opt)!mnemonics[i].op
  <1>0. \A i, name, type, bytes, where : BranchRow(i, name, type, bytes, where) => op(i) = << {type} >>
    BY Zenon DEF BranchRow
  <1> HIDE DEF op
  <1>2. /\ op(27) = << {"RLS"} >> /\ op(28) = << {"RLS"} >> /\ op(29) = << {"RLS"} >>
        /\ op(32) = << {"RLS"} >> /\ op(33) = << {"RLS"} >> /\ op(34) = << {"RLS"} >>
        /\ op(38) = << {"RLS"} >> /\ op(39) = << {"RLS"} >> /\ op(40) = << {"RLS"} >>
    BY <1>0, BranchRows
  <1>3. /\ op(30) = << {"RLL"} >> /\ op(31) = << {"RLL"} >>
        /\ op(35) = << {"RLL"} >> /\ op(36) = << {"RLL"} >> /\ op(37) = << {"RLL"} >>
        /\ op(41) = << {"RLL"} >> /\ op(42) = << {"RLL"} >> /\ op(43) = << {"RLL"} >>
    BY <1>0, BranchRows
  <1>4. \A i \in {27, 28, 29, 32, 33, 34, 38, 39, 40} : i \in BranchCodes /\ op(i) = << {"RLS"} >>
    BY <1>1, <1>2
  <1>5. \A i \in {30, 31, 35, 36, 37, 41, 42, 43} : i \in BranchCodes /\ op(i) = << {"RLL"} >>
    BY <1>1, <1>3
  <1> QED BY <1>4, <1>5, Zenon DEF op

\* The row of a branch is the one OC names, of the type its name says.
LEMMA BranchRowIs ==
    ASSUME NEW name \in BranchNames, NEW i \in Cpu09(cpus, opt)!RowsOf(name), Cpu09(cpus, opt)!cpu_available(i)
    PROVE  /\ i \in BranchCodes
           /\ i = Cpu09(cpus, opt)!OC(name)
           /\ Cpu09(cpus, opt)!mnemonics[i].op = << {Reach(name)} >>
  <1>0. /\ Cpu09(cpus, opt)!cpu_available(i) <=> cpus \in Cpu09(cpus, opt)!mnemonics[i].cpus
        /\ "hc12" \notin Cpu09(cpus, opt)!M09 /\ "konami" \notin Cpu09(cpus, opt)!M09
    BY DEF Cpu09!cpu_available, Cpu09!M09
  <1>1. CASE name = "bra"
    <2>1. i \in {32, 33, 34}
      BY <1>1, RowsByName
    <2>2. Reach(name) = "RLS"
      BY <1>1 DEF Reach
    <2>3. Cpu09(cpus, opt)!OC("bra") = i
      BY <1>0, <2>1, BranchRows, Branches DEF BranchRow
    <2> QED BY <1>1, <2>1, <2>2, <2>3, ReachOfRow
  <1>2. CASE name = "bsr"
    <2>1. i \in {27, 28, 29}
      BY <1>2, RowsByName
    <2>2. Reach(name) = "RLS"
      BY <1>2 DEF Reach
    <2>3. Cpu09(cpus, opt)!OC("bsr") = i
      BY <1>0, <2>1, BranchRows, Branches DEF BranchRow
    <2> QED BY <1>2, <2>1, <2>2, <2>3, ReachOfRow
  <1>3. CASE name = "beq"
    <2>1. i \in {38, 39, 40}
      BY <1>3, RowsByName
    <2>2. Reach(name) = "RLS"
      BY <1>3 DEF Reach
    <2>3. Cpu09(cpus, opt)!OC("beq") = i
      BY <1>0, <2>1, BranchRows, Branches DEF BranchRow
    <2> QED BY <1>3, <2>1, <2>2, <2>3, ReachOfRow
  <1>4. CASE name = "lbra"
    <2>1. i \in {35, 36, 37}
      BY <1>4, RowsByName
    <2>2. Reach(name) = "RLL"
      BY <1>4 DEF Reach
    <2>3. Cpu09(cpus, opt)!OC("lbra") = i
      BY <1>0, <2>1, BranchRows, Branches DEF BranchRow
    <2> QED BY <1>4, <2>1, <2>2, <2>3, ReachOfRow
  <1>5. CASE name = "lbsr"
    <2>1. i \in {30, 31}
      BY <1>5, RowsByName
    <2>2. Reach(name) = "RLL"
      BY <1>5 DEF Reach
    <2>3. Cpu09(cpus, opt)!OC("lbsr") = i
      BY <1>0, <2>1, BranchRows, Branches DEF BranchRow
    <2> QED BY <1>5, <2>1, <2>2, <2>3, ReachOfRow
  <1>6. CASE name = "lbeq"
    <2>1. i \in {41, 42, 43}
      BY <1>6, RowsByName
    <2>2. Reach(name) = "RLL"
      BY <1>6 DEF Reach
    <2>3. Cpu09(cpus, opt)!OC("lbeq") = i
      BY <1>0, <2>1, BranchRows, Branches DEF BranchRow
    <2> QED BY <1>6, <2>1, <2>2, <2>3, ReachOfRow
  <1> QED BY <1>1, <1>2, <1>3, <1>4, <1>5, <1>6 DEF BranchNames

\* What new_inst makes of a line.
LEMMA BranchInst ==
    ASSUME NEW name \in BranchNames, NEW args, Readable(name, args), NEW dp, NEW inst,
           Cpu09(cpus, opt)!new_inst(name, args, dp) = <<inst>>
    PROVE  /\ inst = Made(Cpu09(cpus, opt)!OC(name), Target(Distance[Reach(name)], args[1]), dp)
           /\ Accepted(inst)
           /\ Cpu09(cpus, opt)!Shared(inst) = inst
           /\ Cpu09(cpus, opt)!cpu_available(Cpu09(cpus, opt)!OC(name)) /\ Cpu09(cpus, opt)!OC(name) \in Cpu09(cpus, opt)!RowsOf(name)
  <1> DEFINE op == Target(Distance[Reach(name)], args[1])
  <1>1. PICK i \in Cpu09(cpus, opt)!RowsOf(name) :
              /\ i \in 0 .. 43
              /\ Cpu09(cpus, opt)!cpu_available(i)
              /\ Cpu09(cpus, opt)!Match(i, args) # << >>
              /\ <<inst>> = << [code |-> i, op |-> Cpu09(cpus, opt)!Match(i, args)[1], dp |-> dp] >>
    BY RowTaken
  <1>2. i \in BranchCodes /\ i = Cpu09(cpus, opt)!OC(name) /\ Cpu09(cpus, opt)!mnemonics[i].op = << {Reach(name)} >>
    BY <1>1, BranchRowIs
  <1>3. Reach(name) \in {"RLS", "RLL"}
    BY DEF Reach
  <1>4. Cpu09(cpus, opt)!Match(i, args) = << Only(op) >>
    BY <1>1, <1>2, <1>3, BranchMatch DEF Readable
  <1>5. inst = Made(i, op, dp)
    <2>1. inst = [code |-> i, op |-> Cpu09(cpus, opt)!Match(i, args)[1], dp |-> dp]
      BY <1>1
    <2>2. Cpu09(cpus, opt)!Match(i, args)[1] = Only(op)
      BY <1>4
    <2> QED BY <2>1, <2>2 DEF Made
  <1>6. Accepted(inst)
    BY <1>2, <1>3, <1>5, BranchAccepted
  <1>7. Fields(op, args[1]) /\ Shaped(args[1])
    BY TargetIs DEF Readable, Legible
  <1>8. Cpu09(cpus, opt)!Shared(inst) = inst
    BY <1>5, <1>7, SharedStays DEF Made
  <1> QED BY <1>1, <1>2, <1>5, <1>6, <1>8

\* A memory operation is accepted, except for the Konami processor's opcodes
\* under an optimization, and the operand that it shares with its copy stays
\* as it is.
LEMMA MemoryInst ==
    ASSUME NEW name \in {"adca", "jmp", "jsr", "ldx", "leax"}, NEW args, Readable(name, args), NEW dp, NEW inst,
           Cpu09(cpus, opt)!new_inst(name, args, dp) = <<inst>>
    PROVE  /\ Accepted(inst) \/ (cpus = "konami" /\ name \in {"adca", "jmp", "jsr"} /\ opt # {})
           /\ Cpu09(cpus, opt)!Shared(inst) = inst
  <1>1. PICK i \in Cpu09(cpus, opt)!RowsOf(name) :
              /\ i \in 0 .. 43
              /\ Cpu09(cpus, opt)!cpu_available(i)
              /\ Cpu09(cpus, opt)!Match(i, args) # << >>
              /\ <<inst>> = << [code |-> i, op |-> Cpu09(cpus, opt)!Match(i, args)[1], dp |-> dp] >>
    BY RowTaken
  <1>2. i \in MemoryCodes /\ (i = 15 => name = "leax")
        /\ (i \in {2, 10, 13} => name \in {"adca", "jmp", "jsr"})
    BY RowsByName DEF MemoryCodes
  <1>3. PICK t : /\ Memory(t) /\ Cpu09(cpus, opt)!mnemonics[i].op = <<t>>
                 /\ i = 9 => "EXT" \in t /\ "DIR" \notin t
    BY <1>2, TypeOfRow
  <1>4. PICK op : /\ Cpu09(cpus, opt)!Match(i, args) = << Only(op) >>
                  /\ Fits(op, t, args[1])
                  /\ Len(args) = 2 => op.mode \in {"NOFFS", "ROFFS", "COFFS"}
    BY <1>1, <1>3, MemoryMatch DEF Readable
  <1>5. inst = Made(i, op, dp)
    <2>1. inst = [code |-> i, op |-> Cpu09(cpus, opt)!Match(i, args)[1], dp |-> dp]
      BY <1>1
    <2>2. Cpu09(cpus, opt)!Match(i, args)[1] = Only(op)
      BY <1>4
    <2> QED BY <2>1, <2>2 DEF Made
  <1>6. i = 15 => op.mode \in {"NOFFS", "ROFFS", "COFFS"}
    BY <1>2, <1>4 DEF Readable
  <1>7. i \notin {2, 10, 13} \/ opt = {} => Accepted(inst)
    BY <1>1, <1>2, <1>3, <1>4, <1>5, <1>6, MemoryAccepted
  <1>8. i \in {2, 10, 13} => cpus = "konami"
    <2>1. Cpu09(cpus, opt)!cpu_available(i)
      BY <1>1
    <2> QED BY <2>1, KonamiRows, Zenon
  <1>9. Fields(op, args[1]) /\ Shaped(args[1])
    BY <1>4 DEF Fits, Readable, Legible
  <1>10. Cpu09(cpus, opt)!Shared(inst) = inst
    BY <1>5, <1>9, SharedStays DEF Made
  <1> QED BY <1>2, <1>7, <1>8, <1>10

\* The texts of an operand that is not empty.
IsText(t) ==
    /\ DOMAIN t = {"open", "sel", "body", "reg", "pre", "post", "e"}
    /\ IsFcn(t)
    /\ t.e = Symbol(0, "none")

\* A form of operands.
Form(f) ==
    /\ (\E S : f \in Seq(S)) /\ OneOrTwo(f)
    /\ IsText(f[1])
    /\ f[1].body # "" \/ Cpu09(cpus, opt)!Empty(f[1]) \/ (f[1].open = "[" /\ f[1].reg # "")
    /\ Len(f) = 2 => Indexing(f[2])

\* A value makes a line of it.
LEMMA ValuedIs ==
    ASSUME NEW f, Form(f), NEW v, NEW b
    PROVE  LET line == Valued(f, v, b)
           IN  /\ Len(line) = Len(f)
               /\ line[1] = [f[1] EXCEPT !.e = Symbol(v, b)]
               /\ Len(f) = 2 => line[2] = f[2]
  <1>1. PICK S : f \in Seq(S)
    BY DEF Form
  <1>2. Len(f) \in {1, 2}
    BY DEF Form, OneOrTwo
  <1> QED BY <1>1, <1>2 DEF Valued

\* Every form with a value filled in is a legible line.
LEMMA LineLegible ==
    ASSUME NEW f, Form(f), NEW v, NEW b
    PROVE  LET line == Valued(f, v, b)
           IN  /\ Legible(line)
               /\ Len(line) = Len(f)
               /\ line[1].open = f[1].open /\ line[1].body = f[1].body /\ line[1].reg = f[1].reg
               /\ line[1].sel = f[1].sel
               /\ line[1].e = Symbol(v, b)
  <1> DEFINE line == Valued(f, v, b)
             t == [f[1] EXCEPT !.e = Symbol(v, b)]
  <1>1. IsText(f[1])
    BY DEF Form
  <1>2. /\ t.open = f[1].open /\ t.body = f[1].body /\ t.reg = f[1].reg /\ t.sel = f[1].sel
        /\ t.pre = f[1].pre /\ t.post = f[1].post
        /\ t.e = Symbol(v, b)
    BY <1>1 DEF IsText
  <1> HIDE DEF t
  <1>3. IsFcn(t.e) /\ "type" \in DOMAIN t.e /\ t.e.type = "SYM"
    BY <1>2 DEF IsFcn, Symbol
  <1>4. Cpu09(cpus, opt)!Empty(t) <=> Cpu09(cpus, opt)!Empty(f[1])
    BY <1>2 DEF Cpu09!Empty
  <1>5. Shaped(t)
    BY <1>2, <1>3, <1>4 DEF Shaped, Form
  <1>6. Len(line) = Len(f) /\ line[1] = t /\ (Len(f) = 2 => line[2] = f[2])
    BY ValuedIs DEF t
  <1> HIDE DEF line
  <1>7. Legible(line)
    BY <1>5, <1>6 DEF Legible, Form, OneOrTwo
  <1> QED BY <1>2, <1>6, <1>7 DEF line

\* Tuples of one and two elements as sequences.
LEMMA TuplesAre ==
    ASSUME NEW t, NEW x
    PROVE  /\ <<t>> \in Seq({t}) /\ Len(<<t>>) = 1 /\ <<t>>[1] = t
           /\ <<t, x>> \in Seq({t, x}) /\ Len(<<t, x>>) = 2 /\ <<t, x>>[1] = t /\ <<t, x>>[2] = x
  <1>1. <<t>> \in Seq({t}) /\ Len(<<t>>) = 1 /\ <<t>>[1] = t
    OBVIOUS
  <1>2. <<t, x>> \in Seq({t, x}) /\ Len(<<t, x>>) = 2 /\ <<t, x>>[1] = t /\ <<t, x>>[2] = x
    OBVIOUS
  <1> QED BY <1>1, <1>2

\* An expression or nothing, alone or with an index.
LEMMA FormOf ==
    ASSUME NEW t, IsText(t),
           t.body # "" \/ Cpu09(cpus, opt)!Empty(t) \/ (t.open = "[" /\ t.reg # "")
    PROVE  Form(<<t>>) /\ \A x : Indexing(x) => Form(<<t, x>>)
  <1>1. Form(<<t>>)
    <2>1. /\ \E S : <<t>> \in Seq(S)
          /\ Len(<<t>>) \in {1, 2} /\ Len(<<t>>) # 2
          /\ <<t>>[1] = t
      BY TuplesAre
    <2> QED BY <2>1, Zenon DEF Form, OneOrTwo
  <1>2. ASSUME NEW x, Indexing(x) PROVE Form(<<t, x>>)
    <2>1. /\ \E S : <<t, x>> \in Seq(S)
          /\ Len(<<t, x>>) \in {1, 2}
          /\ <<t, x>>[1] = t /\ <<t, x>>[2] = x
      <3>1. <<t, x>> \in Seq({t, x}) /\ Len(<<t, x>>) = 2 /\ <<t, x>>[1] = t /\ <<t, x>>[2] = x
        BY TuplesAre, Zenon
      <3>2. \E S : <<t, x>> \in Seq(S)
        BY <3>1, Zenon
      <3>3. Len(<<t, x>>) \in {1, 2}
        BY <3>1, Zenon
      <3> QED BY <3>1, <3>2, <3>3, Zenon
    <2> QED BY <1>2, <2>1, Zenon DEF Form, OneOrTwo
  <1> QED BY <1>1, <1>2

\* An index register is one.
LEMMA IndexIs ==
    ASSUME NEW reg, reg # "", NEW pre, NEW post
    PROVE  Indexing(Index(reg, pre, post))
  <1>1. Index(reg, pre, post).open = "" /\ Index(reg, pre, post).body = "" /\ Index(reg, pre, post).reg = reg
    BY DEF Index, Text
  <1> QED BY <1>1 DEF Indexing

\* An expression by itself, or with an index register, is a form.
LEMMA ExprForm ==
    ASSUME NEW open, NEW sel, NEW reg
    PROVE  Form(<<Expr(open, sel, reg)>>) /\ \A x : Indexing(x) => Form(<<Expr(open, sel, reg), x>>)
  <1>1. IsText(Expr(open, sel, reg)) /\ Expr(open, sel, reg).body = "expr"
    BY DEF Expr, Text, IsText, IsFcn
  <1> QED BY <1>1, FormOf

\* All forms that Init uses are.
LEMMA FormsAre ==
    /\ \A f \in Forms : Form(f)
    /\ \A f \in FixedForms : Form(f)
  <1>1. \A f \in Forms : Form(f)
    <2>1. /\ Indexing(Index("X", 0, 0)) /\ Indexing(Index("Y", 0, 0)) /\ Indexing(Index("PCR", 0, 0))
          /\ Indexing(Index("PC", 0, 0)) /\ Indexing(Index("W", 0, 0)) /\ Indexing(Index("X", 0, 1))
          /\ Indexing(Index("SP", -1, 0))
      BY IndexIs
    <2>2. /\ Form(<<Expr("#", "", "")>>) /\ Form(<<Expr("", "", "")>>) /\ Form(<<Expr("", ">", "")>>)
          /\ Form(<<Expr("[", "", "")>>) /\ Form(<<Expr("[", "", "X")>>) /\ Form(<<Expr("[", "", "PCR")>>)
      BY ExprForm
    <2>3. /\ Form(<<Expr("", "", ""), Index("X", 0, 0)>>) /\ Form(<<Expr("", "<", ""), Index("Y", 0, 0)>>)
          /\ Form(<<Expr("", "", ""), Index("PCR", 0, 0)>>) /\ Form(<<Expr("", "", ""), Index("PC", 0, 0)>>)
          /\ Form(<<Expr("", "", ""), Index("W", 0, 0)>>) /\ Form(<<Expr("", "", ""), Index("X", 0, 1)>>)
          /\ Form(<<Expr("", "", ""), Index("SP", -1, 0)>>)
      BY <2>1, ExprForm
    <2> QED BY <2>2, <2>3 DEF Forms
  <1>2. \A f \in FixedForms : Form(f)
    <2>1. /\ Indexing(Index("U", 0, 0)) /\ Indexing(Index("X", 0, 2)) /\ Indexing(Index("S", -1, 0))
          /\ Indexing(Index("W", -2, 0)) /\ Indexing(Index("X", 0, 0)) /\ Indexing(Index("Y", 0, 0))
      BY IndexIs
    <2>2. IsText(NoText) /\ Cpu09(cpus, opt)!Empty(NoText)
      <3>1. IsText(NoText) /\ NoText.open = "" /\ NoText.body = "" /\ NoText.reg = ""
        BY DEF NoText, Text, IsText, IsFcn
      <3> QED BY <3>1 DEF Cpu09!Empty
    <2>3. \A x : Indexing(x) => Form(<<NoText, x>>)
      BY <2>2, FormOf
    <2>4. \A r : r # "" => \A x : Indexing(x) => Form(<<Text("", "", r, "", 0, 0), x>>)
      <3> SUFFICES ASSUME NEW r, r # "" PROVE \A x : Indexing(x) => Form(<<Text("", "", r, "", 0, 0), x>>)
        OBVIOUS
      <3>1. IsText(Text("", "", r, "", 0, 0)) /\ Text("", "", r, "", 0, 0).body = r
        BY DEF Text, IsText, IsFcn
      <3> QED BY <3>1, FormOf
    <2>5. Form(<<Text("[", "", "D", "X", 0, 0)>>)
      <3>1. /\ IsText(Text("[", "", "D", "X", 0, 0)) /\ Text("[", "", "D", "X", 0, 0).body = "D"
        BY DEF Text, IsText, IsFcn
      <3> QED BY <3>1, FormOf
    <2>6. Form(<<Text("[", "", "", "Y", 0, 2)>>)
      <3>1. /\ IsText(Text("[", "", "", "Y", 0, 2))
            /\ Text("[", "", "", "Y", 0, 2).open = "[" /\ Text("[", "", "", "Y", 0, 2).reg = "Y"
        BY DEF Text, IsText, IsFcn
      <3> QED BY <3>1, FormOf
    <2>7. Form(<<Text("", "", "A", "", 0, 0), Index("X", 0, 0)>>) /\ Form(<<Text("", "", "D", "", 0, 0), Index("Y", 0, 0)>>)
      BY <2>1, <2>4
    <2> QED BY <2>1, <2>3, <2>5, <2>6, <2>7 DEF FixedForms
  <1> QED BY <1>1, <1>2

\* A form without a value is legible too.
LEMMA FormLegible ==
    ASSUME NEW f, Form(f)
    PROVE  Legible(f)
  <1>1. f[1].e = Symbol(0, "none")
    BY DEF Form, IsText
  <1>2. IsFcn(f[1].e) /\ "type" \in DOMAIN f[1].e /\ f[1].e.type = "SYM"
    <2>1. IsFcn(Symbol(0, "none")) /\ "type" \in DOMAIN Symbol(0, "none") /\ Symbol(0, "none").type = "SYM"
      BY DEF IsFcn, Symbol
    <2> QED BY <1>1, <2>1
  <1> QED BY <1>2 DEF Form, Legible, Shaped

\* The lines that are tried can be read: what the theorem needs to know of
\* one.
LEMMA LinesReadable ==
    ASSUME NEW name \in {"adca", "jmp", "jsr", "ldx", "leax"} \cup BranchNames, NEW line \in Lines(name)
    PROVE  Readable(name, line)
  <1> DEFINE one == {<<Expr("", "", "")>>}
             imm == {<<Expr("#", "", "")>>}
             two == {f \in Forms : Len(f) = 2}
             forms == CASE name \in BranchNames \cup {"jsr"} -> one
                        [] name = "ldx" -> imm
                        [] name = "leax" -> two
                        [] OTHER -> Forms
  <1>0. "ldx" \notin BranchNames \cup {"jsr"} /\ "leax" \notin BranchNames \cup {"jsr"} /\ "ldx" # "leax"
        /\ "adca" \notin BranchNames
    BY DEF BranchNames
  <1>1. /\ name \in BranchNames \cup {"jsr"} => forms = one
        /\ name = "leax" => forms = two
        /\ name = "ldx" => forms = imm
        /\ name \notin BranchNames \cup {"jsr"} /\ name # "leax" /\ name # "ldx" => forms = Forms
    <2> HIDE DEF one, imm, two
    <2> QED BY <1>0, Zenon
  <1>2. \/ \E f \in forms : \E v, b : line = Valued(f, v, b)
        \/ name = "adca" /\ line \in FixedForms
    <2> DEFINE xs(f) == Labels(f, name) \cup (Small \X {"none"}) \cup ({0, 300} \X {"extern", "direct"})
               fixed == IF name = "adca" THEN FixedForms ELSE {}
               valued == UNION {{Valued(f, x[1], x[2]) : x \in xs(f)} : f \in forms}
    <2>1. Lines(name) = valued \cup fixed
      BY DEF Lines
    <2> HIDE DEF forms, xs
    <2>2. CASE line \in fixed
      BY <2>2
    <2>3. CASE line \in valued
      <3>1. PICK f \in forms : line \in {Valued(f, x[1], x[2]) : x \in xs(f)}
        BY <2>3
      <3>2. PICK x \in xs(f) : line = Valued(f, x[1], x[2])
        BY <3>1
      <3>3. \E v, b : line = Valued(f, v, b)
        BY <3>2, Zenon
      <3> QED BY <3>3, Zenon
    <2> HIDE DEF fixed, valued
    <2> QED BY <2>1, <2>2, <2>3
  <1>3. \A f \in forms : /\ Form(f)
                         /\ name = "leax" => Len(f) = 2
                         /\ name \in BranchNames => Len(f) = 1 /\ f[1].body = "expr"
    <2>1. \A f \in one \cup imm : Form(f) /\ Len(f) = 1 /\ f[1].body = "expr"
      <3>1. Form(<<Expr("", "", "")>>) /\ Form(<<Expr("#", "", "")>>)
        BY ExprForm
      <3>2. Expr("", "", "").body = "expr" /\ Expr("#", "", "").body = "expr"
        BY DEF Expr, Text
      <3> QED BY <3>1, <3>2, TuplesAre
    <2> HIDE DEF one, imm, forms
    <2> QED BY <1>0, <1>1, <2>1, FormsAre
  <1> HIDE DEF forms
  <1>4. CASE \E f \in forms : \E v, b : line = Valued(f, v, b)
    <2>1. PICK f \in forms : \E v, b : line = Valued(f, v, b)
      BY <1>4
    <2>2. Form(f)
      BY <1>3
    <2>3. Legible(line) /\ Len(line) = Len(f) /\ line[1].body = f[1].body
      BY <2>1, <2>2, LineLegible
    <2>4. name \in BranchNames => ~Cpu09(cpus, opt)!Empty(line[1])
      BY <1>3, <2>3 DEF Cpu09!Empty
    <2> QED BY <1>3, <2>3, <2>4 DEF Readable
  <1>5. CASE name = "adca" /\ line \in FixedForms
    <2>1. Legible(line)
      BY <1>5, FormsAre, FormLegible
    <2> QED BY <1>0, <1>5, <2>1 DEF Readable
  <1> QED BY <1>2, <1>4, <1>5

\* The 6502 instruction and what the two handlers have made of it.
Inv6502 ==
    Is6502 =>
      /\ ip \in Instruction /\ vs \in ValuesOf(ip)
      /\ size # 0 => size = Cpu(cpus, opt)!instruction_size(ip, vs, pc, secabs)
      /\ out # Nothing => size # 0 /\ out = Cpu(cpus, opt)!eval_instruction(ip, vs, pc, secabs)

\* What eval_instruction of the 6809 backend produced, as the state keeps it.
Result(o) == [bytes |-> o.bytes, err |-> o.err # {}, reloc |-> o.relocs # {}, ierror |-> o.ierror]

Inv6809 ==
    ~Is6502 =>
      /\ src[1].name \in {"adca", "jmp", "jsr", "ldx", "leax"} \cup BranchNames
      /\ Readable(src[1].name, src[1].args)
      /\ ip = << >> => size = 0 /\ out = Nothing
      /\ ip # << >> => <<ip>> = Cpu09(cpus, opt)!new_inst(src[1].name, src[1].args, src[1].dp)
      /\ size # 0 => size = Cpu09(cpus, opt)!instruction_size(ip, pc, secabs)
      /\ out # Nothing => size # 0 /\ out = Result(Cpu09(cpus, opt)!eval_instruction(ip, pc, secabs))

Inv == pc \in Int /\ secabs \in BOOLEAN /\ Inv6502 /\ Inv6809

\* The operands of the 6502's rows.
LEMMA RowTypes ==
    \A code \in DOMAIN Cpu(cpus, opt)!mnemonics :
       /\ Cpu(cpus, opt)!mnemonics[code].op \in Seq(OpTypes)
       /\ Len(Cpu(cpus, opt)!mnemonics[code].op) \in 0 .. 2
  <1>1. << >> \in Seq(OpTypes) /\ \A t, u \in OpTypes : <<t>> \in Seq(OpTypes) /\ <<t, u>> \in Seq(OpTypes)
    OBVIOUS
  <1>2. {"ABS", "ABSY", "LABS", "DPAGE", "REL8", "REL16", "RELJMP", "IMMED8"} = OpTypes
    BY TypeFacts
  <1>3. DOMAIN Cpu(cpus, opt)!mnemonics = {"lda", "lday", "ldai", "jmp", "beq", "bne", "bra", "bsr", "brl", "bbr0", "rts"}
    BY DEF Cpu!mnemonics
  <1>4. /\ Cpu(cpus, opt)!mnemonics["lda"].op = <<"ABS">> /\ Cpu(cpus, opt)!mnemonics["lday"].op = <<"ABSY">>
        /\ Cpu(cpus, opt)!mnemonics["ldai"].op = <<"IMMED8">> /\ Cpu(cpus, opt)!mnemonics["jmp"].op = <<"ABS">>
        /\ Cpu(cpus, opt)!mnemonics["beq"].op = <<"REL8">> /\ Cpu(cpus, opt)!mnemonics["bne"].op = <<"REL8">>
        /\ Cpu(cpus, opt)!mnemonics["bra"].op = <<"REL8">> /\ Cpu(cpus, opt)!mnemonics["bsr"].op = <<"REL8">>
        /\ Cpu(cpus, opt)!mnemonics["brl"].op = <<"REL16">> /\ Cpu(cpus, opt)!mnemonics["rts"].op = << >>
        /\ Cpu(cpus, opt)!mnemonics["bbr0"].op = <<"DPAGE", "REL8">>
    BY DEF Cpu!mnemonics
  <1>5. /\ <<"ABS">> \in Seq(OpTypes) /\ <<"ABSY">> \in Seq(OpTypes) /\ <<"IMMED8">> \in Seq(OpTypes)
        /\ <<"REL8">> \in Seq(OpTypes) /\ <<"REL16">> \in Seq(OpTypes) /\ <<"DPAGE", "REL8">> \in Seq(OpTypes)
    BY <1>1, <1>2
  <1>6. /\ Len(<< >>) = 0 /\ Len(<<"ABS">>) = 1 /\ Len(<<"ABSY">>) = 1 /\ Len(<<"IMMED8">>) = 1
        /\ Len(<<"REL8">>) = 1 /\ Len(<<"REL16">>) = 1 /\ Len(<<"DPAGE", "REL8">>) = 2
    OBVIOUS
  <1>7. 0 \in 0 .. 2 /\ 1 \in 0 .. 2 /\ 2 \in 0 .. 2
    OBVIOUS
  <1> DEFINE good(op) == op \in Seq(OpTypes) /\ Len(op) \in 0 .. 2
  <1>8. /\ good(<< >>) /\ good(<<"ABS">>) /\ good(<<"ABSY">>) /\ good(<<"IMMED8">>) /\ good(<<"REL8">>)
        /\ good(<<"REL16">>) /\ good(<<"DPAGE", "REL8">>)
    BY <1>1, <1>5, <1>6, <1>7
  <1> HIDE DEF good
  <1>9. \A code \in DOMAIN Cpu(cpus, opt)!mnemonics : good(Cpu(cpus, opt)!mnemonics[code].op)
    BY <1>3, <1>4, <1>8
  <1> QED BY <1>9 DEF good

\* The initial states of the 6502.
LEMMA Init6502Inv ==
    ASSUME Init, Init6502
    PROVE  ip \in Instruction /\ vs \in ValuesOf(ip)
  <1>0. PICK code \in Codes, f \in Flags, v \in Values(pc), b \in Cpu(cpus, opt)!Bases :
         ip = Instr6502(code, f) /\ vs = Values6502(ip, v, b)
    BY Zenon DEF Init6502
  <1>1. /\ ip = [code |-> code,
                 op   |-> [i \in 1..Len(Cpu(cpus, opt)!mnemonics[code].op) |->
                             [type |-> Cpu(cpus, opt)!mnemonics[code].op[i],
                              flags |-> IF Cpu(cpus, opt)!mnemonics[code].op[i] = "REL8"
                                        THEN {} ELSE f]]]
        /\ vs = [i \in 1..Len(ip.op) |->
                   IF Len(ip.op) = 2 /\ i = 1 THEN [val |-> 18, base |-> "none"]
                                              ELSE [val |-> v, base |-> b]]
    <2>1. vs = Values6502(ip, v, b) /\ ip = Instr6502(code, f)
      BY <1>0
    <2> QED BY <2>1, Zenon DEF Instr6502, Values6502
  <1> DEFINE row == Cpu(cpus, opt)!mnemonics[code].op
             flags(i) == IF row[i] = "REL8" THEN {} ELSE f
             ops == [i \in 1 .. Len(row) |-> [type |-> row[i], flags |-> flags(i)]]
             value(i) == IF Len(ip.op) = 2 /\ i = 1 THEN [val |-> 18, base |-> "none"] ELSE [val |-> v, base |-> b]
  <1>2. code \in DOMAIN Cpu(cpus, opt)!mnemonics
    <2>1. DOMAIN Cpu({"6502"}, FALSE)!mnemonics = DOMAIN Cpu(cpus, opt)!mnemonics
      BY DEF Cpu!mnemonics
    <2> QED BY <2>1, CodesAssumption
  <1>3. row \in Seq(OpTypes) /\ Len(row) \in Nat
    BY <1>2, RowTypes
  <1>4. f \in SUBSET {"LO", "HI", "WA", "BK"}
    BY DEF Flags
  <1>5. ops \in Seq(Operand) /\ Len(ops) = Len(row) /\ \A i \in 1 .. Len(row) : ops[i].type = row[i]
    <2>1. \A i \in 1 .. Len(row) : row[i] \in OpTypes /\ flags(i) \in SUBSET {"LO", "HI", "WA", "BK"}
      BY <1>3, <1>4
    <2> HIDE DEF flags, row
    <2>2. \A i \in 1 .. Len(row) : [type |-> row[i], flags |-> flags(i)] \in Operand
      BY <2>1 DEF Operand
    <2> QED BY <1>3, <2>2
  <1>6. ip = [code |-> code, op |-> ops]
    BY <1>1
  <1>7. ip \in Instruction
    <2> HIDE DEF ops
    <2> QED BY <1>2, <1>3, <1>5, <1>6 DEF Instruction
  <1>8. vs \in ValuesOf(ip)
    <2>1. v \in Int
      <3>1. pc \in Int
        BY OriginsAssumption DEF Init
      <3>2. \A d \in Distances : d \in Int
        BY DEF Distances
      <3> QED BY <3>1, <3>2 DEF Values
    <2>2. "none" \in Cpu(cpus, opt)!Bases
      BY DEF Cpu!Bases
    <2>3. \A i : value(i) \in [val : Int, base : Cpu(cpus, opt)!Bases]
      BY <2>1, <2>2
    <2>4. vs = [i \in 1 .. Len(ip.op) |-> value(i)]
      BY <1>1
    <2> HIDE DEF value
    <2> QED BY <2>3, <2>4 DEF ValuesOf
  <1> QED BY <1>7, <1>8

\* The initial states of the 6809.
LEMMA Init6809Inv ==
    ASSUME Init, Init6809
    PROVE  /\ src # << >> /\ ip = << >>
           /\ src[1].name \in {"adca", "jmp", "jsr", "ldx", "leax"} \cup BranchNames
           /\ Readable(src[1].name, src[1].args)
  <1>1. PICK name \in Names : \E l \in Lines(name), dp \in {0, 4660} : Chosen(name, l, dp)
    BY DEF Init6809
  <1>2. PICK l \in Lines(name), dp \in {0, 4660} : Chosen(name, l, dp)
    BY <1>1
  <1>3. name \in {"adca", "jmp", "jsr", "ldx", "leax"} \cup BranchNames
    BY NamesAssumption
  <1>4. src = <<LineOf(name, l, dp)>>
    BY <1>2 DEF Chosen
  <1>7. Readable(name, l)
    BY <1>3, LinesReadable
  <1>5. src # << >> /\ src[1].name = name /\ src[1].args = l
    <2>1. LineOf(name, l, dp).name = name /\ LineOf(name, l, dp).args = l
      BY DEF LineOf
    <2> QED BY <1>4, <2>1
  <1>6. ip = << >>
    BY DEF Init6809
  <1> QED BY <1>3, <1>5, <1>6, <1>7

\* The invariant holds initially.
LEMMA InitInv ==
    ASSUME Init
    PROVE  Inv
  <1>1. pc \in Int /\ secabs \in BOOLEAN /\ size = 0 /\ out = Nothing
    BY OriginsAssumption DEF Init
  <1>2. CASE Init6502
    <2>1. Is6502
      BY <1>2 DEF Init6502, Is6502
    <2> QED BY <1>1, <1>2, <2>1, Init6502Inv DEF Inv, Inv6502, Inv6809
  <1>3. CASE Init6809
    <2>1. /\ src # << >> /\ ip = << >>
          /\ src[1].name \in {"adca", "jmp", "jsr", "ldx", "leax"} \cup BranchNames
          /\ Readable(src[1].name, src[1].args)
      BY <1>3, Init6809Inv
    <2> QED BY <1>1, <2>1 DEF Inv, Inv6502, Inv6809, Is6502
  <1> QED BY <1>2, <1>3 DEF Init

\* A line is as readable after a step as before it.
LEMMA SameLine ==
    ASSUME UNCHANGED <<src, cpus, opt>>, Readable(src[1].name, src[1].args)
    PROVE  Readable(src[1].name, src[1].args)'
  BY DEF Readable, Legible, Shaped, Indexing, OneOrTwo, IsFcn

\* What the invariant says of the 6502's instruction depends only on
\* variables that no step changes.
LEMMA Same6502 ==
    ASSUME UNCHANGED <<ip, vs, cpus, opt>>, ip \in Instruction, vs \in ValuesOf(ip)
    PROVE  (ip \in Instruction)' /\ (vs \in ValuesOf(ip))'
  BY DEF Instruction, ValuesOf, Operand, OpTypes

\* An instruction found for a line is the whole answer of new_inst.
LEMMA Found ==
    ASSUME NEW name, NEW args, NEW dp,
           Cpu09(cpus, opt)!new_inst(name, args, dp) # << >>
    PROVE  << Cpu09(cpus, opt)!new_inst(name, args, dp)[1] >> = Cpu09(cpus, opt)!new_inst(name, args, dp)
  BY DEF Cpu09!new_inst, Cpu09!InstOf

\* instruction_size leaves the instruction of a line that can be read alone.
LEMMA SharedIp ==
    ASSUME NEW name \in {"adca", "jmp", "jsr", "ldx", "leax"} \cup BranchNames, NEW args, Readable(name, args),
           NEW dp, NEW inst, <<inst>> = Cpu09(cpus, opt)!new_inst(name, args, dp)
    PROVE  Cpu09(cpus, opt)!Shared(inst) = inst
  <1>1. CASE name \in BranchNames
    BY <1>1, BranchInst
  <1>2. CASE name \in {"adca", "jmp", "jsr", "ldx", "leax"}
    BY <1>2, MemoryInst
  <1> QED BY <1>1, <1>2

\* A step of the 6502 leaves the 6809's part of the invariant alone.
LEMMA Keeps6809 ==
    ASSUME Inv6809, Is6502, UNCHANGED src
    PROVE  Inv6809'
  BY DEF Inv6809, Is6502

\* And the other way round.
LEMMA Keeps6502 ==
    ASSUME ~Is6502, UNCHANGED src
    PROVE  Inv6502'
  BY DEF Inv6502, Is6502

\* Every step keeps the invariant.
LEMMA NextInv ==
    ASSUME Inv, [Next]_vars
    PROVE  Inv'
  <1>0. pc \in Int /\ secabs \in BOOLEAN /\ Inv6502 /\ Inv6809
    BY DEF Inv
  <1>1. CASE New6809
    <2>1. ~Is6502 /\ ip = << >> /\ UNCHANGED <<src, vs, pc, secabs, cpus, opt, size, out>>
      BY <1>1 DEF New6809
    <2>2. <<ip'>> = Cpu09(cpus, opt)!new_inst(src[1].name, src[1].args, src[1].dp)
      <3>1. PICK inst \in {Cpu09(cpus, opt)!new_inst(src[1].name, src[1].args, src[1].dp)} :
               inst # << >> /\ ip' = inst[1]
        BY <1>1 DEF New6809
      <3>2. inst = Cpu09(cpus, opt)!new_inst(src[1].name, src[1].args, src[1].dp)
        BY <3>1
      <3> QED BY <3>1, <3>2, Found
    <2>3. size = 0 /\ out = Nothing /\ Readable(src[1].name, src[1].args)
          /\ src[1].name \in {"adca", "jmp", "jsr", "ldx", "leax"} \cup BranchNames
      BY <1>0, <2>1 DEF Inv6809
    <2>4. Readable(src[1].name, src[1].args)'
      BY <2>1, <2>3, SameLine
    <2>5. (<<ip>> = Cpu09(cpus, opt)!new_inst(src[1].name, src[1].args, src[1].dp))'
      BY <2>1, <2>2
    <2>6. size' = 0 /\ out' = Nothing /\ src' = src
      BY <2>1, <2>3
    <2>7. Inv6809'
      <3>1. (src[1].name \in {"adca", "jmp", "jsr", "ldx", "leax"} \cup BranchNames)'
        BY <2>3, <2>6
      <3>2. (size = 0)' /\ (out = Nothing)'
        BY <2>6
      <3> QED BY <2>4, <2>5, <3>1, <3>2 DEF Inv6809
    <2>8. Inv6502'
      BY <2>1, <2>6, Keeps6502
    <2> QED BY <1>0, <2>1, <2>7, <2>8 DEF Inv
  <1>2. CASE Size6502
    <2>1. Is6502 /\ size = 0 /\ UNCHANGED <<src, ip, vs, pc, secabs, cpus, opt, out>>
          /\ size' = Cpu(cpus, opt)!instruction_size(ip, vs, pc, secabs)
      BY <1>2 DEF Size6502
    <2>2. ip \in Instruction /\ vs \in ValuesOf(ip) /\ out = Nothing
      BY <1>0, <2>1 DEF Inv6502
    <2>3. (ip \in Instruction)' /\ (vs \in ValuesOf(ip))'
      BY <2>1, <2>2, Same6502
    <2>4. (size = Cpu(cpus, opt)!instruction_size(ip, vs, pc, secabs))'
      BY <2>1
    <2>5. (out = Nothing)'
      BY <2>1, <2>2
    <2>6. Inv6502'
      BY <2>3, <2>4, <2>5 DEF Inv6502
    <2>7. Inv6809'
      BY <1>0, <2>1, Keeps6809
    <2> QED BY <1>0, <2>1, <2>6, <2>7 DEF Inv
  <1>3. CASE Size6809
    <2>1. /\ ~Is6502 /\ ip # << >> /\ size = 0
          /\ size' = Cpu09(cpus, opt)!instruction_size(ip, pc, secabs)
          /\ ip' = Cpu09(cpus, opt)!Shared(ip)
          /\ UNCHANGED <<src, vs, pc, secabs, cpus, opt, out>>
      BY <1>3 DEF Size6809
    <2>2. /\ out = Nothing /\ Readable(src[1].name, src[1].args)
          /\ src[1].name \in {"adca", "jmp", "jsr", "ldx", "leax"} \cup BranchNames
          /\ <<ip>> = Cpu09(cpus, opt)!new_inst(src[1].name, src[1].args, src[1].dp)
      BY <1>0, <2>1 DEF Inv6809
    <2>3. ip' = ip
      BY <2>1, <2>2, SharedIp
    <2>4. Readable(src[1].name, src[1].args)'
      BY <2>1, <2>2, SameLine
    <2>5. (<<ip>> = Cpu09(cpus, opt)!new_inst(src[1].name, src[1].args, src[1].dp))'
      BY <2>1, <2>2, <2>3
    <2>6. (size = Cpu09(cpus, opt)!instruction_size(ip, pc, secabs))'
      BY <2>1, <2>3
    <2>7. /\ (src[1].name \in {"adca", "jmp", "jsr", "ldx", "leax"} \cup BranchNames)'
          /\ (out = Nothing)' /\ (ip # << >>)'
      BY <2>1, <2>2, <2>3
    <2>8. Inv6809'
      BY <2>4, <2>5, <2>6, <2>7 DEF Inv6809
    <2>9. Inv6502'
      BY <2>1, Keeps6502
    <2> QED BY <1>0, <2>1, <2>8, <2>9 DEF Inv
  <1>4. CASE Emit6502
    <2>1. Is6502 /\ size # 0 /\ UNCHANGED <<src, ip, vs, pc, secabs, cpus, opt, size>>
          /\ out' = Cpu(cpus, opt)!eval_instruction(ip, vs, pc, secabs)
      BY <1>4 DEF Emit6502
    <2>2. ip \in Instruction /\ vs \in ValuesOf(ip) /\ size = Cpu(cpus, opt)!instruction_size(ip, vs, pc, secabs)
      BY <1>0, <2>1 DEF Inv6502
    <2>3. (ip \in Instruction)' /\ (vs \in ValuesOf(ip))'
      BY <2>1, <2>2, Same6502
    <2>4. (size = Cpu(cpus, opt)!instruction_size(ip, vs, pc, secabs))' /\ (size # 0)'
      BY <2>1, <2>2
    <2>5. (out = Cpu(cpus, opt)!eval_instruction(ip, vs, pc, secabs))'
      BY <2>1
    <2>6. Inv6502'
      BY <2>3, <2>4, <2>5 DEF Inv6502
    <2>7. Inv6809'
      BY <1>0, <2>1, Keeps6809
    <2> QED BY <1>0, <2>1, <2>6, <2>7 DEF Inv
  <1>5. CASE Emit6809
    <2>1. /\ ~Is6502 /\ size # 0
          /\ out' = Result(Cpu09(cpus, opt)!eval_instruction(ip, pc, secabs))
          /\ UNCHANGED <<src, ip, vs, pc, secabs, cpus, opt, size>>
      BY <1>5 DEF Emit6809, Result
    <2>2. /\ Readable(src[1].name, src[1].args) /\ ip # << >>
          /\ src[1].name \in {"adca", "jmp", "jsr", "ldx", "leax"} \cup BranchNames
          /\ <<ip>> = Cpu09(cpus, opt)!new_inst(src[1].name, src[1].args, src[1].dp)
          /\ size = Cpu09(cpus, opt)!instruction_size(ip, pc, secabs)
      BY <1>0, <2>1 DEF Inv6809
    <2>3. Readable(src[1].name, src[1].args)'
      BY <2>1, <2>2, SameLine
    <2>4. /\ (<<ip>> = Cpu09(cpus, opt)!new_inst(src[1].name, src[1].args, src[1].dp))'
          /\ (size = Cpu09(cpus, opt)!instruction_size(ip, pc, secabs))'
          /\ (out = Result(Cpu09(cpus, opt)!eval_instruction(ip, pc, secabs)))'
      BY <2>1, <2>2
    <2>5. /\ (src[1].name \in {"adca", "jmp", "jsr", "ldx", "leax"} \cup BranchNames)'
          /\ (size # 0)' /\ (ip # << >>)'
      BY <2>1, <2>2
    <2>6. Inv6809'
      BY <2>3, <2>4, <2>5 DEF Inv6809
    <2>7. Inv6502'
      BY <2>1, Keeps6502
    <2> QED BY <1>0, <2>1, <2>6, <2>7 DEF Inv
  <1>6. CASE UNCHANGED vars
    <2>1. UNCHANGED <<src, ip, vs, pc, secabs, cpus, opt, size, out>>
      BY <1>6 DEF vars
    <2>2. CASE Is6502
      <3>1. Inv6502'
        <4>1. (ip \in Instruction)' /\ (vs \in ValuesOf(ip))'
          BY <1>0, <2>1, <2>2, Same6502 DEF Inv6502
        <4>2. (size # 0 => size = Cpu(cpus, opt)!instruction_size(ip, vs, pc, secabs))'
          BY <1>0, <2>1, <2>2 DEF Inv6502
        <4>3. (out # Nothing => size # 0 /\ out = Cpu(cpus, opt)!eval_instruction(ip, vs, pc, secabs))'
          BY <1>0, <2>1, <2>2 DEF Inv6502
        <4> QED BY <4>1, <4>2, <4>3 DEF Inv6502
      <3>2. Inv6809'
        BY <1>0, <2>1, <2>2, Keeps6809
      <3> QED BY <1>0, <2>1, <3>1, <3>2 DEF Inv
    <2>3. CASE ~Is6502
      <3>1. Inv6502'
        BY <2>1, <2>3, Keeps6502
      <3>2. Inv6809'
        <4>1. (src[1].name \in {"adca", "jmp", "jsr", "ldx", "leax"} \cup BranchNames)'
          BY <1>0, <2>1, <2>3 DEF Inv6809
        <4>2. Readable(src[1].name, src[1].args)'
          BY <1>0, <2>1, <2>3, SameLine DEF Inv6809
        <4>3. (ip = << >> => size = 0 /\ out = Nothing)'
          BY <1>0, <2>1, <2>3 DEF Inv6809
        <4>4. (ip # << >> => <<ip>> = Cpu09(cpus, opt)!new_inst(src[1].name, src[1].args, src[1].dp))'
          BY <1>0, <2>1, <2>3 DEF Inv6809
        <4>5. (size # 0 => size = Cpu09(cpus, opt)!instruction_size(ip, pc, secabs))'
          BY <1>0, <2>1, <2>3 DEF Inv6809
        <4>6. (out # Nothing => size # 0 /\ out = Result(Cpu09(cpus, opt)!eval_instruction(ip, pc, secabs)))'
          BY <1>0, <2>1, <2>3 DEF Inv6809
        <4> QED BY <4>1, <4>2, <4>3, <4>4, <4>5, <4>6 DEF Inv6809
      <3> QED BY <1>0, <2>1, <3>1, <3>2 DEF Inv
    <2> QED BY <2>2, <2>3
  <1> QED BY <1>1, <1>2, <1>3, <1>4, <1>5, <1>6 DEF Next

\* An instruction that new_inst makes of a line.
FromLine(name, args, dp, inst) ==
    /\ name \in {"adca", "jmp", "jsr", "ldx", "leax"} \cup BranchNames
    /\ Readable(name, args)
    /\ <<inst>> = Cpu09(cpus, opt)!new_inst(name, args, dp)

\* It is written with as many bytes as it was sized to, or the length is
\* reported.
WellSized(name, inst, at, abs) ==
    LET o == Cpu09(cpus, opt)!eval_instruction(inst, at, abs)
    IN  \/ Len(o.bytes) = Cpu09(cpus, opt)!instruction_size(inst, at, abs)
        \/ /\ o.ierror = TRUE
           /\ cpus = "konami" /\ name \in {"adca", "jmp", "jsr"} /\ opt # {}

\* The sizes of the 6809 backend: the bytes that eval_instruction writes for
\* an instruction of a readable line, with any value, at any address, are as
\* many as instruction_size announces, although the two process it
\* independently and may choose other modes.
THEOREM Written6809 ==
    ASSUME NEW name, NEW args, NEW dp, NEW inst, FromLine(name, args, dp, inst), NEW at \in Int, NEW abs
    PROVE  WellSized(name, inst, at, abs)
  <1> DEFINE s == Cpu09(cpus, opt)!process_instruction(inst, at, abs)
             o == Cpu09(cpus, opt)!eval_instruction(inst, at, abs)
             n == Cpu09(cpus, opt)!instruction_size(inst, at, abs)
  <1>0. /\ name \in {"adca", "jmp", "jsr", "ldx", "leax"} \cup BranchNames
        /\ Readable(name, args)
        /\ Cpu09(cpus, opt)!new_inst(name, args, dp) = <<inst>>
    BY DEF FromLine
  <1>1. o = Cpu09(cpus, opt)!Assembled(s, at, abs) /\ n = s.pc - at
    BY DEF Cpu09!eval_instruction, Cpu09!instruction_size
  <1>2. Accepted(inst) \/ (cpus = "konami" /\ name \in {"adca", "jmp", "jsr"} /\ opt # {})
    <2>1. CASE name \in BranchNames
      BY <1>0, <2>1, BranchInst
    <2>2. CASE name \in {"adca", "jmp", "jsr", "ldx", "leax"}
      BY <1>0, <2>2, MemoryInst
    <2> QED BY <1>0, <2>1, <2>2
  <1>3. CASE Accepted(inst)
    <2>1. Counted(s, at)
      BY <1>3, Processed
    <2> HIDE DEF s, o, n
    <2>2. Len(Cpu09(cpus, opt)!Assembled(s, at, abs).bytes) = s.pc - at
      <3>1. AsCounted(s, at, Cpu09(cpus, opt)!Assembled(s, at, abs),
                      Cpu09(cpus, opt)!Emit(s, 1, Cpu09(cpus, opt)!OcSize(s.code, s.ocidx), Cpu09(cpus, opt)!OcSize(s.code, s.ocidx), abs))
        BY <2>1, CountedIsWritten, Zenon
      <3> QED BY <3>1, Zenon DEF AsCounted
    <2> QED BY <1>1, <2>2 DEF o, n, WellSized
  <1>4. CASE cpus = "konami" /\ name \in {"adca", "jmp", "jsr"} /\ opt # {}
    <2> DEFINE r == Cpu09(cpus, opt)!Operands(s, Cpu09(cpus, opt)!OpcodeBytes(Cpu09(cpus, opt)!mnemonics[s.code].oc[s.ocidx]), abs)
    <2>1. o = Cpu09(cpus, opt)!Checked(r, s.pc - at)
      BY <1>1 DEF Cpu09!Assembled
    <2> HIDE DEF s, r, o, n
    <2>2. o.ierror = (Len(o.bytes) # s.pc - at)
      BY <2>1 DEF Cpu09!Checked
    <2>3. Len(o.bytes) = n \/ o.ierror = TRUE
      BY <1>1, <2>2
    <2> QED BY <1>4, <2>3 DEF o, n, WellSized
  <1> QED BY <1>2, <1>3, <1>4

\* The invariant implies the sizes.
LEMMA InvSizes ==
    ASSUME Inv
    PROVE  SizeIsWritten
  <1>1. CASE Is6502 /\ out # Nothing
    <2>1. /\ ip \in Instruction /\ vs \in ValuesOf(ip) /\ pc \in Int /\ secabs \in BOOLEAN
          /\ size # 0 => size = Cpu(cpus, opt)!instruction_size(ip, vs, pc, secabs)
          /\ size # 0 /\ out = Cpu(cpus, opt)!eval_instruction(ip, vs, pc, secabs)
      BY <1>1 DEF Inv, Inv6502
    <2>2. Len(Cpu(cpus, opt)!eval_instruction(ip, vs, pc, secabs).bytes) = Cpu(cpus, opt)!instruction_size(ip, vs, pc, secabs)
      BY <2>1, SizeIsBytesWritten
    <2>3. Len(out.bytes) = size
      BY <2>1, <2>2
    <2> QED BY <2>3 DEF SizeIsWritten
  <1>2. CASE ~Is6502 /\ out # Nothing
    <2>1. /\ src[1].name \in {"adca", "jmp", "jsr", "ldx", "leax"} \cup BranchNames
          /\ Readable(src[1].name, src[1].args) /\ pc \in Int
          /\ size # 0 => size = Cpu09(cpus, opt)!instruction_size(ip, pc, secabs)
          /\ size # 0 /\ out = Result(Cpu09(cpus, opt)!eval_instruction(ip, pc, secabs))
          /\ <<ip>> = Cpu09(cpus, opt)!new_inst(src[1].name, src[1].args, src[1].dp)
      BY <1>2 DEF Inv, Inv6809
    <2> DEFINE o == Cpu09(cpus, opt)!eval_instruction(ip, pc, secabs)
               n == Cpu09(cpus, opt)!instruction_size(ip, pc, secabs)
    <2>2. \/ Len(o.bytes) = n
          \/ o.ierror = TRUE /\ cpus = "konami" /\ src[1].name \in {"adca", "jmp", "jsr"} /\ opt # {}
      <3>1. FromLine(src[1].name, src[1].args, src[1].dp, ip) /\ pc \in Int
        BY <2>1 DEF FromLine
      <3>2. WellSized(src[1].name, ip, pc, secabs)
        BY <3>1, Written6809
      <3> QED BY <3>2 DEF WellSized
    <2>3. out.bytes = o.bytes /\ out.ierror = o.ierror
      BY <2>1 DEF Result
    <2>4. \/ Len(out.bytes) = size
          \/ KonamiOpt /\ out.ierror
      <3>1. size = n
        BY <2>1
      <3> HIDE DEF o, n
      <3> QED BY <2>2, <2>3, <3>1 DEF KonamiOpt, Line
    <2> QED BY <1>2, <2>4 DEF SizeIsWritten
  <1>3. CASE out = Nothing
    BY <1>3 DEF SizeIsWritten, Emitted
  <1> QED BY <1>1, <1>2, <1>3

\* In every reachable state, the bytes that eval_instruction wrote are as
\* many as instruction_size announced to the resolver, for the 6502 and for
\* the 6809, whatever the options, the addresses and the direct page are (or
\* the Konami processor's internal error is reported).
THEOREM SizesAreWritten == Spec => []SizeIsWritten
  <1>1. Init => Inv
    BY InitInv
  <1>2. Inv /\ [Next]_vars => Inv'
    BY NextInv
  <1>3. Inv => SizeIsWritten
    BY InvSizes
  <1> QED BY <1>1, <1>2, <1>3, PTL DEF Spec
-----------------------------------------------------------------------------
\* Branches under -opt-branch.

\* The only operand of an instruction, when it is written.
LEMMA OnlyOperand ==
    ASSUME NEW inst \in Instruction, Len(inst.op) = 1, NEW vals \in ValuesOf(inst), NEW at \in Int, NEW abs
    PROVE  LET op  == inst.op[1]
               v   == vals[1]
               new == Cpu(cpus, opt)!optimize_instruction(inst, vals, at, abs).op[1]
               val == Cpu(cpus, opt)!OperandValue(new, v, at, 1, abs)
               o   == Cpu(cpus, opt)!eval_instruction(inst, vals, at, abs)
           IN  /\ new.type = Cpu(cpus, opt)!OptType(inst, op, v, at, abs)
               /\ o.err = TRUE => \/ Cpu(cpus, opt)!SelectorError(Cpu(cpus, opt)!mnemonics[inst.code], op)
                                  \/ Cpu(cpus, opt)!rangecheck(new, v, val)
               /\ ~Cpu(cpus, opt)!Resolved(new, v, abs) => o.reloc = TRUE
  <1> DEFINE op == inst.op[1]
             v == vals[1]
             new == Cpu(cpus, opt)!optimize_instruction(inst, vals, at, abs).op[1]
             val == Cpu(cpus, opt)!OperandValue(new, v, at, 1, abs)
             eval == Cpu(cpus, opt)!eval_instruction(inst, vals, at, abs)
  <1>1. 1 \in 1 .. Len(inst.op)
    OBVIOUS
  <1>2. new.type = Cpu(cpus, opt)!OptType(inst, op, v, at, abs)
    BY <1>1, Optimized
  <1>3. PICK outs : /\ Len(outs[0].bytes) = 1
                   /\ ~outs[0].err /\ ~outs[0].reloc
                   /\ outs[1] = Emit(inst, vals, at, abs, 1, outs[0])
                   /\ eval = outs[1]
    <2>0. PICK outs : OutputsOf(inst, vals, at, abs, outs)
      BY OutputAddsUp, Zenon
    <2>1. /\ Len(outs[0].bytes) = 1 /\ ~outs[0].err /\ ~outs[0].reloc
          /\ \A i \in 1 .. Len(inst.op) : outs[i] = Emit(inst, vals, at, abs, i, outs[i - 1])
          /\ Cpu(cpus, opt)!eval_instruction(inst, vals, at, abs) = outs[Len(inst.op)]
      BY <2>0, Zenon DEF OutputsOf
    <2>2. outs[1] = Emit(inst, vals, at, abs, 1, outs[1 - 1])
      BY <1>1, <2>1
    <2>3. 1 - 1 = 0
      OBVIOUS
    <2>4. outs[1] = Emit(inst, vals, at, abs, 1, outs[0])
      BY <2>2, <2>3
    <2>5. Cpu(cpus, opt)!eval_instruction(inst, vals, at, abs) = outs[1]
      BY <2>1
    <2> QED BY <2>1, <2>4, <2>5, Zenon
  <1> DEFINE o == outs[0]
             val0 == Cpu(cpus, opt)!OperandValue(new, v, at, Len(o.bytes), abs)
  <1>4. val0 = val
    BY <1>3
  <1>5. /\ Emit(inst, vals, at, abs, 1, o).err
              = (o.err \/ Cpu(cpus, opt)!SelectorError(Cpu(cpus, opt)!mnemonics[inst.code], op) \/ Cpu(cpus, opt)!rangecheck(new, v, val0))
        /\ Emit(inst, vals, at, abs, 1, o).reloc = (o.reloc \/ ~Cpu(cpus, opt)!Resolved(new, v, abs))
    <2> HIDE DEF o
    <2> QED BY DEF Emit
  <1>6. ~o.err /\ ~o.reloc /\ eval = Emit(inst, vals, at, abs, 1, o)
    BY <1>3
  <1> HIDE DEF val0, new, op, v, o, eval
  <1>7. eval.err = (o.err \/ Cpu(cpus, opt)!SelectorError(Cpu(cpus, opt)!mnemonics[inst.code], op) \/ Cpu(cpus, opt)!rangecheck(new, v, val))
        /\ eval.reloc = (o.reloc \/ ~Cpu(cpus, opt)!Resolved(new, v, abs))
    <2> HIDE DEF val
    <2> QED BY <1>4, <1>5, <1>6
  <1> HIDE DEF val
  <1>8. /\ eval.err = TRUE => \/ Cpu(cpus, opt)!SelectorError(Cpu(cpus, opt)!mnemonics[inst.code], op)
                              \/ Cpu(cpus, opt)!rangecheck(new, v, val)
        /\ ~Cpu(cpus, opt)!Resolved(new, v, abs) => eval.reloc = TRUE
    BY <1>6, <1>7, Zenon
  <1> QED BY <1>2, <1>8 DEF val, new, op, v, eval

\* The 6502 with its real page.
Paged == PAGE = 256

\* The bounds of a word.
Top == 65535
Half == 32768

\* They are numbers.
LEMMA TopIsNat == Top \in Nat /\ Half \in Nat
  BY SMT DEF Top, Half

\* An address of the 16-bit space, and the operand of a branch.
InSpace(v) == v.val \in 0 .. Top
OneBranch(inst) == Len(inst.op) = 1 /\ inst.op[1].type = "REL8"

\* A branch of the 6502 to an address of the 16-bit space, with -opt-branch,
\* is written without an error or with a relocation.
LEMMA BranchWritten ==
    ASSUME Paged, Branchopt, NEW inst \in Instruction, OneBranch(inst),
           NEW vals \in ValuesOf(inst), InSpace(vals[1]), NEW at \in Int, NEW abs \in BOOLEAN
    PROVE  LET o == Cpu(cpus, opt)!eval_instruction(inst, vals, at, abs)
           IN  o.err # TRUE \/ o.reloc = TRUE
  <1> DEFINE op == inst.op[1]
             v == vals[1]
             new == Cpu(cpus, opt)!optimize_instruction(inst, vals, at, abs).op[1]
             val == Cpu(cpus, opt)!OperandValue(new, v, at, 1, abs)
             o == Cpu(cpus, opt)!eval_instruction(inst, vals, at, abs)
  <1>1. /\ new.type = Cpu(cpus, opt)!OptType(inst, op, v, at, abs)
        /\ o.err = TRUE => \/ Cpu(cpus, opt)!SelectorError(Cpu(cpus, opt)!mnemonics[inst.code], op)
                           \/ Cpu(cpus, opt)!rangecheck(new, v, val)
        /\ ~Cpu(cpus, opt)!Resolved(new, v, abs) => o.reloc = TRUE
    BY OnlyOperand DEF OneBranch
  <1>2. ~Cpu(cpus, opt)!IsAbs(op.type)
    BY DEF Cpu!IsAbs, OneBranch
  <1>3. ~Cpu(cpus, opt)!SelectorError(Cpu(cpus, opt)!mnemonics[inst.code], op)
    BY <1>2, Zenon DEF Cpu!SelectorError
  <1>4. 1 \in 1 .. Len(inst.op) /\ Len(inst.op) = 1 /\ op.type = "REL8"
    BY DEF OneBranch
  <1>5. CASE Cpu(cpus, opt)!OutOfReach(op, v, at, abs)
    <2>1. ~Cpu(cpus, opt)!InReach(inst, op, v, at, abs)
      BY <1>4, <1>5, BranchIsNoJump
    <2>2. Cpu(cpus, opt)!OptType(inst, op, v, at, abs)
            = IF Cpu(cpus, opt)!IsBra(Cpu(cpus, opt)!mnemonics[inst.code]) THEN "ABS" ELSE "RELJMP"
      BY <1>2, <1>5, <2>1, FarBranchType
    <2>3. new.type \in {"ABS", "RELJMP"}
      <3> HIDE DEF new, op, v
      <3> QED BY <1>1, <2>2
    <2>4. v.base = "none" => val = v.val \/ val = v.val % Cpu(cpus, opt)!WORD
      <3> HIDE DEF new, v
      <3> QED BY <2>3, Zenon DEF Cpu!OperandValue
    <2>5. Cpu(cpus, opt)!WORD \in Nat /\ Cpu(cpus, opt)!WORD - 1 = Top
      BY DEF Cpu!WORD, Paged, Top
    <2>6. v.base = "none" => val \in 0 .. Cpu(cpus, opt)!WORD - 1
      <3> DEFINE word == Cpu(cpus, opt)!WORD
                 n == v.val
      <3>1. /\ n \in 0 .. Top /\ word \in Nat /\ word - 1 = Top
            /\ v.base = "none" => val = n \/ val = n % word
        BY <2>4, <2>5 DEF InSpace
      <3>2. Top \in Nat
        BY TopIsNat
      <3> HIDE DEF word, n, v, val
      <3>3. word \in Nat \ {0} /\ n \in Int
        BY <3>1, <3>2
      <3>4. n % word \in 0 .. word - 1
        BY <3>3
      <3>5. v.base = "none" => val \in 0 .. word - 1
        BY <3>1, <3>4
      <3> QED BY <3>5 DEF word
    <2>7. ~Cpu(cpus, opt)!rangecheck(new, v, val)
      <3> HIDE DEF new, val, v
      <3> QED BY <2>3, <2>6 DEF Cpu!rangecheck
    <2> QED BY <1>1, <1>3, <2>7
  <1>6. CASE ~Cpu(cpus, opt)!OutOfReach(op, v, at, abs)
    <2>1. ~Cpu(cpus, opt)!InReach(inst, op, v, at, abs)
      <3>1. inst.code # "jmp"
        <4>1. op.type = Cpu(cpus, opt)!mnemonics[inst.code].op[1]
          BY <1>4 DEF Instruction
        <4>2. Cpu(cpus, opt)!mnemonics["jmp"].op = << "ABS" >>
          BY DEF Cpu!mnemonics
        <4>3. << "ABS" >>[1] = "ABS"
          OBVIOUS
        <4> HIDE DEF op
        <4> QED BY <1>4, <4>1, <4>2, <4>3
      <3> QED BY <3>1, Zenon DEF Cpu!InReach
    <2>2. Cpu(cpus, opt)!OptType(inst, op, v, at, abs) = op.type
      <3> HIDE DEF op, v
      <3>1. Stays(inst, op, v, at, abs)
        BY <1>2, <1>6, <2>1, Zenon DEF Stays
      <3> QED BY <3>1, Zenon DEF Stays, Cpu!OptType
    <2>3. new.type = "REL8"
      BY <1>1, <1>4, <2>2
    <2>4. CASE Cpu(cpus, opt)!Resolved(op, v, abs)
      BY <1>4, <2>3, <2>4, ShortBranchesReach
    <2>5. CASE ~Cpu(cpus, opt)!Resolved(op, v, abs)
      <3>1. ~Cpu(cpus, opt)!Resolved(new, v, abs)
        <4> HIDE DEF v, new, op
        <4>1. new.type = op.type
          BY <1>4, <2>3
        <4> QED BY <2>5, <4>1, Zenon DEF Cpu!Resolved
      <3> QED BY <1>1, <3>1
    <2> QED BY <2>4, <2>5
  <1> QED BY <1>5, <1>6

\* The range checks of a displacement of 16 bits in these terms.
LEMMA Word16Is == Cpu09(cpus, opt)!Word16 = -Half .. Top
  BY SMT DEF Cpu09!Word16, Half, Top

\* A displacement that goes around the end of the address space.
LEMMA WrapsIs ==
    ASSUME NEW d
    PROVE  Cpu09(cpus, opt)!Wraps("REL16", d) <=> (d < -Half /\ d + (Top + 1) \in 0 .. Top)
  <1>1. Top + 1 = 65536
    BY SMT DEF Top
  <1> QED BY <1>1, SMT DEF Cpu09!Wraps, Half, Top

\* From an instruction that ends in the 16-bit space every address of it is
\* within reach of a displacement of 16 bits, which may wrap around.
LEMMA InReach16 ==
    ASSUME NEW t \in Nat, NEW h \in Nat, NEW at \in 0 .. t - 3, NEW k \in {1, 2}, NEW n \in 0 .. t,
           NEW d, d = n - (at + k + 2)
    PROVE  d \in -h .. t \/ (d < -h /\ d + (t + 1) \in 0 .. t)
  OBVIOUS

\* So a displacement of 16 bits to such an address gets no message 10.
LEMMA NoRange ==
    ASSUME NEW at \in 0 .. Top - 3, NEW k \in {1, 2}, NEW n \in 0 .. Top, NEW d, d = n - (at + k + 2)
    PROVE  Cpu09(cpus, opt)!OutOfRange("REL16", d) = {}
  <1>1. Top \in Nat /\ Half \in Nat
    BY TopIsNat
  <1>2. d \in -Half .. Top \/ (d < -Half /\ d + (Top + 1) \in 0 .. Top)
    <2> HIDE DEF Top, Half
    <2> QED BY <1>1, InReach16
  <1>3. Cpu09(cpus, opt)!Word16 = -Half .. Top
    BY Word16Is
  <1>4. Cpu09(cpus, opt)!Wraps("REL16", d) <=> (d < -Half /\ d + (Top + 1) \in 0 .. Top)
    BY WrapsIs
  <1>5. ~(d \notin Cpu09(cpus, opt)!Word16 /\ ~Cpu09(cpus, opt)!Wraps("REL16", d))
    BY <1>2, <1>3, <1>4, Zenon
  <1>6. Cpu09(cpus, opt)!OutOfRange("REL16", d) = {} \cup {} \cup {}
    BY <1>5, Zenon DEF Cpu09!OutOfRange
  <1> QED BY <1>6

\* Neither does one within 8 bits get message 8.
LEMMA NoRange8 ==
    ASSUME NEW d \in -128 .. 127
    PROVE  Cpu09(cpus, opt)!OutOfRange("REL8", d) = {}
  <1>1. Cpu09(cpus, opt)!OutOfRange("REL8", d) = {} \cup {} \cup {}
    BY Zenon DEF Cpu09!OutOfRange
  <1> QED BY <1>1

\* The end of do_rel.
LEMMA RelFinalIs ==
    ASSUME NEW s, IsState(s), NEW pcd
    PROVE  LET r == Cpu09(cpus, opt)!RelFinal(s, 1, pcd)
           IN  /\ r.err = s.err \cup Cpu09(cpus, opt)!OutOfRange(s.op[1].mode, pcd)
               /\ r.op[1].mode = s.op[1].mode
               /\ r.op[1].base = s.op[1].base
  <1> DEFINE o == [s.op[1] EXCEPT !.curval = Cpu09(cpus, opt)!Wrapped(s.op[1].mode, pcd)]
             x == Cpu09(cpus, opt)!Out(s, 1, o, Cpu09(cpus, opt)!rel_size[s.op[1].mode])
             nos == Cpu09(cpus, opt)!OutOfRange(s.op[1].mode, pcd)
  <1>1. o.mode = s.op[1].mode /\ o.base = s.op[1].base
    BY DEF IsState, IsOp
  <1>2. /\ DOMAIN x = {"code", "op", "dp", "orig", "pc", "ocidx", "mcv", "mpc", "err"}
        /\ x.op[1] = o /\ x.err = s.err
    <2> HIDE DEF o
    <2> QED BY DEF IsState, Cpu09!Out
  <1>3. Cpu09(cpus, opt)!RelFinal(s, 1, pcd) = Cpu09(cpus, opt)!Fail(x, nos)
    BY Zenon DEF Cpu09!RelFinal
  <1> HIDE DEF x, nos
  <1>4. Cpu09(cpus, opt)!Fail(x, nos).err = x.err \cup nos /\ Cpu09(cpus, opt)!Fail(x, nos).op = x.op
    BY <1>2 DEF Cpu09!Fail
  <1> HIDE DEF o
  <1> QED BY <1>1, <1>2, <1>3, <1>4 DEF nos

\* A branch that -opt-branch may replace by its long form if it is short.
Adaptable(s) ==
    /\ s.op[1].mode \in {"REL8", "REL16"}
    /\ s.op[1].mode = "REL8" => /\ Cpu09(cpus, opt)!mnemonics[s.code].name \in DOMAIN Cpu09(cpus, opt)!LongForm
                                /\ s.code = Cpu09(cpus, opt)!OC(Cpu09(cpus, opt)!mnemonics[s.code].name)

\* What do_rel makes of a branch in the 16-bit space.
Reached(r, s, abs) ==
    /\ r.op[1].mode \in {"REL8", "REL16"}
    /\ r.op[1].base = s.op[1].base
    /\ Cpu09(cpus, opt)!NeedsLinker(s.op[1], abs) \/ r.err = s.err

Space(s, at) == s.op[1].curval \in 0 .. Top /\ at \in 0 .. Top - 3

\* The bytes of a displacement.
LEMMA RelSizes ==
    /\ Cpu09(cpus, opt)!rel_size["REL8"] = 1
    /\ Cpu09(cpus, opt)!rel_size["REL16"] = 2
  BY DEF Cpu09!rel_size

\* Where a long branch's displacement counts from.
LEMMA LongDistance ==
    ASSUME NEW at \in Int, NEW p \in Int, NEW n \in Int, NEW k \in Int
    PROVE  (n - (p + 1)) - 1 - (k - (p - at)) = n - (at + k + 2)
  OBVIOUS

\* The same of a short one.
LEMMA ShortDistance ==
    ASSUME NEW at \in Int, NEW p \in Int, NEW d \in Int, d \in -129 + (1 - (p - at)) .. 126 + (1 - (p - at))
    PROVE  d + 1 - (1 - (p - at)) \in -128 .. 127
  OBVIOUS

\* do_rel with -opt-branch: the long form is taken just when the short one
\* does not reach, and each is then within range.
LEMMA RelFits ==
    ASSUME Cpu09(cpus, opt)!opt_bra, NEW s, NEW at, Opened(s, at), s.ocidx = "STD", Adaptable(s), Space(s, at), NEW abs
    PROVE  Reached(Cpu09(cpus, opt)!Rel(s, 1, abs), s, abs)
  <1> DEFINE op == s.op[1]
             link == Cpu09(cpus, opt)!NeedsLinker(op, abs)
             pcd == IF link THEN op.curval ELSE op.curval - (s.pc + Cpu09(cpus, opt)!rel_size[op.mode])
             new == [s EXCEPT !.op[1].flags = @ \cup (IF link THEN {"PC"} ELSE {"PC", "PCREL"})]
             opti == Cpu09(cpus, opt)!opt_bra /\ 1 = 1 /\ "PCREL" \in new.op[1].flags
             lcode == Cpu09(cpus, opt)!OC(Cpu09(cpus, opt)!LongForm[Cpu09(cpus, opt)!mnemonics[s.code].name])
             ldiff == Cpu09(cpus, opt)!OcSize(lcode, "STD") - (s.pc - s.orig)
             sdiff == 1 - (s.pc - s.orig)
             long == [new EXCEPT !.code = lcode, !.op[1].mode = "REL16", !.pc = @ + ldiff]
             short == [new EXCEPT !.code = @ - 2, !.op[1].mode = "REL8", !.pc = @ + sdiff]
  <1>1. /\ IsState(new) /\ new.op[1].mode = op.mode /\ new.op[1].base = op.base /\ new.err = s.err
        /\ "PCREL" \in new.op[1].flags \/ link
    BY DEF Opened, IsState, IsOp
  <1>2. /\ op.curval \in Int /\ s.pc \in Int /\ at \in Int /\ s.orig = at
        /\ s.pc = at + Cpu09(cpus, opt)!OcSize(s.code, "STD")
    <2>1. Top \in Nat
      BY TopIsNat
    <2> QED BY <2>1, SizesAreInt DEF Opened, Space
  <1>3. CASE opti /\ Cpu09(cpus, opt)!ToLong(s, 1, pcd)
    <2>1. Cpu09(cpus, opt)!Rel(s, 1, abs) = Cpu09(cpus, opt)!RelFinal(long, 1, pcd - 1 - ldiff)
      <3>1. ~Cpu09(cpus, opt)!ToShort(s, 1, pcd)
        BY <1>3 DEF Cpu09!ToLong, Cpu09!ToShort
      <3> QED BY <1>3, <3>1, Zenon DEF Cpu09!Rel
    <2>2. IsState(long) /\ long.op[1].mode = "REL16" /\ long.op[1].base = op.base /\ long.err = s.err
      <3> HIDE DEF new, lcode, ldiff
      <3> QED BY <1>1 DEF IsState, IsOp
    <2>3. op.mode = "REL8"
      BY <1>3, Zenon DEF Cpu09!ToLong
    <2>4. ~link => Cpu09(cpus, opt)!OutOfRange("REL16", pcd - 1 - ldiff) = {}
      <3> SUFFICES ASSUME ~link PROVE Cpu09(cpus, opt)!OutOfRange("REL16", pcd - 1 - ldiff) = {}
        OBVIOUS
      <3> DEFINE k == Cpu09(cpus, opt)!OcSize(lcode, "STD")
      <3>1. k \in {1, 2}
        <4> HIDE DEF lcode
        <4> QED BY SizesAreInt
      <3>2. pcd = op.curval - (s.pc + 1)
        BY <2>3, RelSizes
      <3> HIDE DEF pcd, k
      <3>3. pcd - 1 - ldiff = op.curval - (at + k + 2)
        BY <1>2, <3>1, <3>2 DEF k
      <3> HIDE DEF ldiff
      <3> QED BY <3>1, <3>3, NoRange DEF Space
    <2> HIDE DEF long, new, pcd, ldiff
    <2>5. LET r == Cpu09(cpus, opt)!RelFinal(long, 1, pcd - 1 - ldiff)
          IN  r.err = long.err \cup Cpu09(cpus, opt)!OutOfRange("REL16", pcd - 1 - ldiff)
              /\ r.op[1].mode = "REL16" /\ r.op[1].base = op.base
      BY <2>2, RelFinalIs
    <2> HIDE DEF link
    <2> QED BY <2>1, <2>2, <2>4, <2>5 DEF Reached, link
  <1>4. CASE opti /\ ~Cpu09(cpus, opt)!ToLong(s, 1, pcd) /\ Cpu09(cpus, opt)!ToShort(s, 1, pcd)
    <2>1. Cpu09(cpus, opt)!Rel(s, 1, abs) = Cpu09(cpus, opt)!RelFinal(short, 1, pcd + 1 - sdiff)
      BY <1>4, Zenon DEF Cpu09!Rel
    <2>2. IsState(short) /\ short.op[1].mode = "REL8" /\ short.op[1].base = op.base /\ short.err = s.err
      <3> HIDE DEF new, sdiff
      <3> QED BY <1>1 DEF IsState, IsOp
    <2>3. op.mode = "REL16" /\ pcd \in -129 + sdiff .. 126 + sdiff
      BY <1>4, Zenon DEF Cpu09!ToShort
    <2>4. ~link => Cpu09(cpus, opt)!OutOfRange("REL8", pcd + 1 - sdiff) = {}
      <3> SUFFICES ASSUME ~link PROVE Cpu09(cpus, opt)!OutOfRange("REL8", pcd + 1 - sdiff) = {}
        OBVIOUS
      <3>2. pcd = op.curval - (s.pc + 2)
        BY <2>3, RelSizes
      <3> HIDE DEF pcd
      <3>3. pcd + 1 - sdiff \in -128 .. 127
        <4>1. sdiff = 1 - (s.pc - at) /\ pcd \in Int
          BY <1>2, <3>2
        <4> DEFINE p == s.pc
        <4>2. p \in Int /\ sdiff = 1 - (p - at)
          BY <1>2, <4>1
        <4> HIDE DEF sdiff, p
        <4>3. pcd \in -129 + (1 - (p - at)) .. 126 + (1 - (p - at))
          BY <2>3, <4>2
        <4>4. pcd + 1 - (1 - (p - at)) \in -128 .. 127
          BY <1>2, <4>1, <4>2, <4>3, ShortDistance
        <4> QED BY <4>2, <4>4
      <3> HIDE DEF sdiff
      <3> QED BY <3>3, NoRange8
    <2> HIDE DEF short, new, pcd, sdiff
    <2>5. LET r == Cpu09(cpus, opt)!RelFinal(short, 1, pcd + 1 - sdiff)
          IN  r.err = short.err \cup Cpu09(cpus, opt)!OutOfRange("REL8", pcd + 1 - sdiff)
              /\ r.op[1].mode = "REL8" /\ r.op[1].base = op.base
      BY <2>2, RelFinalIs
    <2> HIDE DEF link
    <2> QED BY <2>1, <2>2, <2>4, <2>5 DEF Reached, link
  <1>5. CASE ~(opti /\ Cpu09(cpus, opt)!ToLong(s, 1, pcd)) /\ ~(opti /\ Cpu09(cpus, opt)!ToShort(s, 1, pcd))
    <2>1. Cpu09(cpus, opt)!Rel(s, 1, abs) = Cpu09(cpus, opt)!RelFinal(new, 1, pcd)
      BY <1>5, Zenon DEF Cpu09!Rel
    <2>2. op.mode \in {"REL8", "REL16"}
      BY DEF Adaptable
    <2>3. ~link => ~Cpu09(cpus, opt)!ToLong(s, 1, pcd)
      BY <1>1, <1>5
    <2>4. ~link => Cpu09(cpus, opt)!OutOfRange(op.mode, pcd) = {}
      <3> SUFFICES ASSUME ~link PROVE Cpu09(cpus, opt)!OutOfRange(op.mode, pcd) = {}
        OBVIOUS
      <3>1. CASE op.mode = "REL8"
        <4>1. pcd \in -128 .. 127
          <5> HIDE DEF pcd
          <5> QED BY <2>3, <3>1, Zenon DEF Cpu09!ToLong, Adaptable
        <4> HIDE DEF pcd, op
        <4> QED BY <3>1, <4>1, NoRange8
      <3>2. CASE op.mode = "REL16"
        <4> DEFINE k == Cpu09(cpus, opt)!OcSize(s.code, "STD")
        <4>1. k \in {1, 2}
          BY SizesAreInt
        <4>2. pcd = op.curval - (s.pc + 2)
          BY <3>2, RelSizes
        <4> HIDE DEF pcd, k
        <4>3. pcd = op.curval - (at + k + 2)
          BY <1>2, <4>1, <4>2 DEF k
        <4>4. Cpu09(cpus, opt)!OutOfRange("REL16", pcd) = {}
          BY <4>1, <4>3, NoRange DEF Space
        <4> QED BY <3>2, <4>4
      <3> QED BY <2>2, <3>1, <3>2
    <2> HIDE DEF new, pcd
    <2>5. LET r == Cpu09(cpus, opt)!RelFinal(new, 1, pcd)
          IN  r.err = s.err \cup Cpu09(cpus, opt)!OutOfRange(op.mode, pcd)
              /\ r.op[1].mode = op.mode /\ r.op[1].base = op.base
      BY <1>1, RelFinalIs
    <2> HIDE DEF link
    <2> QED BY <2>1, <2>2, <2>4, <2>5 DEF Reached, link
  <1> QED BY <1>3, <1>4, <1>5

\* A branch's argument: a number or a label, and no selector.
Aimed(arg, v, b) == arg.sel = "" /\ arg.e = Symbol(v, b)

\* Its expression is an address without an operator.
PlainExpr(e, v, b) ==
    /\ Cpu09(cpus, opt)!NewType(e) = "SYM"
    /\ Cpu09(cpus, opt)!ext_find_base(e).modifier = "" /\ Cpu09(cpus, opt)!ext_find_base(e).btype = "OK"
    /\ Cpu09(cpus, opt)!Value(e) = v
    /\ e.left.base = b

\* A number or a label is such an expression.
LEMMA PlainSymbol ==
    ASSUME NEW v, NEW b, NEW e, e = Symbol(v, b)
    PROVE  PlainExpr(e, v, b)
  <1> DEFINE f == Cpu09(cpus, opt)!ext_find_base(e)
  <1>1. e.type = "SYM" /\ e.right = 0 /\ e.left.val = v /\ e.left.base = b /\ e.left.btype = "OK"
        /\ [e EXCEPT !.type = "SYM"] = e
    BY DEF Symbol
  <1>2. Cpu09(cpus, opt)!NewType(e) = "SYM"
    BY <1>1, Zenon DEF Cpu09!NewType
  <1>3. Cpu09(cpus, opt)!Value(e) = v
    BY <1>1, Zenon DEF Cpu09!Value
  <1>4. f = [modifier |-> "", btype |-> "OK"]
    <2>1. Cpu09(cpus, opt)!NewType(e) \notin {"LOBYTE", "HIBYTE"}
      BY <1>2
    <2> QED BY <1>1, <2>1, Zenon DEF Cpu09!ext_find_base
  <1>5. f.modifier = "" /\ f.btype = "OK"
    <2> HIDE DEF f
    <2> QED BY <1>4
  <1> HIDE DEF f
  <1> QED BY <1>1, <1>2, <1>3, <1>5, Zenon DEF PlainExpr, f

\* The operand of a branch once it is evaluated.
LEMMA EvaluatedBranch ==
    ASSUME NEW mode, NEW arg, NEW v, NEW b, Aimed(arg, v, b)
    PROVE  LET op == Cpu09(cpus, opt)!Evaluated(Target(mode, arg))
           IN  /\ op.curval = v
               /\ ~Cpu09(cpus, opt)!IllegalReloc(op)
               /\ ~Cpu09(cpus, opt)!DoubleSize(Target(mode, arg))
  <1> DEFINE t == Target(mode, arg)
             e == Symbol(v, b)
             f == Cpu09(cpus, opt)!ext_find_base(e)
             pc1 == IF f.btype = "PCREL" /\ f.modifier = "" /\ t.mode \in Cpu09(cpus, opt)!IMM THEN {"PC"} ELSE {}
             sel == CASE f.modifier = "LOBYTE" -> {"LO"}
                      [] f.modifier = "HIBYTE" -> {"HI"}
                      [] OTHER -> {}
             w == <<[e EXCEPT !.type = Cpu09(cpus, opt)!NewType(e)]>>
             x == [t EXCEPT !.curval = v, !.base = "none"]
             y == [t EXCEPT !.curval = v, !.base = b, !.value = w, !.flags = @ \cup pc1 \cup sel]
             op == Cpu09(cpus, opt)!Evaluated(t)
  <1>1. Cpu09(cpus, opt)!parse_expr(arg) = e
    <2>1. arg.sel # "<" /\ arg.sel # ">" /\ arg.e = e
      BY DEF Aimed
    <2> QED BY <2>1, Zenon DEF Cpu09!parse_expr
  <1>2. IsOp(t) /\ t.flags = {} /\ t.value = <<e>>
    BY <1>1, TargetIs
  <1>3. /\ Cpu09(cpus, opt)!NewType(e) = "SYM" /\ [e EXCEPT !.type = "SYM"] = e
        /\ f.modifier = "" /\ f.btype = "OK" /\ Cpu09(cpus, opt)!Value(e) = v /\ e.left.base = b
    <2>1. e = Symbol(v, b)
      OBVIOUS
    <2> HIDE DEF e
    <2>2. /\ Cpu09(cpus, opt)!NewType(e) = "SYM"
          /\ f.modifier = "" /\ f.btype = "OK" /\ Cpu09(cpus, opt)!Value(e) = v /\ e.left.base = b
      <3>1. PlainExpr(e, v, b)
        BY <2>1, PlainSymbol
      <3> QED BY <3>1 DEF PlainExpr
    <2>3. [e EXCEPT !.type = "SYM"] = e
      BY <2>1 DEF Symbol
    <2> QED BY <2>2, <2>3
  <1>4. t.value # << >> /\ t.value[1] = e
    <2> HIDE DEF t, e
    <2>1. <<e>>[1] = e
      OBVIOUS
    <2>2. <<e>> # << >>
      OBVIOUS
    <2> QED BY <1>2, <2>1, <2>2, Zenon
  <1>5. op = IF b = "none" THEN x ELSE y
    <2>1. Cpu09(cpus, opt)!Evaluated(t) =
             IF t.value = << >> THEN [t EXCEPT !.base = "none"]
             ELSE IF t.value[1].left.base = "none"
                  THEN [t EXCEPT !.curval = Cpu09(cpus, opt)!Value(t.value[1]), !.base = "none"]
                  ELSE [t EXCEPT !.curval = Cpu09(cpus, opt)!Value(t.value[1]), !.base = t.value[1].left.base,
                             !.value = <<[t.value[1] EXCEPT !.type = Cpu09(cpus, opt)!NewType(t.value[1])]>>,
                             !.flags = @ \cup (IF Cpu09(cpus, opt)!ext_find_base(t.value[1]).btype = "PCREL"
                                                  /\ Cpu09(cpus, opt)!ext_find_base(t.value[1]).modifier = ""
                                                  /\ t.mode \in Cpu09(cpus, opt)!IMM
                                               THEN {"PC"} ELSE {})
                                         \cup (CASE Cpu09(cpus, opt)!ext_find_base(t.value[1]).modifier = "LOBYTE" -> {"LO"}
                                                 [] Cpu09(cpus, opt)!ext_find_base(t.value[1]).modifier = "HIBYTE" -> {"HI"}
                                                 [] OTHER -> {})]
      <3> HIDE DEF t
      <3> QED BY DEF Cpu09!Evaluated
    <2> HIDE DEF t, e
    <2> QED BY <1>3, <1>4, <2>1, Zenon
  <1>6. w = <<e>>
    BY <1>3
  <1> HIDE DEF pc1, sel, w, e, t
  <1>7. x.curval = v /\ x.base = "none"
    BY <1>2 DEF IsOp
  <1>8. y.curval = v /\ y.base = b /\ y.value = w
    BY <1>2 DEF IsOp
  <1> HIDE DEF x, y, op
  <1>9. op.curval = v
    BY <1>5, <1>7, <1>8
  <1>10. ~Cpu09(cpus, opt)!IllegalReloc(op)
    <2>1. CASE b = "none"
      <3>1. op.base = "none"
        BY <1>5, <1>7, <2>1
      <3> QED BY <3>1, Zenon DEF Cpu09!IllegalReloc
    <2>2. CASE b # "none"
      <3>1. op.value = <<e>>
        BY <1>5, <1>6, <1>8, <2>2
      <3>2. op.value[1] = e
        BY <3>1
      <3>3. Cpu09(cpus, opt)!ext_find_base(op.value[1]).btype = "OK"
        BY <1>3, <3>2
      <3>4. ~(Cpu09(cpus, opt)!ext_find_base(op.value[1]).btype = "ILLEGAL") /\ ~(Cpu09(cpus, opt)!ext_find_base(op.value[1]).btype = "PCREL")
        BY <3>3
      <3> QED BY <3>4, Zenon DEF Cpu09!IllegalReloc
    <2> QED BY <2>1, <2>2
  <1>11. ~Cpu09(cpus, opt)!DoubleSize(t)
    <2>1. t.flags \cap {"LO", "HI"} = {}
      BY <1>2
    <2> QED BY <2>1, Zenon DEF Cpu09!DoubleSize
  <1> QED BY <1>9, <1>10, <1>11 DEF op, t

\* The loop over the operands has started, without a message.
Begun(s, at, code, mode, v) ==
    /\ Opened(s, at) /\ s.code = code /\ s.ocidx = "STD" /\ s.err = {}
    /\ s.op[1].curval = v /\ s.op[1].mode = mode

\* So it does for a branch to a number or a label.
LEMMA BranchBegins ==
    ASSUME NEW code, NEW mode \in {"REL8", "REL16"}, NEW arg, NEW dp, NEW v, NEW b, Aimed(arg, v, b), NEW at \in Int,
           NEW inst, inst = Made(code, Target(mode, arg), dp), ~Cpu09(cpus, opt)!IsMove(inst)
    PROVE  Begun(Cpu09(cpus, opt)!Begin(inst, at), at, code, mode, v)
  <1> DEFINE t == Target(mode, arg)
             s == Cpu09(cpus, opt)!Begin(inst, at)
             ops == [i \in 1 .. Len(inst.op) |-> Cpu09(cpus, opt)!Evaluated(inst.op[i])]
             bad == {j \in 1 .. Len(ops) : Cpu09(cpus, opt)!IllegalReloc(ops[j])}
             twice == {j \in 1 .. Len(ops) : Cpu09(cpus, opt)!DoubleSize(inst.op[j])}
  <1>1. IsOp(t) /\ t.cosz = "OFF5" /\ t.mode = mode
    BY TargetIs
  <1>2. Single(inst) /\ inst.op[1] = t /\ inst.code = code
    <2> HIDE DEF t
    <2> QED BY <1>1, MadeSingle DEF t
  <1>3. /\ Cpu09(cpus, opt)!Evaluated(t).curval = v
        /\ ~Cpu09(cpus, opt)!IllegalReloc(Cpu09(cpus, opt)!Evaluated(t))
        /\ ~Cpu09(cpus, opt)!DoubleSize(t)
        /\ Cpu09(cpus, opt)!Evaluated(t).mode = mode
    BY <1>1, EvaluatedBranch, EvaluatedKeeps
  <1> HIDE DEF t
  <1>4. Opened(s, at) /\ s.code = code /\ s.ocidx = Column(t) /\ s.op[1] = Cpu09(cpus, opt)!Evaluated(t)
    <2>1. t.cosz \in DOMAIN Cpu09(cpus, opt)!coffs_size
      BY <1>1, SizesAreInt
    <2> QED BY <1>2, <2>1, BeginOpens
  <1>5. Column(t) = "STD"
    <2>1. t.mode # "DIR" /\ t.mode \notin {"ADDR", "EXT"} /\ ~Cpu09(cpus, opt)!IsIndexed(t)
      BY <1>1 DEF Cpu09!IsIndexed
    <2> QED BY <2>1, Zenon DEF Column
  <1>6. s.err = {38 : i \in bad} \cup {17 : i \in twice}
    BY DEF Cpu09!Begin
  <1>7. bad = {} /\ twice = {}
    <2>1. Len(inst.op) = 1 /\ 1 .. 1 = {1}
      BY <1>2 DEF Single
    <2>2. Len(ops) = 1 /\ ops[1] = Cpu09(cpus, opt)!Evaluated(t)
      BY <1>2, <2>1
    <2> HIDE DEF ops
    <2> QED BY <1>2, <1>3, <2>1, <2>2
  <1>8. s.err = {}
    <2> HIDE DEF bad, twice, s
    <2> QED BY <1>6, <1>7
  <1> HIDE DEF s
  <1> QED BY <1>3, <1>4, <1>5, <1>8 DEF s, Begun

\* A displacement is written without a message, and with a relocation where
\* the linker has to fill it in.
LEMMA BranchingIs ==
    ASSUME NEW op, NEW fix, NEW abs, NEW bits \in {8, 16}
    PROVE  LET a == Cpu09(cpus, opt)!Branching(op, bits, fix, abs)
           IN  /\ a.err = {}
               /\ Cpu09(cpus, opt)!NeedsLinker(op, abs) => a.relocs # {}
  <1> DEFINE link == Cpu09(cpus, opt)!NeedsLinker(op, abs)
             a == Cpu09(cpus, opt)!Branching(op, bits, fix, abs)
             val == IF link THEN op.curval - fix ELSE op.curval
             bytes == IF bits = 16 THEN Cpu09(cpus, opt)!Word(val) ELSE <<Cpu09(cpus, opt)!Byte(val)>>
             rel == [base |-> op.base, addend |-> val, type |-> "PC", bits |-> bits]
             relocs == Cpu09(cpus, opt)!If(link, Cpu09(cpus, opt)!Reloc(op, val, "PC", bits))
  <1>1. a = Cpu09(cpus, opt)!Adds(bytes, relocs, {})
    <2>1. bits # 9
      OBVIOUS
    <2> QED BY <2>1, Zenon DEF Cpu09!Branching
  <1>2. link => relocs = {rel}
    BY Zenon DEF Cpu09!If, Cpu09!Reloc
  <1> HIDE DEF rel, relocs, bytes, link
  <1>3. a.err = {} /\ a.relocs = relocs
    <2> HIDE DEF a
    <2> QED BY <1>1 DEF Cpu09!Adds
  <1> HIDE DEF a
  <1>4. link => a.relocs # {}
    BY <1>2, <1>3
  <1> QED BY <1>3, <1>4 DEF a, link

\* A branch that do_rel has adapted is written without a message or with a
\* relocation.
LEMMA ReachedIsWritten ==
    ASSUME NEW r, NEW s, NEW at \in Int, NEW abs, Counted(r, at), Reached(r, s, abs), s.err = {}
    PROVE  LET o == Cpu09(cpus, opt)!Assembled(r, at, abs)
           IN  o.err = {} \/ o.relocs # {}
  <1> DEFINE o == Cpu09(cpus, opt)!Assembled(r, at, abs)
             n == Cpu09(cpus, opt)!OcSize(r.code, r.ocidx)
             a == Cpu09(cpus, opt)!Emit(r, 1, n, n, abs)
             op == r.op[1]
  <1>1. o.relocs = a.relocs /\ o.err = r.err \cup a.err
    <2>1. AsCounted(r, at, o, a)
      BY CountedIsWritten, Zenon
    <2> HIDE DEF o, a
    <2> QED BY <2>1, Zenon DEF AsCounted
  <1>2. a.err = {} /\ (Cpu09(cpus, opt)!NeedsLinker(op, abs) => a.relocs # {})
    <2>1. CASE op.mode = "REL8"
      <3>1. a = Cpu09(cpus, opt)!Branching(op, 8, 1, abs)
        BY <2>1, Zenon DEF Cpu09!Emit
      <3> HIDE DEF a, op
      <3> QED BY <3>1, BranchingIs
    <2>2. CASE op.mode = "REL16"
      <3>1. a = Cpu09(cpus, opt)!Branching(op, 16, 2, abs)
        BY <2>2, Zenon DEF Cpu09!Emit
      <3> HIDE DEF a, op
      <3> QED BY <3>1, BranchingIs
    <2> QED BY <2>1, <2>2 DEF Reached
  <1>3. Cpu09(cpus, opt)!NeedsLinker(op, abs) <=> Cpu09(cpus, opt)!NeedsLinker(s.op[1], abs)
    <2>1. op.base = s.op[1].base
      BY DEF Reached
    <2> HIDE DEF op
    <2> QED BY <2>1 DEF Cpu09!NeedsLinker
  <1>4. Cpu09(cpus, opt)!NeedsLinker(s.op[1], abs) \/ r.err = {}
    BY Zenon DEF Reached
  <1> HIDE DEF o, a, op
  <1> QED BY <1>1, <1>2, <1>3, <1>4 DEF o

\* The names of the short branches are those with a long form.
LEMMA ShortNames ==
    ASSUME NEW name \in BranchNames, Reach(name) = "RLS"
    PROVE  name \in DOMAIN Cpu09(cpus, opt)!LongForm
  <1>1. name \in {"bra", "bsr", "beq"}
    BY DEF Reach
  <1> QED BY <1>1 DEF Cpu09!LongForm

\* A branch of a line to an address of the 16-bit space, from an instruction
\* within it, under -opt-branch.
Near16(args, at) == (\E v, b : v \in 0 .. Top /\ Aimed(args[1], v, b)) /\ at \in 0 .. Top - 3

\* Such a branch of the 6809 is written without a message or with a
\* relocation.
LEMMA BranchWritten09 ==
    ASSUME Cpu09(cpus, opt)!opt_bra, NEW name \in BranchNames, NEW args, NEW dp, NEW inst, FromLine(name, args, dp, inst),
           NEW at \in Int, Near16(args, at), NEW abs
    PROVE  LET o == Cpu09(cpus, opt)!eval_instruction(inst, at, abs)
           IN  o.err = {} \/ o.relocs # {}
  <1> DEFINE mode == Distance[Reach(name)]
             code == Cpu09(cpus, opt)!OC(name)
             s == Cpu09(cpus, opt)!Begin(inst, at)
             r == Cpu09(cpus, opt)!process_instruction(inst, at, abs)
             o == Cpu09(cpus, opt)!eval_instruction(inst, at, abs)
  <1>1. /\ inst = Made(code, Target(mode, args[1]), dp)
        /\ Accepted(inst)
        /\ code \in Cpu09(cpus, opt)!RowsOf(name)
    BY BranchInst DEF FromLine
  <1>2. Reach(name) \in {"RLS", "RLL"} /\ mode \in {"REL8", "REL16"} /\ (mode = "REL8" => Reach(name) = "RLS")
    BY DistanceIs DEF Reach
  <1>3. PICK v, b : v \in 0 .. Top /\ Aimed(args[1], v, b)
    BY DEF Near16
  <1>4. Single(inst) /\ ~Cpu09(cpus, opt)!IsMove(inst)
    BY <1>1 DEF Accepted
  <1> HIDE DEF mode, code
  <1>5. /\ Opened(s, at) /\ s.code = code /\ s.ocidx = "STD" /\ s.err = {}
        /\ s.op[1].curval = v /\ s.op[1].mode = mode
    <2>1. Begun(s, at, code, mode, v)
      BY <1>1, <1>2, <1>3, <1>4, BranchBegins
    <2> HIDE DEF s
    <2> QED BY <2>1 DEF Begun
  <1>6. Adaptable(s)
    <2>1. Cpu09(cpus, opt)!mnemonics[code].name = name
      BY <1>1, RowNames
    <2>2. mode = "REL8" => name \in DOMAIN Cpu09(cpus, opt)!LongForm
      BY <1>2, ShortNames
    <2> HIDE DEF s
    <2> QED BY <1>2, <1>5, <2>1, <2>2 DEF Adaptable, code
  <1>7. Space(s, at)
    <2> HIDE DEF s
    <2> QED BY <1>3, <1>5 DEF Space, Near16
  <1>8. r = Cpu09(cpus, opt)!Operand(s, 1, abs) /\ Counted(r, at)
    BY <1>1, <1>4, OneOperand, Processed
  <1>9. Cpu09(cpus, opt)!Operand(s, 1, abs) = Cpu09(cpus, opt)!Rel(s, 1, abs)
    <2> HIDE DEF s
    <2>1. s.op[1].mode \in {"REL8", "REL16"}
      BY <1>2, <1>5
    <2>2. s.op[1].mode # "ADDR" /\ s.op[1].mode # "EXT" /\ s.op[1].mode # "COFFS" /\ s.op[1].mode # "NOFFS"
          /\ s.op[1].mode # "ROFFS" /\ s.op[1].mode # "TFR" /\ s.op[1].mode \in {"REL8", "REL9", "REL16"}
          /\ s.op[1].mode \notin {"DIR", "IMM8", "REGXB", "BITR"} /\ s.op[1].mode # "IMM16" /\ s.op[1].mode # "IMM32"
          /\ s.op[1].mode \notin {"BITN", "DBR"}
      BY <2>1
    <2> QED BY <2>2, Zenon DEF Cpu09!Operand
  <1> HIDE DEF s, r
  <1>10. Reached(r, s, abs)
    BY <1>5, <1>6, <1>7, <1>8, <1>9, RelFits
  <1>11. o = Cpu09(cpus, opt)!Assembled(r, at, abs)
    BY DEF Cpu09!eval_instruction, r
  <1> HIDE DEF o
  <1>12. o.err = {} \/ o.relocs # {}
    BY <1>5, <1>8, <1>10, <1>11, ReachedIsWritten
  <1> QED BY <1>12 DEF o

\* The line's first argument is a number or a label, without a selector.
ToLabel == \E v, b : Aimed(src[1].args[1], v, b)

\* What BranchesFit needs to know of the state: where the instruction is, and
\* that a branch of a line goes to a number or a label.
Sited ==
    /\ pc \in Origins
    /\ Is6502 => opt \in BOOLEAN
    /\ ~Is6502 /\ src[1].name \in BranchNames => ToLabel

\* The lines of a branch.
LEMMA LinesAimed ==
    ASSUME NEW name \in BranchNames, NEW line \in Lines(name)
    PROVE  \E v, b : Aimed(line[1], v, b)
  <1> DEFINE f1 == <<Expr("", "", "")>>
             one == {f1}
             imm == {<<Expr("#", "", "")>>}
             two == {f \in Forms : Len(f) = 2}
             forms == CASE name \in BranchNames \cup {"jsr"} -> one
                        [] name = "ldx" -> imm
                        [] name = "leax" -> two
                        [] OTHER -> Forms
             xs(f) == Labels(f, name) \cup (Small \X {"none"}) \cup ({0, 300} \X {"extern", "direct"})
             valued == UNION {{Valued(f, x[1], x[2]) : x \in xs(f)} : f \in forms}
  <1>0. name # "adca" /\ name # "ldx" /\ name # "leax" /\ name \in BranchNames \cup {"jsr"}
    BY DEF BranchNames
  <1>1. forms = {f1}
    <2> HIDE DEF imm, two, f1
    <2> QED BY <1>0, Zenon
  <1>2. line \in valued
    <2>1. Lines(name) = valued \cup (IF name = "adca" THEN FixedForms ELSE {})
      BY DEF Lines
    <2> HIDE DEF valued
    <2> QED BY <1>0, <2>1
  <1> HIDE DEF forms, xs
  <1>3. PICK f \in forms : line \in {Valued(f, x[1], x[2]) : x \in xs(f)}
    BY <1>2
  <1>4. PICK x \in xs(f) : line = Valued(f, x[1], x[2])
    BY <1>3
  <1>5. PICK v, b : line = Valued(f1, v, b)
    <2>1. f = f1
      BY <1>1
    <2> HIDE DEF f1
    <2> QED BY <1>4, <2>1, Zenon
  <1>6. Form(f1)
    BY ExprForm
  <1>7. f1[1].sel = ""
    BY DEF Expr, Text
  <1> HIDE DEF f1
  <1>8. line[1].sel = f1[1].sel /\ line[1].e = Symbol(v, b)
    BY <1>5, <1>6, LineLegible
  <1>9. Aimed(line[1], v, b)
    BY <1>7, <1>8, Zenon DEF Aimed
  <1> QED BY <1>9, Zenon

\* It holds initially.
LEMMA InitSited ==
    ASSUME Init
    PROVE  Sited
  <1>1. pc \in Origins
    BY DEF Init
  <1>2. CASE Init6502
    <2>1. Is6502 /\ opt \in BOOLEAN
      BY <1>2 DEF Init6502, Is6502
    <2> QED BY <1>1, <2>1, Zenon DEF Sited
  <1>3. CASE Init6809
    <2>1. PICK name \in Names : \E l \in Lines(name), dp \in {0, 4660} : Chosen(name, l, dp)
      BY <1>3 DEF Init6809
    <2>2. PICK l \in Lines(name), dp \in {0, 4660} : Chosen(name, l, dp)
      BY <2>1
    <2>3. src = <<LineOf(name, l, dp)>>
      BY <2>2 DEF Chosen
    <2>4. src # << >> /\ src[1].name = name /\ src[1].args = l
      <3>1. LineOf(name, l, dp).name = name /\ LineOf(name, l, dp).args = l
        BY DEF LineOf
      <3> QED BY <2>3, <3>1
    <2>5. ~Is6502
      BY <2>4 DEF Is6502
    <2>6. ASSUME src[1].name \in BranchNames PROVE ToLabel
      <3>1. name \in BranchNames
        BY <2>4, <2>6
      <3>2. \E v, b : Aimed(l[1], v, b)
        BY <3>1, LinesAimed
      <3> QED BY <2>4, <3>2 DEF ToLabel
    <2>7. Is6502 => opt \in BOOLEAN
      BY <2>5
    <2>8. ~Is6502 /\ src[1].name \in BranchNames => ToLabel
      BY <2>6
    <2> QED BY <1>1, <2>7, <2>8 DEF Sited
  <1> QED BY <1>2, <1>3 DEF Init

\* No step moves the instruction, its line or the options.
LEMMA StaysSited ==
    ASSUME Sited, [Next]_vars
    PROVE  Sited'
  <1>1. UNCHANGED <<src, pc, opt>>
    BY DEF Next, New6809, Size6502, Size6809, Emit6502, Emit6809, vars
  <1>2. pc' = pc /\ src' = src /\ opt' = opt
    BY <1>1
  <1>3. Is6502' = Is6502
    BY <1>2 DEF Is6502
  <1>4. ToLabel' <=> ToLabel
    BY <1>2 DEF Aimed, ToLabel
  <1>5. (pc \in Origins)' /\ (src[1].name \in BranchNames)' <=> (pc \in Origins /\ src[1].name \in BranchNames)
    BY <1>2
  <1> QED BY <1>1, <1>3, <1>4 DEF Sited

\* BranchesFit in these terms.
Fit6502 == Emitted /\ ~out.reloc /\ opt /\ OneBranch(ip) /\ InSpace(vs[1])
Fit6809 == Emitted /\ ~out.reloc /\ "branch" \in opt /\ Line.name \in BranchNames /\ Number \in 0 .. Top
Fitting == /\ Emitted /\ ~out.reloc
           /\ IF Is6502
              THEN opt /\ Len(ip.op) = 1 /\ ip.op[1].type = "REL8" /\ vs[1].val \in 0 .. Top
              ELSE "branch" \in opt /\ Line.name \in BranchNames /\ Number \in 0 .. Top
           => ~out.err

\* Both processors' parts of the property.
LEMMA FittingIs ==
    /\ Is6502 => (BranchesFit <=> (Fit6502 => ~out.err))
    /\ ~Is6502 => (BranchesFit <=> (Fit6809 => ~out.err))
  <1>1. BranchesFit = Fitting
    BY DEF BranchesFit, Fitting, Top
  <1>2. ASSUME Is6502 PROVE Fitting <=> (Fit6502 => ~out.err)
    BY <1>2, Zenon DEF Fitting, Fit6502, OneBranch, InSpace
  <1>3. ASSUME ~Is6502 PROVE Fitting <=> (Fit6809 => ~out.err)
    BY <1>3, Zenon DEF Fitting, Fit6809
  <1> QED BY <1>1, <1>2, <1>3, Zenon

\* The 6502 with its real page, and instructions that end in the 16-bit
\* space.
Sixteen == Paged /\ Origins \subseteq 0 .. Top - 3

\* The invariant implies that the branches of the 6502 reach.
LEMMA Fits6502 ==
    ASSUME Sixteen, Inv, Sited, Is6502
    PROVE  BranchesFit
  <1> DEFINE o == Cpu(cpus, opt)!eval_instruction(ip, vs, pc, secabs)
  <1>1. CASE out # Nothing /\ Branchopt /\ OneBranch(ip) /\ InSpace(vs[1])
    <2>1. /\ ip \in Instruction /\ vs \in ValuesOf(ip) /\ pc \in Int /\ secabs \in BOOLEAN
          /\ out = o
      BY <1>1 DEF Inv, Inv6502
    <2>2. o.err # TRUE \/ o.reloc = TRUE
      BY <1>1, <2>1, BranchWritten DEF Sixteen
    <2> HIDE DEF o
    <2>3. out.err # TRUE \/ out.reloc = TRUE
      BY <2>1, <2>2
    <2> QED BY <2>3, FittingIs, Zenon DEF Fit6502
  <1>2. CASE out = Nothing
    BY <1>2, FittingIs, Zenon DEF Fit6502, Emitted
  <1>3. CASE ~Branchopt
    <2>1. opt \in BOOLEAN
      BY DEF Sited
    <2>2. ~opt
      BY <1>3, <2>1, Zenon DEF Branchopt
    <2> QED BY <2>2, FittingIs, Zenon DEF Fit6502
  <1>4. CASE ~OneBranch(ip) \/ ~InSpace(vs[1])
    BY <1>4, FittingIs, Zenon DEF Fit6502
  <1> QED BY <1>1, <1>2, <1>3, <1>4

\* And those of the 6809.
LEMMA Fits6809 ==
    ASSUME Sixteen, Inv, Sited, ~Is6502
    PROVE  BranchesFit
  <1> DEFINE o == Cpu09(cpus, opt)!eval_instruction(ip, pc, secabs)
  <1>1. SUFFICES ASSUME out # Nothing, "branch" \in opt, src[1].name \in BranchNames, Number \in 0 .. Top
                 PROVE  out.err = FALSE \/ out.reloc = TRUE
    BY FittingIs, Zenon DEF Fit6809, Emitted, Line
  <1>2. /\ Readable(src[1].name, src[1].args) /\ pc \in Int
        /\ <<ip>> = Cpu09(cpus, opt)!new_inst(src[1].name, src[1].args, src[1].dp)
        /\ out = Result(o)
    BY <1>1 DEF Inv, Inv6809
  <1>3. Near16(src[1].args, pc)
    <2>1. PICK v, b : Aimed(src[1].args[1], v, b)
      BY <1>1 DEF Sited, ToLabel
    <2>2. Number = v
      <3>1. src[1].args[1].e = Symbol(v, b)
        BY <2>1 DEF Aimed
      <3>2. Symbol(v, b).left.val = v
        BY DEF Symbol
      <3> QED BY <3>1, <3>2 DEF Number, First, Line
    <2>3. pc \in 0 .. Top - 3
      BY DEF Sited, Sixteen
    <2> QED BY <1>1, <2>1, <2>2, <2>3, Zenon DEF Near16
  <1>4. FromLine(src[1].name, src[1].args, src[1].dp, ip)
    BY <1>1, <1>2 DEF FromLine
  <1>5. Cpu09(cpus, opt)!opt_bra
    BY <1>1 DEF Cpu09!opt_bra
  <1>6. o.err = {} \/ o.relocs # {}
    BY <1>1, <1>2, <1>3, <1>4, <1>5, BranchWritten09
  <1> HIDE DEF o
  <1>7. out.err = (o.err # {}) /\ out.reloc = (o.relocs # {})
    BY <1>2 DEF Result
  <1> QED BY <1>6, <1>7

\* With -opt-branch, from an instruction that ends in the 16-bit space no
\* branch to an address of it is reported as out of range, on the 6502 with
\* its page of 256 bytes and on the 6809: whatever the mnemonics, the rest of
\* the options, the sections and the distance are, optimize_instruction and
\* process_instruction take the long form just when the short one does not
\* reach.
THEOREM BranchesReach ==
    ASSUME PAGE = 256, Origins \subseteq 0 .. Top - 3
    PROVE  Spec => []BranchesFit
  <1>0. Sixteen
    BY DEF Sixteen, Paged
  <1>1. Init => Inv /\ Sited
    BY InitInv, InitSited
  <1>2. Inv /\ Sited /\ [Next]_vars => (Inv /\ Sited)'
    BY NextInv, StaysSited
  <1>3. Inv /\ Sited => BranchesFit
    BY <1>0, Fits6502, Fits6809
  <1> QED BY <1>1, <1>2, <1>3, PTL DEF Spec
=============================================================================
