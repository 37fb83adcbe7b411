------------------------------ MODULE Cpu6809 ------------------------------
(***************************************************************************)
(* The 6809 family backend (cpus/6809/cpu.c) for the 6809 and Turbo9, the  *)
(* 6309, the 68HC12 and Konami's 052001: how the arguments of a line       *)
(* become operands, which opcode and which offset sizes an instruction     *)
(* gets, how large it is, and what bytes are written.  An argument is what *)
(* the text between two commas says; an expression keeps its value, the    *)
(* symbol it is based on, and the operator at its root.                    *)
(***************************************************************************)
EXTENDS Integers, Sequences, FiniteSets

CONSTANTS cpu_type,   \* "6809", "6309", "hc12" or "konami"
          options     \* subset of {"offset", "branch", "pc", "aggressive"}

HC12 == cpu_type = "hc12"
KONAMI == cpu_type = "konami"
opt_bra == "branch" \in options
opt_pc == "pc" \in options
opt_aggressive == "aggressive" \in options

\* cpu_args: -opt-aggressive implies two of the others.
cpu_args(args) == args \cup (IF "aggressive" \in args THEN {"offset", "branch"} ELSE {})
-----------------------------------------------------------------------------
\* opcodes.h: one row for every way process_instruction and eval_instruction
\* treat a row.
NA == 65535

\* Operand types.
DIX == {"IDX0", "IDX1", "IDX2"}
IND == {"IIXN", "IIXC", "IIXR"}
IDX == DIX \cup IND
MEM == {"DIR", "EXT"} \cup IDX
MNI == {"DIR", "EXT"} \cup DIX
IXE == {"EXT"} \cup IDX
AL1 == {"IM1"} \cup MEM
AL2 == {"IM2"} \cup MEM
Singles == {"DTA", "DT1", "RLS", "RLD", "RLL", "TFR", "TSR", "PPL", "BMR", "BIT", "DBR"}

Row(name, op, std, dir, idx, ext, cpus) ==
    [name |-> name, op |-> op, cpus |-> cpus,
     oc |-> [STD |-> std, DIR |-> dir, IDX |-> idx, EXT |-> ext]]
M09 == {"6809", "6309"}
Branch(name, type, oc, cpu) == Row(name, <<{type}>>, oc, NA, NA, NA, cpu)

\* Rows of opcodes.h, in its order: index 0 is the first one, and the blocks
\* of a branch and its long form are complete.
Rows == <<
    Row("aba",  << >>,                  6151, NA, NA, NA, {"hc12"}),
    Row("adca", <<AL1>>,                137, 153, 169, 185, M09 \cup {"hc12"}),
    Row("adca", <<AL1>>,                24, 6852, 26, 6663, {"konami"}),
    Row("aim",  <<{"IM1"}, MEM>>,       NA, 2, 98, 114, {"6309"}),
    Row("band", <<{"BMR"}, {"BIT"}, {"BIT"}, {"DIR"}>>, NA, 4400, NA, NA, {"6309"}),
    Row("bset", <<MNI, {"DT1"}>>,       NA, 76, 12, 28, {"hc12"}),
    Row("dbeq", <<{"DBR"}, {"RLD"}>>,   1024, NA, NA, NA, {"hc12"}),
    Row("exg",  <<{"TFR"}, {"TFR"}>>,   62, NA, NA, NA, {"konami"}),
    Row("jmp",  <<MEM>>,                NA, 14, 110, 126, M09),
    Row("jmp",  <<IXE>>,                NA, NA, 5, 6, {"hc12"}),
    Row("jmp",  <<MEM>>,                NA, 43204, 168, 43015, {"konami"}),
    Row("jsr",  <<MEM>>,                NA, 157, 173, 189, M09),
    Row("jsr",  <<MEM>>,                NA, 23, 21, 22, {"hc12"}),
    Row("jsr",  <<MEM>>,                NA, 43460, 169, 43271, {"konami"}),
    Row("ldx",  <<AL2>>,                142, 158, 174, 190, M09),
    Row("leax", <<IDX>>,                NA, NA, 48, NA, M09),
    Row("movb", <<{"IM1"}, {"EXT"}>>,   6155, NA, NA, NA, {"hc12", "move"}),
    Row("movb", <<{"IM1"}, {"IDX0"}>>,  6152, NA, NA, NA, {"hc12", "move"}),
    Row("movb", <<{"EXT"}, {"EXT"}>>,   6156, NA, NA, NA, {"hc12", "move"}),
    Row("movb", <<{"EXT"}, {"IDX0"}>>,  6153, NA, NA, NA, {"hc12", "move"}),
    Row("movb", <<{"IDX0"}, {"EXT"}>>,  6157, NA, NA, NA, {"hc12", "move"}),
    Row("movb", <<{"IDX0"}, {"IDX0"}>>, 6154, NA, NA, NA, {"hc12", "move"}),
    Row("pshs", <<{"PPL"}>>,            52, NA, NA, NA, M09),
    Row("pshs", <<{"IM1"}>>,            52, NA, NA, NA, M09),
    Row("tfr",  <<{"TFR"}, {"TFR"}>>,   31, NA, NA, NA, M09),
    Row("tfr",  <<{"TFR"}, {"TFR"}>>,   183, NA, NA, NA, {"hc12"}),
    Row("tfr",  <<{"TSR"}, {"TFR"}>>,   63, NA, NA, NA, {"konami"}),
    Branch("bsr", "RLS", 141, M09),  Branch("bsr", "RLS", 7, {"hc12"}),
    Branch("bsr", "RLS", 170, {"konami"}),
    Branch("lbsr", "RLL", 23, M09),  Branch("lbsr", "RLL", 171, {"konami"}),
    Branch("bra", "RLS", 32, M09),   Branch("bra", "RLS", 32, {"hc12"}),
    Branch("bra", "RLS", 96, {"konami"}),
    Branch("lbra", "RLL", 22, M09),  Branch("lbra", "RLL", 6176, {"hc12"}),
    Branch("lbra", "RLL", 104, {"konami"}),
    Branch("beq", "RLS", 39, M09),   Branch("beq", "RLS", 39, {"hc12"}),
    Branch("beq", "RLS", 115, {"konami"}),
    Branch("lbeq", "RLL", 4135, M09), Branch("lbeq", "RLL", 6183, {"hc12"}),
    Branch("lbeq", "RLL", 123, {"konami"}) >>

mnemonics == [i \in 0..Len(Rows) - 1 |-> Rows[i + 1]]

RowsOf(name) == {i \in 0..Len(Rows) - 1 : Rows[i + 1].name = name}
-----------------------------------------------------------------------------
cpu_available(i) == cpu_type \in mnemonics[i].cpus

\* init_cpu: the last row of a name for the cpu; OC_xxx stays 0 without one.
LastRow(rows) == IF rows = {} THEN 0 ELSE CHOOSE i \in rows : \A j \in rows : j <= i
OC(name) == LastRow({i \in RowsOf(name) : cpu_available(i)})
LongForm == [bra |-> "lbra", bsr |-> "lbsr", beq |-> "lbeq"]

\* registers.h: what each register may be used for, as the R_xxx of cpu.h.
OFF == {"DOFF", "IOFF"}
AIX == {"DAIX", "IAIX"}
R_DCIDX == {"DCIX0", "DCIX5", "DCIX8", "DCIX16"}
R_ICIDX == {"ICIX0", "ICIX8", "ICIX16"}
R_IDX09 == R_DCIDX \cup R_ICIDX \cup AIX
           \cup {"PD1IX", "PD2IX", "QI1IX", "QI2IX", "IPD2IX", "IQI2IX"}
R_IDXW == {"DCIX0", "DCIX16", "ICIX0", "ICIX16", "PD2IX", "QI2IX", "IPD2IX", "IQI2IX"} \cup AIX
R_IDXPCR == {"DCIX8", "DCIX16", "ICIX8", "ICIX16"}
R_IDX12PC == R_DCIDX \cup {"ICIX16"} \cup AIX
R_IDX12 == R_IDX12PC \cup {"PD1IX", "PI1IX", "QD1IX", "QI1IX"}
R_IDXK == {"DCIX0", "DCIX8", "DCIX16", "ICIX16"} \cup AIX
          \cup {"PD1IX", "PD2IX", "QI1IX", "QI2IX", "IPD1IX", "IQI1IX", "IPD2IX", "IQI2IX"}

registers ==
    CASE HC12 ->
           [A  |-> {"DOFF", "IRP", "DBR"}, B |-> {"DOFF", "IRP", "DBR"}, CCR |-> {"IRP"},
            D  |-> OFF \cup {"IRP", "STK", "DBR"}, PC |-> R_IDX12PC,
            SP |-> R_IDX12 \cup {"IRP", "DBR"}, X |-> R_IDX12 \cup {"IRP", "DBR"},
            Y  |-> R_IDX12 \cup {"IRP", "DBR"}]
      [] KONAMI ->
           [A |-> OFF \cup {"BMP", "IRP", "STK"}, B |-> OFF \cup {"BMP", "IRP", "STK"},
            CC |-> {"BMP", "STK"}, D |-> OFF \cup {"TFRS", "STK", "DBR"}, DP |-> {"IRP", "STK"},
            PC |-> {"IRP", "STK"}, PCR |-> R_IDXPCR \cup {"STK"},
            S |-> R_IDXK \cup {"IRP", "STK"}, U |-> R_IDXK \cup {"IRP", "STK"},
            X |-> R_IDXK \cup {"IRP", "STK"}, Y |-> R_IDXK \cup {"IRP", "STK"}]
      [] OTHER ->
           [r \in {"A", "B", "CC", "D", "DP", "PC", "PCR", "S", "U", "X", "Y"}
                  \cup (IF cpu_type = "6309" THEN {"E", "F", "V", "W", "0"} ELSE {}) |->
              CASE r \in {"A", "B"}        -> OFF \cup {"BMP", "IRP", "STK"}
                [] r = "CC"                -> {"BMP", "IRP", "STK"}
                [] r = "D"                 -> OFF \cup {"IRP", "STK", "DBR"}
                [] r \in {"E", "F"}        -> OFF \cup {"IRP"}
                [] r = "DP"                -> {"IRP", "STK"}
                [] r \in {"PC", "PCR"}     -> R_IDXPCR \cup {"IRP", "STK"}
                [] r \in {"V", "0"}        -> {"IRP"}
                [] r = "W"                 -> OFF \cup R_IDXW \cup {"IRP"}
                [] OTHER                   -> R_IDX09 \cup {"IRP", "STK"}]

RegValue(r) == CASE r = "PCR" -> "PC" [] r = "SP" -> "S" [] r = "CCR" -> "CC" [] OTHER -> r

parse_reg(r, avail) == r \in DOMAIN registers /\ registers[r] \cap avail # {}
-----------------------------------------------------------------------------
\* Expressions: [type, left, right] with the operator at the root ("SYM" for
\* none), left a value with its base symbol and find_base's opinion of it.
Masked(type, val) == IF type = "LOBYTE" THEN val % 256 ELSE (val \div 256) % 256

ext_unary_eval(type, val, cnst) == IF cnst THEN Masked(type, val) ELSE val

\* ext_find_base changes the expression in place: this is the type it has
\* from the first call on.
NewType(e) == CASE e.type \in {"DIV", "MOD"} /\ e.right = 256 ->
                     IF e.type = "DIV" THEN "HIBYTE" ELSE "LOBYTE"
                [] e.type = "BAND" /\ e.right = 255 -> "LOBYTE"
                [] OTHER -> e.type

ext_find_base(e) ==
    CASE NewType(e) \in {"LOBYTE", "HIBYTE"} -> [modifier |-> NewType(e), btype |-> e.left.btype]
      [] e.type = "SYM"                      -> [modifier |-> "", btype |-> e.left.btype]
      [] OTHER                               -> [modifier |-> "", btype |-> "ILLEGAL"]

\* eval_expr
Value(e) ==
    CASE e.type = "SYM"  -> e.left.val
      [] e.type = "DIV"  -> e.left.val \div e.right
      [] e.type = "MOD"  -> e.left.val % e.right
      [] e.type = "BAND" -> e.left.val % (e.right + 1)
      [] OTHER           -> ext_unary_eval(e.type, e.left.val, e.left.base = "none")

\* Base symbols: of this section, of another one, external, and external
\* with the DIRECT directive's flag (which the HC12 does not accept).
LocRef(base) == base \in {"here", "there"}
ExtRef(base) == base \in {"extern", "direct"}
DPAGESYM(base) == base = "direct" /\ ~HC12
is_pc_reloc(base, secabs) == ExtRef(base) \/ (LocRef(base) /\ ~secabs /\ base # "here")
NeedsLinker(op, secabs) == op.base # "none" /\ is_pc_reloc(op.base, secabs)

\* parse_cpu_special: SETDP takes a page or an address in it.
setdp(dpage, val) == CASE HC12 -> dpage
                       [] ~HC12 /\ val > 255 -> (val \div 256) % 256
                       [] OTHER -> val
-----------------------------------------------------------------------------
\* Parsing.  An argument has an opening '#' or '[' (open), a selector '<' or
\* '>' (sel), an offset (body: "", a register or "expr" with expression e)
\* and an index register with its increments, inside the brackets or alone.
NoOperand == [mode |-> "NONE", flags |-> {}, cosz |-> "OFF5", opreg |-> "", offs_reg |-> "",
              preinc |-> 0, postinc |-> 0, value |-> << >>, base |-> "none", curval |-> 0]

Empty(arg) == arg.open = "" /\ arg.body = "" /\ arg.reg = ""

read_index(op, arg) ==
    LET indir == "INDIR" \in op.flags
        Sel(dir, ind) == IF indir THEN ind ELSE dir
        a == CASE arg.pre = -2 -> Sel({"PD2IX"}, {"IPD2IX"})
               [] arg.pre = -1 -> Sel({"PD1IX"}, {"IPD1IX"})
               [] arg.pre = 1  -> Sel({"PI1IX"}, {})
               [] arg.post = -1 -> Sel({"QD1IX"}, {})
               [] arg.post = 1  -> Sel({"QI1IX"}, {"IQI1IX"})
               [] arg.post = 2  -> Sel({"QI2IX"}, {"IQI2IX"})
               [] op.mode = "NOFFS" -> Sel({"DCIX0"}, {"ICIX0"})
               [] op.mode = "ROFFS" -> Sel({"DAIX"}, {"IAIX"})
               [] op.mode = "COFFS" -> Sel(R_DCIDX, R_ICIDX)
               [] OTHER -> Sel(R_DCIDX \cup {"DAIX"}, R_ICIDX \cup {"IAIX"})
    IN  IF arg.reg \in DOMAIN registers /\ registers[arg.reg] \cap a # {}
        THEN <<[op EXCEPT !.opreg = RegValue(arg.reg), !.preinc = arg.pre, !.postinc = arg.post]>>
        ELSE << >>

psh_postbyte == [D |-> 6, X |-> 16, Y |-> 32, U |-> 64, S |-> 64, PC |-> 128,
                 A |-> 2, B |-> 4, CC |-> 1, DP |-> 8]

BitOr(n, m) == n + m - LET both[i \in 0..7] ==
                             (IF (n \div 2^i) % 2 = 1 /\ (m \div 2^i) % 2 = 1 THEN 2^i ELSE 0)
                             + (IF i = 0 THEN 0 ELSE both[i - 1])
                       IN  both[7]

Ret(rc, op) == [rc |-> rc, op |-> op]
TakeReg(arg, op, avail, mode) ==
    IF parse_reg(arg.body, avail)
    THEN Ret("MATCH", [op EXCEPT !.mode = mode, !.opreg = RegValue(arg.body)])
    ELSE Ret("NOMATCH", op)

\* A selector that is not taken as a size hint is an operator of the
\* expression (which has no other one then).
parse_expr(arg) == CASE arg.sel = "<" -> [arg.e EXCEPT !.type = "LOBYTE"]
                     [] arg.sel = ">" -> [arg.e EXCEPT !.type = "HIBYTE"]
                     [] OTHER         -> arg.e
TakeExpr(arg, op, mode) ==
    IF arg.open = "" /\ arg.body # ""
    THEN Ret("MATCH", [op EXCEPT !.mode = mode, !.value = <<parse_expr(arg)>>])
    ELSE Ret("NOMATCH", op)

parse_single(arg, op, type) ==
    CASE Empty(arg)    -> Ret("NOMATCH", op)
      [] type = "DT1"  -> TakeExpr([arg EXCEPT !.open = ""], op, "IMM8")
      [] type = "RLS"  -> TakeExpr(arg, op, "REL8")
      [] type = "RLD"  -> TakeExpr(arg, op, "REL9")
      [] type = "RLL"  -> TakeExpr(arg, op, "REL16")
      [] type = "DTA"  -> TakeExpr(arg, op, "NONE")
      [] type = "TFR"  -> TakeReg(arg, op, {"IRP"}, "TFR")
      [] type = "TSR"  -> TakeReg(arg, op, {"IRP", "TFRS"}, "TFR")
      [] type = "BMR"  -> TakeReg(arg, op, {"BMP"}, "BITR")
      [] type = "BIT"  -> TakeExpr(arg, op, "BITN")
      [] type = "DBR"  -> TakeReg(arg, op, {"DBR"}, "DBR")
      [] type = "PPL"  -> IF parse_reg(arg.body, {"STK"})
                          THEN Ret("COMB_OPT",
                                   [op EXCEPT !.mode = "REGXB",
                                              !.curval = BitOr(@, psh_postbyte[RegValue(arg.body)])])
                          ELSE Ret("NOMATCH", op)

\* The offset or address of the modes that may be combined.
OffsetMode(arg, required) ==
    LET dir == "DIR" \in required
        ext == "EXT" \in required
    IN  IF dir /\ (arg.sel = "<" \/ ~ext) THEN "DIR"
        ELSE IF ext /\ (arg.sel = ">" \/ ~dir) THEN "EXT"
        ELSE IF required \cap MEM # {} THEN "ADDR" ELSE "NOMATCH"

\* Whether the parser takes the selector as a hint for the size.
Hinted(arg, mode) ==
    \/ mode = "ADDR"
    \/ mode = "DIR" /\ arg.sel = "<"
    \/ mode = "EXT" /\ arg.sel = ">"

Hint(sel) == CASE sel = "<" -> {"LO"} [] sel = ">" -> {"HI"} [] OTHER -> {}
ImmMode(required) == IF "IM1" \in required THEN "IMM8" ELSE IF "IM2" \in required THEN "IMM16" ELSE "IMM32"
Indexed == {"NOFFS", "ROFFS", "COFFS", "DIR", "EXT", "ADDR"}

\* The first argument of such an operand.
OffsReg(arg, required) ==
    /\ required \cap {"IDX0", "IIXR"} # {}
    /\ parse_reg(arg.body, IF arg.open = "[" THEN {"IOFF"} ELSE {"DOFF"})

FirstMode(arg, required) ==
    IF OffsReg(arg, required) THEN "ROFFS"
    ELSE CASE arg.open = "#" -> ImmMode(required)
           [] arg.body # "" /\ arg.open # "#" -> OffsetMode(arg, required)
           [] OTHER -> "NONE"

ReadFirst(arg, op, mode) ==
    LET hint == IF Hinted(arg, mode) THEN Hint(arg.sel) ELSE {}
    IN  [op EXCEPT !.flags = hint \cup (IF arg.open = "[" THEN {"INDIR"} ELSE {}),
                   !.offs_reg = IF mode = "ROFFS" THEN arg.body ELSE "",
                   !.value = IF mode \in {"ROFFS", "NONE"} THEN << >>
                             ELSE <<IF hint # {} THEN arg.e ELSE parse_expr(arg)>>]

IndexOf(x, op, rc, mode) == IF x = << >> THEN Ret(rc, op) ELSE Ret("MATCH", [x[1] EXCEPT !.mode = mode])

FirstOperand(arg, op, required, mode, read) ==
    LET indir == arg.open = "["
        refused == \/ arg.open = "#" /\ required \cap {"IM1", "IM2", "IM4"} = {}
                   \/ indir /\ required \cap IND = {}
                   \/ mode = "NOMATCH"
    IN  CASE refused -> Ret("NOMATCH", op)
          [] ~refused /\ indir /\ arg.reg # "" ->          \* op->mode is still AM_NONE
               IndexOf(read_index(read, arg), op, "CORRUPT",
                       CASE mode = "NONE" -> "NOFFS" [] mode = "ROFFS" -> "ROFFS" [] OTHER -> "COFFS")
          [] ~refused /\ indir /\ arg.reg = "" ->
               IF ~HC12 /\ mode \in {"DIR", "ADDR", "EXT"} THEN Ret("MATCH", [read EXCEPT !.mode = "EXT"])
                                                           ELSE Ret("NOMATCH", [read EXCEPT !.mode = mode])
          [] ~refused /\ ~indir /\ required \cap DIX # {} /\ mode \in Indexed -> Ret("COMB_OPT", [read EXCEPT !.mode = mode])
          [] OTHER -> Ret("MATCH", [read EXCEPT !.mode = mode])

ModedOperand(arg, op, required, mode) == FirstOperand(arg, op, required, mode, ReadFirst(arg, op, mode))
parse_first(arg, op, required) == ModedOperand(arg, op, required, FirstMode(arg, required))

parse_operand(arg, op, required) ==
    CASE required \subseteq Singles -> parse_single(arg, op, CHOOSE t \in required : TRUE)
      [] ~(required \subseteq Singles) /\ Empty(arg) ->
           IF op.mode = "NONE" /\ "IDX0" \in required THEN Ret("COMB_OPT", [op EXCEPT !.mode = "NOFFS"])
                                                      ELSE Ret("NOMATCH", op)
      [] ~(required \subseteq Singles) /\ ~Empty(arg) /\ op.mode # "NONE" ->
           IF arg.open = "#" /\ required \cap {"IM1", "IM2", "IM4"} = {} THEN Ret("NOMATCH", op)
           ELSE IndexOf(read_index(op, arg), op, "NEXT",
                        IF op.mode \in {"NOFFS", "COFFS", "ROFFS"} THEN op.mode ELSE "COFFS")
      [] OTHER -> parse_first(arg, op, required)

\* new_inst with this parser: the operands of row i from the arguments.  The
\* state is at operand j and argument k; again is the operand to be combined.
Parsed(s, r) ==
    CASE r.rc = "MATCH" -> [s EXCEPT !.j = @ + 1, !.k = @ + 1, !.ops[s.j] = r.op]
      [] r.rc = "COMB_OPT" -> [s EXCEPT !.k = @ + 1, !.again = s.j, !.ops[s.j] = r.op]
      [] r.rc = "NEXT" -> [s EXCEPT !.j = @ + 1]
      [] r.rc \in {"NOMATCH", "CORRUPT"} -> [s EXCEPT !.go = FALSE]

ParseStep(s, types, args) ==
    CASE ~s.go \/ s.j > Len(types) -> s
      [] s.go /\ s.j <= Len(types) /\ s.k > Len(args) ->
           [s EXCEPT !.go = FALSE, !.j = IF s.j = s.again THEN s.j + 1 ELSE s.j]
      [] OTHER -> Parsed(s, parse_operand(args[s.k], s.ops[s.j], types[s.j]))

ParseArgs(types, args) ==
    LET st[n \in 0..Len(args) + Len(types)] ==
            IF n = 0 THEN [j |-> 1, k |-> 1, again |-> 0, go |-> TRUE,
                           ops |-> [j \in 1..Len(types) |-> NoOperand]]
            ELSE ParseStep(st[n - 1], types, args)
    IN  st[Len(args) + Len(types)]

Complete(end, types, args) ==
    IF end.j > Len(types) /\ end.k > Len(args) THEN <<end.ops>> ELSE << >>

Match(i, args) == Complete(ParseArgs(mnemonics[i].op, args), mnemonics[i].op, args)

Matching(name, args) == {i \in RowsOf(name) : cpu_available(i) /\ Match(i, args) # << >>}

FirstRow(rows) == CHOOSE n \in rows : \A m \in rows : n <= m
Taken(i, args, dpage) == [code |-> i, op |-> Match(i, args)[1], dp |-> dpage]

\* The first row that matches; init_instruction_ext keeps the direct page of
\* the line.
InstOf(rows, args, dpage) == IF rows = {} THEN << >> ELSE <<Taken(FirstRow(rows), args, dpage)>>
new_inst(name, args, dpage) == InstOf(Matching(name, args), args, dpage)
-----------------------------------------------------------------------------
\* process_instruction.  The state of its loop over the operands: the
\* instruction, pc, the index of the opcode, the two corrections for MOVB
\* and MOVW, and the messages so far.
coffs_size == [OFF5 |-> 0, OFF8 |-> 1, OFF9 |-> 1, OFF16 |-> 2]
rel_size == [REL8 |-> 1, REL9 |-> 1, REL16 |-> 2]
OcSize(code, ocidx) == IF mnemonics[code].oc[ocidx] > 255 THEN 2 ELSE 1
IMM == {"IMM8", "IMM16", "IMM32"}

Evaluated(op) ==
    IF op.value = << >> THEN [op EXCEPT !.base = "none"]
    ELSE LET e == op.value[1]
             f == ext_find_base(e)
         IN  IF e.left.base = "none" THEN [op EXCEPT !.curval = Value(e), !.base = "none"]
             ELSE [op EXCEPT !.curval = Value(e), !.base = e.left.base,
                             !.value = <<[e EXCEPT !.type = NewType(e)]>>,
                             !.flags = @ \cup (IF f.btype = "PCREL" /\ f.modifier = "" /\ op.mode \in IMM
                                               THEN {"PC"} ELSE {})
                                         \cup (CASE f.modifier = "LOBYTE" -> {"LO"}
                                                 [] f.modifier = "HIBYTE" -> {"HI"}
                                                 [] OTHER -> {})]

\* General error 38, "illegal relocation", of the final pass.
IllegalReloc(op) ==
    /\ op.value # << >> /\ op.base # "none"
    /\ LET f == ext_find_base(op.value[1])
       IN  f.btype = "ILLEGAL" \/ (f.btype = "PCREL" /\ "PC" \notin op.flags)

\* Warning 17, "double size modifier ignored".
DoubleSize(op) ==
    /\ op.value # << >> /\ op.flags \cap {"LO", "HI"} # {}
    /\ op.value[1].left.base # "none" /\ ext_find_base(op.value[1]).modifier # ""

IsMove(ip) == "move" \in mnemonics[ip.code].cpus
IsIndexed(op) == op.mode \in {"COFFS", "NOFFS", "ROFFS"}

\* The four kinds of MOVB/MOVW with an indexed operand: 0 IMM or other to
\* indexed, 1 EXT to indexed, 2 indexed to indexed, 3 indexed to EXT.
MoveKind(op) == (IF IsIndexed(op[1]) THEN 2 ELSE 0)
                + Cardinality({i \in 1..2 : op[i].mode = "EXT"})
mov_val_offs == <<-1, -2, 1, 2>>
mov_pc_offs == <<1, 2, 1, 2>>

OcIndex(ip) ==
    LET Of(op) == CASE op.mode = "DIR" -> {"DIR"}
                    [] op.mode \in {"ADDR", "EXT"} -> IF "INDIR" \in op.flags THEN {"IDX"} ELSE {"EXT"}
                    [] IsIndexed(op) -> {"IDX"}
                    [] OTHER -> {}
        all == UNION {Of(ip.op[i]) : i \in 1..Len(ip.op)}
    IN  IF IsMove(ip) \/ all = {} THEN "STD" ELSE CHOOSE x \in all : TRUE

Begin(ip, pc) ==
    LET op   == [i \in 1..Len(ip.op) |-> Evaluated(ip.op[i])]
        errs == {38 : i \in {j \in 1..Len(op) : IllegalReloc(op[j])}}
                \cup {17 : i \in {j \in 1..Len(op) : DoubleSize(ip.op[j])}}
        move == IsMove(ip) /\ \E i \in 1..Len(op) : IsIndexed(op[i])
        kind == IF move THEN MoveKind(op) ELSE 0
        swap == move /\ kind < 2
        twice == IF swap /\ kind = 0 /\ op[2].mode = "IMM16" THEN 2 ELSE 1
    IN  [code |-> ip.code, op |-> IF swap THEN <<op[2], op[1]>> ELSE op, dp |-> ip.dp,
         orig |-> pc, pc |-> pc + OcSize(ip.code, OcIndex(ip)), ocidx |-> OcIndex(ip),
         mcv |-> IF move THEN twice * mov_val_offs[kind + 1] ELSE 0,
         mpc |-> IF move THEN twice * mov_pc_offs[kind + 1] ELSE 0, err |-> errs]

Out(s, i, op, size) == [s EXCEPT !.op[i] = op, !.pc = @ + size]
Fail(s, nos) == [s EXCEPT !.err = @ \cup nos]

\* A value of 16 bits, signed or not.
Word16 == -32768..65535

\* do_rel: a long branch may go around the end of the address space; the
\* range checks of the final pass; then the size.
Wraps(mode, pcd) == mode = "REL16" /\ pcd < -32768 /\ pcd + 65536 \in 0..65535
Wrapped(mode, pcd) == IF Wraps(mode, pcd) THEN pcd + 65536 ELSE pcd

OutOfRange(mode, pcd) ==
    (IF mode = "REL8" /\ pcd \notin -128..127 THEN {8} ELSE {})
    \cup (IF mode = "REL9" /\ pcd \notin -256..255 THEN {9} ELSE {})
    \cup (IF mode = "REL16" /\ pcd \notin Word16 /\ ~Wraps(mode, pcd) THEN {10} ELSE {})

RelFinal(s, i, pcd) ==
    LET op == s.op[i]
    IN  Fail(Out(s, i, [op EXCEPT !.curval = Wrapped(op.mode, pcd)], rel_size[op.mode]),
             OutOfRange(op.mode, pcd))

\* The other form of a branch: ToLong for one that does not reach, ToShort
\* for a long one that would, if the row two before it is a short branch.
ToLong(s, i, pcd) ==
    LET name == mnemonics[s.code].name
    IN  /\ s.op[i].mode = "REL8" /\ pcd \notin -128..127
        /\ name \in DOMAIN LongForm /\ s.code = OC(name)

ToShort(s, i, pcd) ==
    LET diff == 1 - (s.pc - s.orig)
    IN  /\ s.op[i].mode = "REL16" /\ pcd \in -129 + diff..126 + diff
        /\ mnemonics[s.code - 2].op = <<{"RLS"}>>

Rel(s, i, secabs) ==
    LET op    == s.op[i]
        link  == NeedsLinker(op, secabs)
        pcd   == IF link THEN op.curval ELSE op.curval - (s.pc + rel_size[op.mode])
        new   == [s EXCEPT !.op[i].flags = @ \cup (IF link THEN {"PC"} ELSE {"PC", "PCREL"})]
        opt   == opt_bra /\ i = 1 /\ "PCREL" \in new.op[i].flags
        lcode == OC(LongForm[mnemonics[s.code].name])
        ldiff == OcSize(lcode, "STD") - (s.pc - s.orig)
        sdiff == 1 - (s.pc - s.orig)
    IN  CASE opt /\ ToLong(s, i, pcd) ->
               RelFinal([new EXCEPT !.code = lcode, !.op[i].mode = "REL16", !.pc = @ + ldiff],
                        i, pcd - 1 - ldiff)
          [] opt /\ ToShort(s, i, pcd) ->
               RelFinal([new EXCEPT !.code = @ - 2, !.op[i].mode = "REL8", !.pc = @ + sdiff],
                        i, pcd + 1 - sdiff)
          [] OTHER -> RelFinal(new, i, pcd)

\* do_coffs: an index register with a constant offset.  check_opreg replaces
\* a missing register by the first one of the table.
check_opreg(op) == [op EXCEPT !.opreg = IF @ = "" THEN "A" ELSE @]
MissingReg(op) == IF op.opreg = "" THEN {2} ELSE {}

SecRel(op, secabs) == IF secabs THEN op.base = "none" ELSE op.base = "here"

\* The size of a pc-relative offset whose 16-bit form would be pcd.
PcSize(op, pcd, secabs) ==
    LET indir == "INDIR" \in op.flags
    IN  CASE NeedsLinker(op, secabs) /\ HC12 -> IF "LO" \in op.flags THEN "OFF9" ELSE "OFF16"
          [] NeedsLinker(op, secabs) /\ ~HC12 ->
               IF opt_aggressive \/ "LO" \in op.flags THEN "OFF8" ELSE "OFF16"
          [] ~NeedsLinker(op, secabs) /\ HC12 ->
               CASE ~indir /\ pcd \in -18..13 -> "OFF5"
                 [] ~indir /\ pcd \in -257..254 /\ pcd \notin -18..13 -> "OFF9"
                 [] OTHER -> "OFF16"
          [] OTHER ->
               IF \/ "LO" \in op.flags
                  \/ "HI" \notin op.flags /\ pcd \in -129..126
                  \/ opt_aggressive /\ ~SecRel(op, secabs) /\ "HI" \notin op.flags
               THEN "OFF8" ELSE "OFF16"

PcOffs(s, i, secabs) ==
    LET op   == s.op[i]
        sec  == SecRel(op, secabs)
        far  == op.curval + s.mcv - (IF sec THEN s.pc + 2 + s.mpc ELSE 0)
        size == PcSize(op, far, secabs)
        pcd  == CASE ~sec \/ NeedsLinker(op, secabs) -> far
                  [] sec /\ size = "OFF5" -> op.curval + s.mcv - (s.pc + s.mpc)
                  [] sec /\ size \in {"OFF8", "OFF9"} -> op.curval - (s.pc + 1)
                  [] OTHER -> far
        bad  == (IF far \notin Word16 THEN {3} ELSE {})
                \cup (IF /\ ~HC12 /\ ~NeedsLinker(op, secabs)
                         /\ "LO" \in op.flags /\ pcd \notin -128..127 THEN {3} ELSE {})
    IN  Fail(Out(s, i, [op EXCEPT !.flags = @ \cup {"PC"} \cup (IF sec THEN {"PCREL"} ELSE {}),
                                  !.cosz = size, !.curval = pcd], coffs_size[size]), bad)

bf_sign_extend16(val) == IF val \in 32768..65535 THEN val - 65536 ELSE val

ConstSize12(op, val) ==
    CASE op.preinc # 0 \/ op.postinc # 0 -> "OFF5"
      [] "INDIR" \notin op.flags /\ val \in -16..15 -> "OFF5"
      [] "INDIR" \notin op.flags /\ val \in -256..255 /\ val \notin -16..15 -> "OFF9"
      [] OTHER -> "OFF16"

ConstSize09(op, val) ==
    LET wreg == op.opreg = "W"
        abs  == op.base = "none"
    IN  CASE "LO" \in op.flags /\ ~wreg -> "OFF8"
          [] "HI" \in op.flags /\ ("LO" \notin op.flags \/ wreg) -> "OFF16"
          [] OTHER ->
               CASE "INDIR" \notin op.flags /\ abs /\ val \in -16..15 /\ ~wreg /\ ~KONAMI -> "OFF5"
                 [] abs /\ val \in -128..127 /\ ~wreg /\ ("INDIR" \in op.flags \/ val \notin -16..15 \/ KONAMI)
                      -> "OFF8"
                 [] opt_aggressive /\ ~abs /\ ~wreg -> "OFF8"
                 [] OTHER -> "OFF16"

ConstOffs(s, i) ==
    LET op   == s.op[i]
        val  == bf_sign_extend16(op.curval)
        auto == op.preinc # 0 \/ op.postinc # 0
        far  == IF val \notin Word16 THEN {4} ELSE {}
        new  == IF HC12 THEN [op EXCEPT !.flags = IF auto THEN @ \ {"INDIR"} ELSE @] ELSE [op EXCEPT !.preinc = 0, !.postinc = 0]
        Sized(size, bad) == Fail(Out(s, i, [new EXCEPT !.cosz = size], coffs_size[size]), bad \cup far)
    IN  CASE HC12 -> Sized(ConstSize12(op, val),
                           (IF auto /\ val \notin 1..8 THEN {5} ELSE {})
                           \cup (IF auto /\ "INDIR" \in op.flags THEN {6} ELSE {}))
          [] ~HC12 /\ "offset" \in options /\ val = 0 /\ op.base = "none" ->
               Fail(Out(s, i, [new EXCEPT !.mode = "NOFFS", !.cosz = "OFF5", !.value = << >>], 0),
                    (IF auto THEN {7} ELSE {}) \cup far)
          [] OTHER -> Sized(ConstSize09(op, val),
                            (IF auto THEN {7} ELSE {})
                            \cup (IF "LO" \in op.flags /\ op.opreg # "W" /\ val \notin -128..127
                                  THEN {4} ELSE {}))

Coffs(s, i, secabs) ==
    LET op == check_opreg(s.op[i])
        m  == [s EXCEPT !.op[i] = op, !.err = @ \cup MissingReg(s.op[i]), !.pc = @ + 1,
                        !.mcv = IF i > 1 THEN -@ ELSE @, !.mpc = IF i > 1 THEN 0 ELSE @]
    IN  IF op.opreg = "PC" THEN PcOffs(m, i, secabs) ELSE ConstOffs(m, i)

\* Extended addressing, and what -opt-branch and -opt-pc make of it.
PcIndexed(s, i, secabs) ==
    Coffs([s EXCEPT !.ocidx = "IDX", !.op[i].mode = "COFFS", !.op[i].opreg = "PC"], i, secabs)

Jump(s) == mnemonics[s.code].name \in {"jmp", "jsr"}
ShortJump(s) == OC(IF mnemonics[s.code].name = "jsr" THEN "bsr" ELSE "bra")
LongJump(s) == OC(IF mnemonics[s.code].name = "jsr" THEN "lbsr" ELSE "lbra")

Ext(s, i, secabs) ==
    LET op    == s.op[i]
        type  == mnemonics[s.code].op[i]
        pcd   == op.curval - (s.pc + 1)
        near  == (opt_bra \/ opt_pc) /\ Jump(s) /\ ~NeedsLinker(op, secabs) /\ pcd \in -128..127
    IN  CASE "INDIR" \in op.flags /\ opt_pc /\ type \cap IND # {} -> PcIndexed(s, i, secabs)
          [] "INDIR" \in op.flags /\ ~(opt_pc /\ type \cap IND # {}) -> Out(s, i, op, 3)
          [] "INDIR" \notin op.flags /\ near ->
               RelFinal([s EXCEPT !.code = ShortJump(s), !.ocidx = "STD", !.op[i].mode = "REL8",
                                  !.op[i].flags = @ \cup {"PC", "PCREL"}], i, pcd)
          [] "INDIR" \notin op.flags /\ ~near ->
               CASE opt_pc /\ Jump(s) /\ LongJump(s) # 0 ->
                      Rel([s EXCEPT !.code = LongJump(s), !.ocidx = "STD", !.op[i].mode = "REL16",
                                    !.pc = @ + (IF HC12 THEN 1 ELSE 0)], i, secabs)
                 [] opt_pc /\ ~(Jump(s) /\ LongJump(s) # 0) /\ op.base # "none" /\ type \cap DIX # {} ->
                      PcIndexed(s, i, secabs)
                 [] OTHER -> Out(s, i, op, 2)

\* Mutant: SETDP is ignored, the direct page is page 0.
ToDirectZero(s, op) == \/ op.base = "none" /\ op.curval \in 0..255
                       \/ DPAGESYM(op.base)

ToDirect(s, op) == \/ op.base = "none" /\ op.curval \in s.dp * 256..s.dp * 256 + 255
                   \/ DPAGESYM(op.base)

Addr(s, i, secabs) ==
    LET op == s.op[i]
    IN  IF ToDirect(s, op)
        THEN Out([s EXCEPT !.ocidx = "DIR"], i, [op EXCEPT !.curval = @ % 256, !.mode = "DIR"], 1)
        ELSE Ext([s EXCEPT !.op[i].mode = "EXT"], i, secabs)

Noffs(s, i) ==
    LET op  == s.op[i]
        ind == HC12 /\ "INDIR" \in op.flags
    IN  Fail(Out(s, i, [check_opreg(op) EXCEPT !.cosz = IF ind THEN "OFF16" ELSE @],
                 IF ind THEN 3 ELSE 1), MissingReg(op))

Operand(s, i, secabs) ==
    LET op == s.op[i]
    IN  CASE op.mode = "ADDR"  -> Addr(s, i, secabs)
          [] op.mode = "EXT"   -> Ext(s, i, secabs)
          [] op.mode = "COFFS" -> Coffs(s, i, secabs)
          [] op.mode = "NOFFS" -> Noffs(s, i)
          [] op.mode = "ROFFS" -> Fail(Out(s, i, check_opreg(op), 1), MissingReg(op))
          [] op.mode = "TFR"   -> Out(s, i, op, IF i = 1 THEN 1 ELSE 0)
          [] op.mode \in {"REL8", "REL9", "REL16"} -> Rel(s, i, secabs)
          [] op.mode \in {"DIR", "IMM8", "REGXB", "BITR"} -> Out(s, i, op, 1)
          [] op.mode = "IMM16" -> Out(s, i, op, 2)
          [] op.mode = "IMM32" -> Out(s, i, op, 4)
          [] op.mode \in {"BITN", "DBR"} -> s

process_instruction(ip, pc, secabs) ==
    LET st[i \in 0..Len(ip.op)] == IF i = 0 THEN Begin(ip, pc) ELSE Operand(st[i - 1], i, secabs)
    IN  st[Len(ip.op)]

\* What instruction_size leaves behind: it works on a copy, without messages,
\* but the copy shares its expressions with the instruction.
Shared(ip) ==
    [ip EXCEPT !.op = [i \in DOMAIN ip.op |->
        IF ip.op[i].value = << >> \/ ip.op[i].value[1].left.base = "none" THEN ip.op[i]
        ELSE [ip.op[i] EXCEPT !.value[1].type = NewType(ip.op[i].value[1])]]]

instruction_size(ip, pc, secabs) == process_instruction(ip, pc, secabs).pc - pc
-----------------------------------------------------------------------------
\* eval_instruction: the postbytes of the register tables, then the bytes.
IrPostbyte(r) ==
    CASE HC12   -> [D |-> 4, X |-> 5, Y |-> 6, S |-> 7, A |-> 0, B |-> 1, CC |-> 2][r]
      [] KONAMI -> [D |-> 1, X |-> 2, Y |-> 3, U |-> 5, S |-> 6, PC |-> 7, A |-> 0, B |-> 1, DP |-> 4][r]
      [] OTHER  -> IF r = "0" THEN 13
                   ELSE [D |-> 0, X |-> 1, Y |-> 2, U |-> 3, S |-> 4, PC |-> 5, W |-> 6, V |-> 7,
                         A |-> 8, B |-> 9, CC |-> 10, DP |-> 11, E |-> 14, F |-> 15][r]
\* A register that cannot index (after error 2) has -1 in the tables.
IdxPostbyte(r) ==
    CASE HC12   -> IF r \in {"X", "Y", "S", "PC"} THEN [X |-> 0, Y |-> 1, S |-> 2, PC |-> 3][r] ELSE -1
      [] KONAMI -> IF r \in {"X", "Y", "U", "S", "PC"}
                   THEN [X |-> 32, Y |-> 48, U |-> 80, S |-> 96, PC |-> 112][r] ELSE -1
      [] OTHER  -> IF r \in {"X", "Y", "U", "S"} THEN [X |-> 0, Y |-> 32, U |-> 64, S |-> 96][r] ELSE -1
OffsPostbyte(r) ==
    CASE HC12   -> [D |-> 2, A |-> 0, B |-> 1][r]
      [] KONAMI -> [D |-> 7, A |-> 0, B |-> 1][r]
      [] OTHER  -> [D |-> 11, W |-> 14, A |-> 6, B |-> 5, E |-> 7, F |-> 10][r]
bitm_postbyte == [A |-> 1, B |-> 2, CC |-> 0]
dbr_postbyte == [D |-> 4, X |-> 5, Y |-> 6, S |-> 7, A |-> 0, B |-> 1]

Byte(n) == n % 256
Word(n) == <<Byte(n \div 256), Byte(n)>>
Ind(op, set, clear) == IF "INDIR" \in op.flags THEN set ELSE clear

\* ,R with its increments.
NoffsByte(op) ==
    IF op.opreg = "W"
    THEN BitOr(Ind(op, 144, 143),
               CASE op.postinc # 0 -> 64 [] op.postinc = 0 /\ op.preinc # 0 -> 96 [] OTHER -> 0)
    ELSE BitOr(BitOr(Byte(IdxPostbyte(op.opreg)), IF KONAMI THEN Ind(op, 8, 0) ELSE Ind(op, 144, 128)),
               CASE op.preinc < 0 -> 1 - op.preinc
                 [] op.preinc >= 0 /\ op.postinc > 0 -> op.postinc - 1
                 [] OTHER -> IF KONAMI THEN 6 ELSE 4)

\* An accumulator as the offset.
RoffsByte(op) ==
    CASE HC12 -> BitOr(BitOr(228, Byte(IdxPostbyte(op.opreg) * 8)), Ind(op, 3, OffsPostbyte(op.offs_reg)))
      [] KONAMI -> BitOr(BitOr(Byte(IdxPostbyte(op.opreg)), OffsPostbyte(op.offs_reg)), Ind(op, 136, 128))
      [] OTHER -> BitOr(BitOr(Byte(IdxPostbyte(op.opreg)), OffsPostbyte(op.offs_reg)), Ind(op, 144, 128))

\* n,R: the postbyte, without the bits of a 5- or 9-bit offset.
CoffsByte(op) ==
    LET r == IdxPostbyte(op.opreg)
        wide == IF op.cosz = "OFF16" THEN 1 ELSE 0
    IN  CASE HC12 /\ "INDIR" \in op.flags -> BitOr(227, Byte(r * 8))
          [] HC12 /\ "INDIR" \notin op.flags ->
               CASE op.postinc # 0 -> BitOr(48, Byte(r * 64))
                 [] op.postinc = 0 /\ op.preinc # 0 -> BitOr(32, Byte(r * 64))
                 [] OTHER -> IF op.cosz = "OFF5" THEN Byte(r * 64)
                             ELSE BitOr(IF op.cosz = "OFF16" THEN 226 ELSE 224, Byte(r * 8))
          [] ~HC12 /\ op.opreg = "W" -> Ind(op, 176, 175)
          [] ~HC12 /\ op.opreg = "PC" -> Ind(op, 156, 140) + wide
          [] OTHER -> BitOr(Byte(r), CASE KONAMI -> Ind(op, 12, 4) + wide
                                       [] ~KONAMI /\ op.cosz # "OFF5" -> Ind(op, 152, 136) + wide
                                       [] OTHER -> 0)

\* On the HC12 n,-R and n,R+ keep the step in four bits.
CoffsValue(op) ==
    LET p == IF op.postinc # 0 THEN op.postinc ELSE op.preinc
    IN  CASE HC12 /\ "INDIR" \notin op.flags /\ p < 0 -> (-op.curval) % 16
          [] HC12 /\ "INDIR" \notin op.flags /\ p > 0 -> op.curval - 1
          [] OTHER -> op.curval

CoffsBytes(op, val) ==
    CASE op.cosz = "OFF5"  -> <<BitOr(CoffsByte(op), val % 32)>>
      [] op.cosz = "OFF8"  -> <<CoffsByte(op), Byte(val)>>
      [] op.cosz = "OFF9"  -> <<BitOr(CoffsByte(op), (val \div 256) % 2), Byte(val)>>
      [] op.cosz = "OFF16" -> <<CoffsByte(op)>> \o Word(val)

\* Relocation entries: the field written at offs, for base plus addend.
Reloc(op, addend, type, bits) == {[base |-> op.base, addend |-> addend, type |-> type, bits |-> bits]}
AbsOrPc(op) == IF "PC" \in op.flags THEN "PC" ELSE "ABS"

\* What one operand adds: bytes, the bits it sets in the last or in the
\* second byte written so far, relocations, messages.
Adds(bytes, relocs, err) == [bytes |-> bytes, last |-> 0, second |-> 0, relocs |-> relocs, err |-> err]
Sets(a, last, second) == [a EXCEPT !.last = last, !.second = second]
Quiet(bytes) == Adds(bytes, {}, {})
LateFix(op, offs) == IF op.base # "none" /\ "PC" \in op.flags /\ op.mode \in IMM
                     THEN op.curval + offs ELSE op.curval
If(cond, set) == IF cond THEN set ELSE {}

ByteOperand(op, offs) ==
    LET v == LateFix(op, offs)
        w == CASE op.base # "none" /\ "LO" \in op.flags -> v % 256
               [] op.base # "none" /\ "LO" \notin op.flags /\ "HI" \in op.flags -> (v \div 256) % 256
               [] OTHER -> v
    IN  Adds(<<Byte(w)>>, If(op.base # "none", Reloc(op, v, AbsOrPc(op), 8)), If(w \notin -128..255, {15}))

WordOperand(op, offs) ==
    LET v == LateFix(op, offs)
    IN  Adds((IF op.mode = "EXT" THEN Ind(op, <<IF KONAMI THEN 15 ELSE 159>>, << >>) ELSE << >>) \o Word(v),
             If(op.base # "none", Reloc(op, v, AbsOrPc(op), 16)), If(v \notin Word16, {15}))

LongOperand(op, offs) ==
    Adds(Word(op.curval \div 65536) \o Word(op.curval),
         If(op.base # "none", Reloc(op, LateFix(op, offs), AbsOrPc(op), 32)), {})

Branching(op, bits, fix, secabs) ==
    LET link == NeedsLinker(op, secabs)
        val  == IF link THEN op.curval - fix ELSE op.curval
        a    == Adds(IF bits = 16 THEN Word(val) ELSE <<Byte(val)>>,
                     If(link, Reloc(op, val, "PC", bits)), {})
    IN  IF bits = 9 /\ val < 0 THEN Sets(a, 0, 16) ELSE a

Offset(op, secabs) ==
    LET auto == HC12 /\ "INDIR" \notin op.flags /\ (op.preinc # 0 \/ op.postinc # 0)
        base == op.base # "none" /\ ~auto
        link == base /\ ("PC" \notin op.flags \/ is_pc_reloc(op.base, secabs))
        val  == CoffsValue(op) - (IF link /\ "PC" \in op.flags
                                  THEN IF op.cosz = "OFF16" THEN 2 ELSE 1 ELSE 0)
    IN  Adds(CoffsBytes(op, val), If(link, Reloc(op, val, AbsOrPc(op), op.cosz)),
             If(auto /\ op.base # "none", {38}))

\* Konami's processor has source and destination the other way round.
TfrSource(s, r) == IF KONAMI THEN IrPostbyte(r) + (IF mnemonics[s.code].oc.STD = 63 THEN 128 ELSE 0)
                             ELSE IrPostbyte(r) * 16
TfrDest(r) == IrPostbyte(r) * (IF KONAMI THEN 16 ELSE 1)

\* A bit number cannot be a selected byte.
BitNumber(op, bits) ==
    LET sel == op.base # "none" /\ op.flags \cap {"LO", "HI"} # {}
    IN  Sets(Adds(<< >>, If(op.base # "none" /\ ~sel, Reloc(op, op.curval, "ABS", 3)),
                  If(op.curval \notin 0..7, {13}) \cup If(sel, {38})), bits, 0)

Emit(s, i, offs, ocsz, secabs) ==
    LET op == s.op[i]
    IN  CASE op.mode \in {"DIR", "IMM8"} -> ByteOperand(op, offs)
          [] op.mode = "REL9"  -> Branching(op, 9, 2, secabs)
          [] op.mode = "REL8"  -> Branching(op, 8, 1, secabs)
          [] op.mode = "REL16" -> Branching(op, 16, 2, secabs)
          [] op.mode = "REGXB" -> Quiet(<<op.curval>>)
          [] op.mode = "TFR"   -> IF offs = ocsz THEN Quiet(<<TfrSource(s, op.opreg)>>)
                                                 ELSE Sets(Quiet(<< >>), TfrDest(op.opreg), 0)
          [] op.mode = "BITR"  -> Quiet(<<bitm_postbyte[op.opreg] * 64>>)
          [] op.mode = "BITN"  -> BitNumber(op, (op.curval % 8) * (IF i = 2 THEN 8 ELSE 1))
          [] op.mode = "DBR"   -> Sets(Quiet(<< >>), 0, dbr_postbyte[op.opreg])
          [] op.mode \in {"EXT", "IMM16"} -> WordOperand(op, offs)
          [] op.mode = "IMM32" -> LongOperand(op, offs)
          [] op.mode = "NOFFS" ->
               IF HC12 THEN Adds(CoffsBytes(op, CoffsValue([op EXCEPT !.curval = 0])), {}, {14})
                       ELSE Quiet(<<NoffsByte(op)>>)
          [] op.mode = "ROFFS" -> Quiet(<<RoffsByte(op)>>)
          [] op.mode = "COFFS" -> Offset(op, secabs)

OrAt(bytes, n, bits) == IF bits = 0 THEN bytes ELSE [bytes EXCEPT ![n] = BitOr(@, bits)]

OpcodeBytes(oc) == IF oc > 255 THEN Word(oc) ELSE <<oc>>

Joined(o, a) == [bytes  |-> OrAt(OrAt(o.bytes, Len(o.bytes), a.last), 2, a.second) \o a.bytes,
                  relocs |-> o.relocs \cup a.relocs,
                  err    |-> o.err \cup a.err]

AddOperand(o, s, i, ocsz, secabs) == Joined(o, Emit(s, i, Len(o.bytes), ocsz, secabs))

\* The operands after the opcode, one after the other.
Operands(s, head, secabs) ==
    LET out[i \in 0..Len(s.op)] ==
            IF i = 0 THEN [bytes |-> head, relocs |-> {}, err |-> s.err]
            ELSE AddOperand(out[i - 1], s, i, Len(head), secabs)
    IN  out[Len(s.op)]

Checked(o, len) == [bytes |-> o.bytes, relocs |-> o.relocs, err |-> o.err,
                    ierror |-> Len(o.bytes) # len]

\* The bytes, the messages, the relocations, and whether the length written
\* is not the one process_instruction calculated (an internal error).  The
\* test for a missing opcode compares the 16-bit oc with NA, the int ~0: it
\* never succeeds, and the two bytes of 65535 are written.
Assembled(s, pc, secabs) ==
    Checked(Operands(s, OpcodeBytes(mnemonics[s.code].oc[s.ocidx]), secabs), s.pc - pc)

eval_instruction(ip, pc, secabs) == Assembled(process_instruction(ip, pc, secabs), pc, secabs)

\* eval_data: the value is evaluated before find_base gives the expression
\* its new type.
eval_data(e, bits) ==
    LET f   == ext_find_base(e)
        ok  == f.btype = "OK" \/ (f.btype = "PCREL" /\ f.modifier = "")
        val == IF e.left.base # "none" /\ ok /\ f.modifier # "" THEN Masked(f.modifier, Value(e))
                                                                 ELSE Value(e)
    IN  [val |-> val % 2^bits,
         relocs |-> If(e.left.base # "none" /\ ok,
                       {[base |-> e.left.base, addend |-> Value(e), modifier |-> f.modifier]}),
         err |-> If(e.left.base # "none" /\ ~ok, {38})
                 \cup If(bits \notin {8, 16, 32}, {11})
                 \cup If(bits < 16 /\ val \notin -128..255, {12})
                 \cup If(bits \in 16..31 /\ val \notin Word16, {12})]
=============================================================================
