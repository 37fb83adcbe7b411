# vasm: models, checks and proofs

vasm is a retargetable assembler in C. One binary is one syntax module, one
processor backend and all output modules around a common core. This directory
holds TLA+ modules for the parts of the core that decide whether the output is
right, the TLC configurations that check them on small instances, and TLAPS
proofs of the properties that should hold for every instance.

`PROJECT.json` maps each definition to the source lines it stands for and lists
the runs, their properties, the hazards the properties are aimed at, and the
findings.

## 1. The system

`main` (vasm.c) parses the options and then runs, once and in one thread:

    parse -> cleanup_parse -> resolve -> assemble -> fix_labels -> undef_syms
          -> remove_unalloc_sects -> trim_uninitialized -> write_object

| Component | State | Operations | Hard behaviour | What makes it correct |
|---|---|---|---|---|
| Conditional assembly (cond.c) | `clev`, `cond[]`, `ifnesting` | IF, ELSE, ELIF, ENDIF, called from handlers or from the skip loop | blocks nested in skipped text, MEXIT, macros that touch their caller's blocks, nesting limit | a line is assembled exactly when all blocks around it are on |
| Source stack and macros (source.c, parse.c) | `cur_src` chain, macro hash, repeat buffers | include, macro call, REPT, IRP, MEXIT, end of text | recursion, MEXIT inside REPT, includes from macros, redefinition while a macro runs | every text is left the way it was entered, and expands to its substitution |
| Section management (vasm.c, atom.c) | section list, current section, section stack, `last_alloc_sect`, container | SECTION, ORG, OFFSET, PUSHSECTION, POPSECTION, DSECT, DEND, labels that move | pointers to sections that were removed from the list, atoms that wait for a section | everything assembled is in a listed section, once |
| Symbols (symbol.c, symtab.c) | symbol list and hash, local scopes | label, equate, set, import, export; undo of a failed mnemonic | redefinition, forward references, freed symbols that something still points to | one meaning per name, the list and the table agree |
| Expressions (expr.c) | trees, `cpc`, section dependencies | parse, simplify, eval, find_base | constness changes between passes, rearranged trees, what is constant in an absolute section | the value the text has, wherever sections are placed |
| Huge integers (hugeint.c) | none | +, -, *, /, mod, shifts, conversion to memory | carries, Algorithm D's corrections, ends of the ranges | integers modulo 2^128 |
| Resolver (vasm.c, atom.c, expr.c) | section pc and flags, label values, `lastsize`, `changes`, `deps`, worklist | resolve_section, resolve | mutual dependencies of sizes and addresses, oscillation, stale sections | a fixpoint, or a reported failure |
| Assembly (vasm.c) | the same, plus relocations | assemble | must see the sizes the resolver saw | every atom and label at its resolved address |
| 6502 backend (cpus/6502) | cpu type, options | parse_operand, instruction_size, eval_instruction | encoding chosen by value, twice and independently | size asked for = bytes written; bytes do what the source says |
| 6809 backend (cpus/6809) | cpu type, options, direct page | parse_operand, instruction_size, eval_instruction, SETDP | rows, modes and offset sizes chosen by value, once per pass, on shared expressions; branches and jumps that replace each other | the same, for 6809, 6309, 68HC12 and Konami |
| Other backends (cpus/*) | same interface | same | same | same |
| Output modules (output_*.c) | lists of sections, symbols and relocations while writing | write_object | ordering, overlap, record splitting, uninitialised ends, offsets and indices written before what they point to | a loader or linker that follows the file finds the program |
| Driver and errors (vasm.c, error.c) | phase, counters, disabled and repeated messages, the output file | main, leave, error | fatal errors in any phase, error limit, warnings that fail | exit status and output file tell whether there was an error |
| Syntax modules (syntax/*) | directive tables, local label state, DSECT state, structures | parse, one handler per directive | directives that change several of the above | the handlers keep the core's protocols |

Components interact by calls and by the shared section and symbol structures
only. Nothing is concurrent and nothing is persistent; the difficulty is in the
order of directives (the source text is the scheduler) and in the passes, which
use values computed in earlier passes.

## 2. Modules

### Cond, CondHistory, CondStack, CondProof

`Cond` is cond.c, driven one source line per step. `IfLine`, `ElseLine`,
`ElifLine`, `EndifLine` choose between the handler's call and the skip loop's
call by `cond_state`, as `parse()` of the mot and std syntaxes does; `CallLine`,
`MExitLine` and `EndOfText` are the parts of new_source, leave_macro/end_source
and read_next_line that save and restore the level. The conditions are free.
`HasElif` tells syntaxes with an else-if directive from those without;
`CrossFrame` allows macros to switch or close blocks of their caller.

`CondStack` is the promise: a stack of blocks, each on, pending, done or dead.
`StackSpec` states that `Cond` implements it, with the abstract stack made of
levels `1..clev` of the array and `ifnesting` dead blocks on top.

`CondHistory` adds to `Cond` what the array forgets: how many branches of the
block at each level were assembled (`taken`), and for each source instance what
this was when it was started (`saved`), because after MEXIT the caller is in its
own blocks again, whatever the macro did to their entries in the array.
`MExitClosed` allows MEXIT in a macro that has closed a block of its caller. The
history variables only record; every step is a step of `Cond`.

### Resolver, MCResolver, ResolverProof

`Resolver` has one step per atom. The parser's first guess (`AddLabel`,
`AddAtom`) may alternate between the sections; `resolve_section` is
`StartPass`, `VisitLabel`, `KeepInst` (safe mode), `VisitAtom`, `EndPass`, the
last with the loop of `resolve()` around it; `assemble()` is `StartAssemble`,
`AssembleAtom`, `EndAssemble`. A section has its pc, saved_pc, rorg_pc and the
flags ABSOLUTE, PREVABS and IN_RORG. Sizes of instructions are a parameter, the
backend's; so is the arithmetic of SPACE expressions. `walk` and `moved` are
history variables: the section state before each atom in the section's last
walk, and the number of instructions resized in the current pass.

`MCResolver` makes programs of one section (`MaxOne` atoms from the pool `One`)
and of two (`MaxTwo` atoms from `Two` in each), sizes
instructions with `Cpu6502` on a page of 8 bytes and a branch distance of 4, and
adds an instruction whose optimizer changes its mind whenever its operand moves
(until RESOLVE_WARN), as the m68k and ARM optimizers may.

Left out: listing, debug output, DWARF, printing, assertions, OPTS and NLIST
atoms (no address depends on them), OFFSET sections' labels, the warning for
address space overflow (addresses are natural numbers).

### Cpu6502, Cpu6809, CpusProof, Isa6809, MCCpus

`Cpu6502`: pure operators named after the functions of cpus/6502/cpu.c:
`optimize_instruction`, `instruction_size`, `eval_instruction`, `rangecheck`.
`mnemonics` has one row of opcodes.h for each way an operand can be optimized.
Indirect modes, MVN/MVP, the MEGA65 prefixes and the operand parser are left
out.

`Cpu6809` is cpus/6809/cpu.c from the arguments of a line on: `parse_operand`
with `read_index` and the registers each cpu has, the loop of `new_inst` over the
rows of a mnemonic, `process_instruction` (one operator per part: `Addr`, `Ext`,
`Coffs`, `PcOffs`, `Rel` with `ToLong` and `ToShort`), `eval_instruction` with its
postbytes, relocations and error numbers, `eval_data`, and SETDP. An expression is
a label and a number, or that with /256, %256 or a selector; `find_base` rewrites
it as the code does, and `Shared` carries what the size pass left in the
expressions to the final one. `Rows` has one row of opcodes.h for each way rows
are treated, with its cpus and opcodes. TFM and the 32-bit registers are left
out.

`MCCpus` puts one line through parsing, instruction_size and eval_instruction
at real widths, with values around every boundary, and reads the bytes back,
with a small 6502 decoder (`Effect`) or with `Isa6809`, a decoder of postbytes,
direct pages and displacements made from the processors' encodings and not from
the code. What it finds is compared with what the line means. The processor and
the options are variables of MCCpus, and `Cpu(c, o)` and `Cpu09(c, o)` the
backends for given ones: their operators depend on their arguments alone, in both
states of a step.

### Sections, SectionsProof

The section list during parsing. A line is an optional label and a directive;
`fresh` is the test of set_section that the current section's last atom is a
label of this line. `set_section` includes move_label_to_sec with its removal
of the section the label left; `Link` is the append behind last_section, which
dangles when the only listed section was removed. `Sources` restricts what one
source may use, so that the two syntaxes are not mixed: `org` is mot's (only
where it opens a section), `org=`, DSECT and DEND are oldstyle's. Section
attributes, STRUCT sections and RORG blocks are left out.

### Source, MCSource, SourceProof

`Source` is source.c with the parts of parse.c that push and pop source text
instances: one step reads or executes one line. An instance (`new_source`) has its
text, position, repeat count, macro, arguments and conditional level, as
`struct source` has; `execute_macro`, `new_repeat`, `start_repeat`, `new_macro`,
`undef_macro`, `leave_macro`, `end_source` and `include_source` are named after
their functions; `ReadAgain` and `LeaveSource` are what read_next_line does at the
end of a text. Lines are records and operands are terms, so what is left out is
scanning: escape sequences, the line buffer, `\@` and the text of an argument.
Of the lengths of lines only one matters: what follows a definition's first line
must be longer than the shortest end directive (`ShortRest`, `enddir_minlen`), or
it is read as ordinary lines; a blank line is one character long, every other
line longer than an end directive. A macro named like an instruction or a
directive (`Conflict`) is read to its end and dropped.
`DottedLists` says whether the lists of end directives are given with a dot.

`MCSource` writes programs as trees, turns them into lines, and defines what
they assemble to by recursion over the tree (`Exec`), without instances,
counters or pointers. Programs: every pair of eleven statements as the body of a
macro (data, MEXIT, conditional MEXIT, nested REPT and IRP, calls, includes,
recursion), with four included files (three of which redefine or remove a macro
that may be running) and two ways to call it; keyword, default, missing and
surplus arguments; and what must be refused.

### Asm and the eight syntax modules, MCSyntax

`Asm` is what the syntax modules work on: sections with their atoms, symbols,
conditional levels, structures and messages in one record, each function of
vasm.c, atom.c, symbol.c, cond.c and parse.c that they call as an operator from
records to records. `Merlin`, `Scmasm`, `Edtasm`, `EdtasmM80`, `Oldstyle`,
`Mot`, `Std` and `Madmac` translate the handlers of syntax/*/syntax.c; `parse`
of each is one line through its parse loop, in the order of the C code: skipped
source, label field, assignments, label, directive. A module's static variables
are the record in field `x`, so that the eight share one state. What a handler
asks of the source stack is left as a request in field `req`; `Source` models
what becomes of it. `Sections` remains the detailed model of the section list.

`MCSyntax` runs them on every sequence of lines of a theme, a vocabulary in which
a few features meet: labels and their scopes, anonymous labels, macro calls with
LOCAL names, conditional blocks, dummy sections, structure and frame fields,
sections and ORG blocks, strings, packed texts, register sizes, the character
passes of m80. What a program should do is defined on its lines alone.

### Output, Image, ElfCoff, Aout, Hunk, Tos, O65, Aof, Gst, Vobj, MCOutputs

`Output` has the helpers of supp.c, reloc.c and vasm.c that every format uses:
sizes, alignment, placing of sections, `trim_uninitialized`, `join_sections`,
overlap, fields of relocations. `Image` is bin with its headers, cmd, srec,
ihex, pap, woz, cdef and hans; ElfCoff is elf and coff; the others have one object
format each (Tos also Human68k's xfile), down to every length, offset, index and error path. A file is
a sequence of chunks with their sizes. `Vobj` also models vobjdump.c, the
reader that comes with the assembler.

`MCOutputs` parses, assembles and writes a program of up to three atoms and
labels in each format and reads the file back with a reader per format that uses
nothing but the file's own offsets, counts and indices.

### Hugeint, Expr, Symtab, Driver, MCFront, SymtabProof, DriverProof

`Hugeint` is hugeint.c on digits of HALF_BITS bits, Algorithm D included.
`Expr` is the parser, simplifier and both evaluators of expr.c with `add_dep` and
`find_base`, and fix_labels of vasm.c. Both are operators only. `Symtab` is the
hash table with its chains, the symbol list and new_inst() of atom.c, which
parses operands once per mnemonic and takes the symbols of a failed attempt
back. One step mentions one symbol (`ParseOperand`), and restore_symbols takes
one symbol per step (`TakeBack`) before it puts the protected ones back
(`Restored`); symbols are never-reused numbers, so a dangling pointer is visible.
`Driver` is main(), leave() and error(): the order of the phases, which ones
errors or options skip, what is counted, hidden or fatal, and what happens to
the output file.

`MCFront` runs the driver and the symbol table as state machines and takes each
expression, constant and huge integer as an initial state of its own. It
restates the documented operator priorities, the value an expression has once a
linker has placed everything, and the integers.


## 3. Runs

| Run | Bounds | Shows |
|---|---|---|
| cond | MAXCONDLEV 4, 2 skipped IFs, 2 frames | without else-if: types, nested blocks stay dead, outer blocks are on, refinement of CondStack |
| cond_elif | the same, with else-if and crossing macros; no MEXIT once a block of the caller was closed | at most one branch of a block is assembled over the block's whole life |
| cond_mexit | the same, with that MEXIT | violation: both branches of the caller's block are assembled |
| resolver | 1 section, up to 4 atoms of 10 (4 only with a label), and 2 sections of up to 2 atoms of 8 in any parse order; MAXPASSES 8, FASTOPTPHASE 1, MAXSIZECHANGES 1 | types, assembly meets every atom and label where the resolver left it, one change per pass in safe mode, the worklist forgets no stale section, termination unless both sections read each other's labels |
| sections | 2 names, 2 labels, 4 sections, 2 data or assert atoms, stack of 2 | nothing is lost or doubled, an assertion is in exactly one listed section once there is a section, no internal error, DSECT stays unallocated |
| sections_popped | 1 label, 3 sections | violation: POPSECTION of a removed section |
| cpus | 6502: 3 origins, 28 values each, all flags, bases and 4 cpu types. 6809: 4 cpu types, 3 sets of options, direct pages 0 and $12, numbers around the limits of 5, 8, 9 and 16 bits, labels around the reach of short branches, absolute and relocatable | size = bytes, bytes mean the line, -opt-branch never out of range |
| source | 993 programs, maxmacrecurs 3, maxmacparams 4, MAXCONDLEV 5 | recursion counts and REPTN are those of the running instances, the expansion is that of the program's structure, termination |
| source_dotted | the same | violation: end directives with a dot are never found |
| syntax | 36 themes of 1 to 5 lines | references, conditional output, offsets, strings, register sizes and quoted texts are as the lines say |
| outputs | 6 scenes, 3 atoms or labels in 3 sections, 15 images, 3 with far addresses, 16 object variants | images load, objects and their relocations read back |
| front | 3 names, 3 symbols, any number of instructions and attempts, 3 buckets; 2 messages of 6, 2 lines; digits of 2 bits, addresses of 3 bits; 3 operators per text | exit status and file tell of errors, no symbol is lost or dangling, expressions are read, folded and relocated as they mean, huge integers are integers |

Why the bounds are enough. Cond: two levels are needed for an outer and an inner
block, one more for the limit, and two nested skipped IFs for a counter that is
neither 0 nor 1; two frames are a caller, its macro and a macro that calls.
Resolver: a size that depends on a label behind it, a second
atom that moves it and an alignment need three atoms; the small page and branch
distance make all three encodings happen within four; the pass limits are small
but keep their order, and MAXPASSES 8 leaves room for the fast pass, its
extensions, safe mode and the changes an atom needs to be warned. Two sections
are the smallest system with a dependency; the worklist argument is about pairs.
In them a label and something in front of it that depends on the other section
suffice to bring that section back, and an oscillating optimizer or SPACE makes a
visit take anything from two passes to all of them.
Sections: the interesting histories remove a section, use its name again and
come back, which takes three sections; a fourth one follows them.
Source: two statements per macro, a second macro and a file reach every pair of
things that can be nested, with recursion to the limit of 3. Syntax: five lines
are a scope, two labels in it, a switch and a reference. Outputs: two atoms in
one section and one in another make every offset different from 0; the far scene
crosses two 64K limits and the long one the distances 254, 255, 256 and above of
o65 and 254, 256 and above of TOS, whose addresses are even on a 68000.
Front: two messages are needed for a repetition; three names are two spellings
of one and one more in its bucket; huge integers of 8 bits in 4 digits go
through every branch of the division, including the correction of a digit that
was estimated too high.

What the passing runs leave out because the code gets it wrong (section 5 has
each): MEXIT in a macro that closed a block of its caller, in cond_elif; the
resolver's programs that are not `Careful`, and for termination not `OneWay`; the
combinations the four kinds of `Sources` exclude; expressions that `Careful`, `Sticky` and `TwoMinus` name, and
equates on weak labels; in HugeAgrees negative second operands, negative
divisors of a remainder and products with a carry across words; sections that
end in uninitialised space where a format does not expect it, and odd relocation
offsets or padding in the formats of `ReadsWell`; in the syntax themes the lines
the observations name; in the 6809 part what `Rerouted`, `ConstantPc`,
`ConstantIndirect`, `LowByte`, `NoOpcode`, `KonamiPc` and `KonamiOpt` name.

`Cpu6809` was also compared with the built assembler on some 20 000 random lines:
bytes and messages agree, apart from messages of parse attempts that are given
up and selectors applied to a quotient, which the model's expressions exclude.

Fairness: `FairSpec` of Resolver and `Spec` of Source have weak fairness of the
whole next-state relation only. The assembler is one thread without waiting, so
it takes a step whenever it can. Termination of Source is stated for programs in
which no file includes itself, which nothing limits; termination of the resolver
for programs in which at most one of two sections reads the other's labels,
because resolve() has no limit for sections that bring each other back.

Deadlock checking is off: every program ends.


## 4. Proofs

One proof module per state machine, and one about the 6502 and 6809 backends. That
of a state machine has an inductive invariant, one lemma per action
that keeps it, and the theorems at its end; what a theorem states is a property of
section 3's runs, here for every value of the constants.

| Module | Theorem | For |
|---|---|---|
| CondProof | `CondTypeOK` | any MAXCONDLEV, with and without else-if |
| CondProof | `OneBranchOnly` | the same and macros that work on their caller's blocks, with `~MExitClosed` |
| CondProof | `NestedBlocksStayDead`, `OuterBlocksStayOn`, `CondImplementsStack` | syntaxes without else-if, macros that keep to their own blocks |
| DriverProof | `DriverExitTells` | any set of messages, options and error limit, sources of any length |
| SymtabProof | `SymtabSymbolsFound` | any names, table size, number of symbols and attempts |
| SectionsProof | `SectionsTypeOK`, `SectionsListUnique`, `SectionsDsectUnallocated` | all sources of either syntax |
| SectionsProof | `SectionsOutputComplete`, `SectionsNoInternalError` | sources with `LabelsStay` |
| SectionsProof | `SectionsAssertionsListed` | the same with `LabelsWithoutAsserts` |
| SourceProof | `SourceRecursionsBalanced`, `SourceReptnIsInnermost` | any program, maxmacrecurs, MAXCONDLEV |
| SourceProof | `SourceTypeOK` | the same with `DefinitionsStayInText` |
| ResolverProof | `ResolverTypeOK`, `ResolverSafeMode` | any program and pass limits, any backend with `SizesAreNat` |
| ResolverProof | `ResolverAssemblyConsistent`, `ResolverWorklistSound` | the same with `NoRorgInOrg` and `ForeignIrrelevant` |
| CpusProof | `SizeIsBytesWritten`, `ForeignValuesIrrelevant`, `ShortBranchesReach` | 6502: any instruction of the table, operand values, page size and reach |
| CpusProof | `Written6809` | 6809: any `Readable` line, its value, address, direct page, cpu and options |
| CpusProof | `SizesAreWritten` | all lines and instructions of MCCpus, any origins, cpus, options and direct page |
| CpusProof | `BranchesReach` | the same with PAGE = 256 and Origins in 0 .. 65532 |

### The arguments

*Cond.* The types are not inductive: clev may be MAXCONDLEV only after the fatal
error, and MEXIT restores a level from a frame, so `TInv` adds that the
remembered levels are in range. `SInv` ties the two block properties together:
nested blocks stay dead because ENDIF counts them down before it touches a
level, and the outer blocks are on because a level is only opened by a line that
is assembled; frames remember levels that are still open, in order, so MEXIT
leaves the rest intact. For the refinement, one lemma per line shows that its
effect on the counters and the array is its effect on the stack; the step that is
not obvious is that closing a level and closing a dead block are the same
abstract step. `OneBranchOnly` is about the history. `HInv` has that a level that
was not switched on yet (0) has no branch assembled, every level has at most one,
and the levels below the innermost are on (`BlocksCounted`); and that a source
instance below the top closed no block of its caller or is marked as such
(`CallersKept`). MEXIT needs the second part: without the mark the caller's level
is still open, all entries up to it are on or innermost, and what `saved` says of
them was at most one branch each.

*Driver.* `DInv`: a counter is above 0 exactly when a message of its kind was
raised, although error() does not count a repeated one and -wfail turns warnings
into failures; and the object file is open only in write_object, where main()
does not get with an error.

*Symtab.* `Sound` is a correspondence between the chains and the list: every
symbol that lives has an entry under its name in the bucket of that name, every
entry leads to a symbol that lives, and only internal symbols have two.
restore_symbols breaks the list (protected symbols are set aside, `Kept`) before
it mends it. `Since` says why it may free what it frees: above the symbol that
save_symbols remembered there are only imports that no instruction refers to, and
the symbol of the pc. That a chain and its hash code exist for every name needs
that the recursive sum of hashcode() is a number, which follows from `Least`.

*Sections.* `SInv` adds to the types that a line with a label has that label as
the last atom of its section, and what a DSECT has changed. `OInv` has the
contents: a label is in the section its symbol names, once; a section that is not
listed holds nothing but assertions; assertions wait in the container or are in
one section. `KInv` adds for `SectionsAssertionsListed` that nothing is dropped:
every atom ever made is in the container or a section (`Kept`), and where
assertions are allowed the container holds something, or there is no current
section, only before the first section (`First`). A listed section is never
removed then, because only a label that moves on removes one.

*Source.* `SrcInv` is about every instance of the stack and not only the top: a
macro's count is the cardinality of the instances that run it, below the limit,
and an instance's REPTN is that of the innermost repetition around it. After the
last line read_next_line leaves the last instance on the stack without its count,
so the counts are claimed until then. For the types, `TInv` follows the text: every
instance reads a piece of a text of the program (`start_repeat` and `new_macro` cut
it out, from behind the first line of a definition to the line before its end),
its position is in that piece, and its link to the including text and its
conditional level are those of the instance below. That read_next_line finds the
end of a definition before the end of the piece is an induction over the lines of
the definition, on the depth of nested ones.

*Resolver.* `BInv` has the types and that only the section being walked can be
inside a RORG block. `CInv` follows a walk: the atoms behind it are `Settled`
(their sizes are what they would be now) and have noted whom they depend on, and
each section not on the worklist is settled or depends on the current one, which
is not done. A visit that moves a label ends with `~done`, so the sections that
noted it go back on the list. In assemble() all sections are settled, and each
step of the walk is the one the resolver made last.

*Cpus, 6502.* Size and bytes are computed by different recursive functions over the
operands; `Recursion` gives both a type, and `Induction` compares them operand by
operand, where the table `opsize` must agree with what each type is written as.
`ForeignValuesIrrelevant` goes through the alternatives of optimize_instruction:
each reads a value only where the base is missing or not relocatable. In
`ShortBranchesReach` the optimizer's distance from pc+2 and the writer's from the
end of the bytes so far are the same number, which holds for one operand only: the
bit branches with two are the observation at cpu.c:1010 in section 5.

*Cpus, 6809.* process_instruction adds to the size in some twenty places, before
and after it has changed its mind on the mode, and eval_instruction, which calls it
again, writes what the mode left at its end says. `Counted` relates the two: the
address has moved by the size of the opcode in the column `ocidx` and by `Width`
of the operand as it is now. Each handler keeps it: the ones that replace a row
(`ToLong`, `ToShort`, jump to branch) because the new row's opcode has the size
they add, which is a fact of the table and the reason why some instructions are
`Interchangeable` and the Konami ones, with two-byte extended opcodes, are not;
`Coffs` and `PcOffs` because they count the postbyte first (`HasPostbyte`) and the
offset by `coffs_size`. `CountedIsWritten` then follows the second loop, over the
bytes. That the operand is one the handlers have (`Handled`) is what parse_operand
and new_inst give: the loop over the rows and the arguments is unrolled for rows
with one operand (`ParseSteps`, `OneType`), `Fits` says what an argument that
matched looks like, and `MemoryInst` and `BranchInst` go through the rows.
SizeIsWritten alone is not inductive, since nothing in it says where ip, size and
out come from. `Inv` adds that the instruction is the one new_inst makes of the
line, that `size` is what instruction_size returns for it, and `out` what
eval_instruction does, for the ip of now. The step of Size6809 needs `Shared(ip) =
ip`: the size is computed on a copy that shares its expressions, and a line whose
first expression is a symbol, as all of these are, is not rewritten by find_base.

*Cpus, -opt-branch.* `BranchesReach` needs of the state only where the instruction
is and that a branch goes to a number or a label (`Sited`). On the 6502 a branch is
either out of reach for the optimizer, and then written as an absolute address,
which a word holds, or it stays short and `ShortBranchesReach` applies
(`BranchWritten`). On the 6809 do_rel tests the distance with the opcode it has and
writes it with the one it takes, so `RelFits` recomputes it in its three cases: to
the long form (`LongForm`, one or two opcode bytes), to the short row two before
it, or unchanged, where a short branch without an OC of its own could not be
lengthened (`Adaptable`, which `BranchInst` and the table give). A long branch
reaches every address because its displacement may wrap around (`NoRange`).

### The assumptions

`SizesAreNat`: a backend returns sizes that are numbers. `NoRorgInOrg` and
`ForeignIrrelevant` exclude exactly the two observations of section 5 at
vasm.c:305 and expr.c:1187, where the code does violate the properties; the
programs of run `resolver` satisfy all three (evaluated for values up to 20).
`LabelsStay` excludes what run `sections_popped` refutes, a label that moves on in
a source with a section stack, and its like with DSECT; the sources of run
`sections` satisfy it and `LabelsWithoutAsserts`, which excludes what
move_label_to_sec gets wrong (section 5, vasm.c:810). `~MExitClosed` excludes what
run `cond_mexit` refutes.
The constants' own assumptions
(`CondAssumption` and its like) are evaluated by the runs.
`DefinitionsStayInText`: a line that is not blank follows the one that opens a
macro or a repetition in its text, and behind a repetition it is not the end of
the macro around it. Where there is none, read_next_line goes on in the including text and add_macro subtracts
pointers into two buffers (parse.c:998), so the types are false there; the programs
of MCSource satisfy it (`MCProgramsAssumption`, evaluated by TLC).
`ForeignIrrelevant` is not only a hypothesis: `ForeignValuesIrrelevant` shows it of
the 6502 backend, in relocatable sections, for labels elsewhere.

`DpageAssumption`, `OriginsAssumption` and `PageAssumption`: addresses and the direct
page are integers, a page is not empty. `CodesAssumption` and `NamesAssumption`:
the mnemonics are in the modelled tables, those of the 6809 among the ones with one
operand that is an address. `BranchesReach` is about
instructions that end in the 16-bit space (four bytes from 65532 at most): from
65533 a long branch to 0 is beyond -65536 and reported. `Readable`: an expression without an operator, or
nothing, in the first argument, an index register in the second one; LEAX has both
and a branch only the first.

`Wellorder` has the facts that replace induction. That a set of numbers has a
least element (`Least`) follows from the library's theorem that finite subsets are
well ordered by inclusion, and is used where the code takes the first match; from
it follow an induction for sets (`Induction`) and that a function defined by
recursion exists (`Recursion`).

### Only model-checked

* Liveness (`Terminates` of Resolver and Source): the prover has no rule for
  fairness.
* `EmittedEffect` of MCCpus: it compares bytes with a decoder of several hundred
  encodings, one case each for the prover.
* The properties of MCFront (expressions, constants, huge integers),
  MCOutputs, MCSource and MCSyntax compare what recursive definitions compute for
  a text, a tree, a number or a file. That is induction over data, which the
  provers cannot do; the modules with RECURSIVE operators are outside their reach
  altogether.

## 5. Findings

Three violation runs show where the code disagrees with its documentation;
PROJECT.json has each with its source and the quotation. All were reproduced with
assemblers built from this source:

* cond_mexit (source.c:247): MEXIT restores the level but not the value of the
  caller's block, so both branches of it can be assembled.
* sections_popped (vasm.c:841): POPSECTION activates a section that was removed
  from the list.
* source_dotted (parse.c:412): end directives with a leading dot are not found.

Further observations, reproduced with the assemblers built from
this source unless marked (read); no run shows them as a violation, and the
passing runs leave them out.

Core:

* An else-if in a block nested in skipped text may start assembling: cond_elseif
  does not look at ifnesting as cond_else does (cond.c:75). With the std syntax
  `.if 0 / .if 0 / .elseif 1 / .byte 2 / .endif / .byte 3 / .else / .byte 4 /
  .endif` gives 02 03. (`NestedBlocksDead` fails when HasElif is set in Cond.cfg.)
* Two sections whose sizes depend on each other can be resolved for ever, since no
  limit spans calls of resolve_section (vasm.c:269), although the comment
  vasm.c:20-22 says that the resolver fails on reaching MAXPASSES:
  `org $0 / ds.b 1-(lb&1) / la: / org $100 / ds.b la&1 / lb:`. (`Terminates`
  fails for it without the hypothesis `OneWay`.)
* FAIL and ASSERT in a source without a section are ignored: their atoms stay in
  the container (atom.c:311). (`AssertionsListed` fails without its last disjunct.)
* A section that holds only an ASSERT and a label that moves on is removed, and
  the assertion with it (vasm.c:810): `section a,data / assert 0 / x: section
  b,data / dc.b 1` gives no message. (`AssertionsListed` fails when "label" and
  "assert" are in one of Sections.cfg's `Sources`.)
* The end of a RORG block in an ORG section clears ABSOLUTE for the resolver
  (vasm.c:305).
* A branch from an ORG section to a relocatable label is not among the
  dependencies (expr.c:1187).
* `lab: dsect` in an otherwise empty section, DEND and another label on a
  section line end in the internal error of vasm.c:855.
* Named macro arguments are not expanded in a REPT inside the macro
  (parse.c:546); a definition that begins on the last line and has no end is
  accepted silently, also with a few blank lines behind it (parse.c:1158).
* An equate on a weak label loses the label's offset (vasm.c:612).
* `-DFoo=5 -nocase` leaves Foo undefined.
* A section that ends in uninitialised space is trimmed (vasm.c:624), but elf,
  a.out, coff, hunk, tos and cmd write all of its atoms (doc/interface.texi:861).
* `-Fbin -join` refuses masked relocations (reloc.c:229), and aligned atoms of
  joined sections overlap (vasm.c:876-880).

Expressions and huge integers:

* `600-a-b` is folded to 600-(a-b) (expr.c:711-720); `1<=2<(-1)` is read as two
  `<=` (expr.c:469-498); `a++b` and `a--b` are not parsed.
* Decimal constants from 2^w to 2^w+9 wrap silently (expr.c:133-139).
* An expression without a base, less an absolute label, is called constant
  (`a*2-b`, expr.c:1088-1092).
* In an ORG section `ext-lab` has the addend pc-lab instead of -lab
  (expr.c:1081-1085 against expr.c:1451).
* hadd, hsub and hcmp are wrong for a negative second operand, hmod for a
  negative divisor; hmul looks for the last carry in the wrong product
  (hugeint.c:331, 351); a huge result in the unsigned range of an address becomes
  a negative number (`dc.q $fffffff0+1`); huge_chkrange shifts by -1 for 64 bits
  (read).

6502 backend:

* JMP is never shortened to BRA with -opt-branch (cpus/6502/cpu.c:576 is only
  reached for operands that are not absolute), although doc/cpu_6502.texi says so.
* BBRn/BBSn out of range with -opt-branch is an internal error (cpu.c:1010).
* The HU6280's BSR is inverted as if it were a conditional branch (cpu.c:704).

6809 backend:

* With -opt-pc a number as indirect address is made pc-relative: `jmp [0x8000]`
  in a relocatable section jumps elsewhere once it is placed (cpu.c:710), as does
  `movb` with an extended operand; doc/cpu_6809.texi:37-38 speaks of labels.
  `jmp` to a number becomes `bra` in the same way.
* `lda -129,pcr` in a relocatable section is written as an 8-bit +127
  (cpu.c:856), on the HC12 -17, -18 and -257 likewise (cpu.c:835, 840);
  -opt-aggressive truncates `lda 300,pcr` to 8 bits.
* -opt-branch: a near `lbsr` gets opcode 07 on the 6809, near `lbra` and `lbeq`
  get Konami opcodes on the HC12, a far `bsr` there becomes the table's first
  row, and Konami's near jmp and jsr are an internal error (cpu.c:1414).
* The test for a missing opcode compares 16 bits with ~0 and never holds:
  `leax 5` writes FF FF.
* `.byte l/256` writes 00 with the wrong addend; `ldx #l/256` is not masked.
* HC12: `bset 5,#5` is refused, aba and daa share 0x1807. `A,X+` loses its
  increment silently. Konami's pc-relative operands have 6809 postbytes. Errors
  9 and 10 have each other's text.

Syntax modules:

* merlin: references to anonymous labels are off by one (syntax.c:4076-4090);
  `PRINT ENT` exports nothing; `ALI PAGE` ahead of any section crashes;
  LONGA/LONGI reset the other register's size.
* scmasm: the same reference count (3669-3681); `.BS n` ahead of any section
  crashes; `.HS 2C    BYTE` emits 02 CB; a macro call changes the context of
  private labels; `LAB .PH $800` is error 1011; an open .AS text is accepted.
* edtasm: `FCC /A;B/` emits nothing, `FCC /#'A /` emits `#$41 `; with m80,
  conditional directives in column 1 are labels and `OPT 1` never ends.
* edtasm-m80: LOCAL names of nested calls are confused, hexadecimal suffixes
  change names and texts, IFIDN, IFDIF and IFDEF without operands open no level,
  and errors 29 and 30 have the text of their neighbours.
* mot: with `-align` frame fields have needless gaps (syntax.c:258-262), FO differs
  from doc/syntax_mot.texi:469-471, `x iif 0 equ 5` is assigned all the same,
  einline after a nested inline.
* std: `N:` counts in skipped text (syntax.c:1231). madmac: a nested `.ifdef` in
  skipped text (syntax.c:823). oldstyle: const_suffix ignores -noi (read).

Output formats:

* TOS: a distance of 255 between two relocations is written as 1 and 1, which a
  loader reads as 508 (output_tos.c:345); it takes a long word at an odd address,
  which mot without -align makes.
* COFF: exported labels are C_LABEL (output_coff.c:353). hunkexe: -databss pads
  with NOP (output_hunk.c:1069).
* (read) 16-bit Intel hex segments and records across 64K; atari, coco and pgz
  with sections that are all uninitialised; the padding of pap, woz, hans, aof
  and gst; a.out space with relocations; odd offsets in DRI relocations; an
  uninitialised pc in xfile_writerelocs.

## 6. Plan

Modelled so far: conditional assembly, source stack, sections, resolver, symbols
and their table, expressions, huge integers, driver, the 6502 and 6809 backends,
all eight syntax modules and all output formats. Every safety invariant of the
state machines is proved, and the sizes of both backends. What is
left:

1. A composition of Sections and Resolver, and of the syntax modules with Source
   (their requests in `req` as its lines), would remove the remaining
   duplication.


## 7. Not modelled

* The other processor backends: tables and operand parsers of some 38 000 lines;
  their part in the core is a size that may change from pass to pass, which the
  resolver runs have as an abstract optimizer.
* Scanning of characters, except the passes of m80 over a line; tables of
  directives; options that only set a flag.
* Floating point: conversions, constants and expressions.
* Listing, DWARF and dependency output, the symbol file of -symbols, -v and the
  test output module: formatting of finished data.
* Register symbols of backends that have them.
* Magic numbers, time stamps and padding of file headers.
* The disk image and build tools.
