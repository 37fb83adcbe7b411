------------------------------- MODULE Symtab -------------------------------
(* The symbol list and its hash table: symtab.c, the part of symbol.c that  *)
(* creates, finds and removes symbols, and new_inst() of atom.c, which      *)
(* parses the operands of an instruction once for every mnemonic of that    *)
(* name and takes the symbols of a failed attempt back.                     *)
(*                                                                         *)
(* A name is a sequence of character codes; the lower case of a code from   *)
(* UPPER on is UPPER less.  A symbol is a number that is never used again,  *)
(* so that a symbol that was freed can be told from one that lives.         *)
EXTENDS Integers, Sequences, SequencesExt

CONSTANTS Names,        \* the names a source mentions
          HTSIZE,       \* buckets of the table, SYMHTABSIZE in the program
          UPPER,        \* the distance of upper to lower case codes
          MaxSymbols    \* a bound on the symbols ever created

\* " *current pc dummy*", a name no source can mention.
CPC == << >>
Name == Names \cup {CPC}

ASSUME SymtabAssumption == /\ \A n \in Names : n \in Seq(0 .. 2 * UPPER - 1)
                           /\ CPC \notin Names
                           /\ HTSIZE \in Nat \ {0} /\ UPPER \in Nat \ {0} /\ MaxSymbols \in Nat

VARIABLES nocase,       \* option -nocase
          symhash,      \* bucket -> the chain of its entries [name, data]
          first_symbol, \* the list of symbols, the one added last first
          symbols,      \* what every symbol ever created is: [name, type, flags]
          curpc,        \* cpc of expr.c: the symbol of the current pc, or None
          saved_symbol, \* the head of the list when save_symbols was called, or None
          firstprot,    \* the protected symbols restore_symbols has met
          attempt,      \* new_inst is idle, parsing operands or undoing an attempt
          opsyms,          \* the symbols in the operands of the attempt
          insts         \* the symbols in the operands of the instructions made

symvars == << nocase, symhash, first_symbol, symbols, curpc, saved_symbol, firstprot, attempt, opsyms, insts >>

-----------------------------------------------------------------------------
(* symtab.c                                                                *)

tolower(c) == IF c >= UPPER THEN c - UPPER ELSE c
Lower(name) == [i \in DOMAIN name |-> tolower(name[i])]

\* hashcode and hashcode_nc; the program's table tells only the low 16 bits apart.
hashcode(name) ==
    LET h[i \in 0 .. Len(name)] == IF i = 0 THEN 5381 ELSE (h[i - 1] * 33 + name[i]) % 65536
    IN  h[Len(name)]
Bucket(name, no_case) == hashcode(IF no_case THEN Lower(name) ELSE name) % HTSIZE
SameName(a, b, no_case) == a = b \/ (no_case /\ Lower(a) = Lower(b))

\* A mutant: the bucket is that of the name as it is written.
add_hashentry_cased(ht, name, data, no_case) ==
    [ht EXCEPT ![Bucket(name, FALSE)] = << [name |-> name, data |-> data] >> \o @]

add_hashentry(ht, name, data, no_case) ==
    [ht EXCEPT ![Bucket(name, no_case)] = << [name |-> name, data |-> data] >> \o @]

\* The first entry of a chain with the name, or 0.
Position(chain, name, no_case) ==
    LET Is(i) == SameName(chain[i].name, name, no_case)
    IN  IF \E i \in DOMAIN chain : Is(i)
        THEN CHOOSE i \in DOMAIN chain : Is(i) /\ \A j \in 1 .. i - 1 : ~Is(j)
        ELSE 0

\* Removing a name that is not there is an internal error; no caller does it.
rem_hashentry(ht, name, no_case) ==
    LET b == Bucket(name, no_case)
        i == Position(ht[b], name, no_case)
    IN  [ht EXCEPT ![b] = IF i = 0 THEN @ ELSE RemoveAt(@, i)]

None == 0
\* find_name and find_name_nc
find_name(ht, name, no_case) ==
    LET b == Bucket(name, no_case)
        i == Position(ht[b], name, no_case)
    IN  IF i = 0 THEN None ELSE ht[b][i].data

-----------------------------------------------------------------------------
(* symbol.c                                                                *)

find_symbol(name) == find_name(symhash, name, nocase)

Newest == Len(symbols) + 1
add_symbol(name, type, flags) ==
    /\ Newest <= MaxSymbols
    /\ first_symbol' = << Newest >> \o first_symbol
    /\ symbols' = Append(symbols, [name |-> name, type |-> type, flags |-> flags])
    /\ symhash' = add_hashentry(symhash, name, Newest, nocase)

\* new_import: an existing symbol is returned as it is.
new_import(name) ==
    IF find_symbol(name) # None THEN UNCHANGED << first_symbol, symbols, symhash >>
    ELSE add_symbol(name, "IMPORT", {})

\* new_abs, new_equate and new_labsym: an existing symbol gets a new meaning.
Define(name, type) ==
    /\ attempt = "idle"
    /\ LET s == find_symbol(name)
       IN  IF s # None
           THEN /\ symbols' = [symbols EXCEPT ![s].type = IF @ = "INTERNAL" THEN @ ELSE type]
                /\ UNCHANGED << first_symbol, symhash >>
           ELSE add_symbol(name, type, {})
    /\ UNCHANGED << nocase, curpc, saved_symbol, firstprot, attempt, opsyms, insts >>

\* refer_symbol: a second name for an internal symbol, one that no symbol has.
Refer(sym, name) ==
    /\ attempt = "idle" /\ Contains(first_symbol, sym) /\ symbols[sym].type = "INTERNAL"
    /\ find_symbol(name) = None
    /\ symhash' = add_hashentry(symhash, name, sym, nocase)
    /\ UNCHANGED << nocase, first_symbol, symbols, curpc, saved_symbol, firstprot, attempt, opsyms, insts >>

\* rem_symbol: fix_labels removes an equate that stands for an imported symbol,
\* when relocations have taken the place of the operands.
RemoveSymbol(sym) ==
    /\ attempt = "idle" /\ Contains(first_symbol, sym) /\ symbols[sym].type = "EXPRESSION"
    /\ first_symbol' = RemoveAt(first_symbol, CHOOSE i \in DOMAIN first_symbol : first_symbol[i] = sym)
    /\ symhash' = rem_hashentry(symhash, symbols[sym].name, nocase)
    /\ insts' = {}
    /\ UNCHANGED << nocase, symbols, curpc, saved_symbol, firstprot, attempt, opsyms >>

-----------------------------------------------------------------------------
(* new_inst.  It tries one mnemonic of the name after the other; an operand *)
(* may mention a name or the current pc before the attempt fails.          *)

\* save_symbols.  An empty list is not saved.
SaveSymbols ==
    /\ attempt = "idle"
    /\ saved_symbol' = IF first_symbol = << >> THEN None ELSE Head(first_symbol)
    /\ attempt' = "parse" /\ opsyms' = {}
    /\ UNCHANGED << nocase, symhash, first_symbol, symbols, curpc, firstprot, insts >>

\* curpc_expr: a protected label, made by the first operand that mentions the pc
\* and looked up in the table no more.
curpc_expr ==
    IF curpc # None THEN UNCHANGED << first_symbol, symbols, symhash, curpc >>
    ELSE /\ add_symbol(CPC, "LABSYM", {"VASMINTERN", "PROTECTED"})
         /\ curpc' = Newest

\* parse_operand, for each symbol it comes across.
ParseOperand(name) ==
    /\ attempt = "parse"
    /\ IF name = CPC
       THEN /\ curpc_expr
            /\ opsyms' = opsyms \cup {curpc'}
       ELSE /\ new_import(name) /\ UNCHANGED curpc
            /\ opsyms' = opsyms \cup {IF find_symbol(name) # None THEN find_symbol(name) ELSE Newest}
    /\ UNCHANGED << nocase, saved_symbol, firstprot, attempt, insts >>

\* The operands match: an instruction is made from them.
Match ==
    /\ attempt = "parse" /\ attempt' = "idle"
    /\ insts' = insts \cup opsyms /\ opsyms' = {}
    /\ UNCHANGED << nocase, symhash, first_symbol, symbols, curpc, saved_symbol, firstprot >>

\* They do not, or never will: restore_symbols is called.
NoMatch ==
    /\ attempt = "parse"
    /\ attempt' = IF saved_symbol = None THEN "idle" ELSE "undo"
    /\ opsyms' = {}
    /\ UNCHANGED << nocase, symhash, first_symbol, symbols, curpc, saved_symbol, firstprot, insts >>

\* A mutant: protected symbols go with the others.
TakeBackAll ==
    /\ attempt = "undo" /\ Head(first_symbol) # saved_symbol
    /\ first_symbol' = Tail(first_symbol)
    /\ symhash' = rem_hashentry(symhash, symbols[Head(first_symbol)].name, nocase)
    /\ UNCHANGED << nocase, symbols, curpc, saved_symbol, firstprot, attempt, opsyms, insts >>

\* restore_symbols, its loop: a symbol added since save_symbols is freed, unless
\* it is protected.
TakeBack ==
    /\ attempt = "undo" /\ Head(first_symbol) # saved_symbol
    /\ first_symbol' = Tail(first_symbol)
    /\ LET sym == Head(first_symbol)
       IN  IF "PROTECTED" \in symbols[sym].flags
           THEN firstprot' = << sym >> \o firstprot /\ UNCHANGED symhash
           ELSE symhash' = rem_hashentry(symhash, symbols[sym].name, nocase) /\ UNCHANGED firstprot
    /\ UNCHANGED << nocase, symbols, curpc, saved_symbol, attempt, opsyms, insts >>

\* restore_symbols, its end: the protected symbols are put back.
Restored ==
    /\ attempt = "undo" /\ Head(first_symbol) = saved_symbol
    /\ first_symbol' = firstprot \o first_symbol
    /\ firstprot' = << >> /\ saved_symbol' = None /\ attempt' = "idle"
    /\ UNCHANGED << nocase, symhash, symbols, curpc, opsyms, insts >>

-----------------------------------------------------------------------------
SymInit ==
    /\ nocase \in BOOLEAN
    /\ symhash = [b \in 0 .. HTSIZE - 1 |-> << >>]
    /\ first_symbol = << >> /\ symbols = << >> /\ curpc = None
    /\ saved_symbol = None /\ firstprot = << >> /\ attempt = "idle" /\ opsyms = {} /\ insts = {}

SymNext ==
    \/ \E n \in Names, type \in {"EXPRESSION", "LABSYM", "INTERNAL"} : Define(n, type)
    \/ \E sym \in 1 .. Len(symbols) : \/ \E n \in Names : Refer(sym, n)
                                      \/ RemoveSymbol(sym)
    \/ SaveSymbols
    \/ \E n \in Name : ParseOperand(n)
    \/ Match \/ NoMatch \/ TakeBack \/ Restored

SymSpec == SymInit /\ [][SymNext]_symvars

\* Whenever the parser goes on, every name is found in the table as in the list:
\* a symbol of the list under its name, in any case with -nocase; no name leads to
\* a freed symbol; and neither instructions, nor the operands of the attempt, nor
\* the parser, for the pc, hold one.  new_inst() takes symbols back between
\* attempts (atom.c:51, 73, 103), the chains and the list apart.
SymbolsFound ==
    attempt # "undo" =>
      /\ \A s \in ToSet(first_symbol) : find_symbol(symbols[s].name) = s
      /\ \A b \in DOMAIN symhash : \A e \in ToSet(symhash[b]) :
            e.data \in ToSet(first_symbol) /\ find_symbol(e.name) = e.data
      /\ nocase => \A n \in Names : find_symbol(Lower(n)) = find_symbol(n)
      /\ insts \cup opsyms \subseteq ToSet(first_symbol)
      /\ curpc # None => curpc \in ToSet(first_symbol)
=============================================================================
