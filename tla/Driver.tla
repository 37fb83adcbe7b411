------------------------------- MODULE Driver -------------------------------
(* main() and leave() of vasm.c and the error reporting of error.c: the     *)
(* order of the phases, what errors and warnings skip or end, and what is   *)
(* left behind: the exit status and the object file.                        *)
(*                                                                         *)
(* What a phase does is modelled elsewhere; here it raises messages, each   *)
(* with the source line that is current (0 for none).                       *)
EXTENDS Integers, Sequences, FiniteSets

CONSTANTS MaxLine,      \* lines of the source
          MaxRaised     \* a bound on the messages raised

ASSUME DriverAssumption == MaxLine \in Nat \ {0} /\ MaxRaised \in Nat

VARIABLES phase,        \* the phase main() is in
          opts,         \* the options given
          disabled,     \* messages with the flag DISABLED
          errors, warnings,
          last_err,     \* the static variables of error(): [no, line], line 0 for none
          line,         \* cur_src->line while parsing
          outfile,      \* "none", "open", "closed" or "removed"
          status,       \* "running", "success" or "failure"
          raised,       \* history: the messages raised and not suppressed by an option
          count         \* history: how many were raised

drvvars == << phase, opts, disabled, errors, warnings, last_err, line, outfile, status, raised, count >>

-----------------------------------------------------------------------------
(* Messages: one of each kind of flags, and a second error and warning.     *)

Messages == { "message", "warning", "warning2", "error", "error2", "fatal" }
WARNING == { "warning", "warning2" }
ERROR == { "error", "error2", "fatal" }
FATAL == { "fatal" }
MESSAGE == { "message" }

\* The phases in their order; "exit" is leave().
Order == << "options", "parse", "resolve", "assemble", "fix_labels", "write_listing", "write_symbols",
            "write_depends", "open_object", "write_object", "exit" >>

\* nostdout: dependencies go to stdout and nothing else.
nostdout == phase # "options" /\ opts.depend /\ ~opts.depfile

\* Does main() do what the phase is for?
Wanted(p) ==
    /\ p \in { "resolve", "assemble" } => errors = 0 \/ opts.listing
    /\ p = "fix_labels" => errors = 0
    /\ p = "write_listing" => opts.listing
    /\ p = "write_symbols" => opts.symbols /\ errors = 0
    /\ p = "write_depends" => errors = 0 /\ opts.depend
    /\ p \in { "open_object", "write_object" } => errors = 0 /\ (opts.depend => opts.depfile)

Following(p) == LET Is(i) == Order[i] = p
                    i == CHOOSE i \in DOMAIN Order : Is(i)
                    j == CHOOSE j \in i + 1 .. Len(Order) :
                            Wanted(Order[j]) /\ \A k \in i + 1 .. j - 1 : ~Wanted(Order[k])
                IN  Order[j]

\* A mutant: an object file that was begun stays.
leave_open(errs, warns) ==
    /\ phase' = "exit"
    /\ outfile' = IF outfile = "open" THEN "closed" ELSE outfile
    /\ status' = IF errs > 0 \/ (opts.wfail /\ warns > 0) THEN "failure" ELSE "success"

\* leave() with these counts: closes the object file, and removes it after errors.
leave(errs, warns) ==
    /\ phase' = "exit"
    /\ outfile' = IF outfile = "open" THEN (IF errs > 0 THEN "removed" ELSE "closed") ELSE outfile
    /\ status' = IF errs > 0 \/ (opts.wfail /\ warns > 0) THEN "failure" ELSE "success"

-----------------------------------------------------------------------------
(* error()                                                                 *)

\* Hidden by an option.
Hidden(m) == \/ m \in disabled
             \/ m \in WARNING /\ opts.no_warn
             \/ m \in MESSAGE /\ nostdout

\* A mutant: an error in the line of the last one is taken for the same.
Repeated_line(m, at) == m \notin MESSAGE /\ at # 0 /\ last_err.line = at

\* The same error again: the line is looked at in several passes.
Repeated(m, at) == m \notin MESSAGE /\ at # 0 /\ last_err = [no |-> m, line |-> at]

Reported(m, at) ==
    /\ last_err' = IF at = 0 THEN last_err ELSE [no |-> m, line |-> at]
    /\ errors' = errors + (IF m \in ERROR THEN 1 ELSE 0)
    /\ warnings' = warnings + (IF m \in WARNING THEN 1 ELSE 0)
    /\ IF m \in FATAL \/ (m \in ERROR /\ opts.max_errors # 0 /\ errors' >= opts.max_errors)
       THEN leave(errors', warnings')
       ELSE UNCHANGED << phase, outfile, status >>

error(m, at) ==
    /\ raised' = IF Hidden(m) THEN raised ELSE raised \cup { m }
    /\ count' = count + 1
    /\ IF Hidden(m) \/ Repeated(m, at)
       THEN UNCHANGED << last_err, errors, warnings, phase, outfile, status >>
       ELSE Reported(m, at)

-----------------------------------------------------------------------------
(* main()                                                                  *)

NoOptions == [no_warn |-> FALSE, wfail |-> FALSE, max_errors |-> 5, listing |-> FALSE,
              symbols |-> FALSE, depend |-> FALSE, depfile |-> FALSE]

DrvInit ==
    /\ phase = "options"
    /\ opts = NoOptions
    /\ disabled = {} /\ errors = 0 /\ warnings = 0
    /\ last_err = [no |-> "message", line |-> 0] /\ line = 1
    /\ outfile = "none" /\ status = "running" /\ raised = {} /\ count = 0

\* An option that sets a variable.
SetOption(name, value) ==
    /\ phase = "options" /\ name \in DOMAIN opts
    /\ opts' = [opts EXCEPT ![name] = value]
    /\ UNCHANGED << phase, disabled, errors, warnings, last_err, line, outfile, status, raised, count >>

\* -nowarn=<n> and -nomsg=<n>: a number that is no warning or message is an error.
Disable(type, m) ==
    /\ phase = "options" /\ count < MaxRaised
    /\ UNCHANGED << opts, line >>
    /\ IF m \in type
       THEN /\ disabled' = disabled \cup { m }
            /\ UNCHANGED << phase, errors, warnings, last_err, outfile, status, raised, count >>
       ELSE error("error", 0) /\ UNCHANGED disabled

\* A message of the current phase.  Only those that go through the atoms or the
\* source have a current line; write_object has one in output_atom_error.
Raise(m, at) ==
    /\ phase # "exit" /\ phase # "open_object" /\ count < MaxRaised
    /\ \/ phase = "parse" /\ at = line
       \/ phase \in { "resolve", "assemble" } /\ at \in 1 .. MaxLine
       \/ phase = "write_object" /\ at \in 0 .. MaxLine
       \/ phase \notin { "parse", "resolve", "assemble", "write_object" } /\ at = 0
    /\ phase \in { "write_listing", "write_symbols", "write_depends" } => m = "fatal"   \* cannot open
    /\ error(m, at)
    /\ UNCHANGED << opts, disabled, line >>

NextLine ==
    /\ phase = "parse" /\ line < MaxLine
    /\ line' = line + 1
    /\ UNCHANGED << phase, opts, disabled, errors, warnings, last_err, outfile, status, raised, count >>

\* main() goes on to the next phase it wants.
Proceed ==
    /\ phase \notin { "exit", "open_object" }
    /\ phase = "parse" => line = MaxLine
    /\ LET next == IF phase = "options" /\ errors > 0 THEN "exit" ELSE Following(phase)
       IN  IF next = "exit" THEN leave(errors, warnings)
           ELSE phase' = next /\ UNCHANGED << outfile, status >>
    /\ UNCHANGED << opts, disabled, errors, warnings, last_err, line, raised, count >>

OpenObject ==
    /\ phase = "open_object"
    /\ \/ outfile' = "open" /\ phase' = "write_object"
          /\ UNCHANGED << errors, warnings, last_err, status, raised, count >>
       \/ count < MaxRaised /\ error("fatal", 0)
    /\ UNCHANGED << opts, disabled, line >>

DrvNext ==
    \/ \E name \in { "no_warn", "wfail", "listing", "symbols", "depend", "depfile" } : SetOption(name, TRUE)
    \/ \E n \in 0 .. 2 : SetOption("max_errors", n)
    \/ \E m \in Messages : Disable(WARNING, m) \/ Disable(MESSAGE, m)
    \/ \E m \in Messages, at \in 0 .. MaxLine : Raise(m, at)
    \/ NextLine \/ Proceed \/ OpenObject

DrvSpec == DrvInit /\ [][DrvNext]_drvvars

\* What vasm leaves behind says whether there was an error: the exit status is
\* failure exactly when an error was raised, or a warning with -wfail, and an
\* object file stays exactly when none was, whatever was suppressed as a
\* repetition, disabled, or raised after the file had been begun
\* (leave(), vasm.c:91; error(), error.c:86).
ExitTells ==
    phase = "exit" =>
        /\ status = "failure" <=> raised \cap ERROR # {} \/ (opts.wfail /\ raised \cap WARNING # {})
        /\ outfile = "closed" <=> raised \cap ERROR = {} /\ (opts.depend => opts.depfile)
        /\ outfile # "open"
=============================================================================
