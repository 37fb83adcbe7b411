---------------------------- MODULE DriverProof ----------------------------
(***************************************************************************)
(* Proof that the exit status and the object file tell whether there was   *)
(* an error, for every number of lines and messages.                       *)
(***************************************************************************)
EXTENDS Driver, Wellorder, TLAPS

Phases == { "options", "parse", "resolve", "assemble", "fix_labels", "write_listing", "write_symbols",
            "write_depends", "open_object", "write_object", "exit" }
Options == [no_warn : BOOLEAN, wfail : BOOLEAN, max_errors : Nat, listing : BOOLEAN,
            symbols : BOOLEAN, depend : BOOLEAN, depfile : BOOLEAN]

DrvTypeOK ==
    /\ phase \in Phases
    /\ opts \in Options
    /\ errors \in Nat /\ warnings \in Nat
    /\ last_err \in [no : Messages, line : Nat]
    /\ outfile \in { "none", "open", "closed", "removed" }
    /\ status \in { "running", "success", "failure" }
    /\ raised \in SUBSET Messages

\* The counters say whether there was an error or a warning: what error() does
\* not count because it repeats the last message was counted then.
Counted ==
    /\ raised \cap ERROR # {} <=> errors > 0
    /\ raised \cap WARNING # {} <=> warnings > 0
    /\ last_err.line # 0 => /\ last_err.no \in ERROR => errors > 0
                            /\ last_err.no \in WARNING => warnings > 0

\* The object file is open while it is written, and main() does not get there
\* with an error or when dependencies go to stdout.
FileKept ==
    /\ phase = "open_object" => errors = 0
    /\ phase \in { "open_object", "write_object" } => (opts.depend => opts.depfile)
    /\ phase = "write_object" => outfile = "open"
    /\ phase \notin { "write_object", "exit" } => outfile = "none"
    /\ phase = "exit" => /\ status = "failure" <=> errors > 0 \/ (opts.wfail /\ warnings > 0)
                         /\ outfile = "closed" <=> errors = 0 /\ (opts.depend => opts.depfile)
                         /\ outfile # "open"

DInv == DrvTypeOK /\ Counted /\ FileKept
-----------------------------------------------------------------------------
\* The steps of main, one by one.
LEMMA OrderFacts ==
    /\ Len(Order) = 11 /\ DOMAIN Order = 1 .. 11
    /\ Order[1] = "options" /\ Order[2] = "parse" /\ Order[3] = "resolve" /\ Order[4] = "assemble"
    /\ Order[5] = "fix_labels" /\ Order[6] = "write_listing" /\ Order[7] = "write_symbols"
    /\ Order[8] = "write_depends" /\ Order[9] = "open_object" /\ Order[10] = "write_object"
    /\ Order[11] = "exit"
  BY DEF Order

\* No option leaves out the last step.
LEMMA ExitWanted == Wanted("exit")
  BY DEF Wanted

\* main() goes on to the first phase behind that it wants.
LEMMA FollowingFirst ==
    ASSUME NEW i \in 1 .. 10
    PROVE  \E j \in i + 1 .. 11 : /\ Following(Order[i]) = Order[j] /\ Wanted(Order[j])
                                  /\ \A k \in i + 1 .. j - 1 : ~Wanted(Order[k])
  <1> DEFINE T == { j \in i + 1 .. 11 : Wanted(Order[j]) }
             First(m, j) == Wanted(Order[j]) /\ \A k \in m + 1 .. j - 1 : ~Wanted(Order[k])
  <1>1. T # {} /\ T \subseteq Nat
    <2>1. 11 \in T
      BY ExitWanted, OrderFacts
    <2> QED BY <2>1
  <1>2. PICK x \in T : \A y \in T : x <= y
    BY <1>1, Least
  <1>3. x \in i + 1 .. 11 /\ First(i, x)
    <2>1. ASSUME NEW k \in i + 1 .. x - 1, Wanted(Order[k]) PROVE FALSE
      BY <1>2, <2>1
    <2> QED BY <1>2, <2>1
  <1>4. (CHOOSE n \in DOMAIN Order : Order[n] = Order[i]) = i
    BY OrderFacts
  <1> DEFINE c == CHOOSE j \in i + 1 .. 11 : First(i, j)
  <1>5. c \in i + 1 .. 11 /\ First(i, c)
    BY <1>3
  <1>6. Following(Order[i]) = Order[c]
    BY <1>4, OrderFacts DEF Following
  <1> QED BY <1>5, <1>6

\* Without an error, the phases in front of the object file lead to it, unless
\* dependencies are all that is wanted; with one they never do.
LEMMA FollowingFacts ==
    ASSUME DInv, phase \notin { "exit", "open_object" }
    PROVE  /\ Following(phase) \in Phases \ { "options", "write_object" }
           /\ Following(phase) = "open_object" => errors = 0 /\ (opts.depend => opts.depfile)
           /\ phase = "write_object" => Following(phase) = "exit"
           /\ Following(phase) = "exit" /\ phase # "write_object" =>
                  ~(errors = 0 /\ (opts.depend => opts.depfile))
  <1>1. PICK i \in 1 .. 10 : phase = Order[i] /\ i # 9
    BY OrderFacts DEF DInv, DrvTypeOK, Phases
  <1>2. PICK j \in i + 1 .. 11 : /\ Following(phase) = Order[j] /\ Wanted(Order[j])
                                 /\ \A k \in i + 1 .. j - 1 : ~Wanted(Order[k])
    BY <1>1, FollowingFirst
  <1> DEFINE OneOf(n) == n = 1 \/ n = 2 \/ n = 3 \/ n = 4 \/ n = 5 \/ n = 6 \/ n = 7 \/ n = 8 \/ n = 9 \/ n = 10 \/ n = 11
  <1>e. OneOf(i) /\ OneOf(j)
    BY <1>1, <1>2
  <1>i. phase = "write_object" <=> i = 10
    BY <1>1, <1>e, OrderFacts
  <1>j. Following(phase) = "exit" <=> j = 11
    BY <1>2, <1>e, OrderFacts
  <1>3. /\ Wanted("open_object") <=> errors = 0 /\ (opts.depend => opts.depfile)
        /\ Wanted("write_object") <=> Wanted("open_object")
    BY DEF Wanted
  <1>4. j = 10 => FALSE
    <2>1. SUFFICES ASSUME j = 10 PROVE FALSE
      OBVIOUS
    <2>2. Wanted(Order[10]) /\ ~Wanted(Order[9])
      BY <1>1, <1>2, <2>1
    <2> QED BY <1>3, <2>2, OrderFacts
  <1>5. Following(phase) \in Phases \ { "options", "write_object" }
    BY <1>2, <1>4, OrderFacts DEF Phases
  <1>6. Following(phase) = "open_object" => j = 9
    BY <1>2, <1>e, OrderFacts
  <1>7. phase = "write_object" => Following(phase) = "exit"
    BY <1>2, <1>i, <1>j
  <1>8. Following(phase) = "exit" /\ phase # "write_object" => ~Wanted("open_object")
    <2>1. SUFFICES ASSUME Following(phase) = "exit", phase # "write_object" PROVE ~Wanted("open_object")
      OBVIOUS
    <2>2. j = 11 /\ i < 9
      BY <1>1, <1>2, <1>i, <1>j, <2>1
    <2>3. 9 \in i + 1 .. j - 1
      BY <2>2
    <2> QED BY <1>2, <2>3, OrderFacts
  <1> QED BY <1>2, <1>3, <1>5, <1>6, <1>7, <1>8, OrderFacts

-----------------------------------------------------------------------------
(* error() and leave()                                                     *)

\* error() keeps the invariant wherever main() calls it.
LEMMA ErrorKeeps ==
    ASSUME DInv, phase # "exit", NEW m \in Messages, NEW at \in Nat, error(m, at), UNCHANGED opts,
           phase = "open_object" => m = "fatal"
    PROVE  DInv'
  <1> DEFINE IsError == m \in ERROR
             IsWarning == m \in WARNING
  <1>1. ~(IsError /\ IsWarning)
    BY DEF ERROR, WARNING
  <1>2. ASSUME raised' = raised \cup { m }
        PROVE  /\ raised' \cap ERROR # {} <=> raised \cap ERROR # {} \/ IsError
               /\ raised' \cap WARNING # {} <=> raised \cap WARNING # {} \/ IsWarning
               /\ raised' \in SUBSET Messages
    BY <1>2 DEF DInv, DrvTypeOK
  <1>3. CASE Hidden(m)
    <2>1. UNCHANGED << last_err, errors, warnings, phase, outfile, status, raised >>
      BY <1>3 DEF error
    <2> QED BY <2>1 DEF DInv, DrvTypeOK, Counted, FileKept
  <1>4. CASE ~Hidden(m) /\ Repeated(m, at)
    <2>1. UNCHANGED << last_err, errors, warnings, phase, outfile, status >> /\ raised' = raised \cup { m }
      BY <1>4 DEF error
    <2>2. last_err.line # 0 /\ last_err.no = m
      BY <1>4 DEF Repeated
    <2>3. Counted'
      BY <1>2, <2>1, <2>2 DEF DInv, Counted
    <2>4. DrvTypeOK' /\ FileKept'
      BY <1>2, <2>1 DEF DInv, DrvTypeOK, FileKept
    <2> QED BY <2>3, <2>4 DEF DInv
  <1>5. CASE ~Hidden(m) /\ ~Repeated(m, at)
    <2>1. Reported(m, at) /\ raised' = raised \cup { m }
      BY <1>5 DEF error
    <2>2. /\ errors' = errors + (IF IsError THEN 1 ELSE 0)
          /\ warnings' = warnings + (IF IsWarning THEN 1 ELSE 0)
          /\ last_err' = IF at = 0 THEN last_err ELSE [no |-> m, line |-> at]
      BY <2>1 DEF Reported
    <2>3. errors \in Nat /\ warnings \in Nat /\ last_err \in [no : Messages, line : Nat]
      BY DEF DInv, DrvTypeOK
    <2>4. /\ errors' \in Nat /\ warnings' \in Nat /\ errors' >= errors
          /\ errors' > 0 <=> errors > 0 \/ IsError
          /\ warnings' > 0 <=> warnings > 0 \/ IsWarning
      BY <2>2, <2>3
    <2>5. last_err' \in [no : Messages, line : Nat]
      BY <2>2, <2>3
    <2>6. Counted'
      <3>1. last_err'.line # 0 => last_err' = last_err \/ last_err'.no = m
        BY <2>2, <2>3
      <3> QED BY <1>2, <2>1, <2>4, <3>1 DEF DInv, Counted
    <2>7. CASE m \in FATAL \/ (m \in ERROR /\ opts.max_errors # 0 /\ errors' >= opts.max_errors)
      <3>1. leave(errors', warnings') /\ IsError
        BY <2>1, <2>7 DEF Reported, FATAL, ERROR
      <3>2. /\ phase' = "exit" /\ errors' > 0
            /\ outfile' = IF outfile = "open" THEN "removed" ELSE outfile
            /\ status' = "failure"
        BY <2>4, <3>1 DEF leave
      <3>3. outfile \in { "none", "open" }
        BY DEF DInv, DrvTypeOK, FileKept, Phases
      <3>4. DrvTypeOK'
        BY <1>2, <2>1, <2>4, <2>5, <3>2, <3>3 DEF DInv, DrvTypeOK, Phases
      <3>5. FileKept'
        BY <2>4, <3>2, <3>3 DEF FileKept
      <3> QED BY <2>6, <3>4, <3>5 DEF DInv
    <2>8. CASE ~(m \in FATAL \/ (m \in ERROR /\ opts.max_errors # 0 /\ errors' >= opts.max_errors))
      <3>1. UNCHANGED << phase, outfile, status >>
        BY <2>1, <2>8 DEF Reported
      <3>2. phase # "open_object"
        BY <2>8 DEF FATAL
      <3>3. DrvTypeOK'
        BY <1>2, <2>1, <2>4, <2>5, <3>1 DEF DInv, DrvTypeOK
      <3>4. FileKept'
        BY <3>1, <3>2 DEF DInv, FileKept
      <3> QED BY <2>6, <3>3, <3>4 DEF DInv
    <2> QED BY <2>7, <2>8
  <1> QED BY <1>3, <1>4, <1>5

-----------------------------------------------------------------------------
\* vasm starts with no error, no file and no message.
LEMMA DInvInit == DrvInit => DInv
  <1> SUFFICES ASSUME DrvInit PROVE DInv
    OBVIOUS
  <1>1. DrvTypeOK
    BY DEF DrvInit, DrvTypeOK, NoOptions, Options, Phases, Messages
  <1>2. Counted
    BY DEF DrvInit, Counted, ERROR, WARNING
  <1>3. FileKept
    BY DEF DrvInit, FileKept
  <1> QED BY <1>1, <1>2, <1>3 DEF DInv

\* Every step of main and every message keeps DInv.
LEMMA DInvNext == DInv /\ [DrvNext]_drvvars => DInv'
  <1> SUFFICES ASSUME DInv, [DrvNext]_drvvars PROVE DInv'
    OBVIOUS
  <1>1. ASSUME NEW name \in { "no_warn", "wfail", "listing", "symbols", "depend", "depfile" }, SetOption(name, TRUE)
        PROVE  DInv'
    <2>1. opts' \in Options
      BY <1>1 DEF SetOption, DInv, DrvTypeOK, Options
    <2> QED BY <1>1, <2>1 DEF SetOption, DInv, DrvTypeOK, Counted, FileKept
  <1>2. ASSUME NEW n \in 0 .. 2, SetOption("max_errors", n) PROVE DInv'
    <2>1. opts' \in Options
      BY <1>2 DEF SetOption, DInv, DrvTypeOK, Options
    <2> QED BY <1>2, <2>1 DEF SetOption, DInv, DrvTypeOK, Counted, FileKept
  <1>3. ASSUME NEW type, NEW m, Disable(type, m) PROVE DInv'
    <2>1. CASE m \in type
      BY <1>3, <2>1 DEF Disable, DInv, DrvTypeOK, Counted, FileKept
    <2>2. CASE m \notin type
      <3>1. error("error", 0) /\ UNCHANGED opts /\ phase = "options"
        BY <1>3, <2>2 DEF Disable
      <3> QED BY <3>1, ErrorKeeps DEF Messages
    <2> QED BY <2>1, <2>2
  <1>4. ASSUME NEW m \in Messages, NEW at \in 0 .. MaxLine, Raise(m, at) PROVE DInv'
    <2>1. error(m, at) /\ UNCHANGED opts /\ phase # "exit" /\ phase # "open_object" /\ at \in Nat
      BY <1>4, DriverAssumption DEF Raise
    <2> QED BY <2>1, ErrorKeeps
  <1>5. CASE NextLine
    BY <1>5 DEF NextLine, DInv, DrvTypeOK, Counted, FileKept
  <1>6. CASE Proceed
    <2> DEFINE next == IF phase = "options" /\ errors > 0 THEN "exit" ELSE Following(phase)
    <2>1. /\ phase \notin { "exit", "open_object" }
          /\ IF next = "exit" THEN leave(errors, warnings)
             ELSE phase' = next /\ UNCHANGED << outfile, status >>
          /\ UNCHANGED << opts, errors, warnings, last_err, raised >>
      BY <1>6 DEF Proceed
    <2>2. Counted'
      BY <2>1 DEF DInv, Counted
    <2>3. /\ next \in Phases \ { "options", "write_object" }
          /\ next = "open_object" => errors = 0 /\ (opts.depend => opts.depfile)
          /\ phase = "write_object" => next = "exit"
          /\ next = "exit" /\ phase # "write_object" => ~(errors = 0 /\ (opts.depend => opts.depfile))
      BY <2>1, FollowingFacts DEF Phases, DInv, DrvTypeOK
    <2> HIDE DEF next
    <2>4. CASE next = "exit"
      <3>1. /\ phase' = "exit"
            /\ outfile' = IF outfile = "open" THEN (IF errors > 0 THEN "removed" ELSE "closed") ELSE outfile
            /\ status' = IF errors > 0 \/ (opts.wfail /\ warnings > 0) THEN "failure" ELSE "success"
        BY <2>1, <2>4 DEF leave
      <3>2. DrvTypeOK'
        BY <2>1, <3>1 DEF DInv, DrvTypeOK, Phases
      <3>3. /\ phase = "write_object" => outfile = "open" /\ (opts.depend => opts.depfile)
            /\ phase # "write_object" => outfile = "none"
            /\ errors \in Nat
        BY <2>1 DEF DInv, DrvTypeOK, FileKept
      <3>4. FileKept'
        BY <2>1, <2>3, <2>4, <3>1, <3>3 DEF FileKept
      <3> QED BY <2>2, <3>2, <3>4 DEF DInv
    <2>5. CASE next # "exit"
      <3>1. phase' = next /\ UNCHANGED << outfile, status >> /\ phase # "write_object"
        BY <2>1, <2>3, <2>5
      <3>2. DrvTypeOK'
        BY <2>1, <2>3, <3>1 DEF DInv, DrvTypeOK
      <3>3. FileKept'
        BY <2>1, <2>3, <2>5, <3>1 DEF DInv, FileKept
      <3> QED BY <2>2, <3>2, <3>3 DEF DInv
    <2> QED BY <2>4, <2>5
  <1>7. CASE OpenObject
    <2>1. CASE outfile' = "open" /\ phase' = "write_object"
               /\ UNCHANGED << errors, warnings, last_err, status, raised, count >>
      BY <1>7, <2>1 DEF OpenObject, DInv, DrvTypeOK, Counted, FileKept, Phases
    <2>2. CASE error("fatal", 0)
      <3>1. phase = "open_object" /\ UNCHANGED opts
        BY <1>7 DEF OpenObject
      <3> QED BY <2>2, <3>1, ErrorKeeps DEF Messages
    <2> QED BY <1>7, <2>1, <2>2 DEF OpenObject
  <1>8. CASE UNCHANGED drvvars
    BY <1>8 DEF drvvars, DInv, DrvTypeOK, Counted, FileKept
  <1> QED BY <1>1, <1>2, <1>3, <1>4, <1>5, <1>6, <1>7, <1>8 DEF DrvNext

\* At the exit DInv is what the user relies on.
LEMMA DInvImplies == DInv => ExitTells
  BY DEF DInv, DrvTypeOK, Counted, FileKept, ExitTells

\* The exit status is failure exactly when an error was raised, or a warning
\* with -wfail, and an object file stays exactly when none was, for every source
\* length, every order of messages and every set of options (leave(), error()
\* and main()).
THEOREM DriverExitTells == DrvSpec => []ExitTells
  BY DInvInit, DInvNext, DInvImplies, PTL DEF DrvSpec
=============================================================================
