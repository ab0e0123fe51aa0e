---------------------------- MODULE LktkOptions ----------------------------
(***************************************************************************)
(* The command line of lktkit: parse_cmdline, which getopt_long walks      *)
(* through, and which scripts pmain then opens.  An argument is an option  *)
(* with its value, a file name (the dash among them) or the two dashes     *)
(* that end the options.  Long options are other names of the short ones.  *)
(***************************************************************************)
EXTENDS LktkAssert

CONSTANTS
  CommandLines,  \* the command lines to parse: sequences of Option, File, End
  CharIsSigned   \* is plain char, the type of kit.strict, signed?

ASSUME OptionsAssumption ==
  /\ CommandLines \subseteq Seq([kind : {"option", "file", "end"}, name : STRING, value : Int])
  /\ CharIsSigned \in BOOLEAN

VARIABLES
  argv,     \* the arguments, the program's name left out
  scan,     \* position of the argument getopt_long looks at next
  kept,     \* positions of the file names it has passed by
  kit,      \* the settings
  phase,    \* "parsing", "usage" (exit(1)), "scripts", "done"
  before,   \* the argument that stands before the first script after parsing
  scripts,  \* positions of the scripts still to be opened
  opened    \* the opened ones: <<position, "stdin" or "file">>

optionVars == <<argv, scan, kept, kit, phase, before, scripts, opened>>

Option(letter, value) == [kind |-> "option", name |-> letter, value |-> value]
File(name) == [kind |-> "file", name |-> name, value |-> 0]
End == [kind |-> "end", name |-> "--", value |-> 0]
Unreadable == -99    \* the value of -p or -c when sscanf finds no number

\* The options print_usage lists and those getopt_long is told of.
Advertised == {"v", "L", "A", "x", "q", "k", "s", "t", "u", "w", "e", "i", "l", "E"}
Known == {"e", "i", "l", "E", "p", "k", "s", "t", "c", "T", "A", "x", "L", "v", "q"}

NoSettings == [strict |-> 0, verbose |-> 0, syslog |-> 0, interactive |-> 0,
               parallel |-> 0, iterations |-> 0, library |-> 0]

OptionsInit ==
  /\ argv \in CommandLines
  /\ scan = 1 /\ kept = <<>> /\ kit = NoSettings /\ phase = "parsing"
  /\ before = "lktkit" /\ scripts = <<>> /\ opened = <<>>

Scanned(kind) == phase = "parsing" /\ scan <= Len(argv) /\ argv[scan].kind = kind

\* getopt_long moves file names behind the options and goes on.
PassBy ==
  /\ Scanned("file")
  /\ kept' = Append(kept, scan) /\ scan' = scan + 1
  /\ UNCHANGED <<argv, kit, phase, before, scripts, opened>>

\* The settings after an option without a value; k, s and t do nothing yet.
Stored(option, settings, strict) ==
  CASE option = "v" -> [settings EXCEPT !.verbose = 1]
    [] option = "A" -> [settings EXCEPT !.strict = 1]
    [] option = "x" -> [settings EXCEPT !.strict = strict]
    [] option = "L" -> [settings EXCEPT !.syslog = 1]
    [] option = "i" -> [settings EXCEPT !.interactive = 1]
    [] option = "q" -> [settings EXCEPT !.syslog = 0, !.verbose = 0]
    [] OTHER        -> settings

\* Faulty: --quiet leaves the log to syslog on.
WithSwitchQuietPrints(option) ==
  IF option = "q" THEN [kit EXCEPT !.verbose = 0] ELSE Stored(option, kit, -1)

WithSwitch(option) == Stored(option, kit, StoredStrict(CharIsSigned, -1))

Taken(settings) ==
  /\ kit' = settings /\ scan' = scan + 1
  /\ UNCHANGED <<argv, kept, phase, before, scripts, opened>>

TakeSwitch ==
  /\ Scanned("option") /\ argv[scan].name \in {"v", "A", "x", "L", "i", "q", "k", "s", "t"}
  /\ Taken(WithSwitch(argv[scan].name))

TakeNumber ==
  /\ Scanned("option") /\ argv[scan].value # Unreadable
  /\ \/ argv[scan].name = "p" /\ Taken([kit EXCEPT !.parallel = argv[scan].value])
     \/ argv[scan].name = "c" /\ Taken([kit EXCEPT !.iterations = argv[scan].value])

TakeLibrary ==
  /\ Scanned("option") /\ argv[scan].name = "l"
  /\ Taken([kit EXCEPT !.library = argv[scan].value])

\* e, E and T are known to getopt_long but not to the switch; of others it
\* makes '?'.  The program prints its usage and exits.
Usage ==
  /\ Scanned("option")
  /\ \/ argv[scan].name \in {"e", "E", "T"} \cup (Advertised \ Known)
     \/ argv[scan].name \in {"p", "c"} /\ argv[scan].value = Unreadable
  /\ phase' = "usage"
  /\ UNCHANGED <<argv, scan, kept, kit, before, scripts, opened>>

\* The last argument before the file names once getopt_long has moved these.
LastBefore(n) ==
  LET options == {j \in 1..n : argv[j].kind # "file"}
  IN  IF options = {} THEN "lktkit"
      ELSE argv[CHOOSE j \in options : \A k \in options : k <= j].name

\* Faulty: file names given before the two dashes are forgotten.
ScriptsAfterEndOnly ==
  IF Scanned("end") THEN [j \in 1..(Len(argv) - scan) |-> scan + j] ELSE kept

\* *first = optind: the file names passed by, then all that follows the dashes.
ScriptPositions == kept \o [j \in 1..(Len(argv) - scan) |-> scan + j]

EndOfOptions ==
  /\ Scanned("end") \/ (phase = "parsing" /\ scan > Len(argv))
  /\ phase' = "scripts" /\ scripts' = ScriptPositions
  /\ before' = LastBefore(IF scan > Len(argv) THEN Len(argv) ELSE scan)
  /\ UNCHANGED <<argv, scan, kept, kit, opened>>

\* handle_script looks at the argument before the script's name.
OpenScript ==
  /\ phase = "scripts" /\ scripts # <<>>
  /\ LET name == argv[Head(scripts)].name
         stdin == name = "-" /\ before # "--"
     IN  /\ opened' = Append(opened, <<Head(scripts), IF stdin THEN "stdin" ELSE "file">>)
         /\ before' = name
  /\ scripts' = Tail(scripts)
  /\ UNCHANGED <<argv, scan, kept, kit, phase>>

AllOpened ==
  /\ phase = "scripts" /\ scripts = <<>>
  /\ phase' = "done"
  /\ UNCHANGED <<argv, scan, kept, kit, before, scripts, opened>>

OptionsNext == PassBy \/ TakeSwitch \/ TakeNumber \/ TakeLibrary \/ Usage
        \/ EndOfOptions \/ OpenScript \/ AllOpened

OptionsSpec == OptionsInit /\ [][OptionsNext]_optionVars
-----------------------------------------------------------------------------
OptionsTypeOK ==
  /\ argv \in Seq([kind : {"option", "file", "end"}, name : STRING, value : Int])
  /\ scan \in 1..(Len(argv) + 1) /\ kept \in Seq(Nat) /\ scripts \in Seq(Nat)
  /\ phase \in {"parsing", "usage", "scripts", "done"}
  /\ kit \in [strict : {-1, 0, 1, 255}, verbose : 0..1, syslog : 0..1, interactive : 0..1,
              parallel : Int, iterations : Int, library : Int]
  /\ opened \in Seq(Nat \X {"stdin", "file"})

\* The options given before the n-th argument, and the last of some of them.
Given(n, options) == {j \in 1..(n - 1) : argv[j].kind = "option" /\ argv[j].name \in options}
LastIs(n, option, others) ==
  \E j \in Given(n, {option}) : \A k \in Given(n, others) : k <= j
IsLast(n, option, setting) ==
  \A j \in Given(n, {option}) : (\A k \in Given(n, {option}) : k <= j) => setting = argv[j].value

\* Where the options end.
Ends == {j \in 1..Len(argv) : argv[j].kind = "end"} \cup {Len(argv) + 1}
FirstEnd == CHOOSE j \in Ends : \A k \in Ends : j <= k

(***************************************************************************)
(* However options are mixed with script names, the settings a run works   *)
(* with are those of the last option that concerns them (parse_cmdline).   *)
(***************************************************************************)
SettingsAreLast(n) ==
  /\ kit.strict = 1 <=> LastIs(n, "A", {"A", "x"})
  /\ kit.verbose = 1 <=> LastIs(n, "v", {"q"})
  /\ kit.syslog = 1 <=> LastIs(n, "L", {"q"})
  /\ IsLast(n, "p", kit.parallel) /\ IsLast(n, "c", kit.iterations) /\ IsLast(n, "l", kit.library)

(***************************************************************************)
(* After a final --noassert no assertion is evaluated, whatever it is      *)
(* given: kit.strict is a char and must still be negative.                 *)
(***************************************************************************)
NoassertSkips(n) ==
  CharIsSigned /\ LastIs(n, "x", {"A", "x"}) =>
    \A fn \in AssertFunction : Verdict(kit.strict, fn, <<Integer(1), Integer(2)>>) = "skipped"

(***************************************************************************)
(* What parse_cmdline makes of any command line it accepts.                *)
(***************************************************************************)
LastOptionWins ==
  /\ OptionsTypeOK
  /\ phase \in {"scripts", "done"} => SettingsAreLast(FirstEnd) /\ NoassertSkips(FirstEnd)

(***************************************************************************)
(* Every name on the command line that is no option is opened exactly      *)
(* once, in the order given, though getopt_long has moved it (pmain).      *)
(***************************************************************************)
ScriptsInOrder ==
  phase = "done" =>
    /\ \A j, k \in 1..Len(opened) : j < k => opened[j][1] < opened[k][1]
    /\ {opened[j][1] : j \in 1..Len(opened)} = {j \in 1..Len(argv) : argv[j].kind = "file" \/ j > FirstEnd}
=============================================================================
