-------------------------- MODULE LktkOptionsProofs --------------------------
(***************************************************************************)
(* Theorems about LktkOptions, for command lines of any length.  While     *)
(* getopt_long scans, the settings are those of the options it has seen    *)
(* (Parsed) and the file names it has passed by are kept in their order    *)
(* (Passed); it stops at the first place where options can end (Ended).    *)
(***************************************************************************)
EXTENDS LktkOptions, SequenceTheorems, TLAPS

Args == [kind : {"option", "file", "end"}, name : STRING, value : Int]
Settings == [strict : {-1, 0, 1, 255}, verbose : 0..1, syslog : 0..1, interactive : 0..1,
             parallel : Int, iterations : Int, library : Int]

\* After a --noassert that was the last word on assertions, strict is still -1.
Skipping(n) == CharIsSigned /\ LastIs(n, "x", {"A", "x"}) => kit.strict = -1

Parsed == phase = "parsing" => SettingsAreLast(scan) /\ Skipping(scan)

Rising(s) == \A j, k \in 1..Len(s) : j < k => s[j] < s[k]
Members(s) == {s[j] : j \in 1..Len(s)}
FilesBefore(n) == {j \in 1..(n - 1) : argv[j].kind = "file"}

Passed == phase = "parsing" => Rising(kept) /\ Members(kept) = FilesBefore(scan)

NoEndBefore == phase = "parsing" => \A j \in 1..(scan - 1) : argv[j].kind # "end"

Ended ==
  phase \in {"scripts", "done"} => scan = FirstEnd /\ SettingsAreLast(scan) /\ Skipping(scan)

\* The positions to be opened.
Wanted == {j \in 1..Len(argv) : argv[j].kind = "file" \/ j > FirstEnd}

Opening ==
  /\ phase \in {"scripts", "done"} =>
       /\ Rising(scripts) /\ \A j, k \in 1..Len(opened) : j < k => opened[j][1] < opened[k][1]
       /\ \A j \in 1..Len(opened), k \in 1..Len(scripts) : opened[j][1] < scripts[k]
       /\ {opened[j][1] : j \in 1..Len(opened)} \cup Members(scripts) = Wanted
  /\ phase = "done" => scripts = <<>>
  /\ phase = "parsing" => opened = <<>>

IInv == OptionsTypeOK /\ Parsed /\ Passed /\ NoEndBefore /\ Ended /\ Opening
-----------------------------------------------------------------------------
\* getopt_long stops at the first place where the options can end.
LEMMA StopsAtFirstEnd ==
  ASSUME argv \in Seq(Args), scan \in 1..(Len(argv) + 1),
         \A j \in 1..(scan - 1) : argv[j].kind # "end",
         scan = Len(argv) + 1 \/ argv[scan].kind = "end"
  PROVE  FirstEnd = scan
<1>1. Len(argv) \in Nat
  BY LenProperties
<1>2. scan \in Ends /\ scan \in Nat /\ \A k \in Ends : k \in Nat /\ scan <= k
  BY <1>1 DEF Ends
<1>3. \A j \in Ends : (\A k \in Ends : j <= k) => j = scan
  BY <1>2
<1> QED
  BY <1>2, <1>3 DEF FirstEnd

LEMMA TypedArgs == OptionsTypeOK => argv \in Seq(Args) /\ kit \in Settings /\ Len(argv) \in Nat
<1> SUFFICES ASSUME OptionsTypeOK PROVE argv \in Seq(Args) /\ kit \in Settings /\ Len(argv) \in Nat
  OBVIOUS
<1>1. argv \in Seq(Args) /\ kit \in Settings
  BY DEF OptionsTypeOK, Args, Settings
<1> QED
  BY <1>1, LenProperties

LEMMA AnArgument ==
  ASSUME OptionsTypeOK, NEW j \in 1..Len(argv)
  PROVE  argv[j] \in Args /\ argv[j].name \in STRING /\ argv[j].value \in Int
<1>1. argv[j] \in Args
  BY TypedArgs, ElementOfSeq
<1> QED
  BY <1>1 DEF Args
-----------------------------------------------------------------------------
(* One more argument.                                                      *)

LEMMA NoneGiven ==
  ASSUME NEW option, NEW others, NEW setting
  PROVE  ~LastIs(1, option, others) /\ IsLast(1, option, setting)
<1>1. Given(1, {option}) = {}
  BY DEF Given
<1> QED
  BY <1>1 DEF LastIs, IsLast

LEMMA GivenMore ==
  ASSUME NEW n \in Nat \ {0}, NEW options
  PROVE  /\ Given(n, options) \subseteq 1..(n - 1)
         /\ argv[n].kind = "option" /\ argv[n].name \in options => Given(n + 1, options) = Given(n, options) \cup {n}
         /\ ~(argv[n].kind = "option" /\ argv[n].name \in options) => Given(n + 1, options) = Given(n, options)
  BY DEF Given

\* An option that is given is the last of its kind, and of those it undoes.
LEMMA LastGiven ==
  ASSUME NEW n \in Nat \ {0}, argv[n].kind = "option", NEW option, NEW others
  PROVE  /\ argv[n].name = option => LastIs(n + 1, option, others)
         /\ argv[n].name # option /\ argv[n].name \in others => ~LastIs(n + 1, option, others)
         /\ argv[n].name # option /\ argv[n].name \notin others =>
              (LastIs(n + 1, option, others) <=> LastIs(n, option, others))
<1>1. ASSUME argv[n].name = option PROVE LastIs(n + 1, option, others)
  <2>1. n \in Given(n + 1, {option})
    BY <1>1, GivenMore
  <2>2. \A k \in Given(n + 1, others) : k <= n
    BY DEF Given
  <2> QED
    BY <2>1, <2>2 DEF LastIs
<1>2. ASSUME argv[n].name # option, argv[n].name \in others, LastIs(n + 1, option, others) PROVE FALSE
  <2>1. n \in Given(n + 1, others)
    BY <1>2, GivenMore
  <2>2. \A j \in Given(n + 1, {option}) : j \in 1..(n - 1)
    BY <1>2, GivenMore
  <2>3. PICK j \in Given(n + 1, {option}) : \A k \in Given(n + 1, others) : k <= j
    BY <1>2 DEF LastIs
  <2>4. n <= j /\ j \in 1..(n - 1)
    BY <2>1, <2>2, <2>3
  <2> QED
    BY <2>4
<1>3. ASSUME argv[n].name # option, argv[n].name \notin others
      PROVE  LastIs(n + 1, option, others) <=> LastIs(n, option, others)
  <2>1. Given(n + 1, others) = Given(n, others) /\ Given(n + 1, {option}) = Given(n, {option})
    BY <1>3, GivenMore
  <2> QED
    BY <2>1 DEF LastIs
<1> QED
  BY <1>1, <1>2, <1>3

LEMMA ValueGiven ==
  ASSUME NEW n \in Nat \ {0}, argv[n].kind = "option", NEW option, NEW setting
  PROVE  /\ argv[n].name = option => IsLast(n + 1, option, argv[n].value)
         /\ argv[n].name # option => (IsLast(n + 1, option, setting) <=> IsLast(n, option, setting))
<1>1. ASSUME argv[n].name = option PROVE IsLast(n + 1, option, argv[n].value)
  <2>1. n \in Given(n + 1, {option})
    BY <1>1, GivenMore
  <2>2. \A j \in Given(n + 1, {option}) : j \in 1..n
    BY DEF Given
  <2> SUFFICES ASSUME NEW j \in Given(n + 1, {option}), \A k \in Given(n + 1, {option}) : k <= j
               PROVE  argv[n].value = argv[j].value
    BY DEF IsLast
  <2>3. j = n
    <3>1. n <= j
      BY <2>1
    <3>2. j \in 1..n
      BY <2>2
    <3> QED
      BY <3>1, <3>2
  <2> QED
    BY <2>3
<1>2. ASSUME argv[n].name # option PROVE IsLast(n + 1, option, setting) <=> IsLast(n, option, setting)
  <2>1. Given(n + 1, {option}) = Given(n, {option})
    BY <1>2, GivenMore
  <2> QED
    BY <2>1 DEF IsLast
<1> QED
  BY <1>1, <1>2

-----------------------------------------------------------------------------
\* A file name changes nothing about the options.
LEMMA NotAnOption ==
  ASSUME NEW n \in Nat \ {0}, argv[n].kind # "option"
  PROVE  (SettingsAreLast(n + 1) <=> SettingsAreLast(n)) /\ (Skipping(n + 1) <=> Skipping(n))
<1>1. \A options : Given(n + 1, options) = Given(n, options)
  BY GivenMore
<1> QED
  BY <1>1 DEF SettingsAreLast, Skipping, LastIs, IsLast
-----------------------------------------------------------------------------
LEMMA InitIInv == OptionsInit => IInv
<1> SUFFICES ASSUME OptionsInit PROVE IInv
  OBVIOUS
<1>1. /\ argv \in CommandLines /\ scan = 1 /\ kept = <<>> /\ kit = NoSettings /\ phase = "parsing"
      /\ before = "lktkit" /\ scripts = <<>> /\ opened = <<>>
  BY DEF OptionsInit
<1>2. argv \in Seq(Args) /\ Len(argv) \in Nat /\ Len(<<>>) = 0
  <2>1. argv \in Seq(Args)
    BY <1>1, OptionsAssumption DEF Args
  <2> QED
    BY <2>1, LenProperties, EmptySeq
<1>3. OptionsTypeOK
  <2>1. kit \in Settings
    BY <1>1 DEF NoSettings, Settings
  <2>2. <<>> \in Seq(Nat) /\ <<>> \in Seq(Nat \X {"stdin", "file"})
    BY EmptySeq
  <2>3. scan \in 1..(Len(argv) + 1) /\ argv \in Seq([kind : {"option", "file", "end"}, name : STRING, value : Int])
    BY <1>1, <1>2 DEF Args
  <2>4. phase \in {"parsing", "usage", "scripts", "done"}
    BY <1>1
  <2>5. kept \in Seq(Nat) /\ scripts \in Seq(Nat) /\ opened \in Seq(Nat \X {"stdin", "file"})
    BY <1>1, <2>2, Zenon
  <2> QED
    BY <2>1, <2>3, <2>4, <2>5, Zenon DEF OptionsTypeOK, Settings
<1>4. SettingsAreLast(1) /\ Skipping(1)
  <2>1. kit.strict = 0 /\ kit.verbose = 0 /\ kit.syslog = 0
    BY <1>1 DEF NoSettings
  <2> QED
    BY <2>1, NoneGiven DEF SettingsAreLast, Skipping
<1>5. Passed
  <2>1. FilesBefore(1) = {}
    BY DEF FilesBefore
  <2>2. 1..Len(kept) = {}
    BY <1>1, <1>2
  <2>3. Rising(kept) /\ Members(kept) = {}
    BY <2>2, Zenon DEF Rising, Members
  <2> QED
    BY <1>1, <2>1, <2>3 DEF Passed
<1>6. NoEndBefore
  BY <1>1 DEF NoEndBefore
<1> QED
  BY <1>1, <1>3, <1>4, <1>5, <1>6 DEF IInv, Parsed, Ended, Opening

\* The switches, field by field.
LEMMA Switched ==
  ASSUME kit \in Settings, NEW option \in {"v", "A", "x", "L", "i", "q", "k", "s", "t"}
  PROVE  /\ WithSwitch(option) \in Settings
         /\ WithSwitch(option).strict = IF option = "A" THEN 1
                                    ELSE IF option = "x" THEN StoredStrict(CharIsSigned, -1) ELSE kit.strict
         /\ WithSwitch(option).verbose = IF option = "v" THEN 1 ELSE IF option = "q" THEN 0 ELSE kit.verbose
         /\ WithSwitch(option).syslog = IF option = "L" THEN 1 ELSE IF option = "q" THEN 0 ELSE kit.syslog
         /\ WithSwitch(option).parallel = kit.parallel /\ WithSwitch(option).iterations = kit.iterations
         /\ WithSwitch(option).library = kit.library
<1>1. StoredStrict(CharIsSigned, -1) \in {-1, 255}
  BY OptionsAssumption DEF StoredStrict
<1> DEFINE strict == StoredStrict(CharIsSigned, -1)
           Fields(s, t, v, l) ==
             /\ s \in Settings /\ s.strict = t /\ s.verbose = v /\ s.syslog = l
             /\ s.parallel = kit.parallel /\ s.iterations = kit.iterations /\ s.library = kit.library
<1>2. /\ kit.strict \in {-1, 0, 1, 255} /\ kit.verbose \in 0..1 /\ kit.syslog \in 0..1
      /\ Fields(kit, kit.strict, kit.verbose, kit.syslog)
  BY DEF Settings
<1>3. /\ Fields([kit EXCEPT !.verbose = 1], kit.strict, 1, kit.syslog)
      /\ Fields([kit EXCEPT !.syslog = 1], kit.strict, kit.verbose, 1)
      /\ Fields([kit EXCEPT !.interactive = 1], kit.strict, kit.verbose, kit.syslog)
  BY DEF Settings
<1>4. Fields([kit EXCEPT !.syslog = 0, !.verbose = 0], kit.strict, 0, 0)
  <2> DEFINE quiet == [kit EXCEPT !.syslog = 0, !.verbose = 0]
  <2>1. /\ quiet.strict = kit.strict /\ quiet.verbose = 0 /\ quiet.syslog = 0
        /\ quiet.parallel = kit.parallel /\ quiet.iterations = kit.iterations /\ quiet.library = kit.library
    BY DEF Settings
  <2>2. quiet \in Settings
    <3> DEFINE one == [kit EXCEPT !.syslog = 0]
    <3>1. one \in Settings
      BY DEF Settings
    <3>2. quiet = [one EXCEPT !.verbose = 0]
      BY DEF Settings
    <3> HIDE DEF one, quiet
    <3>3. [one EXCEPT !.verbose = 0] \in Settings
      BY <3>1 DEF Settings
    <3> QED
      BY <3>2, <3>3
  <2> HIDE DEF quiet
  <2>3. Fields(quiet, kit.strict, 0, 0)
    BY <2>1, <2>2
  <2> QED
    BY <2>3 DEF quiet
<1>5. \A t \in {-1, 1, 255} : Fields([kit EXCEPT !.strict = t], t, kit.verbose, kit.syslog)
  BY DEF Settings
<1> HIDE DEF Fields, strict
<1>6. Fields(WithSwitch(option),
             IF option = "A" THEN 1 ELSE IF option = "x" THEN strict ELSE kit.strict,
             IF option = "v" THEN 1 ELSE IF option = "q" THEN 0 ELSE kit.verbose,
             IF option = "L" THEN 1 ELSE IF option = "q" THEN 0 ELSE kit.syslog)
  <2>0. WithSwitch(option) = Stored(option, kit, strict)
    BY DEF WithSwitch, strict
  <2>1. CASE option = "v"
    <3>1. WithSwitch(option) = [kit EXCEPT !.verbose = 1]
      BY <2>0, <2>1 DEF Stored
    <3> QED
      BY <1>3, <2>1, <3>1
  <2>2. CASE option = "A"
    <3>1. WithSwitch(option) = [kit EXCEPT !.strict = 1]
      BY <2>0, <2>2 DEF Stored
    <3> QED
      BY <1>5, <2>2, <3>1
  <2>3. CASE option = "x"
    <3>1. WithSwitch(option) = [kit EXCEPT !.strict = strict] /\ strict \in {-1, 1, 255}
      BY <1>1, <2>0, <2>3 DEF Stored, strict
    <3> QED
      BY <1>5, <2>3, <3>1
  <2>4. CASE option = "L"
    <3>1. WithSwitch(option) = [kit EXCEPT !.syslog = 1]
      BY <2>0, <2>4 DEF Stored
    <3> QED
      BY <1>3, <2>4, <3>1
  <2>5. CASE option = "i"
    <3>1. WithSwitch(option) = [kit EXCEPT !.interactive = 1]
      BY <2>0, <2>5 DEF Stored
    <3> QED
      BY <1>3, <2>5, <3>1
  <2>6. CASE option = "q"
    <3>1. WithSwitch(option) = [kit EXCEPT !.syslog = 0, !.verbose = 0]
      BY <2>0, <2>6 DEF Stored
    <3> QED
      BY <1>4, <2>6, <3>1
  <2>7. CASE option \in {"k", "s", "t"}
    <3>1. WithSwitch(option) = kit
      BY <2>0, <2>7 DEF Stored
    <3> QED
      BY <1>2, <2>7, <3>1
  <2> QED
    BY <2>1, <2>2, <2>3, <2>4, <2>5, <2>6, <2>7
<1> QED
  BY <1>6 DEF Fields, strict

LEMMA ScannedArgument ==
  ASSUME IInv, NEW kind, Scanned(kind)
  PROVE  /\ phase = "parsing" /\ scan \in 1..Len(argv) /\ scan \in Nat \ {0} /\ Len(argv) \in Nat
         /\ scan + 1 \in 1..(Len(argv) + 1) /\ argv[scan].kind = kind /\ argv[scan] \in Args
<1>1. Len(argv) \in Nat /\ scan \in 1..(Len(argv) + 1) /\ scan <= Len(argv)
  BY TypedArgs DEF IInv, OptionsTypeOK, Scanned
<1>2. scan \in 1..Len(argv)
  BY <1>1
<1>3. argv[scan] \in Args
  BY <1>2, AnArgument DEF IInv
<1> QED
  BY <1>1, <1>2, <1>3 DEF Scanned

\* Another option has been taken: what is left to show is what it did to kit.
LEMMA TakenStep ==
  ASSUME IInv, Scanned("option"), NEW settings \in Settings, Taken(settings),
         SettingsAreLast(scan)', Skipping(scan)'
  PROVE  IInv'
<1>1. /\ kit' = settings /\ scan' = scan + 1 /\ phase = "parsing" /\ phase' = "parsing"
      /\ UNCHANGED <<argv, kept, before, scripts, opened>>
  BY ScannedArgument DEF Taken
<1>2. /\ scan \in Nat \ {0} /\ scan + 1 \in 1..(Len(argv) + 1) /\ argv[scan].kind = "option"
  BY ScannedArgument
<1>3. OptionsTypeOK'
  BY <1>1, <1>2 DEF IInv, OptionsTypeOK, Settings
<1>4. Passed'
  <2>1. FilesBefore(scan + 1) = FilesBefore(scan)
    BY <1>2 DEF FilesBefore
  <2>2. FilesBefore(scan)' = FilesBefore(scan + 1)
    BY <1>1 DEF FilesBefore
  <2> QED
    BY <1>1, <2>1, <2>2 DEF IInv, Passed, Rising, Members
<1>5. NoEndBefore'
  BY <1>1, <1>2 DEF IInv, NoEndBefore
<1>6. Parsed' /\ Ended' /\ Opening'
  BY <1>1 DEF IInv, Parsed, Ended, Opening
<1> QED
  BY <1>3, <1>4, <1>5, <1>6 DEF IInv

LEMMA TakeSwitchStep == ASSUME IInv, TakeSwitch PROVE IInv'
<1> DEFINE option == argv[scan].name
<1>1. /\ Scanned("option") /\ option \in {"v", "A", "x", "L", "i", "q", "k", "s", "t"}
      /\ Taken(WithSwitch(option))
  BY DEF TakeSwitch
<1>2. /\ kit' = WithSwitch(option) /\ scan' = scan + 1 /\ argv' = argv
      /\ scan \in Nat \ {0} /\ argv[scan].kind = "option" /\ phase = "parsing"
  BY <1>1, ScannedArgument DEF Taken
<1>3. kit \in Settings /\ SettingsAreLast(scan) /\ Skipping(scan)
  BY <1>2, TypedArgs DEF IInv, Parsed
<1>4. /\ WithSwitch(option) \in Settings
      /\ kit'.strict = IF option = "A" THEN 1
                       ELSE IF option = "x" THEN StoredStrict(CharIsSigned, -1) ELSE kit.strict
      /\ kit'.verbose = IF option = "v" THEN 1 ELSE IF option = "q" THEN 0 ELSE kit.verbose
      /\ kit'.syslog = IF option = "L" THEN 1 ELSE IF option = "q" THEN 0 ELSE kit.syslog
      /\ kit'.parallel = kit.parallel /\ kit'.iterations = kit.iterations /\ kit'.library = kit.library
  BY <1>1, <1>2, <1>3, Switched
<1>5. ASSUME NEW o, NEW S PROVE LastIs(scan, o, S)' <=> LastIs(scan + 1, o, S)
  BY <1>2 DEF LastIs, Given
<1>6. ASSUME NEW o, NEW x PROVE IsLast(scan, o, x)' <=> IsLast(scan + 1, o, x)
  BY <1>2 DEF IsLast, Given
<1>7. kit'.strict = 1 <=> LastIs(scan + 1, "A", {"A", "x"})
  <2>1. StoredStrict(CharIsSigned, -1) # 1
    BY OptionsAssumption DEF StoredStrict
  <2>2. kit.strict = 1 <=> LastIs(scan, "A", {"A", "x"})
    BY <1>3 DEF SettingsAreLast
  <2>3. CASE option = "A"
    BY <1>2, <1>4, <2>3, LastGiven
  <2>4. CASE option = "x"
    BY <1>2, <1>4, <2>1, <2>4, LastGiven
  <2>5. CASE option \notin {"A", "x"}
    <3>1. LastIs(scan + 1, "A", {"A", "x"}) <=> LastIs(scan, "A", {"A", "x"})
      BY <1>2, <2>5, LastGiven
    <3> QED
      BY <1>4, <2>2, <2>5, <3>1
  <2> QED
    BY <2>3, <2>4, <2>5
<1>8. ASSUME NEW on \in {"v", "L"}, NEW flag, NEW flag2,
             flag = 1 <=> LastIs(scan, on, {"q"}),
             flag2 = IF option = on THEN 1 ELSE IF option = "q" THEN 0 ELSE flag
      PROVE  flag2 = 1 <=> LastIs(scan + 1, on, {"q"})
  <2>1. CASE option = on
    BY <1>2, <1>8, <2>1, LastGiven
  <2>2. CASE option = "q"
    BY <1>2, <1>8, <2>2, LastGiven
  <2>3. CASE option \notin {on, "q"}
    BY <1>2, <1>8, <2>3, LastGiven
  <2> QED
    BY <2>1, <2>2, <2>3
<1>9. (kit'.verbose = 1 <=> LastIs(scan + 1, "v", {"q"})) /\ (kit'.syslog = 1 <=> LastIs(scan + 1, "L", {"q"}))
  BY <1>3, <1>4, <1>8 DEF SettingsAreLast
<1>10. /\ IsLast(scan + 1, "p", kit'.parallel) /\ IsLast(scan + 1, "c", kit'.iterations)
       /\ IsLast(scan + 1, "l", kit'.library)
  BY <1>1, <1>2, <1>3, <1>4, ValueGiven DEF SettingsAreLast
<1>11. SettingsAreLast(scan)'
  BY <1>5, <1>6, <1>7, <1>9, <1>10 DEF SettingsAreLast
<1>12. Skipping(scan)'
  <2>1. ASSUME CharIsSigned, LastIs(scan + 1, "x", {"A", "x"}) PROVE kit'.strict = -1
    <3>1. StoredStrict(CharIsSigned, -1) = -1
      BY <2>1 DEF StoredStrict
    <3>2. option # "A"
      <4>1. option # "x" /\ option \in {"A", "x"} => ~LastIs(scan + 1, "x", {"A", "x"})
        BY <1>2, LastGiven
      <4> QED
        BY <2>1, <4>1
    <3>3. CASE option = "x"
      BY <1>4, <3>1, <3>3
    <3>4. CASE option # "x"
      <4>1. LastIs(scan, "x", {"A", "x"})
        BY <1>2, <2>1, <3>2, <3>4, LastGiven
      <4> QED
        BY <1>3, <1>4, <2>1, <3>2, <3>4, <4>1 DEF Skipping
    <3> QED
      BY <3>3, <3>4
  <2> QED
    BY <1>5, <2>1 DEF Skipping
<1> QED
  BY <1>1, <1>4, <1>11, <1>12, TakenStep

\* An option with a value, which goes into one field.
LEMMA ValueStep ==
  ASSUME IInv, Scanned("option"), NEW option \in {"p", "c", "l"}, argv[scan].name = option,
         NEW settings \in Settings, Taken(settings),
         settings.strict = kit.strict, settings.verbose = kit.verbose, settings.syslog = kit.syslog,
         settings.parallel = IF option = "p" THEN argv[scan].value ELSE kit.parallel,
         settings.iterations = IF option = "c" THEN argv[scan].value ELSE kit.iterations,
         settings.library = IF option = "l" THEN argv[scan].value ELSE kit.library
  PROVE  IInv'
<1>1. /\ kit' = settings /\ scan' = scan + 1 /\ argv' = argv
      /\ scan \in Nat \ {0} /\ argv[scan].kind = "option" /\ phase = "parsing"
  BY ScannedArgument DEF Taken
<1>2. SettingsAreLast(scan) /\ Skipping(scan)
  BY <1>1 DEF IInv, Parsed
<1>3. ASSUME NEW o, NEW S PROVE LastIs(scan, o, S)' <=> LastIs(scan + 1, o, S)
  BY <1>1 DEF LastIs, Given
<1>4. ASSUME NEW o, NEW x PROVE IsLast(scan, o, x)' <=> IsLast(scan + 1, o, x)
  BY <1>1 DEF IsLast, Given
<1>5. ASSUME NEW o \in {"A", "x", "v", "L"}, NEW S \in {{"A", "x"}, {"q"}}
      PROVE  LastIs(scan + 1, o, S) <=> LastIs(scan, o, S)
  <2>1. option # o /\ option \notin S
    OBVIOUS
  <2> QED
    BY <1>1, <2>1, LastGiven
<1>6. Skipping(scan)'
  BY <1>1, <1>2, <1>3, <1>5 DEF Skipping
<1>7. /\ IsLast(scan + 1, "p", settings.parallel) /\ IsLast(scan + 1, "c", settings.iterations)
      /\ IsLast(scan + 1, "l", settings.library)
  BY <1>1, <1>2, ValueGiven DEF SettingsAreLast
<1>8. /\ kit'.strict = 1 <=> LastIs(scan + 1, "A", {"A", "x"})
      /\ kit'.verbose = 1 <=> LastIs(scan + 1, "v", {"q"})
      /\ kit'.syslog = 1 <=> LastIs(scan + 1, "L", {"q"})
  BY <1>1, <1>2, <1>5 DEF SettingsAreLast
<1>9. SettingsAreLast(scan)'
  BY <1>1, <1>3, <1>4, <1>7, <1>8 DEF SettingsAreLast
<1> QED
  BY <1>6, <1>9, TakenStep

LEMMA TakeNumberStep == ASSUME IInv, TakeNumber PROVE IInv'
<1> DEFINE value == argv[scan].value
<1>1. /\ Scanned("option")
      /\ \/ argv[scan].name = "p" /\ Taken([kit EXCEPT !.parallel = value])
         \/ argv[scan].name = "c" /\ Taken([kit EXCEPT !.iterations = value])
  BY DEF TakeNumber
<1>2. PICK option \in {"p", "c"} :
        /\ argv[scan].name = option
        /\ Taken(IF option = "p" THEN [kit EXCEPT !.parallel = value] ELSE [kit EXCEPT !.iterations = value])
  BY <1>1
<1> DEFINE settings == IF option = "p" THEN [kit EXCEPT !.parallel = value] ELSE [kit EXCEPT !.iterations = value]
<1>5. argv[scan].name = option /\ Taken(settings)
  BY <1>2
<1>3. kit \in Settings /\ value \in Int
  <2>1. scan \in 1..Len(argv)
    BY <1>1, ScannedArgument
  <2> QED
    BY <2>1, TypedArgs, AnArgument DEF IInv
<1>4. /\ settings \in Settings /\ settings.strict = kit.strict /\ settings.verbose = kit.verbose
      /\ settings.syslog = kit.syslog /\ settings.library = kit.library
      /\ option = "p" => settings.parallel = value /\ settings.iterations = kit.iterations
      /\ option = "c" => settings.iterations = value /\ settings.parallel = kit.parallel
  <2>1. CASE option = "p"
    BY <1>2, <1>3, <2>1 DEF Settings
  <2>2. CASE option = "c"
    BY <1>2, <1>3, <2>2 DEF Settings
  <2> QED
    BY <2>1, <2>2
<1> HIDE DEF settings
<1> QED
  BY <1>1, <1>2, <1>4, <1>5, ValueStep

LEMMA TakeLibraryStep == ASSUME IInv, TakeLibrary PROVE IInv'
<1> DEFINE value == argv[scan].value
           settings == [kit EXCEPT !.library = value]
<1>1. Scanned("option") /\ argv[scan].name = "l" /\ Taken(settings)
  BY DEF TakeLibrary
<1>2. kit \in Settings /\ value \in Int
  <2>1. scan \in 1..Len(argv)
    BY <1>1, ScannedArgument
  <2> QED
    BY <2>1, TypedArgs, AnArgument DEF IInv
<1>3. /\ settings \in Settings /\ settings.strict = kit.strict /\ settings.verbose = kit.verbose
      /\ settings.syslog = kit.syslog /\ settings.library = value
      /\ settings.parallel = kit.parallel /\ settings.iterations = kit.iterations
  BY <1>2 DEF Settings
<1> HIDE DEF settings
<1> QED
  BY <1>1, <1>3, ValueStep
-----------------------------------------------------------------------------
LEMMA PassByStep == ASSUME IInv, PassBy PROVE IInv'
<1>1. /\ Scanned("file") /\ kept' = Append(kept, scan) /\ scan' = scan + 1 /\ phase' = phase
      /\ UNCHANGED <<argv, kit, before, scripts, opened>>
  BY DEF PassBy
<1>2. /\ phase = "parsing" /\ scan \in Nat \ {0} /\ scan + 1 \in 1..(Len(argv) + 1)
      /\ argv[scan].kind = "file"
  BY <1>1, ScannedArgument
<1>3. /\ kept \in Seq(Nat) /\ kept' \in Seq(Nat) /\ Len(kept) \in Nat /\ Len(kept') = Len(kept) + 1
      /\ kept'[Len(kept) + 1] = scan /\ \A j \in 1..Len(kept) : kept'[j] = kept[j]
  <2>1. kept \in Seq(Nat) /\ scan \in Nat
    BY <1>2 DEF IInv, OptionsTypeOK
  <2> QED
    BY <1>1, <2>1, AppendProperties, LenProperties
<1>4. OptionsTypeOK'
  BY <1>1, <1>2, <1>3 DEF IInv, OptionsTypeOK
<1>5. SettingsAreLast(scan + 1) /\ Skipping(scan + 1)
  BY <1>2, NotAnOption DEF IInv, Parsed
<1>6. SettingsAreLast(scan)' /\ Skipping(scan)'
  BY <1>1, <1>5 DEF SettingsAreLast, Skipping, LastIs, IsLast, Given
<1>7. Passed'
  <2>1. Rising(kept) /\ Members(kept) = FilesBefore(scan)
    BY <1>2 DEF IInv, Passed
  <2>2. FilesBefore(scan)' = FilesBefore(scan) \cup {scan}
    BY <1>1, <1>2 DEF FilesBefore
  <2>3. \A j \in 1..Len(kept) : kept[j] < scan /\ kept[j] \in Nat
    <3> SUFFICES ASSUME NEW j \in 1..Len(kept) PROVE kept[j] < scan /\ kept[j] \in Nat
      OBVIOUS
    <3>1. kept[j] \in FilesBefore(scan)
      BY <2>1 DEF Members
    <3>2. kept[j] \in 1..(scan - 1)
      BY <3>1 DEF FilesBefore
    <3> QED
      BY <1>2, <3>2
  <2>4. Rising(kept')
    <3> SUFFICES ASSUME NEW j \in 1..Len(kept'), NEW k \in 1..Len(kept'), j < k PROVE kept'[j] < kept'[k]
      BY DEF Rising
    <3>1. j \in 1..Len(kept)
      BY <1>3
    <3>2. CASE k \in 1..Len(kept)
      BY <1>3, <2>1, <3>1, <3>2 DEF Rising
    <3>3. CASE k = Len(kept) + 1
      BY <1>3, <2>3, <3>1, <3>3
    <3>4. k \in 1..(Len(kept) + 1)
      BY <1>3
    <3>5. k \in 1..Len(kept) \/ k = Len(kept) + 1
      BY <1>3, <3>4, SMTT(30)
    <3> QED
      BY <3>2, <3>3, <3>5
  <2>5. Members(kept') = Members(kept) \cup {scan}
    <3>1. 1..Len(kept') = 1..Len(kept) \cup {Len(kept) + 1}
      BY <1>3
    <3> QED
      BY <1>3, <3>1, SMTT(30) DEF Members
  <2> QED
    BY <2>1, <2>2, <2>4, <2>5 DEF Passed, Members, Rising
<1>8. NoEndBefore'
  BY <1>1, <1>2 DEF IInv, NoEndBefore
<1> QED
  BY <1>1, <1>2, <1>4, <1>6, <1>7, <1>8 DEF IInv, Parsed, Ended, Opening

LEMMA UsageStep == ASSUME IInv, Usage PROVE IInv'
<1>1. phase' = "usage" /\ UNCHANGED <<argv, scan, kept, kit, before, scripts, opened>>
  BY DEF Usage
<1> QED
  BY <1>1 DEF IInv, OptionsTypeOK, Parsed, Passed, NoEndBefore, Ended, Opening

\* The names kept, then all that follows the place where the options ended.
LEMMA PositionsRise ==
  ASSUME IInv, phase = "parsing", scan = Len(argv) + 1 \/ argv[scan].kind = "end"
  PROVE  ScriptPositions \in Seq(Nat) /\ Rising(ScriptPositions) /\ Members(ScriptPositions) = Wanted
<1>1. argv \in Seq(Args) /\ Len(argv) \in Nat /\ scan \in 1..(Len(argv) + 1) /\ kept \in Seq(Nat)
  BY TypedArgs DEF IInv, OptionsTypeOK
<1>2. FirstEnd = scan
  BY <1>1, StopsAtFirstEnd DEF IInv, NoEndBefore
<1>3. Rising(kept) /\ Members(kept) = FilesBefore(scan)
  BY DEF IInv, Passed
<1> DEFINE n == IF scan = Len(argv) + 1 THEN 0 ELSE Len(argv) - scan
           rest == [j \in 1..n |-> scan + j]
           all == kept \o rest
<1>4. n \in Nat /\ 1..(Len(argv) - scan) = 1..n
  BY <1>1
<1>5. rest \in Seq(Nat) /\ Len(rest) = n /\ \A j \in 1..n : rest[j] = scan + j
  BY <1>1, <1>4
<1>6. ScriptPositions = all
  BY <1>4 DEF ScriptPositions
<1>7. \A j : j \in 1..n <=> j \in Int /\ scan + j > scan /\ scan + j \in 1..Len(argv)
  BY <1>1
<1> HIDE DEF n, rest
<1>8. Len(kept) \in Nat /\ \A j \in 1..Len(kept) : kept[j] \in Nat
  BY <1>1, LenProperties, ElementOfSeq
<1>9. /\ all \in Seq(Nat) /\ Len(all) = Len(kept) + n
      /\ \A j \in 1..(Len(kept) + n) : all[j] = IF j <= Len(kept) THEN kept[j] ELSE rest[j - Len(kept)]
  BY <1>1, <1>5, ConcatProperties
<1> HIDE DEF all
<1>10. ASSUME NEW j \in 1..(Len(kept) + n)
       PROVE  /\ j <= Len(kept) => j \in 1..Len(kept) /\ all[j] = kept[j]
              /\ j > Len(kept) => j - Len(kept) \in 1..n /\ all[j] = scan + (j - Len(kept))
  <2>1. ASSUME j <= Len(kept) PROVE j \in 1..Len(kept) /\ all[j] = kept[j]
    BY <1>8, <1>9, <2>1
  <2>2. ASSUME j > Len(kept) PROVE j - Len(kept) \in 1..n /\ all[j] = scan + (j - Len(kept))
    <3>1. j - Len(kept) \in 1..n
      BY <1>4, <1>8, <2>2
    <3>2. all[j] = rest[j - Len(kept)]
      BY <1>8, <1>9, <2>2
    <3> QED
      BY <1>5, <3>1, <3>2
  <2> QED
    BY <2>1, <2>2
<1>11. \A j \in 1..Len(kept) : kept[j] \in FilesBefore(scan) /\ kept[j] < scan
  <2> SUFFICES ASSUME NEW j \in 1..Len(kept) PROVE kept[j] \in FilesBefore(scan) /\ kept[j] < scan
    OBVIOUS
  <2>1. kept[j] \in FilesBefore(scan)
    BY <1>3 DEF Members
  <2>2. kept[j] \in 1..(scan - 1)
    BY <2>1 DEF FilesBefore
  <2> QED
    BY <1>1, <2>1, <2>2
<1>12. Rising(all)
  <2> SUFFICES ASSUME NEW j \in 1..(Len(kept) + n), NEW k \in 1..(Len(kept) + n), j < k PROVE all[j] < all[k]
    BY <1>9 DEF Rising
  <2>1. CASE k <= Len(kept)
    <3>1. j <= Len(kept)
      BY <1>4, <1>8, <2>1
    <3> QED
      BY <1>3, <1>10, <2>1, <3>1 DEF Rising
  <2>2. CASE j <= Len(kept) /\ k > Len(kept)
    <3>1. all[j] < scan /\ all[j] \in Nat
      BY <1>8, <1>10, <1>11, <2>2
    <3>2. all[k] = scan + (k - Len(kept)) /\ k - Len(kept) \in 1..n
      BY <1>10, <2>2
    <3> QED
      BY <1>1, <1>4, <3>1, <3>2
  <2>3. CASE j > Len(kept) /\ k > Len(kept)
    <3>1. all[j] = scan + (j - Len(kept)) /\ all[k] = scan + (k - Len(kept))
      BY <1>10, <2>3
    <3> QED
      BY <1>1, <1>4, <1>8, <3>1
  <2> QED
    BY <1>4, <1>8, <2>1, <2>2, <2>3
<1>13. ASSUME NEW x \in Members(all) PROVE x \in Wanted
  <2>1. PICK j \in 1..(Len(kept) + n) : x = all[j]
    BY <1>9 DEF Members
  <2>2. CASE j <= Len(kept)
    <3>1. x \in FilesBefore(scan)
      BY <1>10, <1>11, <2>1, <2>2
    <3> QED
      BY <1>1, <3>1 DEF FilesBefore, Wanted
  <2>3. CASE j > Len(kept)
    <3>1. j - Len(kept) \in 1..n /\ x = scan + (j - Len(kept))
      BY <1>10, <2>1, <2>3
    <3>2. x \in 1..Len(argv) /\ x > scan
      BY <1>7, <3>1
    <3> QED
      BY <1>2, <3>2 DEF Wanted
  <2> QED
    BY <1>4, <1>8, <2>2, <2>3
<1>14. ASSUME NEW x \in Wanted PROVE x \in Members(all)
  <2>1. x \in 1..Len(argv) /\ (argv[x].kind = "file" \/ x > scan)
    BY <1>2 DEF Wanted
  <2>2. CASE x < scan
    <3>1. x \in FilesBefore(scan)
      BY <1>1, <2>1, <2>2 DEF FilesBefore
    <3>2. PICK j \in 1..Len(kept) : x = kept[j]
      BY <1>3, <3>1 DEF Members
    <3>3. j \in 1..(Len(kept) + n) /\ all[j] = kept[j]
      <4>1. j \in 1..(Len(kept) + n) /\ j <= Len(kept)
        BY <1>4, <1>8
      <4> QED
        BY <1>10, <4>1
    <3> QED
      BY <1>9, <3>2, <3>3 DEF Members
  <2>3. CASE x > scan
    <3>1. x - scan \in 1..n
      BY <1>1, <1>7, <2>1, <2>3
    <3> DEFINE j == Len(kept) + (x - scan)
    <3>2. j \in 1..(Len(kept) + n) /\ j > Len(kept) /\ scan + (j - Len(kept)) = x
      <4>1. n \in Nat /\ Len(kept) \in Nat /\ scan \in Nat /\ x \in Nat
        BY <1>1, <1>4, <1>8, <2>1
      <4>2. PICK d \in 1..n : d = x - scan
        BY <3>1
      <4>3. j = Len(kept) + d /\ x = scan + d
        BY <4>1, <4>2
      <4> HIDE DEF j
      <4> QED
        BY <4>1, <4>3
    <3>3. all[j] = x
      <4> HIDE DEF j
      <4> QED
        BY <1>10, <3>2
    <3> QED
      BY <1>9, <3>2, <3>3 DEF Members
  <2>4. x # scan
    <3>1. x = scan => argv[scan].kind = "end"
      BY <1>1, <2>1
    <3> QED
      BY <1>1, <2>1, <3>1
  <2> QED
    BY <1>1, <2>1, <2>2, <2>3, <2>4
<1> QED
  BY <1>6, <1>9, <1>12, <1>13, <1>14

LEMMA EndOfOptionsStep == ASSUME IInv, EndOfOptions PROVE IInv'
<1>1. /\ phase = "parsing" /\ phase' = "scripts" /\ scripts' = ScriptPositions
      /\ UNCHANGED <<argv, scan, kept, kit, opened>>
  BY DEF EndOfOptions, Scanned
<1>2. argv \in Seq(Args) /\ Len(argv) \in Nat /\ scan \in 1..(Len(argv) + 1)
  BY TypedArgs DEF IInv, OptionsTypeOK
<1>3. scan = Len(argv) + 1 \/ argv[scan].kind = "end"
  BY <1>2 DEF EndOfOptions, Scanned
<1>4. ScriptPositions \in Seq(Nat) /\ Rising(ScriptPositions) /\ Members(ScriptPositions) = Wanted
  BY <1>1, <1>3, PositionsRise
<1>5. FirstEnd = scan /\ FirstEnd' = FirstEnd /\ Wanted' = Wanted
  <2>1. FirstEnd = scan
    BY <1>1, <1>2, <1>3, StopsAtFirstEnd DEF IInv, NoEndBefore
  <2> QED
    BY <1>1, <2>1 DEF FirstEnd, Ends, Wanted
<1>6. OptionsTypeOK'
  BY <1>1, <1>4 DEF IInv, OptionsTypeOK
<1>7. SettingsAreLast(scan)' /\ Skipping(scan)'
  BY <1>1 DEF IInv, Parsed, SettingsAreLast, Skipping, LastIs, IsLast, Given
<1>8. Ended'
  BY <1>1, <1>5, <1>7 DEF Ended
<1>9. Opening'
  <2>1. opened = <<>> /\ 1..Len(opened) = {}
    <3>1. opened = <<>> /\ Len(<<>>) = 0
      BY <1>1, EmptySeq DEF IInv, Opening
    <3> QED
      BY <3>1
  <2>2. {opened[j][1] : j \in 1..Len(opened)} = {}
    BY <2>1, Zenon
  <2>3. Rising(scripts)' /\ Members(scripts)' = Wanted'
    BY <1>1, <1>4, <1>5
  <2>4. /\ \A j, k \in 1..Len(opened) : j < k => opened[j][1] < opened[k][1]
        /\ \A j \in 1..Len(opened), k \in 1..Len(scripts') : opened[j][1] < scripts'[k]
    BY <2>1, Zenon
  <2> QED
    BY <1>1, <2>2, <2>3, <2>4 DEF Opening
<1> QED
  BY <1>1, <1>6, <1>8, <1>9 DEF IInv, Parsed, Passed, NoEndBefore

\* While the scripts are opened nothing changes what was parsed.
LEMMA SameLine ==
  ASSUME UNCHANGED <<argv, scan, kit>>
  PROVE  /\ FirstEnd' = FirstEnd /\ Wanted' = Wanted
         /\ SettingsAreLast(scan)' <=> SettingsAreLast(scan)
         /\ Skipping(scan)' <=> Skipping(scan)
<1>1. FirstEnd' = FirstEnd
  BY DEF FirstEnd, Ends
<1>2. Wanted' = Wanted
  BY <1>1 DEF Wanted
<1>3. SettingsAreLast(scan)' <=> SettingsAreLast(scan)
  BY DEF SettingsAreLast, LastIs, IsLast, Given
<1>4. Skipping(scan)' <=> Skipping(scan)
  BY DEF Skipping, LastIs, Given
<1> QED
  BY <1>1, <1>2, <1>3, <1>4

LEMMA OpenScriptStep == ASSUME IInv, OpenScript PROVE IInv'
<1> DEFINE p == Head(scripts)
<1>1. /\ phase = "scripts" /\ scripts # <<>> /\ scripts' = Tail(scripts) /\ phase' = "scripts"
      /\ UNCHANGED <<argv, scan, kept, kit>>
  BY DEF OpenScript
<1>2. PICK from \in {"stdin", "file"} : opened' = Append(opened, <<p, from>>)
  BY DEF OpenScript
<1>3. /\ scripts \in Seq(Nat) /\ opened \in Seq(Nat \X {"stdin", "file"})
      /\ Len(scripts) \in Nat \ {0} /\ Len(opened) \in Nat
  <2>1. scripts \in Seq(Nat) /\ opened \in Seq(Nat \X {"stdin", "file"})
    BY DEF IInv, OptionsTypeOK
  <2> QED
    BY <1>1, <2>1, EmptySeq, LenProperties
<1>4. /\ p \in Nat /\ p = scripts[1] /\ scripts' \in Seq(Nat) /\ Len(scripts') = Len(scripts) - 1
      /\ \A k \in 1..Len(scripts') : scripts'[k] = scripts[k + 1]
  BY <1>1, <1>3, HeadTailProperties
<1> HIDE DEF p
<1>5. /\ opened' \in Seq(Nat \X {"stdin", "file"}) /\ Len(opened') = Len(opened) + 1
      /\ opened'[Len(opened) + 1][1] = p /\ \A j \in 1..Len(opened) : opened'[j] = opened[j]
  <2> DEFINE one == <<p, from>>
  <2>1. one \in Nat \X {"stdin", "file"} /\ one[1] = p
    BY <1>4
  <2> HIDE DEF one
  <2>2. opened' = Append(opened, one)
    BY <1>2 DEF one
  <2> QED
    BY <1>3, <2>1, <2>2, AppendProperties
<1>6. OptionsTypeOK'
  BY <1>1, <1>4, <1>5 DEF IInv, OptionsTypeOK
<1>7. Ended' /\ Wanted' = Wanted
  BY <1>1 DEF IInv, Ended, FirstEnd, Ends, SettingsAreLast, Skipping, LastIs, IsLast, Given, Wanted
<1>8. /\ Rising(scripts) /\ \A j, k \in 1..Len(opened) : j < k => opened[j][1] < opened[k][1]
      /\ \A j \in 1..Len(opened), k \in 1..Len(scripts) : opened[j][1] < scripts[k]
      /\ {opened[j][1] : j \in 1..Len(opened)} \cup Members(scripts) = Wanted
  BY <1>1 DEF IInv, Opening
<1>9. \A k \in 1..Len(scripts') : k + 1 \in 1..Len(scripts) /\ 1 < k + 1 /\ k \in Nat
  BY <1>3, <1>4
<1>10. 1 \in 1..Len(scripts)
  BY <1>3
<1>11. Rising(scripts')
  <2> SUFFICES ASSUME NEW j \in 1..Len(scripts'), NEW k \in 1..Len(scripts'), j < k
               PROVE  scripts'[j] < scripts'[k]
    BY DEF Rising
  <2>1. j + 1 < k + 1
    BY <1>9
  <2>2. scripts[j + 1] < scripts[k + 1]
    BY <1>8, <1>9, <2>1 DEF Rising
  <2> QED
    BY <1>4, <2>2
<1>12. \A k \in 1..Len(scripts') : p < scripts'[k]
  BY <1>4, <1>8, <1>9, <1>10 DEF Rising
<1>13. 1..Len(opened') = 1..Len(opened) \cup {Len(opened) + 1}
  BY <1>3, <1>5
<1>14. \A j \in 1..Len(opened) : opened[j][1] < p
  BY <1>4, <1>8, <1>10
<1>15. ASSUME NEW j \in 1..Len(opened'), NEW k \in 1..Len(opened'), j < k
       PROVE  opened'[j][1] < opened'[k][1]
  <2>1. j \in 1..Len(opened)
    BY <1>3, <1>5, <1>15
  <2>2. CASE k \in 1..Len(opened)
    BY <1>5, <1>8, <1>15, <2>1, <2>2
  <2>3. CASE k = Len(opened) + 1
    BY <1>5, <1>14, <2>1, <2>3
  <2> QED
    BY <1>13, <2>2, <2>3
<1>16. ASSUME NEW j \in 1..Len(opened'), NEW k \in 1..Len(scripts')
       PROVE  opened'[j][1] < scripts'[k]
  <2>1. CASE j \in 1..Len(opened)
    <3>1. opened[j][1] < scripts[k + 1]
      BY <1>8, <1>9, <2>1
    <3> QED
      BY <1>4, <1>5, <2>1, <3>1
  <2>2. CASE j = Len(opened) + 1
    BY <1>5, <1>12, <2>2
  <2> QED
    BY <1>13, <2>1, <2>2
<1>17. {opened'[j][1] : j \in 1..Len(opened')} = {opened[j][1] : j \in 1..Len(opened)} \cup {p}
  <2> DEFINE F(j) == opened[j][1]
             G(j) == opened'[j][1]
  <2>1. G(Len(opened) + 1) = p /\ \A j \in 1..Len(opened) : G(j) = F(j)
    BY <1>5
  <2> HIDE DEF F, G
  <2>2. {G(j) : j \in 1..Len(opened')} = {F(j) : j \in 1..Len(opened)} \cup {p}
    BY <1>13, <2>1
  <2> QED
    BY <2>2 DEF F, G
<1>18. Members(scripts) = {p} \cup Members(scripts')
  <2>1. ASSUME NEW x \in Members(scripts) PROVE x \in {p} \cup Members(scripts')
    <3>1. PICK k \in 1..Len(scripts) : x = scripts[k]
      BY <2>1 DEF Members
    <3>2. CASE k = 1
      BY <1>4, <3>1, <3>2
    <3>3. CASE k # 1
      <4>1. k - 1 \in 1..Len(scripts') /\ (k - 1) + 1 = k
        BY <1>3, <1>4, <3>3
      <4>2. scripts'[k - 1] = x
        BY <1>4, <3>1, <4>1
      <4> QED
        BY <4>1, <4>2 DEF Members
    <3> QED
      BY <3>2, <3>3
  <2>2. p \in Members(scripts)
    BY <1>4, <1>10 DEF Members
  <2>3. Members(scripts') \subseteq Members(scripts)
    BY <1>4, <1>9 DEF Members
  <2> QED
    BY <2>1, <2>2, <2>3
<1>19. {opened'[j][1] : j \in 1..Len(opened')} \cup Members(scripts') = Wanted
  BY <1>8, <1>17, <1>18
<1>20. Opening'
  BY <1>1, <1>7, <1>11, <1>15, <1>16, <1>19 DEF Opening, Rising, Members
<1> QED
  BY <1>1, <1>6, <1>7, <1>20 DEF IInv, Parsed, Passed, NoEndBefore

LEMMA AllOpenedStep == ASSUME IInv, AllOpened PROVE IInv'
<1>1. /\ phase = "scripts" /\ scripts = <<>> /\ phase' = "done"
      /\ UNCHANGED <<argv, scan, kept, kit, before, scripts, opened>>
  BY DEF AllOpened
<1>2. OptionsTypeOK'
  BY <1>1 DEF IInv, OptionsTypeOK
<1>3. Ended' /\ Opening'
  BY <1>1, SameLine DEF IInv, Ended, Opening, Rising, Members
<1> QED
  BY <1>1, <1>2, <1>3 DEF IInv, Parsed, Passed, NoEndBefore
-----------------------------------------------------------------------------
LEMMA NextIInv == IInv /\ [OptionsNext]_optionVars => IInv'
<1> SUFFICES ASSUME IInv, [OptionsNext]_optionVars PROVE IInv'
  OBVIOUS
<1>1. CASE UNCHANGED optionVars
  <2>1. UNCHANGED <<argv, scan, kept, kit, phase, before, scripts, opened>>
    BY <1>1 DEF optionVars
  <2>2. OptionsTypeOK'
    BY <2>1 DEF IInv, OptionsTypeOK
  <2>3. Parsed' /\ Ended'
    BY <2>1, SameLine DEF IInv, Parsed, Ended
  <2>4. Passed' /\ NoEndBefore'
    BY <2>1 DEF IInv, Passed, NoEndBefore, FilesBefore, Rising, Members
  <2>5. Opening'
    BY <2>1, SameLine DEF IInv, Opening, Rising, Members
  <2> QED
    BY <2>2, <2>3, <2>4, <2>5 DEF IInv
<1>2. CASE OptionsNext
  BY <1>2, PassByStep, TakeSwitchStep, TakeNumberStep, TakeLibraryStep, UsageStep, EndOfOptionsStep,
     OpenScriptStep, AllOpenedStep DEF OptionsNext
<1> QED
  BY <1>1, <1>2

(***************************************************************************)
(* The strengthening holds throughout.                                     *)
(***************************************************************************)
THEOREM Invariance == OptionsSpec => []IInv
  BY InitIInv, NextIInv, PTL DEF OptionsSpec

(***************************************************************************)
(* On any command line, every setting is that of the last option which     *)
(* concerns it, and a final --noassert makes every assertion pass by       *)
(* unevaluated (parse_cmdline).                                            *)
(***************************************************************************)
THEOREM SettingsOfLastOptions == OptionsSpec => []LastOptionWins
<1>1. IInv => LastOptionWins
  <2> SUFFICES ASSUME IInv, phase \in {"scripts", "done"}
               PROVE  SettingsAreLast(FirstEnd) /\ NoassertSkips(FirstEnd)
    BY DEF LastOptionWins, IInv
  <2>1. SettingsAreLast(FirstEnd) /\ Skipping(FirstEnd)
    BY DEF IInv, Ended
  <2> SUFFICES ASSUME CharIsSigned, LastIs(FirstEnd, "x", {"A", "x"}), NEW fn \in AssertFunction
               PROVE  Verdict(kit.strict, fn, <<Integer(1), Integer(2)>>) = "skipped"
    BY <2>1 DEF NoassertSkips
  <2>2. kit.strict = -1
    BY <2>1 DEF Skipping
  <2>3. \A args : Verdict(-1, fn, args) = "skipped"
    BY DEF Verdict
  <2> QED
    BY <2>2, <2>3
<1> QED
  BY <1>1, Invariance, PTL

(***************************************************************************)
(* Every argument that is no option is opened once, in the order given     *)
(* (getopt_long, pmain).                                                   *)
(***************************************************************************)
THEOREM AllScriptsOpened == OptionsSpec => []ScriptsInOrder
<1>1. IInv => ScriptsInOrder
  <2> SUFFICES ASSUME IInv, phase = "done"
               PROVE  /\ \A j, k \in 1..Len(opened) : j < k => opened[j][1] < opened[k][1]
                      /\ {opened[j][1] : j \in 1..Len(opened)} = Wanted
    BY DEF ScriptsInOrder, Wanted
  <2>1. scripts = <<>> /\ 1..Len(scripts) = {}
    <3>1. scripts = <<>> /\ Len(<<>>) = 0
      BY EmptySeq DEF IInv, Opening
    <3> QED
      BY <3>1
  <2>2. Members(scripts) = {}
    BY <2>1, Zenon DEF Members
  <2> QED
    BY <2>2 DEF IInv, Opening
<1> QED
  BY <1>1, Invariance, PTL
=============================================================================
