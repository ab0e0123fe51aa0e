------------------------------- MODULE MCKit -------------------------------
(***************************************************************************)
(* Small instances of the parts of lktkit and of the dmesg utilities that  *)
(* run on their own.  MCParts runs them beside the parts of the            *)
(* interpreter.                                                            *)
(***************************************************************************)
EXTENDS LktkOptions, LktkRepl, LktkStatus, TLC

VARIABLES
  part,                \* the part that runs
  kind, given, drawn,  \* LktkMutator
  call, answer         \* Util*, and the functions of the interpreter

mutatorVars == <<kind, given, drawn>>
callVars == <<call, answer>>
kitVars == <<optionVars, replVars, mutatorVars, statusVars>>

\* A part at rest.
NoOptions == /\ argv = <<>> /\ scan = 1 /\ kept = <<>> /\ kit = NoSettings /\ phase = "usage"
             /\ before = "lktkit" /\ scripts = <<>> /\ opened = <<>>
NoRepl == /\ stack = <<>> /\ at = "done" /\ status = "ok" /\ handler = "default" /\ hook = FALSE
          /\ typed = <<>> /\ units = <<>> /\ caught = 0 /\ stopped = 0 /\ inCall = 0
NoMutator == kind = 0 /\ given = 0 /\ drawn = 0
NoStatus == /\ mode = "line" /\ pc = <<>> /\ script = <<>> /\ failures = <<>> /\ fds = <<>>
            /\ buffer = <<>> /\ echoed = <<>> /\ output = <<>> /\ taint = {}
NoCall == call = 0 /\ answer = 0
-----------------------------------------------------------------------------
\* Command lines of up to three arguments.
Arg(k, name, value) == [kind |-> k, name |-> name, value |-> value]
Arguments ==
  {Arg("option", o, 0) : o \in {"v", "A", "x", "L", "i", "q", "k"}}
  \cup {Arg("option", "p", n) : n \in {2, -1, -99}}
  \cup {Arg("option", "c", 3), Arg("option", "l", 1), Arg("file", "a.lua", 0), Arg("file", "-", 0), Arg("end", "--", 0)}
Rejected == {Arg("option", "E", 0), Arg("option", "e", 1)}

MCCommandLines == UNION {[1..n -> Arguments] : n \in 0..3} \cup [1..1 -> Rejected]

\* Flags of one and of several bits, none to seven of them.
Mutator == INSTANCE LktkMutator WITH
  FlagSets <- {[k \in 1..n |-> {k}] : n \in 0..7} \cup {<<{1, 2}, {2, 3}, {4}>>, <<{1}, {1}>>},
  ChoiceSets <- {<<>>, <<"aaa">>, <<"aaa", "bbb", "ccc">>}, Ranges <- {<<-10, -1>>, <<0, 0>>, <<3, 2>>},
  Arguments <- {"string", "number", "table", "nil", "boolean", "userdata"}

\* Besides two workers for one script: four scripts and no worker.
Alone == INSTANCE LktkStatus WITH Scripts <- 4, Workers <- 0

\* Up to two digits after the point; sizes around the limits of the units.
Fractions == {<<>>} \cup {<<d>> : d \in 1..9} \cup {<<d, e>> : d \in {0, 1, 2}, e \in {1, 5, 8}}
Sizes == INSTANCE UtilSizes WITH
  MaxUint <- 16777215,
  Texts <- {[whole |-> w, digits |-> f, power |-> p, base |-> b] :
              w \in {0, 1, 3, 15, 16, 1023}, f \in Fractions, p \in 0..2, b \in {1000, 1024}},
  Numbers <- {0, 1, 999, 1023, 1024, 1025} \cup {1024 * k + f : k \in {1, 9, 1023}, f \in 0..1023}
    \cup {1048576 * k + 1024 * f + g : k \in {1, 7}, f \in {0, 1, 99, 100, 512, 923, 949, 950, 1023}, g \in {0, 1, 1023}}

\* Two names, one the beginning of the other.
TextLists == INSTANCE UtilLists WITH
  Chars <- {"a", "b", ",", "/", "+", " ", "'", "\\"}, MaxLen <- 4,
  Ids <- <<"a">> :> 1 @@ <<"a", "b">> :> 2, ArraySize <- 3

\* Texts of up to four bytes; tags that begin with a space, as the kernel's do.
Bytes(chars, n) == UNION {[1..k -> chars] : k \in 0..n}
Mangle == INSTANCE UtilMangle WITH
  Plain <- Bytes({32, 92, 48, 97}, 3),
  Octal <- Bytes({92, 48, 55}, 4) \cup {<<92>> \o s : s \in Bytes({120, 52, 97}, 4)}
           \cup {s \o <<92, 49, 51, 52>> : s \in Bytes({92, 48}, 2)},
  Messages <- Bytes({10, 92, 97, 120, 52}, 3) \cup {<<92, 120, 52, 49>>, <<97, 10, 98>>},
  Tags <- <<32, 84>>

\* The units of parse_sec in their order, with small numbers for their lengths;
\* dates around a year's end, every day of a week.
UnitTable == <<
  <<"seconds", 100>>, <<"second", 100>>, <<"sec", 100>>, <<"s", 100>>, <<"minutes", 600>>, <<"minute", 600>>, <<"min", 600>>,
  <<"months", 90000>>, <<"month", 90000>>, <<"msec", 10>>, <<"ms", 10>>, <<"m", 600>>, <<"hours", 3600>>, <<"hour", 3600>>,
  <<"hr", 3600>>, <<"h", 3600>>, <<"days", 8640>>, <<"day", 8640>>, <<"d", 8640>>, <<"weeks", 60480>>, <<"week", 60480>>,
  <<"w", 60480>>, <<"years", 99990>>, <<"year", 99990>>, <<"y", 99990>>, <<"usec", 1>>, <<"us", 1>>, <<"", 100>> >>
Units == {UnitTable[k][1] : k \in DOMAIN UnitTable} \cup {"mo", "minx", "u", "hrs", "x"}
SpanItem(i, p, f, u) == [int |-> i, point |-> p, frac |-> f, unit |-> u]
Whole(u) == SpanItem(<<2>>, FALSE, <<>>, u)
SpanItems == {SpanItem(i, FALSE, <<>>, u) : i \in {<<>>, <<2>>}, u \in Units}
         \cup {SpanItem(i, TRUE, f, u) : i \in {<<>>, <<1>>}, f \in {<<>>, <<5>>, <<0, 5>>, <<2, 5>>, <<9, 9>>}, u \in Units}
Num(n) == <<"num", n>>
Sep(s) == <<"sep", s>>
Dates == {<<Num(y), Sep("-"), Num(d)>> \o r : y \in {2, 20}, d \in 0..9, r \in
            {<<>>, <<Sep(" "), Num(1), Sep(":"), Num(2)>>, <<Sep(" "), Num(1), Sep(":"), Num(2), Sep(":"), Num(1)>>, <<Sep(" ")>>}}
         \cup {<<Num(2), Sep(":"), Num(1)>>, <<Num(2), Sep(":"), Num(0), Sep(":"), Num(2)>>,
               <<Num(20), Num(3), Num(1), Num(2), Num(1)>>, <<Num(4)>>}
Times == INSTANCE UtilTimes WITH
  Table <- UnitTable, Base <- 3, YearDays <- 10, Now <- 200,
  Spans <- {<<>>} \cup {<<i>> : i \in SpanItems}
           \cup {<<Whole(u), SpanItem(<<1>>, TRUE, <<0, 5>>, v)>> : u \in Units, v \in {"m", "ms", "", "mo"}},
  Stamps <- {<<"now">>, <<"today">>, <<"yesterday">>, <<"tomorrow">>}
            \cup {<<sign, <<Whole(u)>> >> : sign \in {"+", "-", "ago"}, u \in {"", "s", "mo", "day"}}
            \cup {<<"date", w, t>> : w \in -1..6, t \in Dates}
-----------------------------------------------------------------------------
UtilInit ==
  \/ part = "sizes" /\ Sizes!Init
  \/ part = "lists" /\ TextLists!Init
  \/ part = "mangle" /\ Mangle!Init
  \/ part = "times" /\ Times!Init

KitInit ==
  \/ part = "options" /\ OptionsInit /\ NoRepl /\ NoMutator /\ NoStatus /\ NoCall
  \/ part = "repl" /\ ReplInit /\ NoOptions /\ NoMutator /\ NoStatus /\ NoCall
  \/ part = "mutator" /\ Mutator!Init /\ NoOptions /\ NoRepl /\ NoStatus /\ NoCall
  \/ part = "forked" /\ StatusInit /\ NoOptions /\ NoRepl /\ NoMutator /\ NoCall
  \/ part = "alone" /\ Alone!StatusInit /\ NoOptions /\ NoRepl /\ NoMutator /\ NoCall
  \/ UtilInit /\ NoOptions /\ NoRepl /\ NoMutator /\ NoStatus
NoKit == NoOptions /\ NoRepl /\ NoMutator /\ NoStatus

UtilNext ==
  \/ part = "sizes" /\ Sizes!Next
  \/ part = "lists" /\ TextLists!Next
  \/ part = "mangle" /\ Mangle!Next
  \/ part = "times" /\ Times!Next

KitNext ==
  \/ part = "options" /\ OptionsNext /\ UNCHANGED <<replVars, mutatorVars, statusVars, callVars>>
  \/ part = "repl" /\ ReplNext /\ UNCHANGED <<optionVars, mutatorVars, statusVars, callVars>>
  \/ part = "mutator" /\ Mutator!Next /\ UNCHANGED <<optionVars, replVars, statusVars, callVars>>
  \/ part = "forked" /\ StatusNext /\ UNCHANGED <<optionVars, replVars, mutatorVars, callVars>>
  \/ part = "alone" /\ Alone!StatusNext /\ UNCHANGED <<optionVars, replVars, mutatorVars, callVars>>
  \/ UtilNext /\ UNCHANGED <<optionVars, replVars, mutatorVars, statusVars>>
-----------------------------------------------------------------------------
\* Each pure function gives what a definition that does not follow its code gives.
AnswersRight ==
  CASE part = "mutator" -> Mutator!FlagsDrawn /\ Mutator!TablesRaise
    [] part = "sizes"   -> Sizes!WholeSizesExact /\ Sizes!DocumentedFractions /\ Sizes!HumanReadBack
    [] part = "lists"   -> TextLists!ListsTaken /\ TextLists!AddKeepsOld /\ TextLists!PathsCompared /\ TextLists!SplitAdvances
    [] part = "mangle"  -> Mangle!RoundTrip /\ Mangle!DecodingBounded /\ Mangle!FirstParseDecodes
    [] part = "times"   -> /\ Times!SpansMean /\ Times!StampFields /\ Times!WeekdayHolds
                           /\ Times!IsoBounded /\ Times!ShortTimesTell
    [] OTHER -> TRUE
=============================================================================
