------------------------------ MODULE LktkRepl ------------------------------
(***************************************************************************)
(* The read-eval-print loop of lktkit (doREPL) and docall, which runs each *)
(* chunk with SIGINT caught.  The Lua stack is modelled value by value.    *)
(* A line is one of a few kinds; a text is the lines joined so far.        *)
(***************************************************************************)
EXTENDS Integers, Sequences

CONSTANTS
  MaxLines,    \* lines typed in a session
  MaxSignals,  \* SIGINTs sent in a session
  MaxResults   \* values a chunk returns

ASSUME ReplAssumption == MaxLines \in Nat /\ MaxSignals \in Nat /\ MaxResults \in Nat

VARIABLES
  stack,    \* the Lua stack: <<kind, text>>
  at,       \* where the loop is
  status,   \* "ok", "syntax", "error"
  handler,  \* what SIGINT does: "default" (kill) or "laction"
  hook,     \* is lstop installed as hook?
  typed,    \* all lines read so far
  units,    \* the texts that were run or rejected
  caught,   \* signals laction received
  stopped,  \* "interrupted!" errors raised
  inCall    \* signals since docall was entered

replVars == <<stack, at, status, handler, hook, typed, units, caught, stopped, inCall>>
signals == <<handler, hook, caught, stopped, inCall>>

\* An expression, a complete statement, the first line of a block, the line
\* that ends one, a line no statement contains, an empty line, "= expression".
Kinds == {"expr", "stmt", "open", "close", "bad", "empty", "="}

ItemKinds == {"line", "function", "msghandler", "value", "message", "nil", "prompt"}
Items == ItemKinds \X Seq(Kinds)
Item(kind) == <<kind, <<>>>>
Front(s) == SubSeq(s, 1, Len(s) - 1)

\* What luaL_loadbuffer says of a text: how many blocks it leaves open.
Depth(text) ==
  LET after[n \in 0..Len(text)] ==
        IF n = 0 THEN 0
        ELSE CASE after[n - 1] < 0 \/ text[n] \in {"bad", "expr"} -> -1
               [] after[n - 1] >= 0 /\ text[n] = "open"  -> after[n - 1] + 1
               [] after[n - 1] >= 0 /\ text[n] = "close" -> after[n - 1] - 1
               [] after[n - 1] >= 0 /\ text[n] = "="     -> IF n = 1 THEN 0 ELSE -1
               [] OTHER -> after[n - 1]
  IN  after[Len(text)]
Compiled(text) == IF Depth(text) = 0 THEN "ok" ELSE IF Depth(text) > 0 THEN "incomplete" ELSE "syntax"
CompilesAsReturn(line) == line \in {"expr", "empty"}

ReplInit ==
  /\ stack = <<>> /\ at = "load" /\ status = "ok" /\ handler = "default" /\ hook = FALSE
  /\ typed = <<>> /\ units = <<>> /\ caught = 0 /\ stopped = 0 /\ inCall = 0

\* loadline, pushline and addreturn for a first line.
ReadFirst(line) ==
  /\ at = "load" /\ Len(typed) < MaxLines
  /\ typed' = Append(typed, line)
  /\ IF CompilesAsReturn(line)
       THEN /\ stack' = <<Item("function")>> /\ at' = "call" /\ status' = "ok"
            /\ units' = Append(units, <<line>>)
       ELSE /\ stack' = << <<"line", <<line>> >> >> /\ at' = "compile" /\ UNCHANGED <<status, units>>
  /\ UNCHANGED signals

EndOfInput ==
  /\ at = "load"
  /\ stack' = <<>> /\ at' = "done"
  /\ UNCHANGED <<status, typed, units, signals>>

\* multiline: load what there is; loadline then removes the line below.
Compile ==
  /\ at = "compile"
  /\ LET text == stack[1][2]
         result == Compiled(text)
     IN IF result = "incomplete"
          THEN at' = "continue" /\ UNCHANGED <<stack, status, units>>
          ELSE /\ stack' = <<Item(IF result = "ok" THEN "function" ELSE "message")>>
               /\ status' = result /\ units' = Append(units, text)
               /\ at' = IF result = "ok" THEN "call" ELSE "report"
  /\ UNCHANGED <<typed, signals>>

\* Faulty: the new line goes below the text it continues.
JoinBelow(line) == << <<"line", <<line>> \o stack[1][2]>> >>

\* pushline, lua_pushliteral, lua_insert, lua_concat.
Join(line) == << <<"line", Append(stack[1][2], line)>> >>

ReadMore(line) ==
  /\ at = "continue" /\ Len(typed) < MaxLines
  /\ typed' = Append(typed, line) /\ stack' = Join(line) /\ at' = "compile"
  /\ UNCHANGED <<status, units, signals>>

\* The input ends inside a statement: what get_prompt pushed, the value of the
\* global _PROMPT2, stays where the caller expects the message.
EndInside(prompt) ==
  /\ at = "continue"
  /\ stack' = <<Item(prompt)>> /\ status' = "syntax" /\ at' = "report"
  /\ units' = Append(units, stack[1][2])
  /\ UNCHANGED <<typed, signals>>

\* docall up to lua_pcall: the message handler under the function, laction.
EnterCall ==
  /\ at = "call"
  /\ stack' = <<Item("msghandler")>> \o stack /\ at' = "running"
  /\ handler' = "laction" /\ inCall' = 0
  /\ UNCHANGED <<status, hook, typed, units, caught, stopped>>

\* Faulty: the hook stays in place.
HookKept == hook

\* lstop takes itself away before it raises.
HookAfterStop == FALSE

Ended(result, values) ==
  /\ status' = result /\ at' = "ended"
  /\ stack' = Front(stack) \o values
  /\ UNCHANGED <<handler, typed, units, caught, inCall>>

Finish(n) ==
  /\ at = "running" /\ ~hook
  /\ Ended("ok", [j \in 1..n |-> Item("value")]) /\ UNCHANGED <<hook, stopped>>

Fail ==
  /\ at = "running"
  /\ Ended("error", <<Item("message")>>) /\ UNCHANGED <<hook, stopped>>

\* The hook runs at the next instruction; the script may catch the error.
Stop(protected) ==
  /\ at = "running" /\ hook
  /\ hook' = HookAfterStop /\ stopped' = stopped + 1
  /\ IF protected THEN UNCHANGED <<stack, at, status, handler, typed, units, caught, inCall>>
                  ELSE Ended("error", <<Item("message")>>)

StackAfterCall == Tail(stack)

\* Faulty: SIGINT is still caught between chunks.
LeaveCallCatching ==
  /\ at = "ended"
  /\ handler' = "laction" /\ stack' = StackAfterCall
  /\ at' = IF status = "ok" THEN "print" ELSE "report"
  /\ UNCHANGED <<status, hook, typed, units, caught, stopped, inCall>>

LeaveCall ==
  /\ at = "ended"
  /\ handler' = "default" /\ stack' = StackAfterCall
  /\ at' = IF status = "ok" THEN "print" ELSE "report"
  /\ UNCHANGED <<status, hook, typed, units, caught, stopped, inCall>>

\* l_print calls 'print' in protected mode; a hook left over stops that call,
\* whose message stays on the stack until loadline clears it.
PrintResults ==
  /\ at = "print" /\ at' = "load"
  /\ IF stack # <<>> /\ hook
       THEN hook' = HookAfterStop /\ stopped' = stopped + 1 /\ stack' = <<Item("message"), Item("message")>>
       ELSE stack' = <<>> /\ UNCHANGED <<hook, stopped>>
  /\ UNCHANGED <<status, handler, typed, units, caught, inCall>>

Report ==
  /\ at = "report"
  /\ stack' = Front(stack) /\ at' = "load"
  /\ UNCHANGED <<status, typed, units, signals>>

\* laction restores the default before it sets the hook.
Interrupt ==
  /\ at \notin {"killed", "done"} /\ caught < MaxSignals
  /\ inCall' = inCall + 1
  /\ IF handler = "default"
       THEN at' = "killed" /\ UNCHANGED <<handler, hook, caught>>
       ELSE handler' = "default" /\ hook' = TRUE /\ caught' = caught + 1 /\ at' = at
  /\ UNCHANGED <<stack, status, typed, units, stopped>>

ReplNext ==
  \/ \E line \in Kinds : ReadFirst(line) \/ ReadMore(line)
  \/ EndOfInput \/ Compile \/ EnterCall \/ Fail \/ LeaveCall \/ PrintResults \/ Report \/ Interrupt
  \/ \E prompt \in {"nil", "prompt"} : EndInside(prompt)
  \/ \E n \in 0..MaxResults : Finish(n)
  \/ \E protected \in BOOLEAN : Stop(protected)

ReplSpec == ReplInit /\ [][ReplNext]_replVars
-----------------------------------------------------------------------------
ReplTypeOK ==
  /\ at \in {"load", "compile", "continue", "call", "running", "ended", "print", "report", "done", "killed"}
  /\ stack \in Seq(Items) /\ typed \in Seq(Kinds) /\ units \in Seq(Seq(Kinds))
  /\ status \in {"ok", "syntax", "error"} /\ handler \in {"default", "laction"} /\ hook \in BOOLEAN
  /\ caught \in 0..MaxSignals /\ stopped \in Nat /\ inCall \in Nat

(***************************************************************************)
(* The stack at the joints of the loop: loadline returns one value (its    *)
(* own lua_assert), docall leaves the results or one message and not its   *)
(* handler, report empties the stack.                                      *)
(***************************************************************************)
StackBalanced ==
  /\ at \in {"call", "report"} => Len(stack) = 1
  /\ at = "call" => stack[1][1] = "function"
  /\ at = "print" => \A j \in 1..Len(stack) : stack[j][1] = "value"
  /\ at = "running" => <<stack[1][1], stack[Len(stack)][1]>> = <<"msghandler", "function">>

\* The text that is not complete yet.
Unfinished == IF at \in {"compile", "continue"} THEN stack[1][2] ELSE <<>>

\* The lines cut up, in order, into the texts and a rest.
Divided(lines, texts, rest) ==
  \E cut \in [0..Len(texts) -> 0..Len(lines)] :
    /\ cut[0] = 0 /\ Len(lines) = cut[Len(texts)] + Len(rest)
    /\ \A j \in 1..Len(rest) : rest[j] = lines[cut[Len(texts)] + j]
    /\ \A k \in 1..Len(texts) :
         /\ cut[k] = cut[k - 1] + Len(texts[k])
         /\ \A j \in 1..Len(texts[k]) : texts[k][j] = lines[cut[k - 1] + j]

(***************************************************************************)
(* Every line typed ends up in exactly one text, in order: the session can *)
(* be cut where the texts end, and continuation lines are neither lost nor *)
(* joined to another statement (multiline).                                *)
(***************************************************************************)
LinesInTexts == at # "killed" => Divided(typed, units, Unfinished)

(***************************************************************************)
(* No line of a session is lost on its way from readline to lua_pcall, and *)
(* nothing but it is on the stack there.                                   *)
(***************************************************************************)
NoLineLost == ReplTypeOK /\ LinesInTexts /\ StackBalanced

(***************************************************************************)
(* A SIGINT stops at most one chunk: "interrupted!" is raised no more      *)
(* often than a signal was caught, and a signal caught while none is       *)
(* pending will be raised: hook or error (laction, lstop).                 *)
(***************************************************************************)
NoStopWithoutSignal ==
  /\ stopped + (IF hook THEN 1 ELSE 0) <= caught
  /\ caught > 0 => hook \/ stopped > 0

(***************************************************************************)
(* While a chunk runs the first SIGINT does not kill the process; while    *)
(* none runs nothing catches it (docall sets and resets the handler).      *)
(***************************************************************************)
SignalKills == Interrupt => (at' = "killed") = (at \notin {"running", "ended"} \/ inCall > 0)
SecondSignalKills == [][SignalKills]_replVars
=============================================================================
