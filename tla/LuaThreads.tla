----------------------------- MODULE LuaThreads -----------------------------
(***************************************************************************)
(* Calls, errors and coroutines: ldo.c, with lua_callk and lua_pcallk of   *)
(* lapi.c, luaG_errormsg of ldebug.c, pcall and xpcall of lbaselib.c and   *)
(* lcorolib.c.  c is the C stack, on which lua_resume and luaD_pcall, each *)
(* with its luaD_rawrunprotected, luaD_call, luaG_errormsg and unroll wait *)
(* for what they called; a longjmp drops its top.  A Lua function calls    *)
(* what it likes, MaxCalls times in all.  Hooks are left out; the size of  *)
(* a stack counts frames.                                                  *)
(***************************************************************************)
EXTENDS Integers, Sequences, FiniteSets

CONSTANTS
  Coroutines,                      \* threads other than "main"
  MaxCalls,
  MaxCCalls, CCallsExtra,          \* LUAI_MAXCCALLS, and an eighth of it
  BasicStack, MaxStack, ErrorStack, ExtraStack

ASSUME ThreadsAssumption ==
  /\ "main" \notin Coroutines
  /\ MaxCCalls \in Nat \ {0} /\ CCallsExtra \in Nat \ {0}
  /\ {BasicStack, MaxStack, ErrorStack, ExtraStack} \subseteq Nat

VARIABLES
  th,       \* thread -> its lua_State
  L,        \* the thread that runs
  c,        \* the C stack
  ctl,      \* what happens next
  calls
threadVars == <<th, L, c, ctl, calls>>

Threads == {"main"} \cup Coroutines
CFunctions == {"pcall", "xpcall", "sort", "resume", "wrap", "yield", "error"}
Protecting == {"pcall", "xpcall"}

Last(q) == q[Len(q)]
Pop(q) == SubSeq(q, 1, Len(q) - 1)
Highest(S) == IF S = {} THEN 0 ELSE CHOOSE i \in S : \A j \in S : j <= i

\* A CallInfo: ypcall and old are what lua_pcallk keeps for a recovery.
Frame(kind, fresh) == [kind |-> kind, fresh |-> fresh, ypcall |-> FALSE, old |-> 0]
Top == Last(th[L].frames)

NewThread(nny) == [status |-> "ok", frames |-> <<>>, start |-> TRUE, nny |-> nny, nC |-> 0, errf |-> 0, size |-> BasicStack]

\* What happens next; msg is the error value: as it was raised, as the message
\* handler returned it, or that of an error that was not handled.
Ctl(go, st, msg) == [go |-> go, st |-> st, msg |-> msg]
Run == Ctl("run", "ok", "")
Raise == Ctl("raise", "err", "error")
Throw(st, msg) == Ctl("throw", st, msg)
Call(noyield) == Ctl(IF noyield THEN "callnoyield" ELSE "call", "ok", "")

Goes(T, stack, k) == th' = [th EXCEPT ![L] = T] /\ c' = stack /\ ctl' = k /\ UNCHANGED L
-----------------------------------------------------------------------------
(* The Lua stack.                                                          *)
InUse(T) == Len(T.frames) + 1
Fits(T) == T.size - ExtraStack - Len(T.frames) > 1
GrownSize(T) ==
  LET doubled == IF 2 * T.size > MaxStack THEN MaxStack ELSE 2 * T.size
      needed == Len(T.frames) + 1 + ExtraStack
  IN  IF doubled < needed THEN needed ELSE doubled
Push(T, f) == [T EXCEPT !.frames = Append(@, f)]

\* luaD_precall: room for the frame, and the frame.
Enter(T, f, stack, k) ==
  \/ Fits(T) /\ Goes(Push(T, f), stack, k)
  \/ ~Fits(T) /\ T.size <= MaxStack /\ GrownSize(T) <= MaxStack /\ Goes(Push([T EXCEPT !.size = GrownSize(T)], f), stack, k)
  \/ ~Fits(T) /\ T.size <= MaxStack /\ GrownSize(T) > MaxStack /\ Goes([T EXCEPT !.size = ErrorStack], stack, Raise)
  \/ ~Fits(T) /\ T.size > MaxStack /\ Goes(T, stack, Throw("err", "unhandled"))

GoodSize(T) == IF InUse(T) + 2 * ExtraStack > MaxStack THEN MaxStack ELSE InUse(T) + 2 * ExtraStack
ShrinkStack(T) == IF InUse(T) <= MaxStack - ExtraStack /\ GoodSize(T) < T.size THEN [T EXCEPT !.size = GoodSize(T)] ELSE T
-----------------------------------------------------------------------------
(* Calls from C, errors, and messages.                                     *)

\* luaD_call and luaD_callnoyield of a Lua function.
CallRec(T, noyield) == [at |-> "call", l |-> L, ci |-> Len(T.frames), noyield |-> noyield]
Counted(T, noyield) == [T EXCEPT !.nC = @ + 1, !.nny = IF noyield THEN @ + 1 ELSE @]
CallFrom(T, stack) ==
  \/ T.nC = MaxCCalls /\ Goes(T, stack, Raise)
  \/ T.nC >= MaxCCalls + CCallsExtra /\ Goes(T, stack, Throw("err", "unhandled"))
  \/ T.nC # MaxCCalls /\ T.nC < MaxCCalls + CCallsExtra /\ Enter(T, Frame("lua", TRUE), stack, Run)
DoCall ==
  /\ ctl.go \in {"call", "callnoyield"}
  /\ LET noyield == ctl.go = "callnoyield" IN CallFrom(Counted(th[L], noyield), Append(c, CallRec(th[L], noyield)))
  /\ UNCHANGED calls

\* luaG_errormsg.
ErrorMsg ==
  /\ ctl.go = "raise"
  /\ IF th[L].errf # 0 THEN Goes(th[L], Append(c, [at |-> "errormsg", l |-> L]), Call(TRUE)) ELSE Goes(th[L], c, Throw("err", ctl.msg))
  /\ UNCHANGED calls

\* A C function is done: luaD_poscall; if a continuation finished it, or its
\* call returned, it was inside its own protected call until now.
LeavesHandler(T) == [T EXCEPT !.frames = Pop(@)]
Finished(T) == [T EXCEPT !.frames = Pop(@), !.errf = IF Last(T.frames).ypcall THEN Last(T.frames).old ELSE @]

\* What waits for the function that returned: luaD_call goes back into the C
\* function that made the call, or into luaG_errormsg.
UnCounted(T, rec) == [T EXCEPT !.nC = @ - 1, !.nny = IF rec.noyield THEN @ - 1 ELSE @]
Returned ==
  /\ ctl.go = "return" /\ Last(c).at = "call"
  /\ LET T == UnCounted(th[L], Last(c)) rest == Pop(c)
     IN  IF Last(rest).at = "errormsg" THEN Goes(T, Pop(rest), Throw("err", "handled"))
         ELSE IF Last(rest).at = "pcall" THEN Goes(T, rest, ctl)
         ELSE Goes(Finished(T), rest, Run)
  /\ UNCHANGED calls
-----------------------------------------------------------------------------
(* Protected calls.                                                        *)

PcallRec(T) == [at |-> "pcall", l |-> L, ci |-> Len(T.frames), nC |-> T.nC, nny |-> T.nny, errf |-> T.errf]
Handler(T) == IF Last(T.frames).kind = "xpcall" THEN Len(T.frames) ELSE 0

\* lua_pcallk: without a continuation through luaD_pcall, otherwise the call is
\* protected by the lua_resume of the thread.
Conventional(T) == Goes([T EXCEPT !.errf = Handler(T)], Append(c, PcallRec(T)), Call(TRUE))
Yieldable(T) ==
  Goes([T EXCEPT !.errf = Handler(T), !.frames[Len(T.frames)] = [@ EXCEPT !.ypcall = TRUE, !.old = T.errf]], c, Call(FALSE))
Pcall == /\ ctl.go = "body" /\ Top.kind \in Protecting
         /\ IF th[L].nny > 0 THEN Conventional(th[L]) ELSE Yieldable(th[L])
         /\ UNCHANGED calls

\* luaD_pcall, with or without an error.  The C stack of the host ends here.
AfterPcall(T, rest) == IF T.frames = <<>> THEN Goes(T, rest, Ctl("stop", "ok", "")) ELSE Goes(Finished(T), rest, Run)
KeepsCount(T, rec) == ShrinkStack([T EXCEPT !.frames = SubSeq(@, 1, rec.ci), !.errf = rec.errf])
PcallError(T, rec) == ShrinkStack([T EXCEPT !.frames = SubSeq(@, 1, rec.ci), !.nny = rec.nny, !.errf = rec.errf])
-----------------------------------------------------------------------------
(* Coroutines.                                                             *)

ResumeRec(co) == [at |-> "resume", l |-> co, from |-> L, nC |-> th[L].nC + 1, nny |-> th[co].nny]
UnrollRec(co) == [at |-> "unroll", l |-> co]

\* The C function of the resumer goes on: wrap hands an error on.
Resumer(from, ths, stack, failed) ==
  /\ th' = [ths EXCEPT ![from] = IF failed /\ Last(@.frames).kind = "wrap" THEN @ ELSE Finished(@)]
  /\ ctl' = IF failed /\ Last(ths[from].frames).kind = "wrap" THEN Raise ELSE Run
  /\ L' = from /\ c' = stack

\* lua_resume leaves: rec is what it kept.
Leave(T, rec, stack, failed) == Resumer(rec.from, [th EXCEPT ![L] = [T EXCEPT !.nny = rec.nny, !.nC = @ - 1]], stack, failed)

\* auxresume, lua_resume: the thread was never started and has its function, or
\* it has yielded.
Resumable(T) == (T.status = "ok" /\ T.frames = <<>> /\ T.start) \/ T.status = "yield"
Running(T, nC) == [T EXCEPT !.nC = nC, !.nny = 0, !.status = "ok", !.start = FALSE]
Switch(co, T, go) ==
  /\ th' = [th EXCEPT ![co] = T] /\ L' = co
  /\ c' = IF go.go = "unroll" THEN Append(Append(c, ResumeRec(co)), UnrollRec(co)) ELSE Append(c, ResumeRec(co))
  /\ ctl' = go
Start(co, T) == Switch(co, Push(T, Frame("lua", TRUE)), Run)
Continue(co, T) == Switch(co, [T EXCEPT !.frames = Pop(@)], Ctl("unroll", "ok", ""))
Resume(co) ==
  /\ ctl.go = "body" /\ Top.kind \in {"resume", "wrap"}
  /\ IF ~Resumable(th[co]) \/ th[L].nC + 1 >= MaxCCalls THEN Resumer(L, th, c, TRUE)
     ELSE IF th[co].status = "yield" THEN Continue(co, Running(th[co], th[L].nC + 1))
     ELSE Start(co, Running(th[co], th[L].nC + 1))
  /\ UNCHANGED calls

\* lua_yieldk.
Yield ==
  /\ ctl.go = "body" /\ Top.kind = "yield"
  /\ IF th[L].nny > 0 THEN Goes(th[L], c, Raise) ELSE Goes([th[L] EXCEPT !.status = "yield"], c, Throw("yield", ""))
  /\ UNCHANGED calls

\* unroll: finishCcall with the continuation of pcall, or luaV_execute.
Unroll ==
  /\ ctl.go = "unroll" \/ (ctl.go = "return" /\ Last(c).at = "unroll")
  /\ LET T == th[L] n == Len(th[L].frames)
     IN  IF n = 0 THEN Goes(T, Pop(c), Ctl("return", "ok", ""))
         ELSE IF Top.kind = "lua" THEN Goes([T EXCEPT !.frames[n].fresh = TRUE], c, Run)
         ELSE Goes(Finished(T), c, Ctl("unroll", "ok", ""))
  /\ UNCHANGED calls

\* findpcall and recover.
RecoverPoint(T) == Highest({i \in DOMAIN T.frames : T.frames[i].ypcall})
Recovered(T, i) == ShrinkStack([T EXCEPT !.frames = SubSeq(@, 1, i), !.nny = 0, !.errf = T.frames[i].old])
Recover(T, stack) ==
  Goes(Finished(Recovered(T, RecoverPoint(T))), Append(stack, UnrollRec(L)), Ctl("unroll", "ok", ""))

\* luaD_rawrunprotected returns, to luaD_pcall or to lua_resume.
Restored(T, rec) == [T EXCEPT !.nC = rec.nC]
TryEnds ==
  /\ ctl.go = "return" /\ Last(c).at \in {"pcall", "resume"}
  /\ LET rec == Last(c) T == Restored(th[L], rec)
     IN  IF rec.at = "pcall" THEN AfterPcall([T EXCEPT !.errf = rec.errf], Pop(c)) ELSE Leave(T, rec, Pop(c), FALSE)
  /\ UNCHANGED calls

\* luaD_throw: a longjmp to the last luaD_rawrunprotected.
LastTry == Highest({i \in DOMAIN c : c[i].at \in {"pcall", "resume"}})
Caught(T, rec, below) ==
  IF rec.at = "pcall" THEN AfterPcall(PcallError(T, rec), below)
  ELSE IF ctl.st = "yield" THEN Leave(T, rec, below, FALSE)
  ELSE IF RecoverPoint(T) # 0 THEN Recover(T, Append(below, rec))
  ELSE Leave([T EXCEPT !.status = "err"], rec, below, TRUE)
Jump ==
  /\ ctl.go = "throw"
  /\ Caught(Restored(th[L], c[LastTry]), c[LastTry], SubSeq(c, 1, LastTry - 1))
  /\ UNCHANGED calls
-----------------------------------------------------------------------------
(* A Lua function runs: it calls one, or a C function, or returns.         *)

Body(kind) == Ctl(IF kind = "lua" THEN "run" ELSE "body", "ok", "")
CallFunction ==
  /\ ctl.go = "run" /\ calls < MaxCalls
  /\ \E kind \in {"lua"} \cup CFunctions : Enter(th[L], Frame(kind, FALSE), c, Body(kind))
  /\ calls' = calls + 1

\* luaB_error, and a C function that calls its argument without continuation.
Error == ctl.go = "body" /\ Top.kind = "error" /\ Goes(th[L], c, Raise) /\ UNCHANGED calls
CallBack == ctl.go = "body" /\ Top.kind = "sort" /\ Goes(th[L], c, Call(TRUE)) /\ UNCHANGED calls

\* OP_RETURN.
Return ==
  /\ ctl.go = "run"
  /\ Goes([th[L] EXCEPT !.frames = Pop(@)], c, IF Top.fresh THEN Ctl("return", "ok", "") ELSE Run)
  /\ UNCHANGED calls

ThreadsInit ==
  /\ th = [t \in Threads |-> IF t = "main" THEN [NewThread(1) EXCEPT !.start = FALSE] ELSE NewThread(1)]
  /\ L = "main" /\ c = <<PcallRec(th["main"])>>
  /\ ctl = Call(TRUE) /\ calls = 0

ThreadsNext ==
  \/ DoCall \/ ErrorMsg \/ Returned \/ Pcall \/ Yield \/ Unroll \/ TryEnds \/ Jump
  \/ CallFunction \/ Error \/ CallBack \/ Return \/ \E co \in Threads : Resume(co)

ThreadsSpec == ThreadsInit /\ [][ThreadsNext]_threadVars
-----------------------------------------------------------------------------
Going == ctl.go # "stop"

\* The pcall or xpcall frame an error of L would get to; 0 is its resumer, or
\* the host.
Catcher ==
  IF c[LastTry].at = "pcall" THEN c[LastTry].ci ELSE RecoverPoint(th[L])
Innermost == Highest({i \in DOMAIN th[L].frames : th[L].frames[i].kind \in Protecting})
Waiting == ctl.go = "body" /\ Top.kind \in Protecting

(***************************************************************************)
(* An error gets to the innermost pcall or xpcall of the thread, whether   *)
(* that one has a C stack of its own or the thread was resumed since, and  *)
(* without one to the resumer; the message handler is that of this xpcall. *)
(***************************************************************************)
ErrorsReachInnermost ==
  Going /\ ~Waiting =>
    /\ Catcher = Innermost
    /\ th[L].errf = (IF Innermost # 0 /\ th[L].frames[Innermost].kind = "xpcall" THEN Innermost ELSE 0)

(***************************************************************************)
(* nCcalls counts the calls on the C stack, over all threads, and stays    *)
(* below its limit with the part for error handling; nny counts those      *)
(* calls of the thread that cannot be left by a yield (lua_resume,         *)
(* luaD_callnoyield).                                                      *)
(***************************************************************************)
Pending(ats) == {i \in DOMAIN c : c[i].at \in ats}
Unyieldable(t) == {i \in Pending({"call"}) : c[i].l = t /\ c[i].noyield}
CountersMatch ==
  Going =>
    /\ th[L].nC = Cardinality(Pending({"call", "resume"}))
    /\ th[L].nC <= MaxCCalls + CCallsExtra
    /\ th[L].nny = Cardinality(Unyieldable(L)) + (IF L = "main" THEN 1 ELSE 0)

\* luaB_costatus.
CoStatus(t) ==
  CASE t = L -> "running"
    [] t # L /\ th[t].status = "yield" -> "suspended"
    [] t # L /\ th[t].status = "ok" -> IF th[t].frames # <<>> THEN "normal" ELSE IF th[t].start THEN "suspended" ELSE "dead"
    [] OTHER -> "dead"

(***************************************************************************)
(* A suspended thread can go on: below the yield there are Lua functions   *)
(* and protected calls with a continuation only, as finishCcall asserts.   *)
(* coroutine.status says "suspended" of the threads that can be resumed,   *)
(* and "normal" of those that wait for one they resumed.                   *)
(***************************************************************************)
Resumers == {c[i].from : i \in Pending({"resume"})}
SuspendedCanGoOn ==
  Going => \A t \in Threads :
    LET F == th[t].frames n == Len(th[t].frames) IN
    /\ th[t].status = "yield" =>
         /\ n > 0 /\ F[n].kind = "yield"
         /\ \A i \in 1..(n - 1) : F[i].kind = "lua" \/ (F[i].kind \in Protecting /\ F[i].ypcall)
    /\ t # L => (CoStatus(t) = "suspended") = Resumable(th[t]) /\ (CoStatus(t) = "normal") = (t \in Resumers)

(***************************************************************************)
(* What calls of any kind leave in a thread.                               *)
(***************************************************************************)
CallsBalanced == CountersMatch /\ SuspendedCanGoOn
=============================================================================
