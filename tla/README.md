# Verification of lktk, the Linux Kernel Test Kit

lktk runs Lua scripts that test a Linux kernel. A script calls the kernel through a
global `syscall`, states what it expects with `assert_*` functions, and may fork. The kit
can run every script in several forked workers. A separate reader, not linked into the kit
yet (the repository's README lists it under TODO), counts the kernel messages a test caused.
The Lua 5.3 interpreter that runs the scripts is part of the repository.

This directory holds TLA+ models of the parts that carry state or decide something, the TLC
runs that check them on small instances, and theorems that TLAPS checks for every value of
the constants. `PROJECT.json` lists the components, the runs, the hazards with the
properties that watch them, and the source lines each definition stands for. A helper of the
Lua modules whose lines lie within those of the operators that use it is mapped with them.

## 1. Inventory

### The kit and the message reader

| Component | Source | State | Operations | Hard behaviour |
|---|---|---|---|---|
| Script harness | `kit/lktk.c` 203-306, 457-655, 771-803 | `kit`, `cur_script`, `i`, the process tree, the global `arg` | `pmain`, `handle_script`, `docall`, the fork and the reap loop, `stop` | `fork` duplicates the whole program in the middle of two loops; any order of ends; kills; a fork that fails |
| Assertions | `kit/lktkassert.c` | `kit.failures`, `kit.strict` | `assert_true`, `assert_eq`, `assert_ge`, `assert_gt` | one counter copied by every fork; three modes |
| System calls | `kit/lktklib.c` 23-371 | `argz`, the Lua stack, `__userdata` of tables, the Lua heap | `sysCall`, `any_to_long`, `unmarshall*`, `marshall*` | raw pointers while the collector runs; stack discipline; errors in the middle |
| posix helpers | `kit/lktklib.c` 163-239 | none | `fork`, `wait`, `sleep`, ... | `fork` and `wait` meet the harness's own |
| Kernel message reader | `dmesg-util/dmesg.c` 513-573, 965-1294 | a static control block, the position in `/dev/kmsg` | `grep_kernel_messages`, `init_kmsg`, `read_kmsg`, `read_kmsg_one`, `parse_kmsg_record` | the kernel logs, overwrites and clears meanwhile; fragments; state kept between calls |
| Command line | `kit/lktk.c` 659-762 | `kit`, `libname`, `optind` | `parse_cmdline` | options behind file names, the two dashes, contradicting options |
| SIGINT | `kit/lktk.c` 181-196, 243-254 | `globalL`, the handler, the hook | `laction`, `lstop`, `docall` | a signal between the end of a chunk and the reset of the handler |
| Read-eval-print loop | `kit/lktk.c` 308-452 | the Lua stack | `loadline`, `multiline`, `addreturn`, `doREPL` | incomplete statements, end of input in the middle |
| Taint status, messages | `kit/lktk.c` 88-174, `kit/lktklib.h` | open descriptors, the buffer of standard output | `get_tainted`, `print_status`, `echo_*` | descriptors that are not closed; `fork` copies what is buffered |
| Mutator | `tests/mutator.lua` | the kind of an argument, what was drawn | `random` of three kinds, the wrapper of `syscall` | combinations of flags; arguments of every type |
| Utilities | `dmesg-util/{strutils,timeutils,mangle}.c` | none, or a buffer written in place | parsing, formatting | ends of strings, small units, formats tried in turn, decoding in place |

How they interact. `main` parses the command line into the static `kit`, which nobody writes
afterwards except for `kit.failures`. `pmain` runs chunks one after the other through
`docall`. A chunk calls back into the kit: an assertion raises the failure count, and in
strict mode a Lua error that ends the chunk; `syscall` enters the kernel; `fork` returns
twice, in the chunk and so in `pmain`. Workers and the main process share nothing but the
process tree and the file standard output goes to: what a worker counts is printed by the
worker and lost with it.

### Lua 5.3

| Component | Source | State | Hard behaviour |
|---|---|---|---|
| Collector | `lua/lgc.c` | colours, gray lists, the list of objects, those with finalizers, the phase | the program stores references between any two steps; weak tables; resurrection |
| Tables | `lua/ltable.c` | array part, nodes and their chains, `lastfree` | collisions, growth in the middle of an insertion, traversal while keys die |
| Calls, errors, coroutines | `lua/ldo.c`, `lua/lcorolib.c`, parts of `lapi.c`, `ldebug.c`, `lbaselib.c` | the frames of each thread, the C stack, `nCcalls`, `nny`, `errfunc` | errors and yields that drop C frames; stacks and C calls at their limits |
| Compiler | `lua/lparser.c`, `lua/lcode.c` | the function under way, active variables, labels, pending jumps, free registers | one pass: jumps patched later, registers freed as a stack, constants that do not fit |
| Virtual machine | `lua/lvm.c`, `lua/lfunc.c` | frames, the stack, open upvalues | captured variables and the ends of their scopes |
| Metatables | `lua/ltm.c`, parts of `lvm.c`, `lapi.c`, `lbaselib.c` | metatables, the flags of absent metamethods | a cache that every write has to forget |
| Numbers | `lua/lobject.c`, parts of `lvm.c`, `lua/lmathlib.c` | none | two kinds of numbers that do not hold each other |
| Scanner | `lua/llex.c` | text, buffer, line, look-ahead | line breaks, long brackets, escapes, the longest token |
| Precompiled chunks | `lua/ldump.c`, `lua/lundump.c` | none | sources inherited from the outer function; truncated chunks |
| Strings | `lua/lstrlib.c` | captures | backtracking; alignment and sizes |
| Table library | `lua/ltablib.c` | a list | moves over themselves; a sort by what is no order |
| utf8, bit32 | `lua/lutf8lib.c`, `lua/lbitlib.c` | none | bytes that are no characters; fields at the width |
| The rest | `lapi.c`, `lauxlib.c`, `liolib.c`, `ldebug.c`, `lstring.c`, `lmem.c`, `lua.c`, `luac.c`, ... | - | not modelled, see section 6 |

The kit meets Lua in three places: chunks run under `lua_pcallk` (calls and errors), system
calls keep their structures in tables while the collector runs, and SIGINT sets a hook.

What makes each component correct, and where that is stated:

* Harness: every script runs, once or once per worker (`EachScriptRunsPerWorker`,
  `ReentryNeedsFork`, `AllScriptsTried`); the main process waits for all and for no one else
  (`NoOrphanWorker`, `NothingLeftBehind`, `RootEnds`, `EveryWorkerReaped`); a worker reports
  its own failures (`WorkerCountsOwnScript`); in all, it is a pool of tasks
  (`ImplementsTasks`).
* System calls: the kernel gets live and distinct blocks (`PointersAnchored`,
  `PointersDistinct`), what it writes arrives in the script's tables (`ResultsReachTables`),
  and a call that was made returns (`CallsReturn`, `PaddedCallsReturn`).
* Message reader: every record once, in order, in whole messages (`EveryRecordOnce`,
  `MessagesWhole`), the right count (`StillLogCounted`), an end (`CallEnds`), nothing left
  for the next call (`NothingLeftOver`), and two things its comments promise
  (`ReadsToEnd`, `FragmentsTruncated`).
* The rest of the kit: the last option wins and every script is opened once (`LastOptionWins`,
  `ScriptsInOrder`); no line typed is lost, no chunk stopped without a signal (`NoLineLost`,
  `NoStopWithoutSignal`, `SecondSignalKills`); what is printed is written, and the verdict on
  the kernel is true (`OutputWritten`, `VerdictTrue`); utilities compute what they should
  (`AnswersRight`).
* Lua: nothing in use is freed and everything lost is (`NothingDangling`, `MarksHold`,
  `OnlyLost`, `GarbageFreed`, and `AllWhiteAgain`, which the code promises); a table is a map that can be traversed (`TableIsMap`,
  `TraversalComplete`); errors arrive, calls balance (`ErrorsReachInnermost`,
  `CallsBalanced`); a program computes what it means (`MeansTheSame`, `CodeWellFormed`,
  `UpvaluesLive`); metamethods and values are right (`MetamethodsMeant`, `ValuesRight`), and
  so are the libraries (`LibraryRight`).

## 2. Modules

| Module | What it models |
|---|---|
| `LktkAssert` | the four assertion functions as operators: verdict, whether it counts, whether it raises |
| `LktkHarness` (extends `LktkAssert`) | the harness: all processes that descend from the first one |
| `LktkTasks` | the abstract specification: a pool of tasks |
| `LktkHarnessTasks` | the refinement mapping from `LktkHarness` to `LktkTasks` |
| `LktkSyscall` | `syscall()` with the Lua stack, the tables and the heap |
| `LktkDmesg` | `grep_kernel_messages` and the kernel's log |
| `LktkOptions` (extends `LktkAssert`) | the command line and the order in which scripts are opened |
| `LktkRepl` | the read-eval-print loop, `docall` and SIGINT |
| `LktkStatus` | the taint status and the buffers of standard output |
| `LktkMutator` | the mutator of system calls |
| `UtilSizes`, `UtilLists`, `UtilTimes`, `UtilMangle` | the utilities beside the message reader |
| `LuaGc`, `LuaTable`, `LuaThreads` | collector, tables, calls and coroutines |
| `LuaCode`, `LuaParser` | the code generator, and the compiler on top of it |
| `LuaMeaning` | what a program means, without registers or jumps |
| `LuaVm` (extends `LuaParser`) | the machine that runs compiled programs |
| `LuaMeta`, `LuaValues`, `LuaLex` | metatables, numbers, tokens |
| `LuaPattern`, `LuaPack`, `LuaTableLib`, `LuaUtf8`, `LuaBits`, `LuaDump` | libraries, precompiled chunks |
| `LktkHarnessProofs` (with the refinement), `LktkSyscallProofs`, `LktkDmesgProofs`, `LktkStatusProofs`, `LktkOptionsProofs`, `LktkReplProofs`, `LuaThreadsProofs`, `LuaGcProofs` | the theorems |
| `MCLktkHarness`, `MCLktkSyscall`, `MCLktkDmesg`, `MCLuaGc` | instances for TLC |
| `MCParts` (extends `MCLuaVm`, which extends `MCLuaPrograms` and `MCKit`) | instances of many small parts, in one run |

`MCParts` runs parts that do not interact, those of the kit (`MCKit`) and those of the
interpreter. Its variable `part` says which one a behaviour belongs to; the variables of all
others stay 0. A property of the run is the conjunction of what is stated in the modules of
its parts. `IfSpec` is the same for one set of programs alone.

Definitions that begin with the comment "Faulty:" are plausible mistakes. No specification
uses them; each replaces the definition that follows it to see that a property notices.

### LktkHarness

A process has a `stage`, the place where it stands in `main` and `pmain`, and its own copies
of `cur_script` (`script`), `i` (`idx`), `kit.failures` (`failures`) and of whether `arg` is
a table. `fork` copies all of them to an unborn process, so a child forked by a script
falls into the harness's loops as it does in the program.

* The stages `luainit`, `library`, `script`, `worker` and `repl` are chunks under `docall`.
  While one runs, the script may fail an assertion, fork, wait, exit or overwrite `arg`; it
  ends with or without an error (`ChunkEnds`), and what `pmain` does then depends on the
  stage (`InitReturns` ... `ReplReturns`).
* `loop`, `fork` and `reap` are the loops of `pmain` 594-636, one action per way through
  them; `stop` is the end of `main`.
* `Exit`, `Reaped` and `Killed` are the kernel: zombies, adoption by init, `waitpid(-1)`.
* `LoadFails` and `Entered` are `handle_script`: a script that does not load is reported
  and skipped; `pushargs` raises outside `docall`, and `pmain` is left.

History variables (`own`, `maker`, `abandoned`, `started`, `forks`) are read by no guard,
except for the bound on `forks`.

### LktkTasks and LktkHarnessTasks

A task is a script and a copy of it. It is due, running or done; the main program starts
tasks that are due and goes on when it has started all and all are done, or abandons what
is left when it cannot start one. The mapping calls every worker the first process forked
by the `cur_script` and `i` it was forked with. A main program that ends because LUA_INIT
or the library failed maps to one that abandons its tasks before it started any.

### LktkSyscall

`Call` is the entry of `sysCall`; then one action per argument and way to convert it
(`ConvertPlain`, `ConvertBad`, `Unmarshall`); `Kernel` is the call itself and whatever the
kernel writes to the blocks it was given; one action per argument and way to marshall it;
`Return`; and the script goes on (`Resume`, `SetFields`), which includes catching the error.
`Unmarshall` lets the collector free any set of blocks no table refers to before it
allocates. `height` is the number of arguments still on the Lua stack: that is what the
marshalling functions get wrong. All fields of a structure are one value. An integer is cut
to an `int` on the way (`IntMax`), as `sysCall` does before it compares. Blocks are taken
from a finite set, larger than the set of tables, so one is always to be had.

### LktkDmesg

`log` is every record ever logged, `oldest` the first one still there, `cleared` what
`lseek(SEEK_DATA)` finds. `Log` and `Clear` may happen between any two steps of the reader.
A record has a flag, a level and a time; a message in `buf`, `frag` or `saved` is the
sequence of its records. There is one action for every outcome of a `read()` in
`read_kmsg_one`; those that make it return hand `buf` to the filter (`Deliver`) or end the
reading (`ReturnError`). Two details of the C code decide what an error does. After a failed
`read()` the parser works on what `kmsg_buf` still holds, and `parse_faclev` resets
`errno`; only when the buffer is empty, at the very first read of the process, does it
return before that. And the control block is `static`: `method`, `count`, `buf` and
`saved` survive the call. `follow` is always 0 and `raw` always 1 in this program.
A record is one unit of `FragCap`, the size of `fragment_buf`.

### LktkOptions, LktkRepl, LktkStatus, LktkMutator

* `LktkOptions` walks through `argv` as `getopt_long` does, one argument per step, passing
  by file names (`kept`), and then opens the scripts one by one. `LastOptionWins` compares
  the settings with what the whole line asks for; it composes with the assertions:
  after a final `--noassert` none is evaluated.
* `LktkRepl` has the Lua stack value by value, the handler of SIGINT and the hook. A line is
  an expression, a statement, the beginning or the end of one, or nonsense. A signal may
  arrive before any step.
* `LktkStatus` gives every process its own copy of the buffer of standard output, as `fork`
  does, and lets bits of the taint word appear while scripts run. `get_tainted` keeps the
  descriptor it opened.
* `LktkMutator` has one action for each kind of argument and one for the wrapped call.

### The utilities

Each module has one variable for the call and one for the answer; `Init` takes every call
the constants describe, `Next` answers it with a translation of the C function. The
properties compare the answer with a definition that does not follow the code: the value of
a fraction, the list a text stands for, the instant a date stands for, the text before it
was mangled. `UtilMangle` also has the reader's double decoding: `parse_kmsg_record` decodes
a message where it lies and runs twice on it.

### Lua: collector, tables, threads

* `LuaGc`: one step is one turn of a loop of the collector, so that whatever it goes through
  object by object in `lgc.c` it goes through object by object here. `pc` is the loop that
  runs, or `"program"`; `gcstate`, `white`, `sweepgc` and `finnum` (`gcfinnum`) are the fields of
  `global_State`; `rest`, `again`, `round`, `cleared`, `count` and `moved` are local variables of the
  loops. `frames` are the calls of `luaC_step` and `luaC_fullgc` that have not returned: a
  finalizer is the program again, with one more frame below it, and may call
  `collectgarbage` itself. An object is a table with one hash node and a weak mode, a
  userdata with one user value, or a string. `mark` has both whites; `list` holds `allgc`, `finobj`
  and `tobefnz` as sequences, since sweeping, separating and calling finalizers go by their
  order; `linked` holds the gray lists as sets, so that an object may be taken from them in any
  order. `reallymarkobject` marks a userdata and its user value at once (`Chain`), as the
  code does. The program, while `pc` is `"program"`, creates objects, stores references
  with their barriers, reads them through weak tables too, drops them, and sets metatables with
  a mode or a finalizer; luaC_checkfinalizer moves `sweepgc` on in a loop (`SweepToLive`).
  `overtaken` is a history variable: it becomes TRUE when a finalizer is called for the
  very object `sweepgc` points to. Then the sweep is continued in another list than the one it
  began (finding 4), and what the collector promises is lost; the other properties are stated
  for behaviours in which this has not happened.
* `LuaTable`: `t` is the array part, the nodes and `lastfree`; `map` is the map it should be;
  `it` and `seen` are a traversal. The collector marks dead keys between any two calls.
* `LuaThreads`: `c` is the C stack as a sequence of the functions that wait on it; a
  `longjmp` drops its top. `th` holds for every thread its frames, status, `nny` and
  `errfunc`. A Lua or C function calls, returns, raises, yields or resumes, with `MaxCalls`
  calls by Lua functions in all, whichever the code allows at that place. A stack is
  measured in frames. `luaD_rawrunprotected` has no record of its own: it is called by
  `lua_resume` and `luaD_pcall` only, and what it keeps is in their records. `MCParts`
  extends this module and `MCLuaVm`; its cfg gives this module's constants their values.

### Lua: compiler and machine

`LuaParser` and `LuaCode` are functions from a parsed program to a function prototype: the
state of the compiler is the record `f`, threaded through the translated functions one after
the other. The grammar is given (the statements and operands to come are in `f.stats` and
`f.rest`), what the compiler does with it is translated: scopes, registers, jumps lists,
constants, upvalues, pending gotos. `LuaVm` runs the result, one instruction per step, with
one stack for all frames. `LuaMeaning` evaluates the program itself, with variables as
places in a store, and the two must agree on the output, the results and the error
(`MeansTheSame`). They do, except for programs with an `if` of the shape of finding 6, which
`LuaMeaning` recognizes (`Misled`): of these the property says nothing, and `GotosReachLabels`,
which leaves nothing out, is violated.

`LuaMeta` has two or three tables, metatables among them, and in its actions every way to
write a table or to set a metatable; `flags` is the cache of absent metamethods.

### Lua: values, characters and libraries

These modules are pure: a call, and its answer by a translation of the C code, compared with
a definition of another kind. `LuaValues`: exact values of both kinds of numbers. `LuaUtf8`
and `LuaBits`: characters and their codes; sets of bits. `LuaLex`: the tokens a text was
put together from. `LuaPattern`: the set of all matches of the items of a pattern, of which
the first and best is to be found. `LuaPack`: what is unpacked is what was packed, and what
is packed again is what was unpacked. `LuaTableLib`: lists as sequences. `LuaDump`: the
prototype that was dumped.

## 3. Runs

| Run | Instance | Shows |
|---|---|---|
| `harness` | 4 processes; no worker, 1 or 2 workers, `--process -1`; 0 to 2 scripts, `--assert` and `--noassert` with one; LUA_INIT, library and `-i`; one failure per process, one fork by a script | the safety properties of the harness |
| `harness_live` | 3 processes; 1 and 2 workers, 1 and 2 scripts | the harness ends, reaps every worker, and implements the task pool |
| `harness_all` | 2 processes | **violated** `AllScriptsTried` |
| `syscall` | 2 tables of any of 4 types, 3 blocks, 3 arguments, 2 calls, `int` of 3 bits | pointers, results, padded calls |
| `syscall_return` | the same, 2 arguments, 1 call | **violated** `CallsReturn` |
| `dmesg` | 3 records of 4 kinds, 3 requests, 2 calls, all kernels | records, messages, counts, clean end; a call ends |
| `dmesg_overrun` | new kernel, 1 call | **violated** `ReadsToEnd` |
| `dmesg_fragment` | `FragCap` 3 | **violated** `FragmentsTruncated` |
| `parts` | all command lines of 3 arguments; sessions of 3 lines with 3 signals; 2 workers, or 4 scripts alone; utilities over texts of 3 to 6 characters | command line, prompt, signals, output, verdict, utilities |
| | one table of 6 keys; 3 threads; library calls; 14 018 programs; 2 and 3 tables with metatables; values of 5 bits | tables, errors and coroutines, libraries, compiler and machine, metamethods, values, tokens |
| `parts_if` | the 1 080 of these programs with an `if` that begins with a jump | **violated** `GotosReachLabels` |
| `gc` | heaps of 6 objects, 2 operations of the program, 2 nested calls of the collector, sweeps of 2 objects | what is in use is kept, marks and lists, finalizers and weak entries; what is lost is freed |
| `gc_sweep` | three objects with finalizers, sweeps of 1 object | **violated** `AllWhiteAgain` |

Bounds and why they are enough.

* Harness. Two workers and two scripts are the least with which a worker could run another
  script, a worker of an earlier script could be reaped late, and a fork could fail between
  two others. Four processes leave one for a script's own fork beside a script and two
  workers. With fewer processes than the command line asks for, fork simply fails
  later on (`ForkFails` is possible at any time). The symmetry of the processes other than
  the root is sound: they are compared with each other only. The theorems lift the bounds.
* System calls. Two tables and three arguments give a table passed twice, one table between
  two others, and a table followed by a plain argument; two calls let a call find what
  another one left behind. `MaxArgs` never exceeds 6, the size of `argz`.
* Messages. Three records give a fragment of two records and the record behind it, or a
  message before and after an overrun; two calls show what the static state does. The four
  kinds of records lie on both sides of each half of the filter.
* Kit. Three arguments hold two contradicting options and a file name between them. Three
  lines hold a statement over several lines and one after it; three signals reach a chunk,
  the moment after it and the next one. Five descriptors run out while the main program reports on four scripts.
* Collector. Three heaps in which an object on the stack, a second one and a third one with a
  finalizer refer to each other, with two operations of the program (one in the heap with
  a weak table) anywhere between the turns of the collector's loops: a black object whose
  reference to a white one the program shortens, a reference read out of a weak table, a
  table that becomes weak, an object that is stored by its finalizer. All combinations of
  ephemerons and weak tables over five keys and values, in cycles through each other too,
  without operations: there the collector alone has to come to the right end. With
  `MaxFrames` 2 a finalizer can run a whole collection. Sweeps of 2 of up to 6 objects stop in
  the middle of each list. `ManyHeaps` has more finalizers than a step sweeps.
* Tables. Six keys fill an array and a hash part of up to four and make them grow; a float
  key that is an integer, and keys whose hashes collide, are among them. `IntLimit` 5 is just above the largest key:
  the search for a border doubles its index, and goes over to the linear search when it
  cannot.
* Threads. Two coroutines can resume each other and the main one; five operations reach a
  protected call within a coroutine within a protected call, and both limits.
* Compiler. Programs of three operands are all combinations of operators and operands,
  in every context; every order of four statements that jump or are jumped to stands for
  what gotos can do to scopes. A `then` part that begins with a goto or a break is followed by
  labels or none, by statements, or by jumps back to the labels, under conditions that end in
  either kind of jump, alone, with an `else` and as an `elseif`. `MaxIndexRK` 1, `MaxBx` 2 and `FieldsPerFlush` 2 bring the limits
  on constants and constructors into programs of that size.
* Values and libraries. Widths are scaled so that every limit (largest integer, largest
  integer a float holds exactly, size of a packed integer, byte) lies within the inputs.

Deadlock is checked for the harness: when all processes are gone, only `AllGone` is left.
The other models stop when their bound is reached, or when the program has ended.

Fairness. `harness_live` assumes that every process which can take a step of the driver
takes one, and that every chunk ends. The first is the scheduler. The second is not
guaranteed by the kit, which has no time limit (`kit.timeout` is neither set nor read); the
run therefore shows that nothing *else* makes the harness hang. Nothing is assumed of the
steps of scripts, of kills or of forks. `dmesg` assumes that the reader takes its
steps: it opened `/dev/kmsg` with `O_NONBLOCK`. That the log has an end is the bound
`MaxLog`: a kernel that logs faster than it is read keeps the reader busy for ever.
`gc` assumes, for the part `lost` alone, that the collector makes its steps once called
(`Collector`), that finalizers return (`Return`), and that the program goes on allocating, which
calls the collector (`Step`): a program that does not allocate needs no memory.

## 4. Findings

1. `pushargs` raises outside `docall` (`kit/lktk.c:460`): one script that overwrites the
   global `arg` silently ends the run for all later scripts.
2. `marshall_stat` and `marshall_sched_attr` pop one value too many (`kit/lktklib.c:139`,
   69): a call with such a table as its last argument raises after the kernel executed it.
   `PaddedCallsReturn` says what protects a script: as many other arguments behind the
   tables as there are such tables.
3. The retry on `EPIPE` is lost (`dmesg-util/dmesg.c:1056`): after an overrun the rest of
   the log is not read.
4. A step of the collector that calls finalizers while it sweeps `tobefnz` can move the object
   `sweepgc` points to out of that list (`lua/lgc.c:794`); the rest of the list is not swept,
   and what stays black is not traversed in the next cycle. In the code a step sweeps some
   85 objects, so it takes a long list of objects to be finalized.
5. The copy of a fragment leaves `fragment_buf` (`dmesg-util/dmesg.c:1031`).
6. `if c then goto L ::L:: stmts end` does not run `stmts` when `c` is true
   (`lua/lparser.c:1394-1401`). The labels behind the goto are placed at the current
   instruction, where the jump of the true condition then waits; `luaK_jump`, called
   for the jump over the `then` part, takes every jump that waits there into its own list, and
   the labels refer to the instruction it emits. A jump back to such a label, from
   the rest of a block that begins with a goto or a `break`, skips that rest too. When only
   labels follow the goto, no such jump is emitted: if an `else` or `elseif` comes next, a true condition
   runs it. The comments at 1392 and 1400 say that the jump goes to its label if the condition
   is true, and over the `then` part if it is false. The interpreter built from `src/lua` does
   what the model says for both shapes.

What was met besides, without a run of its own. The models contain it where they reach it:

* An empty log makes the reader fall back on `klogctl` for good (`dmesg-util/dmesg.c:1275`),
  where its comment speaks of old kernels.
* `print_usage` names options the parser does not take, and calls a dash a script.
* `report` takes an error for a string, and `_PROMPT2` is used as whatever it is
  (`kit/lktk.c` 208-210, 392).
* `get_tainted` does not close its file (`kit/lktk.c:128`); `VerdictTrue` holds
  for as many reports as there are pairs of descriptors. A message is decoded twice (`dmesg-util/dmesg.c:1170`), a fraction
  with a small unit can give a size of the unit or more (`dmesg-util/strutils.c:157`).
* Workers end with `EXIT_SUCCESS` whatever failed in them (`kit/lktk.c:617`); `argz` has six
  places and the number of arguments is not compared with it (`kit/lktklib.c:348`).
* `for i = 1, nan, -1` runs: `forlimit` takes a NaN as below all integers
  (`lua/lvm.c:131`), where its comment only speaks of limits that do not fit.
* The table of `luaO_ceillog2` has `ceil(log2(i + 1))`, its comment says `log2(i - 1)`
  (`lua/lobject.c:66`); a comment of the collector (`lua/lgc.c:376`) describes less than
  the code does.
* `string.unpack("z", ...)` over a text without a final zero does not fail when the
  terminating one of C is found, and returns a position two behind the end; the length of an
  `"s"` near the largest `size_t` wraps. `LuaPack` has both, and its property excludes them.

## 5. Proofs

For any sets, settings and bounds, from the assumptions named in the modules:

| Module | Theorem | Property |
|---|---|---|
| `LktkHarnessProofs` | `TypeCorrect` | `TypeOK` |
| | `WorkersHaveParents` | `NoOrphanWorker` |
| | `ReapLoopComplete` | `NothingLeftBehind` |
| | `ScriptsRunPerWorker` | `EachScriptRunsPerWorker` |
| | `WorkersReportTheirOwn` | `WorkerCountsOwnScript` |
| | `ReentriesAreForked` | `ReentryNeedsFork` |
| | `HarnessImplementsTasks` | `ImplementsTasks` |
| `LktkSyscallProofs` | `PointersStayAnchored` | `PointersAnchored` |
| | `PointersStayDistinct` | `PointersDistinct` |
| | `ReturnsBringResults` | `ResultsReachTables` |
| | `PaddedCallsComeBack` | `PaddedCallsReturn` |
| `LktkDmesgProofs` | `RecordsReadOnce` | `EveryRecordOnce` |
| | `NothingIsLeft` | `NothingLeftOver` |
| | `WholeMessages` | `MessagesWhole` |
| | `StillLogsAreCounted` | `StillLogCounted` |
| `LktkStatusProofs` | `VerdictsAreTrue` | `VerdictTrue` |
| | `OutputIsWhatWasPrinted` | `OutputWritten` |
| `LktkOptionsProofs` | `SettingsOfLastOptions` | `LastOptionWins` |
| | `AllScriptsOpened` | `ScriptsInOrder` |
| `LktkReplProofs` | `EveryLineInAText` | `NoLineLost` |
| | `StopsAreSignals` | `NoStopWithoutSignal` |
| | `FirstSignalOnly` | `SecondSignalKills`, an action property |
| `LuaThreadsProofs` | `CallsStayBalanced` | `CallsBalanced` |
| | `ErrorsGoInnermost` | `ErrorsReachInnermost` |
| `LuaGcProofs` | `NothingDangles` | `NothingDangling` |
| | `HeapKept` | `MarksHold` |
| | `OnlyTheLost` | `OnlyLost`, an action property |

**Harness.** `NoOrphanWorker` is not inductive: that the reap loop ends only without a
child helps only if a running worker *is* a child of its maker, and if its maker is still
before the end of that loop. The inductive invariant is

    IInv == TypeOK /\ CursorInv /\ ModeInv /\ OwnInv /\ FamilyInv

`FamilyInv` says just that of every living worker; `CursorInv` bounds `script` stage by
stage; `ModeInv` says that scripts and workers never mix, so that a process with workers
always goes through the reap loop; `OwnInv` bounds `own` by `failures`, which types need.
The lemmas `ExitShape`, `ReapedShape` and `ChunkReturnsShape` say what the kernel's part of
a step does to the parts of `IInv` about stages and parents (`Shape`); `QuietStep` adds the
other variables; `ChunkStep`, `ScriptCallStep`, `LoopStep` and `WorkerStep` go through the
actions, and `StepIInv` puts them together. `NothingLeftBehind` is inductive relative to
`IInv`: a process at `stop` gets no new child.

`EachScriptRunsPerWorker` and `WorkerCountsOwnScript` need a second invariant, for command
lines with workers and without LUA_INIT and library:

    PlainInv == Plain => SoleDriver /\ Progress

`SoleDriver`: nobody but the first process is in the loops, because the children of workers
are workers; and no assertion failed in it. `Progress`: how often each script has been
entered, as a function of where the loops stand. `ReentryNeedsFork` is proved by counting
(`Due`, `Entries`): a script has been entered, or can still be entered by a process on its way
to it, at most once more than scripts have forked.

**Refinement.** `TInv` says that the first process is nobody's child (`First`), that its
workers never come to the loops and have a task of their own each (`Named`), and that the
tasks they have are the ones the two loops have passed (`Begun`). With it every step of the
harness is a step of the pool or a stutter: a fork in `pmain` starts a task, the end of a
worker completes one, the end of the reap loop is the pool's end.

**System calls.** `IInv == TypeOK /\ Cursor /\ Owned /\ Current`: which arguments have been
converted (`Cursor`), that a block belongs to one table, and a table's block was allocated
for it (`Owned`), and that a converted argument still points to it (`Current`). The collector
frees only what no table refers to, so neither is disturbed. `Results` and `Stack` go on
from there: a structure that has been marshalled is what the kernel wrote, and the values
popped so far are bounded by the structures passed and the arguments behind them.

**Messages.** `IInv == Places /\ Empty /\ Runs /\ Flagged` says where the records read so far
are: delivered, on the way to the filter, in the fragment, or set aside, each an unbroken
run of positions that ends where the next one begins (`Runs`); what is empty when (`Empty`);
and which flags the records of a fragment have (`Flagged`). The count needs more, of a call
during which the log stands still (`StillInv`): from the start of the log on everything is
delivered or on its way (`Reached`), a message under way begins where one begins in the log
(`Joined`), and those delivered are counted (`Counted`). The message handed to the filter then
adds exactly one record to the set of those that begin a message, so its cardinality grows
with the counter. The first read is apart: it may be overrun before it has found the start of
the log, with an empty buffer, and only then is the error not lost.

**Status and output.** `IInv == TypeOK /\ Roles /\ Counted /\ VerdictTrue /\ Kept /\ Single /\
OnlyInheritedTwice`. `Counted`: a process has used at most two descriptors for each report it
has made, which is why its first `FdLimit \div 2` reports can open the taint file and are true.
`Kept`: every line a process has printed is in its buffer or in the output. `Single`: a line
that waits in a buffer is nowhere else, unless it is the main program's and was inherited by
`fork`; without it a flush could write a line twice. `Roles` says that a main
program with workers makes no reports itself, so a worker inherits no used descriptor.

**Command line.** What `LastOptionWins` and `ScriptsInOrder` say of a finished command line is
not inductive; both are stated in terms of a position `n`, "as if the options ended before
`n`" (`Given(n, ...)`, `SettingsAreLast(n)`), and hold at the place where `getopt_long` stands.

    IInv == OptionsTypeOK /\ Parsed /\ Passed /\ NoEndBefore /\ Ended /\ Opening

`Parsed`: the settings are those of the options before `scan`; a lemma per kind of option
says how one more option changes what was last. `Passed`: the file names passed by are all
those before `scan`, in order, which is what makes the permutation `getopt_long` does
harmless. `NoEndBefore` with `Ended`: parsing stops at the first place where the options
can end. `Opening`: what is opened and what is still to open are the wanted positions.

**Prompt and signals.** `IInv == ReplTypeOK /\ StackBalanced /\ Shapes /\ Handled /\
NoStopWithoutSignal`. `Shapes` says what is on the Lua stack at every place of the loop and
so why the joints find one value there; `Handled`, that `laction` is installed exactly while a
chunk runs that has not been signalled. `NoLineLost` also needs that the lines typed are
divided into texts (`Divided`): the texts, one behind the other, and the unfinished rest are the
whole of what was typed. It is stated by positions where each text begins, so that one
step only adds a line or closes a text and no induction over sequences is needed.

**Calls and coroutines.** The counters are sums over the C stack and nothing in a step says
why a thread that yields has only frames that can be continued; the invariant has to say what
stands on the C stack for every frame.

    State(s, ths, l) == types /\ Stacks /\ Counts /\ Statuses
    Good(s, ths, l, k) == State(s, ths, l) /\ Continues /\ Bounded /\ Yielding
    IInv == Going => Good(c, th, L, ctl)

`Segments` (in `Stacks`) cuts the C stack `s` into the records of one thread after the other,
each thread above the one that resumed it, so that a thread has one segment. `Linked` says
which record can follow which, and which C function, in which frame, waits in it; `Depths`
that deeper records belong to deeper frames. `Covers` is what yields need: a frame of a C
function below the top that has no continuation is covered by a record that counts in `nny`,
so with `nny = 0` there is none. `Counts` says for every record what the counters were when it
was pushed, which is what `luaD_rawrunprotected`, `luaD_pcall` and `lua_resume` restore. `Continues`
says what is on top when `ctl` calls, runs, returns or raises.
Every operation on the two stacks is one of few: a record is pushed (`StateGrow`), the
stack is cut to a lower record of the same thread (`StateCut`, `StateBack`), frames are pushed and
popped (`StatePush`, `StatePop`), a thread is resumed (`StateResume`) or left (`StateLeave`). Those
lemmas keep `State`; the lemma of each action says with which of them it does its work.

For `ErrorsReachInnermost` the handler and the protected calls of *every* thread have to be
known, since an error that no call of a thread catches goes on in its resumer:

    Settled(P, T, t, n) == T.errf = HandlerAt(T.frames, n)
                           /\ every protecting frame up to n is marked or has its record in P
                           /\ each mark keeps HandlerAt of the frames below it
    Handles == every thread is Settled, with P the records of luaD_pcall on the C stack,
               and each of those keeps HandlerAt of the frames below its own

`HandlerAt(g, n)` is the handler of the innermost protecting frame up to `n`. A `pcall` that has
been entered and has not called yet counts only from its call on (`Upto`). A mark (`ypcall`) and a record
of `luaD_pcall` each restore what was below, so `HandlerAt` is the right value wherever `errfunc`
is restored. With `Good`, the last record of `luaD_pcall` or `lua_resume` then is that of the
innermost protecting frame (`CaughtByPcall`), or the innermost such frame is the one `recover`
finds (`CaughtByResume`).

**Collector.** That nothing readable is freed needs an invariant for every phase, since it
depends on what the phases before have done to every object:

    Good == Types /\ Shape /\ Listed /\ References /\ Phases /\ Whites /\ Sweeps /\ Colours
            /\ GrayOnce /\ AtomicPhase
    IInv == ~overtaken => Good

`References`: what is live (not of the other white, not free) refers to nothing that is not,
and the stack and `tobefnz` hold live objects only. This is what `NothingDangling` follows from,
and the only step that endangers it is `Flip`, which makes all white objects dead at once. So at
`Flip` no marked object may refer to a white one, and the other parts say how the phases
before bring that about. `Colours`: a black object refers to no white one, gray lists hold gray
tables, and what awaits its finalizer is marked. `GrayOnce`: between the steps of the
marking every gray table is in one list that the atomic phase will go through. `AtomicPhase`
says for every loop of `atomic` why a gray table that still refers to something white does no
harm (`TablesCovered`): a list holds it that a later loop visits or clears; and what the lists
that have been cleared already look like (`Cleaned`), also after `markbeingfnz` has resurrected
objects. `Whites`: before a cycle everything is white, and while it marks nothing is dead.
`Sweeps`: the lists that have been swept, and the one that is swept up to the place of
`sweepgc`, are of the current white; `CheckFinalizer` and `SweepToLive` have to keep that, and
`CallFinalizer` does unless it takes the object at `sweepgc`, which sets `overtaken`. `Listed`: every
allocated object is in one of the three lists, once, on which the sweeps rest.

`ChainFacts`, `MarkFacts` and `MarkDarkens` say what marking from a set does (what is marked is
closed under user values), lemmas about `Remove` and `Index` what unlinking does to a list.
Then each part of `Good` has lemmas for the kinds of steps: a traversal, a clearing, a
sweep, an object that changes lists, a reference that is stored with its barrier. `NextGood` puts
them together, one action per case.

`OnlyLost` is the converse, that the collector takes nothing that can still be reached, and needs more
than `IInv`: that the lists of weak tables agree with the modes of the tables in them.

    ModestInv == ~overtaken => AllWeak /\ LoopWeak /\ Finals

`KeptClosed` shows from it that what is marked, with all strings, holds the stack and is closed
under strong references when `atomic` comes to separate objects and to clear entries, so that a
white object that is no string cannot be reached (`WhiteLost`); what `DueStep` finds due and
what the clearing loops remove is white. `OrderStep` says that finalizers are called in the
order of `tobefnz` and fall due in that of `finobj`. The theorem has a
hypothesis, `StaysWeak`: `ModeChanges` changes no table of mode "kv" to another mode. `setmetatable`
leaves the table in `allweak`, from which `clearkeys` and `clearvalues` still clear it, so that a
table whose values have just become strong can lose an entry once. The run's `ModeChanges` meet the
hypothesis; the other two theorems need none.

Only model-checked:

* Liveness (`RootEnds`, `EveryWorkerReaped`, `CallEnds`, `GarbageFreed`): fairness and ENABLED are
  out of the prover's reach.
* What the modules with RECURSIVE operators say (the utilities but `UtilSizes`, and of Lua all
  but `LuaThreads` and `LuaGc`): the prover has no access to them, and what they compute is a
  matter of induction over data.
* `LktkMutator`, `UtilSizes`: not proved yet.

## 6. What is left out

* `LktkHarness` leaves out all output and the process status the reap loop prints. SIGINT is
  a kill or a chunk that raises; `LktkRepl` has it in detail. Buffers are in `LktkStatus`.
* `LktkSyscall` leaves out the fields of structures one by one, the C strings the kernel may
  write to, and more than six arguments.
* `LktkDmesg` leaves out the text of messages (their decoding is in `UtilMangle`), the
  formats of `print_record`, tags, which the kernel never adds to a fragment, facilities,
  and the methods this program never chooses (`--file`, `follow`).
* `LktkOptions` takes `char` as signed, as on the hosts the kit is built for.
* Utilities: conversions that end the program with a message, file modes, reading clocks.
* `LuaGc`: threads, upvalues and closures; tables of more than one node; generational use;
  `setmetatable` on tables that have one.
* `LuaThreads`: hooks; the sizes of frames; an error with neither handler nor panic function,
  which cannot be since the kit calls under `lua_pcallk`.
* Compiler and machine: floats and bitwise operators, line information, metamethods, hooks,
  yields, the size hints of constructors. Programs whose result depends on an order of
  evaluation the language leaves open, and those with a label followed by a goto to it,
  which do not end, are not among the programs. Of programs with the `if` of finding 6 only
  what the code does is shown, in `parts_if`.
* `LuaMeta`: metamethods of arithmetic, concatenation, length and calls.
* `LuaValues`: the values of float arithmetic. Shifts by the smallest integer and fields
  whose sum overflows are undefined in C and left out.
* `LuaPattern`, `LuaPack`: `format`, `rep`, `byte` and the like; floats are their bytes.
* `LuaDump`: cells of a chunk, not bytes; the marker of long strings is scaled.

Not modelled: the test scripts, which are what the models allow scripts to do; the rest of
the API and the auxiliary library, which push, read and convert values; the libraries that
call the C library (`io`, `os`, loading of shared objects) or report on a program (`debug`);
strings and memory (`lstring.c`, `lmem.c`: interning, allocation); the stand-alone `lua` and
`luac`; kernel headers; the build.

## 7. Plan

Done: the harness with its abstract specification, system calls, the message reader, the
rest of the kit, and Lua up to its libraries; proofs of the safety properties of the first
three, of the refinement, of the command line, the prompt and the output, and of Lua's
calls, errors and coroutines and its collector.

Next: strings and their table (`lstring.c`) with the collector: interned strings that are dead but not
yet freed are resurrected.
