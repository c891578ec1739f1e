# Formal models of perf-ninja

perf-ninja is a set of small C++ labs about performance, and the infrastructure
that checks submissions to them. A student pushes a branch; a self-hosted runner
builds the lab at the branch and on `main`, compares the two executables, runs
both benchmarks, and fails or passes the push by the measured speedup. One lab
(`misc/pgo`) holds a whole program, the Lua 5.1 interpreter, which is by far the
largest and the most intricate code of the repository. This directory holds TLA+
models of the parts whose behaviour is hard to test, configurations that
model-check them with TLC, and proofs for TLAPS.

## Inventory

| Component | State it keeps | Operations | What makes it correct |
|---|---|---|---|
| CI driver, `buildbot/runCI.py`, with the targets of `tools/labs.cmake` | the git working tree, a build directory per lab and variant, `result.json` in each, a status per lab in the table `Labs` | analyse the commit, build and validate, check out `main`, compare executables, benchmark, judge, summarise | what is measured is what was built and validated; PASSED, SKIPPED and exit code 0 mean what they say; it ends |
| CI workflows, `.github/workflows` | none | start the driver, kill it after a timeout | no early verdict |
| gbench, `buildbot/gbench` (= `tools/gbench`) | none, pure functions on reports | match benchmarks, compute differences | pairs what is comparable |
| Local check, `tools/check_speedup.py` | build directories of earlier calls | rebuild, benchmark, compare N times | compares fresh results only |
| False sharing lab | one atomic 32-bit accumulator per thread, a work-shared loop | fork, iterate, barrier, reduce | every term is added once and before the reduction |
| `MappedFile` of io_opt1 | address, size and (Windows) two handles per object; mappings and handles of the process | construct, fail, move, destroy | one owner per resource, no leak |
| Arena list (dep_chains_1) | bump pointer of an arena, a linked list in it | allocate, build a list, look up | no dangling node; lookup = intersection |
| Game of life, counting sort, matrix power, sliding window, alignment, blur | grids that are swapped, counters that become places, buffers, a window, a column | one function each | equal to its definition, at the borders too |
| Lua collector, `lgc.c` with `lfunc.c`, `lstring.c` | colours, lists and phase of the collection, the heap | allocate, store, barriers, mark, atomic step, sweep, finalize | nothing in use is freed, garbage goes |
| Lua tables, `ltable.c` | array part, node vector with chains, free pointer | get, set, resize, length, next | a map, with a traversal that meets every key |
| Lua calls and coroutines, `ldo.c`, `lvm.c`, `lbaselib.c` | per thread: call infos, status, handler, counts; the C stack | call, pcall, error, resume, yield, die | errors and yields leave no C function in an inconsistent state |
| Lua stack, `ldo.c`, `lapi.c` | an array of values that moves, pointers into it | push, call, return, hook, error | pointers follow; each function keeps its own values |
| Lua compiler, `lparser.c`, `lcode.c`, `llex.c` | a function under construction, lists of pending jumps | one pass from text to code | the code does what the text means |
| Lua virtual machine, `lvm.c`, `ltm.c` | registers, upvalues, frames; the cached flags of metatables | one instruction each | as above; handlers are found |
| Lua libraries, `lstrlib.c`, `ltablib.c`, `lauxlib.c`, `liolib.c`, `loadlib.c`, chunks `ldump.c`/`lundump.c`, interpreter `lua.c` | buffers, references, files, modules, tasks | the functions of the manual | what the manual says of them |

The driver and the labs meet in two places only: the labs' `validate` and `lab`
executables, which may succeed, fail or leave a partial `result.json`, and the
targets `validateLab` and `benchmarkLab` that run them. The labs do not interact.
Concurrency exists in the false sharing lab (an OpenMP team), between the CI job
and the workflow's timeout, between Lua programs and the incremental collector
that interrupts them at every allocation, between coroutines that share one C
stack, and between `lua.c` and SIGINT. The rest is sequential, and hard for
other reasons: failures at any of a dozen external calls around a checkout that
changes sources under existing builds; memory that is reused, moved or resurrected;
errors that leave C functions by `longjmp`. The hazards, each at its line, are
listed in `PROJECT.json`; four have no property, with the reason there.

## Modules

| Module | Models | Checked in |
|---|---|---|
| `RunCI` | the CI driver, whole | `runci`, `runci_malformed` |
| `CheckSpeedup`, `DiffReport` | the local check over several calls; gbench and the driver's average | `perf_ninja` (`MCPerfNinja`) |
| `FalseSharing`, `OnceEach` | the parallel sum; the abstract loop that it implements | `perf_ninja` |
| `MappedFile` | the RAII wrapper and its operating system | `perf_ninja`, `mappedfile_leak` |
| `ArenaList`, `Life`, `MatrixPower`, `CountingSort`, `ImageSmoothing`, `Alignment`, `Blur` (constants in `LabParameters`) | one lab each | `perf_ninja` (`MCLabs`) |
| `LuaGC` | the collector under a running program | `lua_gc`, `lua_gc_live` (`MCLuaGC`) |
| `LuaTable`, `LuaMap` | the table; the abstract map that it implements | `lua_runtime` (`MCLuaRuntime`) |
| `LuaCalls` | calls, errors and coroutines on one C stack | `lua_runtime` |
| `LuaStack`, `LuaFrames` | the array of values; the abstract lists of values that it implements | `lua_runtime`, `lua_stack` |
| `LuaAuxLib` | string buffers and references | `lua_runtime` |
| `LuaParser`, `LuaCode`, `LuaVM`, `LuaMeaning` | compiler, code generator, virtual machine; what a program means | `lua_compile`, `lua_bool` (`MCLuaLanguage`) |
| `LuaLexer`, `LuaPattern`, `LuaTextMeaning`, `LuaTableLib`, `LuaStreams`, `LuaChunk` | tokens, patterns and what they mean, sort and its kin, reading in pieces, dumped chunks | `lua_compile`, `lua_read` (`MCLuaLibrary` states their problems) |
| `LuaIO`, `LuaPackage`, `LuaMeta`, `LuaMain` | files, modules, metatables with their caches, the interpreter | `lua_compile`, `lua_flags` |
| `LuaGC_proofs`, `LuaCalls_proofs`, `LuaRuntime_proofs`, `Labs_proofs`, `RunCI_proofs` | theorems; those of `FalseSharing`, `MappedFile` and `CheckSpeedup` are at the end of these modules | tlapm |

A composing module (`MCPerfNinja`, `MCLabs`, `MCLuaRuntime`, `MCLuaLanguage`) runs one
of its parts per behaviour: a variable says which, and the variables of the others
are idle. The parts have no step in common in the code, so nothing is lost by
not interleaving them. Modules that one module extends together have names of their
own for `Init`, `Next`, `Spec`, `TypeOK` and the like (`CheckInit`, `SharingInit`,
`FileInit`): with EXTENDS, the properties and assumptions that the theorems speak of
are the ones that the run checks.

### RunCI: `buildbot/runCI.py`

The script is sequential, so `pc` says where it is and each action is one call
of a function with everything it does to the state. `scope` tells a full check
from the check of one lab. `tree` is the revision git has checked out; `build`
has, per lab and variant, how far `buildAndValidate` got and from which revision
the executable was linked; `report` is the `result.json` of the build directory
and the revision that was measured; `result` is `Labs[...][...].result`, where
READY *is* SKIPPED because the Python enum makes one an alias of the other.
`pending` is what `runActionForAllLabs` still has to visit; the order of
`os.listdir` is arbitrary, so any pending lab may be next.

| Action | Code |
|---|---|
| `Analyze`, `AnalyzeFails` | the commit message and `git show --dirstat`, lines 397-430 |
| `BuildAction`, `PassOver` | one iteration of `runActionForAllLabs` in a building pass |
| `SolutionsBuilt`, `CheckoutBaseline`, `CheckoutFails`, `BaselinesBuilt` | `checkAllLabs` between the passes, `checkoutBaseline` |
| `BuildTheLab`, `TheLabIsGone`, `BenchmarkTheLab` | the branch for a single lab, lines 456-467 |
| `BenchmarkAction` | `benchmarkAction` up to its call of `benchmarkLab` |
| `BenchmarkSolutionOrBaseline` | one run of the `benchmarkLab` target; its failure is ignored |
| `LoadFails`, `NothingInCommon`, `BenchmarkLab` | the rest of `benchmarkLab` |
| `Summary` | the summary and the exit code |
| `Kill` | the workflow's `timeout-minutes` |

Git is external and modelled from how the script uses it: `DirstatOutputs` are
the outputs that `git show --dirstat` may have for a commit, with its documented
3% limit. Speedups are whole percentages from a finite set.

### The two scripts around the reports

In `DiffReport` a report is a sequence of entries; an entry is a run, or one of
the two summaries of a complexity benchmark, of which one has a unit but no times
and the other neither. `Partition` is the loop of `partition_benchmarks` for one
name, `Compare` the loop of `get_difference_report` for one partition, `Average`
the driver's `getAverageSpeedup`, an exact fraction. The places where Python
raises are labels of `pc`. `RunCI` abstracts all of this to "cannot be loaded,
nothing in common, or a speedup".

In `CheckSpeedup` `dir` holds the build directories of both variants. They survive
the script, and `Start` begins another call with another `num_runs` in whatever
is there. `stage` names the call that `buildAndRunBench` is at: `Succeed` is its
success, `Fail` its exception (the bare `except` catches an interrupt too),
`RemoveFails` that of `rmtree`, which nothing catches, and `Kill` the end of the
process; the last three leave any of the call's `Leftovers`. Executables and
reports are identified by the call, iteration and variant they were made in, so
that a stale one shows.

### FalseSharing and MappedFile

The OpenMP runtime grants a team of any size up to the requested one. `left` holds
the iterations nobody has taken, so every schedule clause is a behaviour. `Add`
is one step because `target.value += ...` is one atomic read-modify-write. An
accumulator is represented by *what* was added to it (`added`), so that a term
added twice cannot hide in a sum that happens to be right; the number the program
reads is `AccumulatorValue`, modulo `Modulus`. `OnceEach` is the abstract loop:
execute each iteration once, then return.

`MappedFile` objects are constructed, moved and destroyed in any order any program
could. `obj` holds the members of each live object, `mapped` and `open` the
process's mappings and handles. Released addresses and handles are reused at
once, which is what makes a stale pointer or handle dangerous. `platform` selects
the Linux or the Windows half of the header; the handle members of a
default-constructed object are uninitialized on Windows and hold any value. A
construction that fails is an action per call that can fail: each opens what the
calls before it had opened and closes what its own error path closes
(`FailToMapLinux`, `FailToCloseLinux`; `FailToSizeWindows`,
`FailToCreateMappingWindows` and `FailToViewWindows`, lines 116-118, 124-127 and
131-135). That the Windows paths leave nothing open is then a consequence,
`FailuresCloseAll`, and `NothingLeaks` shows what the Linux path leaves.

### The labs that are a function of their input

Each module translates the loops of one function, one iteration per action,
because what can go wrong is the reuse of memory between iterations (arenas, two
grids, four matrices, counters that become places, a window that moves, a column
that is overwritten, a buffer between two passes) and what a loop does at the
borders. Each is compared with a definition that does not share its code: the
intersection of two sets, `Fate` (the rules of the game on a whole generation),
an iterated product, a sorted permutation, sums over `Window`, the matrix of
scores by the last gap or pair, weighted means over what a line has (`Mean`).
`Blur` has one copy of the algorithm that the program has twice, with rows and
columns exchanged. A matrix entry is a number modulo `Mod`: `MatrixPower` is about
the buffers, not about floats.

### LuaGC: the collector

One action per operation that stores a reference (`lvm.c`, `lapi.c`), per barrier,
and per unit of work of the collector: one object marked, the atomic step, one
object swept, one finalizer called. The lists of the C code are sets, so the
order in which the gray list is popped and the heap is swept is free, which
covers every pace of `luaC_step`. Weak tables, ephemeral modes that change, userdata
with finalizers that resurrect, strings that are interned again while dead, open
upvalues that are closed in any phase and stacks that no barrier watches are
all there. Prototypes, C closures and the array part of tables refer to things
in the way closures and table entries do and are left out, as is `lua_close`. When
a table becomes weak its metatable is not modelled as an object of its own, and so
neither is the reference to it nor the barrier of `lapi.c:714`: the mode is all that
the collector reads of it. The metatable of a userdata, which holds its finalizer,
is a table of the heap, with its barrier.

### LuaTable, LuaStack, LuaCalls, LuaAuxLib: the run-time system

`LuaTable` has the node vector with its links and its free pointer, the array part,
and the dead keys that the collector leaves; `LuaMap` is what it promises, with
`todo` the keys that a traversal has still to meet. `LuaStack` has the array with
a block number that changes when it moves, so that a pointer that is not corrected
shows; `LuaFrames` is what the functions may see of it. Its Lua functions have one or
two parameters, and two of them take variable arguments. Of a vararg function's
parameters one may be missing without harm; with two missing, the top of its call
is beyond the last place of the stack (`Overrun`), which `lua_stack` shows against the
assertion of the code. `PointersFollow` allows that much and no more, and the places
behind the last one (`EXTRA_STACK`) are there, so `ImplementsFrames` holds all the
same. `LuaCalls` has the C stack
as a sequence of frames (`luaD_call`, the handler of `luaG_errormsg`, `lua_resume`,
`luaD_pcall`) and per thread its call infos, status, `nCcalls`, `baseCcalls`,
`errorJmp` and `errfunc`; an error is a raised condition that unwinds to the frame
`errorJmp` names. The three limits (`LUAI_MAXCALLS`, `LUAI_MAXCCALLS` and the extra
room of the handler) are reached in the run. With three call infos, a resume or a
`pcall` inside a coroutine is reached only in a message handler, which has the extra
room after an overflow; limits of four give more than six million states. What is
nested deeper is covered by the theorems, which hold for any limits. `LuaAuxLib` has the buffer of
`luaL_Buffer` with the pieces on the stack, and the free list of `luaL_ref`.

### The language

`LuaParser` and `LuaCode` are the one-pass compiler: operators that take the state
of a function under construction and return it changed, in the order the C code
makes its calls; a failed `lua_assert` is remembered. `LuaVM` executes one
instruction per step. `LuaMeaning` evaluates the tree of the same program and knows
nothing of registers, jumps or upvalues. `LuaChunk` dumps the compiled program
and loads it again from pieces. Of the libraries, `LuaPattern` is the matcher as it
runs over the characters of a pattern, and `LuaTextMeaning` what the pattern means by
its structure; `LuaTableLib`'s sort runs with every comparison: one that orders the
elements sorts them, raises no error and moves nothing outside of the table, whatever
it would say of the places next to it; any other one must lose no value. Reads have
one or two formats; the case in which `g_read` contradicts its comment, a number that
cannot be read as the second, is in `lua_read` only (`LateFailures`).
`LuaIO` says who owns a C stream and who closes it, `LuaPackage` has `require` with
its sentinel, `LuaMeta` the `flags` byte in which a metatable remembers absent
events, for any metatables, a table that is its own included; the one assignment that
leaves a stale flag, of `__newindex` in such a table, is in `lua_flags` only
(`OwnNewindex`); `LuaMain` has the command line, the interactive mode and a SIGINT between any two
steps.

## Runs

| Run | Instance | Shows |
|---|---|---|
| `runci` | 2 listed labs and one that the table leaves out; full checks and commits that touch one, two or no labs; labs missing at either revision; speedups around every limit | `MeasuredAsBuilt`, `PassedIsEarned`, `SkippedIsUnchanged`, `OneLabGreen`, `VerdictIsFinal`, `CheckoutSeparatesPhases`, and that the script `Terminates` |
| `runci_malformed` | as `runci` | violated: a malformed `result.json` does not fail its lab, it ends the script |
| `mappedfile_leak` | 3 objects, 3 addresses, Linux | violated: a failed construction leaks its descriptor |
| `perf_ninja` | one part per behaviour: 2 calls of 1 or 2 runs of the local check; all pairs of reports of up to 2 entries and some of 3, of 2 names, 2 units, 3 times; 4 iterations, up to 3 threads, accumulators of 5 bits; 2 objects that map files at 2 addresses, on both platforms; arenas of 3 cells, vectors of up to 3 of 4 values; grids of 3 by 4, 1 or 2 games of 2 generations; matrices of order 2 modulo 3, exponents to 9; 4 elements of 3 keys in every order; sizes to 6, radii to 3; sequences of 4 of 2 symbols; pictures of up to 7 pixels | `ComparedAreFresh`, `ReportedAreValid`, `ComparisonsAreComplete`; `AddedOnce`, `CompleteBehindBarrier`, `MatchesOriginal`, refinement of `OnceEach`; `OneOwner`, `OwnedExists`, `WindowsKeepsNothing`, `MappingsEndWithTheirOwner`; `PointsToNodes`, `ReadsInBounds`, `AgreesWithDefinition` |
| `lua_gc` | two pools of objects: a weak table, a userdata, the registry and two stack slots; a coroutine, two closures and an upvalue | `NothingDangles`, `NoBlackToWhite`, `FinalizedOnce`, `CondemnsExactly` |
| `lua_gc_live` | a coroutine, a string and a userdata whose metatable is the table of globals, so that its finalizer runs and may bring it back | `GarbageIsFreed`, under fairness of allocation |
| `lua_runtime` | tables of 5 keys that collide, up to 3 nodes; one coroutine, limits of 3 and 5 calls; a stack of 4 to 8 values and 3 calls of functions with one or two parameters; buffers of 2 characters, 5 references | `ImplementsMap`, `ChainsAndPointers`, `FramesAreActive`, `CoroutinesKeepTheirPlace`, `ImplementsFrames`, `HelpersKeepWhatTheyGot` |
| `lua_compile` | 1,500 programs, dumped and loaded for some; 12,000 problems for the libraries; 2 files, 2 modules on 4 disks, 2 metatables, command lines of up to 3 words with 2 signals | `ComputesItsMeaning`, `AssertionsHold`, `OpenUpvaluesAreLive`, `ResultsAgree`, `FilesCloseOnce`, `ModulesLoadOnce`, `EventsReachTheirHandlers`, `InterpreterStaysInStep` |
| `lua_stack` | the stack of `lua_runtime` | violated: the top of a call is beyond the last place |
| `lua_bool` | conditions of constants, three operators deep | violated: one has the value of the wrong operand |
| `lua_read` | the problems of `lua_compile`, and reads whose second format is a number that is not there | violated: the result before it is lost |
| `lua_flags` | the metatables of `lua_compile`, and assignments of `__newindex` in a table that is its own metatable | violated: the handler is not called |

Bounds. The driver treats labs independently but for the shared tree and the
summary, so two labs show every interaction between them, and the third is there
for the labs that the table leaves out; the speedups include both sides of each
comparison, and `MaxLines = 2` is enough for "the first line is not the only one".
Four iterations over three threads let one thread get none, one or several;
12 * 3 > 32 makes an accumulator overflow in one input and not in another. Two
objects are owners at the same time, or an owner and one whose stale members name
the owner's address and handles; an object that was destroyed is constructed
again, so that programs of any length run on the two, and `Ownership` holds for
any number. Two addresses and four handles are what two owners need, and are
reused. An arena of three cells holds a list of one or two random
values and not one of three. Reports of three entries are needed for two
repetitions with an entry of another unit or name between them. Two calls of two
runs leave a stale directory for each directory of the second call, and one that
it does not use. A grid of three by four has cells at every border and corner and
in the middle, and tells rows from columns. Exponents to 9 have any pattern of
three bits. Radius 3 makes all sizes to 6 smaller than the window, radius 0 to 2
has sizes on both sides. Sequences of four symbols are long enough for a gap of
one or of two to beat four mismatches. Lines of five and seven pixels have a
middle, shorter ones only the parts at the ends. One coroutine on a C stack of
five levels and three call infos meets both limits and the room behind them; what
nests deeper is left to the proofs, which are for any number and any limits. Five keys of three hash classes collide in and
out of their main positions. The collector's pools are what one cycle needs to
mark, clear, resurrect and sweep one object of each kind; symmetry is used there
in the run of safety properties only.

Deadlock is checked everywhere: actions such as `Terminated`, `Returned` and
`Solved` say where a program has ended.

Fairness. `RunCI!FairSpec` assumes that the script's next call returns: every
external command ends or is killed with the job. `LuaGC!Fairness` assumes that
the program goes on allocating, which is when `luaC_checkGC` runs a step, and
that it does so until each phase is over; it assumes nothing about what the
program drops or keeps. Without it nothing has to happen. The other properties
are safety properties: the programs are loops over a fixed range, or never end.

## Disagreements found

* `runCI.py:303` and `:308` catch `JSONDecodeError`, a name that is defined
  nowhere. A malformed report raises `NameError` instead of failing its lab
  (`runci_malformed`).
* `MappedFile.hpp:34` says that all the details of creating the mapping are taken
  care of; on Linux a constructor that throws leaks the descriptor
  (`mappedfile_leak`).
* `lcode.c:64`: a pending jump of one list joins the other for some conditions of
  constants, and `((1 or true) and false) and true` is 1 (`lua_bool`).
* `ldo.c:292` asserts that the top of a call is not beyond the last place of the
  stack; `ldo.c:276` reserves the registers of a function, and `adjust_varargs`
  (lines 213 and 229) sets them above the parameters that were missing (`lua_stack`).
* `liolib.c:371`, "remove last result": `read_number` pushes nothing when it fails, and
  `g_read` removes the result before (`lua_read`).
* `lobject.h:340` says of the flags that a set bit means an absent event; `lvm.c:140-145`
  clears the flags of a table, asks for its own `__newindex`, and stores that very field
  under the bit it has just set (`lua_flags`).

Noted without a run:

* `GetStarted.md:124` promises that a commit to several labs is checked as a full
  check; `git show --dirstat` leaves out labs with less than 3% of the changes.
* `vectorization_1/init.cpp:8` announces an alphabet of four symbols, and
  `uniform_int_distribution(0u, 4u)` draws from five.
* `ltablib.c:227`: with an inconsistent comparison `auxsort` reads (and compares)
  past the end of the table before "invalid order function" is raised.
* `liolib.c`: lines with a `\0` lose the text behind it.
* `lua.c`: in `lua -e -- -` the last word is taken as a file name; the comment of
  `laction`, that another SIGINT before the hook runs ends the process, is not so
  when the signal comes after the last instruction of a chunk.
* A `pcall` close to the limit that catches an overflow of the call infos leaves their
  array oversized (`ldo.c:75`). It is not the collector that shrinks it, which leaves
  the stacks alone in that state (`lgc.c:244`), but the next error that is caught
  further down. Until then a second overflow is an error in error handling.

## Proofs

Every theorem holds for every value of the constants that satisfies the named
assumptions of the modules. These give the constants their types, keep marks such
as `None`, `Null`, `Nil` and `Scalar` apart from what they mark, and keep the kinds
of Lua objects apart (`KindsAssumption`, `DisjointAssumption`, `KeysAssumption`);
`LimitsAssumption` gives the limits of the calls two units of room at least, as
`luaconf.h` does; `KeyAssumption` says that there is a key at
least; `HelpersAssumption`, that buffers have room and finitely many values are
referred to. TLC evaluates them in the runs.

### The driver and the tools

* `RunCI_proofs`: `TypeCorrect`, `MeasurementsAreSound` (`MeasuredAsBuilt`),
  `PassesAreEarned` (`PassedIsEarned`), `SkippedIsSound` (`SkippedIsUnchanged`),
  `GreenIsEarned` (`OneLabGreen`), `VerdictsAreFinal` (`VerdictIsFinal`) and
  `PhasesAreSeparate` (`CheckoutSeparatesPhases`). None of the invariants is
  inductive. `IInv` adds `TreeInv`, which revision is checked out at each place of
  the script; `BuildInv`, an executable in a solution directory was linked from
  the branch, in a baseline directory from `main`, and only labs that the current
  pass has not visited are unbuilt; `FailureInv`, a build that did not reach
  "valid" has its failure on record; `MeasuringInv`, the lab that is being
  measured has two valid and different executables. The meaning of SKIPPED, which
  is also "not yet visited", needs `VerdictInv` on top: who has had a verdict, and
  that a lab without one is still pending.
* `CheckSpeedup`: `FreshComparisons` (`ComparedAreFresh`) and `ValidatedReports`
  (`ReportedAreValid`). `CheckInv` adds `CleanInv`, a directory that this call has
  removed holds nothing of an earlier call, whatever failed since; `HereInv`, there
  is no report before the benchmark, and the benchmark runs validated executables
  only; and `ComparedInv`, the comparisons printed so far are those of the
  iterations before this one.

### The labs

* `FalseSharing`: `TypeCorrect`, `NoTermTwice` (`AddedOnce`), `ReductionReadsAll`
  (`CompleteBehindBarrier`), `Refinement` (`SharingSpec => ImplementsOnceEach`)
  and `SumIsRight` (`MatchesOriginal`). `SharingInv` adds `HeldInv` (an iteration is left, held
  by one thread, or added) and `TeamInv` (threads outside the team never move;
  behind the barrier nobody holds anything). The sums are folds, whose values are
  recursive functions on finite sets: the lemmas go by well-founded induction
  over subsets, stated for the sum at hand (`WFMin`, with a counterexample set
  instead of a predicate), which needs no operator parameter.
* `MappedFile`: `FileTypesCorrect`, `Ownership` (`OneOwner`), `OwnedIsThere` (`OwnedExists`),
  `OnlyOwnersUnmap` (`MappingsEndWithTheirOwner`) and `WindowsLeaksNothing`, all from
  `FileInv` and, for each failed construction, `FailuresCloseAll`: under the
  Windows half of the header nothing leaks for any number of objects and handles;
  the Linux half violates it.
* `Labs_proofs`: `MemorySafe` (`PointsToNodes`), from `ListsInv`: what lies below the
  bump pointer is written, and where returned lists begin. `WholeGenerations`: every
  cell that was written comes from the whole generation before (`LifeInv`: the cells
  that the loops have passed). `NoLoopLeavesInput` (`SmoothInv`: where each loop ends
  and how far the ones before it came at least). `CountingSorts`: the sort returns
  the elements of the input, each once and in order. Its invariant `SortInv` says
  what each counter is in each of the four loops, as the cardinality of a set of
  places: at first how many elements seen so far have the key, in the end how many
  go in front. `Goal(arr, u)`, the number of elements that go in front of the one at
  `u`, is where that one is put; it is an injection of the places into themselves
  because the order in front of it is total, hence onto by counting, and so no
  element overwrites another and none is missing. `EveryAccessInBounds` (`ReadsInBounds`)
  is `SortInv`, `SmoothInv` and, for the blur, `BlurInv` together: which of the three
  inner loops goes how far in a line of any length, where the last loop begins when
  the line is shorter than the kernel, and that the vertical pass has written
  the lines behind it and the pixels of its line above `pos`. That the
  weights of a partial kernel add up to at least one, so that nothing is divided by
  zero, is a lemma about the sum of a fold, by well-founded induction as above.

### The collector: `LuaGC_proofs`

`CollectorIsSafe` (`NothingDangles`), `BarriersSuffice` (`NoBlackToWhite`),
`FinalizersRunOnce` (`FinalizedOnce`), `TypeCorrect`, all from `Invariance`:
`IInv == TypeOK /\ HeapInv /\ FreshInv /\ SweepInv /\ MarkInv /\ FinalInv`.
`NothingDangles` is not inductive because what is dead is only known at the end of
marking. `HeapInv` says that what a live object holds is in the heap, in every phase;
`FreshInv`, that what is not allocated has no references and no mark; `SweepInv`,
that after the atomic step what is live refers to nothing of the other white;
`MarkInv`, that during marking black refers to nothing white, except what the
atomic step looks at again (stacks, weak tables, open upvalues), and that every
gray object is on a list; `FinalInv`, that a userdata is finalized once and stays
until its finalizer was called. The step that carries the proof is the atomic
one. It is split into the chain the code runs through (remark the upvalues, the
running thread and the metatables of weak tables, propagate, remark what is gray
again, separate the userdata, mark them, propagate, clear the weak tables, flip
the white), with one lemma per link about the set that is marked so far and what
may still be white.

### The run-time system of Lua: `LuaCalls_proofs`, `LuaRuntime_proofs`

`FramesStayActive` (`FramesAreActive`) and `CoroutinesStayInPlace`
(`CoroutinesKeepTheirPlace`) for any number of coroutines and any limits, both from
`Invariance`. `IInv` has ten parts: types; what is at the bottom of the C stack; that
`main` is never resumed; which piece of a thread's call infos each C frame owns
(`PieceInv`), which pieces partition the infos; the status of a thread by the
frames it has; that its `nCcalls` counts the frames of *all* threads up to its
innermost one (`LevelInv`); that the limits are kept, with the room a handler may
use; that `errorJmp` is the innermost protected call of the thread (`JumpInv`); what a
protected call saved; and which thread resumed which (`OwnerInv`). Each action falls
under one of the structural lemmas, each of which proves all ten parts once: `Unwind`
(the C stack is cut), `Stays`, `Runs`, `Calls`, `Resumes`, `UnwindsHere` and
`UnwindsAcross` (a return or an error within a thread, or past its resume). The action
lemmas only show which case an action is. `Keeps`, the two action properties, is
proved along with the invariant, since the reason why a yield cuts off no C
function is `LevelInv` (`nCcalls = baseCcalls`). All of this is in `LuaCalls_proofs`;
the theorems, about the run that has other parts too, are in `LuaRuntime_proofs`.

`HelpersKeepAll` (`HelpersKeepWhatTheyGot`) is about the buffers and references of
the auxiliary library. `Tiles` says that the pieces on the stack, in order, are
consecutive runs of what was added, and the buffer the run after them; when pieces
are joined by `adjuststack` the runs join, and as it joins while
`lvl - toget + 1 >= LIMIT`, what is left is under the limit. `Kept` says
that the keys up to some `m` are either in use or on the list of free ones, each
once, by an injection that follows the links from `FREELIST_REF`; so the key that
`luaL_ref` takes from the list is in use by nobody, and when the list is empty
`m + 1` is new. The concatenation is the library's fold, a recursive function whose
values are compared at the least place where they could differ.

### What is only model-checked

* `Terminates`, `GarbageIsFreed`: liveness under fairness is out of the prover's reach,
  as is ENABLED.
* `ImplementsMap`, `ImplementsFrames`, `ChainsAndPointers`: open; see the plan.
* `CondemnsExactly`: an action property of the atomic step in the other direction of
  `NothingDangles`, by reachability along paths of any length; open.
* `ComputesItsMeaning`, `AssertionsHold`, `OpenUpvaluesAreLive`, `ResultsAgree` and the
  other properties of `lua_compile`: the compiler, the matcher and what they are
  compared with are RECURSIVE operators, which the prover does not accept.
* `ComparisonsAreComplete`: its modules are loops over sequences with folds.
* `AgreesWithDefinition`: the parts about the game of life's generations and the
  counting sort are proved, the others are equalities of sums and products over ranges.

## Not modelled

* What a compiler or a benchmark does: they succeed, fail or leave a partial
  file, in every combination.
* The Windows variant of the comparison (disassemble, strip, `fc`), and what
  CMake does when the checkout changes a CMakeLists.txt under a configured build
  directory.
* Floating-point labs, image and mesh I/O, the printing of gbench. A third of the
  source lines is the input data of one lab (`compiler_intrinsics_2/inputs`).
* Of Lua: hooks other than count and SIGINT, memory errors, `lua_close`, prototypes
  and C closures as objects, syntax errors and the limits of the compiler, line
  numbers and debug information, string formatting, the math and os libraries,
  the platform-specific halves of `loadlib.c`.
* The remaining labs (hash map, line length, checksum, comparator and the small
  selections): planned, each with its hazard in `PROJECT.json`.

## Plan

1. Done: the driver, the tools, the labs named above, and Lua, with the proofs above.
2. Proofs, by value: `ImplementsMap` step by step (the chain invariant of Brent's
   variation, then `luaH_next`), `PointersFollow`, `CondemnsExactly`.
3. `HashSet` (swmem_prefetch_1), `Checksum` (vectorization_2), `LineLength`
   (compiler_intrinsics_2), the comparator (function_inlining_1), the read loop
   (io_opt1).
