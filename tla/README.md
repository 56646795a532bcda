# node-mini: a verification development

node-mini builds one executable, `xnode`: a JavaScript runtime around V8 in the
image of an early Node.js.  This directory holds TLA+ models of its own code
(`src/`, `lib/`), the TLC configurations that check them, and theorems about
them that TLAPS proves.  V8 and libuv (`deps/`) are vendored; of V8 only what
decides how node-mini ends is modelled (its default platform, the lengths of its
strings, its end when it is out of memory), libuv is not linked.

## The system

| Component | Code | State | Operations |
|---|---|---|---|
| Startup | `main` in `src/xnode.cc` | the context and its globals | choose shell or file, run `lib/console.js`, bootstrap `lib/bootstrap/loaders.js`, run the file |
| Shell | `src/shell.cc` | the argument in turn, `run_shell`, the nest of running scripts, the exit status | `RunMain`, `RunShell`, `ExecuteString`, `load`, `read`, `quit`, `print`, `version` |
| File reader | `ReadFile` in `src/shell.cc` and `src/xnode.cc` | the stream, the buffer, the count of bytes | measure, allocate, `fread` loop, make the string |
| Native module registry | `src/xnode.cc`, `src/xnode_binding.*` | three linked lists through the modules | `xnode_module_register`, `FindModule` |
| Module loaders | `lib/bootstrap/loaders.js`, `GetBinding` and `InitModule` in `src/xnode.cc` | `bindingObj`, `moduleLoadList`, `NativeModule._source` and `_cache` | `process.binding`, `NativeModule.require` |
| V8 lifecycle | `main`, `shell::init` | two platforms, two isolates with their allocators, the isolates entered, tasks of the workers and for the foreground | initialise, enter, pump, dispose, return |
| Line reader | `RunShell` | a buffer of 256 bytes | `fgets`, run what it returned |
| Console and print | `lib/console.js`, `src/process.cc`, `Print`, `ReportException` and `parseException` | what is buffered for stdout, lines half written | `print`, `print_error`, `log`, `error`, show a result, report an exception |
| contextify | `src/xnode_contextify.cc` | none | `Initialize`, `sayModule` |
| Environment | `src/env*.h`, `src/env.cc` | a table of context slots | unused: nothing makes an Environment |
| js2c, build | `tools/`, `Makefile` | none | text to C arrays, not run by the build |

How they interact.  `main` is called with the command line.  Without an argument
it hands over to `shell::init`, which makes an isolate and a context of its own
and never returns to the file mode.  With one it makes a context, has every
builtin module registered, runs `lib/console.js`, evaluates
`lib/bootstrap/loaders.js` to a function and calls it with an empty `process`
object and `GetBinding`; the function asks `GetBinding` for `"natives"`.  Then
the file named by `argv[1]` is read and run, and `main` returns 0.  Both modes
read files with a copy of `ReadFile` of their own.

node-mini itself runs in one thread, so that interleaving comes from elsewhere:
from other processes that change files while they are read, from the worker
threads of V8's platform, which run beside `main` until its platform is gone,
from JavaScript that calls back into C++ (`load` inside `load`, `print` inside
the conversion of an argument of `print`, `quit` anywhere), and from calls of the
loaders in any order.

What makes each part correct:

* Shell: arguments get their turn from left to right; a failure ends the
  arguments, is reported once and turns into status 1; an unreadable file does
  neither; without a context nothing is run and the status is 1; the prompt
  appears exactly if it was asked for; `load` gives up at its first failure
  without a report of its own.
* Registry: registering never loses a module or closes a cycle; a lookup finds
  the builtin module that was registered last under the name, and only a builtin
  one.
* Loaders: everyone who asks for a binding or for a native module gets the same
  object, a binding is made once, and exports come only from a module that was
  compiled to its end; the load list says what was made.
* File reader: it never writes outside its buffer, closes the stream on every
  path, returns as many bytes as it measured, and returns.
* Startup: the file runs only after the loaders; each failure is reported once,
  and whatever ends the process early was announced.
* V8 lifecycle: what the shell made is released in the order in which it is
  needed, when nothing works for it any more, and the process ends.
* Line reader: a line that fits is one script, whatever was typed before it; the
  loop ends with its input.
* Console: a call writes its own line to the end whatever its arguments do, what
  it wrote is not lost, and stderr does not overtake it.

## Modules

| Module | Models | Notes |
|---|---|---|
| `ArgRunner` | what the shell promises for a command line | abstract |
| `Shell` | `shell.cc` | implements `ArgRunner` |
| `ModuleDirectory` | what the registry promises | abstract |
| `Registry` | `xnode_module_register`, `FindModule` | implements `ModuleDirectory` |
| `BindingTable` | what `process.binding` promises | abstract |
| `Loaders` | `loaders.js`, `GetBinding`, `InitModule`, `RegisterBuiltinModules` | composes `Registry`, implements `BindingTable` |
| `OneReading` | what `ReadFile` promises of a file that changes | abstract |
| `ReadFile` | both copies of `ReadFile` | implements `OneReading` |
| `LineReader` | how `RunShell` reads | stands alone; `Shell` takes lines that fit |
| `Console` | `print`, `print_error`, the console, results and reports | stands alone |
| `Startup` | what `main` runs | part of `Xnode` |
| `Lifecycle` | what `main` and `shell::init` make and release | part of `Xnode` |
| `Xnode` | the process | composes `Lifecycle` and `Startup` |
| `MCShell`, `MCRegistry`, `MCLoaders`, `MCLineReader` | constants for TLC | |
| `ShellProofs`, `RegistryProofs`, `LoadersProofs`, `ReadFileProofs`, `LineReaderProofs`, `ConsoleProofs`, `LifecycleProofs`, `XnodeProofs` | theorems and proofs | `LoadersProofs` uses the theorems of `RegistryProofs`, `XnodeProofs` those of `LifecycleProofs` |

**Shell.**  `argv`, `i`, `phase` and `result` are the loop of `RunMain` and what is
around it in `shell::init`, which first makes a context (`CreateContext`) or
returns 1 at once (`NoContext`).  `stack` has one frame for every activation of
JavaScript, with where it is (running, in `load`, thrown, failed, in its report)
and how many files its `load` still has to do.  Most are of `ExecuteString`; but
where `Load` converts a name (`ConvertName`) or `ReportException` converts what it
prints (`ConvertException`), the `toString` or getter that runs is a frame as well,
and may load, throw or quit like any script.  A step of the outermost frame returns
to `RunMain` or `RunShell`, a step of an inner one to `Load` or to
`ReportException` (`After`).  What a script does is chosen freely among: throwing,
catching what was thrown, calling `load`, quitting, ending.  `main` calls `shell::init` only when there is no argument, so
that in the program as it is `argv` is empty; `Shell` models `shell::init` for
every `argv` its code handles.

**Registry.**  `head` and `link` are the three list heads and `nm_link`.  `FindModule`
is one action per turn of its loop.  `stamp` and `clock` are history: when a
module was registered.  `xnode_module_register` is exported, so that the modules and
their flags are any, although this build registers only `contextify`.
`Register` asks for nothing, as the code: registering a module a second time would
make its list a cycle.  That each is registered once is the discipline of whoever calls it,
as `RegisterBuiltinModules` does (`RegisterOnce`), and what is claimed of the lists is
claimed under it.
`node_is_initialized` is never assigned, so the last
branch of `xnode_module_register` cannot be reached and is left out.

**Loaders.**  `pc` is `register` while `RegisterBuiltinModules` runs, `natives`
during the lookup the bootstrap makes, `binding` during one that
`process.binding` makes, and `ready` in between.  Objects are numbered in the
order they are made, and `made` says for what.  Names stand for the strings that
`String(module)` yields; if that conversion throws, nothing has changed yet.
In the program at this commit nobody keeps `loaderExports` or `process`, and
`"natives"` is empty: `Loaders` models what the loaders do for whoever holds
them, and `AddSource` stands for the sources that are to be put into
`NativeModule._source`; a source is a string.  A module is compiled within the call
that caches it, and the `TODO` there runs nothing, so `loading` is never seen to be
true.  But `wrap` stands before the `try`, and the string it makes can be too long:
then `require` throws and leaves in the cache a module that is not `loaded`
(`CompileFails`), and the next call makes another one.  The `CHECK`s of `InitModule`
cannot fail: `XNODE_MODULE_CONTEXT_AWARE_CPP`, which defines every module, gives each
a context-aware register function and no other.

**ReadFile.**  A file is its length.  `Change` lets other processes append and
truncate at any step.  `size_t` and `int` are the ranges `SizeRange` and
`IntRange`.  `ftell` fails for a file without a position; then
`chars[size] = '\0'` is outside the buffer and the state is `undefined`, from
which nothing is concluded.  The end-of-file indicator of a stream is sticky, as
on the platform that `README.md` names.  The two copies differ
only in who frees the buffer when `fread` fails: `copy` says which one runs.

**OneReading.**  Others change the length as they like; the call looks at it at one
moment, and answers for what it saw with a string of that length, or gives up, or
ends with the process.  Only lengths that `int` represents are exact (`Exact`): for
the others the code returns what the conversion left of them.  `ReadFile` implements
it with `Measure` as the moment: `Seen` is `size` as long as the call can answer for
it, and `Outcome` is how it ended.  A file that has no position is never seen, so
that it is never returned as a string.

**Startup.**  A file is what its reader can tell: missing, not JavaScript,
throwing, running to its end; the loaders can also evaluate to something else
than a function, or to one that throws.  A script that never ends is a behaviour
in which `main` takes no further step of `Startup`.  The second check of `GetBootstrapper`,
with its `exit(10)`, cannot be reached, because the TryCatch of `ExecuteString`
has consumed the exception by then, and is left out.  The asserts are on: the
Makefile does not define `NDEBUG`.

**BindingTable.**  The table of bindings fills up: the first call for the name of
a module makes an object, and every later call answers with it; a name no module
has is answered with nothing, each time anew.  `Loaders` implements it with its
lookups along the lists of the registry.

**LineReader.**  `input` is all of stdin; `Fgets` is one call, which stops at a
newline, at a full buffer or at the end of stdin.  A piece says where it begins
and ends and how much of it V8 was given, since a null character ends the string
that `NewFromUtf8` sees.  A read error ends the loop as the end of input does.

**Console.**  C++ that waits for JavaScript is a frame of `stack`: a call of
`print` or `print_error` that converts an argument, a result or an exception that
is converted, the name of its script, which is whatever value `load` was called
with, and the getter of `stack` that a report asks for.  Between two such
points the C++ code runs as one step.  `out` holds everything written to stdout,
`sent` how much of it has left the stdio buffer: `fflush` at the end of each call
empties it, `Drain` is the buffer that runs full, and an `Abort` loses the rest.
A text is one of the three outcomes of a conversion.  `print_error` writes to
stdout, as its code does.  A conversion that calls `print` puts a line of its own
into the middle of the outer one, which no document excludes; what is claimed is
that both are written to their end.

**Lifecycle.**  `alive` is what was made and not released, `entered` the isolates
the thread has entered; both say at every place of `main` what its scopes hold.
Names with `A` and `1` belong to `main`, with `B` and `2` to the shell.  The isolate
`A` is never disposed of, and in the file mode nothing but the platform is
released, when `main` returns.  The workers are those of `P1`, the one platform V8
was given: a task is queued, runs, perhaps posts work for the foreground, and
ends.

A job, in the sense of `PostJob`, has several workers, and each of them asks the
platform for more between two of its runs.  `Jobs` are the tasks that are such
workers: those that mark the heap of the isolate (`ConcurrentMarking`), and, in
`Shared`, those that compile WebAssembly, which belong to an engine that isolates
share.  The disposal of an isolate waits for its tasks and its marking
(`DefaultJobHandle::Cancel`); the compilation is only told to stop.  These actions
follow `deps/v8/src/libplatform`: the queue of the workers, `DidRunTask` of a job,
which takes the lock of the platform to post, and the destructor of the platform,
which holds the lock while it joins the workers.  Three things about V8 are taken from
its code as assumptions, with its default flags: a task that is no worker of a job
takes no lock of the platform; a task for the foreground is posted to a task runner
that the isolate keeps, without the lock of the platform; and a job of the isolate
wants no more workers once the isolate is disposed of.

**Xnode.**  The variable `step` is the `pc` of `Startup`; `FileStep` runs one of its
steps in between `SetUp` and the return of `main`, while the workers go on.

## Runs

| Run | Bounds | Shows |
|---|---|---|
| `shell` | command lines of up to 3 arguments, `MaxDepth` = 3, `MaxLoadArgs` = 2, `MaxLines` = 2 | `TypeOK`, `ArgsInOrder`, `StatusTellsFailure`, `ReportedOnce`, `StackShape`, `PromptIffAsked`, `LoadStopsAtFailure`, `ProcessEnds`, the refinement `RunsArguments` |
| `registry` | 5 modules, 3 names | `ListOrder`, `FoundIsBuiltin`, `LookupEnds`, the refinement `ImplementsDirectory` |
| `loaders` | 2 modules, 4 names, 2 ids, `MaxCalls` = 2 | `BindingIsShared`, `BindingIsModule`, `LoadListExact`, `RequireIsShared`, `CallsReturn`, the refinement `ImplementsTable` |
| `read_file` | lengths to 9, `int` of 8 values, `size_t` of 32, 2 changes | `InBounds`, `Released`, `ReturnsUnlessShrunk`, the refinement `ReadsOnce` |
| `line_reader` | inputs of up to 7 bytes of 3 kinds, a buffer of 4 | `CutExactly`, `ShortLinesWhole`, `ReaderEnds` |
| `console` | `MaxCalls` = 2, `MaxArgs` = 2, `MaxLines` = 2 | `LinesComplete`, `LinesDelivered`, `InProgramOrder` |
| `xnode` | every kind of every file and argument, 3 tasks, all of them workers of jobs, 2 of them of WebAssembly, `MaxPosted` = 1 | `ScriptRunsLast`, `FailuresReported`, `EndExplained`, `ReleasedInOrder`, `ProcessEnds` |

Why the bounds are enough.  Three levels of JavaScript are the outermost script,
which reports, one that it loads or that converts a value for it, which does not, and
one that this one starts in turn and that can fail below it; two files in one call of
`load` make the first failure leave one undone.  The five modules of `registry` have every
combination of flags the code tells apart, and two of them one name.  Two calls
for each name are the one that makes a binding and one that finds it, or two
that do not find it; two attempts to load an id are one that fails and one that
does not, or two that fail.  The lengths of `read_file` lie in the positive half of
`int`, beyond `kMaxLength`, in the negative half and beyond the range of `int`;
two changes of a file are a truncation followed by an append.  A buffer that takes
three bytes and inputs of seven let a line be cut twice, fill the buffer exactly,
or follow a line that was cut.  Two calls of `print` are an outer one and one that
its argument makes; two arguments have a separator between them; two lines leave
the result of one in the buffer while the other runs.  A worker of the isolate's
marking and two of WebAssembly are what the disposal tells apart, and a worker that
asks for another one; a marking worker that asks may also find that there is nothing
for a second one.  (With a fourth task TLC needs more than five minutes; the theorems
hold for any number of each.)  That tasks wait for the foreground matters, not how
many.

Fairness.  In `Shell` the C++ code goes on (weak fairness), a thrown exception is
caught or not, and a script that gets control again and again ends at last
(strong fairness for each depth): a script with an endless loop would keep the
process, and the code does nothing about it.  In `Registry`, `Loaders` and
`ReadFile` the one thread goes on with what it has begun; nobody has to call
anything, and nothing is asked of the processes that change files.  In
`LineReader` reading goes on and scripts end; a read error need not happen.  In
`Lifecycle` and `Xnode` the thread of `main` goes on, a worker starts what is
queued and takes the lock when it is free (weak fairness), and a task that runs
again and again, asking for more workers in between, ends (strong fairness for
each task).  `Startup` and `Console` by themselves assume no fairness: their
properties are safety.

`ProcessEnds` of `xnode` has a condition, and it is needed: the destructor of the
platform of `main` takes the lock of the platform and joins the workers under it,
and a worker of a job that asks the platform for another one at that time waits
for the lock.  When the shell disposes of its isolate the marking has stopped, and the
compile jobs are cancelled and ask no more, so that only one that is asking just then
can be in the way.  A file's isolate is never disposed of: its process ends for
certain only if no worker of any job is left when `main` returns.  One that marks the
heap is enough to hang it, with no WebAssembly in the file.

Four runs show where code and documents differ:

* `read_file_content`: a file of 2^31 bytes or more is returned in part, without
  an error, although the reader "reads a file into a v8 string".
* `read_file_returns`: a file truncated while it is read keeps `ReadFile` in its
  loop for ever, because the loop tests `ferror` and not `feof`.
* `startup_file`: `xnode file` crashes where the current directory has no
  `lib/console.js`, although `README.md` installs only the binary.
* `lifecycle_pump`: what V8 posts for the thread of the shell is never run: V8
  posts to the platform of `main`, and `RunShell` pumps its own.

More of the kind can be read off the models without a run of their own: the shell
has no `console` (`CreateShellContext`), which `README.md` lists as the supported
API; `test/test.js` calls `require`, which no context defines (`FileGlobals`); `-e`
is taken for the name of a file, since the shell, which knows the option, is
started only without arguments (`StartShell`); `print_error`, and so
`console.error`, writes to stdout, although `lib/console.js:8` calls it `_stderr`; a null character cuts a printed argument (`Conversions`).

## Proofs

TLAPS proves the following for every value of the constants.  Each module of
proofs states an inductive invariant, proves that `Init` implies it and that
every step keeps it, with one step per action, and derives the theorems.  TLC
finds no violation of these invariants on the instances of the runs.  Every safety invariant
and every action property of the passing runs is a theorem, and so is the safety
part of every refinement.

* `ShellProofs`, from `ShellAssumption`: type correctness, `StackShape`,
  `ArgsInOrder`, `StatusTellsFailure`, `ReportedOnce`, `PromptIffAsked`,
  `LoadStopsAtFailure`, and that every behaviour of `Shell!Safety` is one of
  `ArgRunner!Safety`.  The invariant adds to the properties what the place in the
  loop says of the outcomes so far: before `i` they are settled or the last one
  failed, at `i` one is running exactly if there is a stack, after it none is
  touched.  `LoadStopsAtFailure` follows step by step: a step writes at most the
  top of the stack and, where the top ends or fails, the frame that waits for it.
* `RegistryProofs`, from `RegistryAssumption`: type correctness, `ListOrder`,
  `FoundIsBuiltin`, and that `Registry!Safety` implements
  `ModuleDirectory!Safety`.  `ListOrder` is inductive only together with the
  fact that stamps are unique and not in the future (`StampInv`) and that
  flags still select the list a module is on (`FlagsInv`), and of the steps of a
  caller that registers a module once; that a lookup
  answers like the directory needs what the walk has already passed
  (`SearchInv`).
* `LoadersProofs`, from the assumptions of `Registry` and `Loaders`
  (`LoadersAssumption`: the list of builtin modules has no name twice, and none
  of them is called `natives`; `KindsAssumption`: the ids of native modules are
  neither modules nor that name): type
  correctness, `BindingIsShared`, `BindingIsModule`, `LoadListExact`,
  `RequireIsShared`, and that `Loaders` implements `BindingTable`.  What a lookup
  does is not proved again: `Facts == INSTANCE RegistryProofs` supplies that a
  step of the registry keeps its invariant, and that the walk finds the builtin
  module of the name, if there is one.  The invariant relates the tables to each
  other: what a name is bound to was made for it and for nothing else
  (`ObjectsInv`), what was returned is what is bound now (`BoundInv`), the exports that
  `require` returned are those of the module that is loaded (`NativeInv`), and a lookup is under way exactly
  within a call for a name that is not bound yet (`PhaseInv`).
* `ReadFileProofs`, from `ReadFileAssumption`: type correctness, `InBounds`,
  `Released` (the stream is closed, and only the shell's copy can lose a buffer)
  and `ReadsOnce`, that `ReadFile` implements `OneReading`, for every width of
  `size_t` and `int`.  The invariant adds that a size that was measured is a length
  of a file (`ProgressInv`), so that `size + 1` does not wrap; the refinement needs
  that for a file without a position the size is the largest `size_t` (`SeekInv`),
  for which `size + 1` wraps to 0 (`SizeWraps`), so that no string is made of it.
* `LineReaderProofs`, from `BufferAssumption` and `InputsAssumption`: type
  correctness, `ShortLinesWhole` and `CutExactly`, for every input and size of the
  buffer.  The invariant says that each piece begins where the one before it
  ended, and ends where `fgets` may end it; a line that fits can then only be cut
  at its newline.  For `CutExactly` it adds that a piece begins a whole number of
  full buffers after its line (`Aligned`); that a place divides by the size of the
  buffer exactly at the end of a full piece is arithmetic (`Multiples`).
* `ConsoleProofs`, from `ConsoleAssumption`: type correctness, `LinesDelivered`,
  `InProgramOrder` and `LinesComplete`, for any number of calls, arguments and
  lines.  A first invariant says that every frame but the outermost is a call of
  `print` or `print_error` (`Shape`), so that stderr is written only where no call
  is active, and that then only results of the prompt are in the buffer
  (`Unsent`).  A second one (`LInv`) gives every frame a call of its own
  (`FramesInv`) and says how far that call is: it has written its prefix and two
  tokens for each argument that is done, and each of them is the part of the line
  that its turn calls for (`ProgressInv`).  A step writes for the innermost call
  only, so that the lines of the others keep.  `LinesComplete` counts the places
  in `out` of what a call wrote, since tlapm cannot unfold a filtered sequence.
* `LifecycleProofs`, from `LifecycleAssumption`: type correctness and
  `ReleasedInOrder`, for every set of tasks, of jobs and of shared jobs.  The invariant says what is
  alive and entered at each place of `main` (`AliveInv`) and that no task of the
  isolate is left once it is disposed of (`TasksInv`).
* `XnodeProofs`, from the same assumption: type correctness of the process,
  `ScriptRunsLast`, `FailuresReported`, `EndExplained` and `ReleasedInOrder` of the
  process, and that its behaviours are behaviours of `Startup!Safety`, whatever the
  workers do.  The invariant is that of `Startup` (what has run and what has been
  said wherever `main` is, `ScriptsInv`), that of `Lifecycle`, and how the two meet
  (`EndInv`): `main` returns only when its scripts have, and a process that has
  ended has no platform left or crashed with a reason.

Half of each liveness property is safety, and this half is proved as well, since the
small instances of the runs say least about it:

* `ReadFileGetsOn`: unless the file has lost bytes, each step of `ReadFile` leaves
  fewer places to go or fewer bytes to read, and other processes cannot take that
  back (`ReturnsUnlessShrunk`).
* `LineReaderGetsOn`: each turn of `RunShell` uses up input or a line (`ReaderEnds`).
* `RegistryGetsOn`: each turn of `FindModule` goes to a module that was registered
  earlier, from the order of the lists (`LookupEnds`).
* `LoadersGetOn`: each step of the bootstrap registers one builtin module more, goes
  on to the next part or goes back in the list, and each step within
  `process.binding` returns or goes back in the list (`CallsReturn`).
* `StartupOnward`: each step of the startup takes `main` to a later place, so that it
  has at most eight steps and compiles each script at most once.
* `LifecycleUnblocked` and, with scripts and crashes, `ProcessUnblocked`: from where
  `ProcessEnds` promises the end no worker waits for the lock of the platform, and
  none will until the process has ended, be it one that marks or one that compiles.
  This is what excludes the wait of `main` for a worker that waits for `main`; it needs
  that only workers of jobs ask for more, and that the isolate is gone before V8
  (`PostingInv`).

Only model-checked is the rest of liveness: that these steps are enabled and that
fairness takes them (`ProcessEnds` of `shell` and `xnode`, `LookupEnds`,
`CallsReturn`, `ReturnsUnlessShrunk`, `ReaderEnds`, and the liveness parts of the
refinements), which is out of the reach of the prover.  `ProcessEnds` of `shell` is
model-checked altogether: it rests on scripts that end, which the code cannot bring
about.

## Not modelled

The text of messages and of printed values; V8 running out of memory outside
`ReadFile` and `Console`; `Environment`, `init_v8`, `readFile`, `ParseOptions` and
`lib/bootstrap/node.js`, which nobody uses; `contextify`, whose one function
returns a string; `js2c.py`, which the build does not run, and the build.  A file
that another process changes is in `ReadFile` only; the other modules take a file
as read.

## Plan

1. Done: every component that runs has a module; `Loaders` implements an abstract
   table, the shell an abstract runner, the registry a directory, the file reader one
   reading of the length; the process is composed in `Xnode`.
2. Done: theorems for every safety property of the passing runs and for the safety
   part of every refinement, in eight modules of proofs.
3. Done: an abstract specification for the file reader, one reading of the length,
   which `ReadFile` implements; the safety half of the liveness properties.
