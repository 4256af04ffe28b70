# Formal models of the Leia runtime

Leia is a scripting language that is embedded in Go programs. This directory
holds TLA+ models of the parts of it in which concurrency, failure or ordering
decide correctness, the TLC configurations that check them, and TLAPS proofs.
Every definition that models code is listed, with its lines, under `map` in
`PROJECT.json`; paths below are relative to the repository.

## 1. Inventory

| component | state | operations | hard behaviour | model |
|---|---|---|---|---|
| Hot loader, `hotloader.go` | `loader.mu`, one `ModuleHandle` per path with an atomic snapshot (generation, fingerprint, program); per instance `inst.mu`, a VM and the applied snapshot | Load, Reload, ReloadIfChanged, LoadInstance; inst.Reload, inst.ReloadIfChanged, inst.Call | host goroutines interleave; the file changes between read and publication; contexts end; a reload fails half way | `HotLoader` |
| Hot reload of state, `hotloader.go`, `vm.go`, `internal/runtime` | globals (name, cell), tables, closures with captured cells, the bytecode VM | applyProgram: snapshot, rewrite, run, merge or roll back; host calls | errors in the middle of the top level; sharing of cells and tables; long sequences of reloads | `HotReloadState` |
| Channels and select, `internal/runtime/channel.go`, both engines | Go channel, closed flag, mutex | send, receive, close, try forms, RecvOrStop, select, select with default | a close races with checked, parked and polling operations | `ChannelSpec`, `Channel` |
| Task groups and contexts, `internal/stdlib/bind/sync.go`, `internal/runtime/script_context.go` | WaitGroup, first error and count, once, reason, done channel | start, wait, cancel, withCancel, withTimeout | failure, cancellation, deadline and wait race | `TaskGroup` |
| Goroutine budget, `internal/runtime/interpreter.go`, `internal/vm/vm.go` | atomic counter | reserve (load and compare-and-swap), release | two goroutines reserve the last place; two engines | `TaskGroup` |
| Sync tables (once, mutex, rwmutex, waitgroup) | Go primitives behind tables, one mutex for script callbacks | do, lock, unlock, add, done, wait | a callback that needs the callback mutex | planned |
| Coroutines, `internal/vm/coroutine.go`, `vm_coroutine.go` | status, started, child VM with its frames, the yielded flag; per wrapper a dead flag and a generator's counter | create, wrap, resume, yield; calls and protected calls inside | nested and self resumes; `run()` is entered for a resume and for a callback; errors at any depth | `CoroutineSpec`, `Coroutine` |
| Tiering manager of the method JIT, `internal/methodjit/tiering_*.go`, `direct_entry.go`, `tier2_spec_dependency.go` | published bodies, failed set, recompile queue, reverse index of speculation, entry fields of `FuncProto` with a version, OSR counters | TryCompile, promote, OSR, execute, exits, deopt, refresh, revoke, native call and its exit protocol | code is revoked or replaced while it, its callers or its callees run; an error in compiled code | `Tiering` |
| VM pool, `pool.go` | idle list, mutex | Get, Put, Do | a reset hook outside the mutex, the limit | planned |
| Program cache, `program.go` | compiled prototype, mutex | bytecodeProto | a Program shared by VMs | planned |
| Module resolution, `internal/modpkg`, `internal/support/modresolve` | cache on disk | resolve, fetch | - | not planned |
| Lexer, parser, compiler, VM core, JIT code generation, values, tables, most of the standard library, LLM clients, command line, language server, editors | - | - | sequential, or beyond enumeration | not modelled |

How they interact: an embedding application calls the hot loader from its
goroutines; the loader compiles programs and runs them on the VM of an
instance, which is what `HotReloadState` looks into. Scripts start goroutines
with `go` and with `sync.group`; both go through the launchers and the budget,
and they communicate over channels. Inside one goroutine coroutines resume each
other, each on a VM of its own (`Coroutine`), and every script call asks the
tiering manager in which tier it runs (`Tiering`). The done channel of a context is such a
channel: `TaskGroup` uses the guarantee that `Channel` establishes, that a
close is seen by every operation on the channel.

What makes each correct:

- hot loader: one goroutine at a time on a VM; generations that identify what
  was published; the file's order is the order of publication; a poller ends
  up with the file; no call hangs;
- hot reload: the preservation and rollback rules of
  `docs/reference/hot-reload/index.md`;
- channels: a bounded FIFO with close, errors in place of panics, no lost wake
  up;
- task groups: `wait` tells the truth, one failure cancels the rest, the reason
  is there when the done channel is closed, the budget is exact;
- coroutines: control goes back to the one who resumed; a yield keeps the calls
  in progress; an error ends the innermost protected call or the coroutine;
- tiering: what native callers can reach is what is published, what is entered
  is valid, giving up compiled code repeats nothing.

## 2. Modules

| module | role |
|---|---|
| `HotLoader` | the loader and its instances, at the grain of critical sections and atomic operations |
| `HotLoaderProofs` | theorems about `HotLoader` |
| `HotReloadState` | what applying a program does to globals, cells, tables and closures |
| `HotReloadStateProofs` | theorems about `HotReloadState`: the bindings of names to cells |
| `HotReloadHeapProofs` | theorems about `HotReloadState`: tables and functions |
| `ChannelSpec` | abstract channels: what a script may rely on |
| `Channel` | channels and selects as they are written; implements `ChannelSpec` |
| `ChannelProofs` | theorems about `Channel`, among them that it implements `ChannelSpec` |
| `TaskGroup` | task groups, contexts, launchers and the budget |
| `TaskGroupProofs` | theorems about `TaskGroup` |
| `CoroutineSpec` | abstract asymmetric coroutines: a chain of resumes over stacks of calls |
| `Coroutine` | coroutines as frames, flags and activations of `run()`; implements `CoroutineSpec` |
| `CoroutineProofs` | the invariants of `Coroutine` |
| `CoroutineRefinement` | the proof that `Coroutine` implements `CoroutineSpec` |
| `Tiering` | the tiering manager, the stack of activations and the native-call-exit protocol |
| `TieringProofs` | theorems about `Tiering` |
| `MC...` | constants for TLC |

Definitions whose comment begins with "Mutant" are wrong variants of the
definition that follows them. No specification uses them; putting one in the
place of the right definition must make TLC report a property, which shows
that the property depends on that piece of code.

### HotLoader

`call[h]` is the API call that host goroutine `h` is in: the point it has
reached and its local variables (the source read, the fingerprint seen, the
generation loaded by `install`). The steps of the calls are shared, as in the
code:

- `Begin` enters a call; `Peek` is the first critical section of
  `inst.ReloadIfChanged`; `LockLoader` takes `loader.mu`;
- `Read` is `readHotReloadSource` with the early returns around it (missing
  file, unchanged fingerprint, ended context), `Compile` is `compileSource`
  with the check after it. Load and ReloadIfChanged of the loader keep
  `loader.mu`, all others give it back here;
- `LockInst` takes `inst.mu` (with the second fingerprint check),
  `ApplyProgram` runs the top level or rolls back, `CallFunction` is a host
  call;
- `InstallLoad` and `InstallStore` are the two atomic operations of `install`,
  `Adopt` the third one, `inst.appliedSnapshot = handle.current.Load()`.

A text stands for the bytes of the file and for their hash. One path is
modelled, since paths share nothing but `loader.mu`. The revision inside a
source is history: no action depends on it.

### HotReloadState

A global is a name bound to a cell (`runtime.Upvalue`); a closure of the tree
engine captures the cells of the names its body uses, a closure of the bytecode
engine captures no globals. `run` is the application in progress: the rest of
the rewritten program and the snapshot it started from. `Apply`, `Statement`,
`Commit`, `Rollback` are the phases of `applyProgram`, `Call` is a host call
between them. The engine is chosen in `Init`.

A program (`Code`) is a sequence of statements (`Stmt`): declarations,
assignments to names and fields, function declarations, calls, and an error. Any
expression may make a table or a function. A body is one of the few that tell
shared cells from separate ones: it adds to a global, gives it a new table, or
calls what it holds. `Rewritten` is the loop of `hotReloadProgram`, with
`ShouldSkip`, `ShouldPreserveDeclaredName` and `HasStateBinding` as its rules;
the fingerprints of the previous program are `Previous`. `Fails` collects the
errors of statements, among them reading a name that is not defined, which is an
error in the tree engine and nil in the bytecode engine.

`PreserveHotReloadState`, `MergePairs` and `MergeField` are the merge, over the
globals in any order, as Go maps are walked; the recursion into nested tables is
the set of pairs that a merge comes to (`WithNestedPairs`). `Reachable`,
`CloneFields`, `RestoredTabs` and `ReplaceGlobals` are the rollback: the snapshot
has one clone per reachable table (`WithNested` is one step along the fields).
`SamePath` relates the tables of the snapshot to those one finds on the same
paths of fields after a rollback; `RollbackRestores` says that they hold the same.

### Channel and ChannelSpec

An operation of a goroutine is a record: kind, cases, the case it has come to,
and a point. `Check` reads the closed flag under the mutex for the cases that
send, after which the mutex is free again; "wait" is a goroutine in the Go
runtime with all its cases on offer, "try" one that polls a single case.
`CloseFlag` and `CloseGo` are the two assignments of `Close`; the mutex is held
in between. `SendRecovers` is the recovered panic. The Go channel itself
(`GoSend`, `GoRecv`, `GoRendezvous`) is external. `ChannelSpec` says what this
amounts to: values are received in the order in which their sends committed,
at most `Cap` are on their way, none is accepted after the close, "closed" is
reported only for a closed channel, and one operation has one result. The
refinement maps `closed` to the state of the Go channel; `sent`, `rcvd` and
`result` are the same variables.

### TaskGroup

`proc[p]` is the point that goroutine `p` has reached: the script, each task,
and the timer of `withTimeout`. Starting a task, `LoadActive` and `CasActive`
are the budget's loop; a task ends with `Finish`, `Release`, `Record` (which
begins the cancellation if it is the first error), and `WgDone`. A task that is
refused goes through the same callback, on the goroutine that called start.
`CancelOnce` and `CloseDone` are the body of the `once`; `Wait`, `Wake`,
`ReadError` and `ReadCount` are `group.wait`. `Engine` chooses the launcher:
that of the bytecode engine reserves nothing for the tasks of a group.
`Parent` fixes who starts which task. The wait group panics when `wg.Done` finds
it at zero and when a goroutine that wakes from `wg.Wait` finds it in use again;
`panicked` records either.

### Coroutine and CoroutineSpec

`goStack` holds the activations of `run()` on the Go stack, with the VM they
run, the depth at which they return to Go (`fc`, from `InitialFC`) and why they
were entered; `frames` and `frameCount` are those of each VM. Every call has a
number of its own, so that "returns to its caller" can be told from "returns to
somebody". `Call`, `PCall`, `ReturnInline`, `ReturnToGo`, `Error` and `Yield`
are steps of the running script; `Start`, `Continue`, `RunOnce` (native and leaf
bodies), `GiveUp` (a generator that cannot stay one), `CallGenerator`, `Refuse`
and `RefuseWrapper` are the ways a resume goes. Each end of an activation is one
operator, as in the code: `FinishCoroutineRun`, `PCallEnds`, `LeafEnds`,
`MainEnds`. In `CoroutineSpec` there are no frames, flags or activations: a
chain of resumes, the calls in progress of each coroutine, and which of them
pcall made. The refinement reads the chain off `goStack`: the activations of the
main program are the first ones (`LastOfMain`), and those above them are the
resumes in progress (`Chain`). The calls in progress of a VM are its `frames` up
to `frameCount` (`InProgress`), and the guarded ones are those that the
activations of `pcall` wait for (`Guarded`).

Left out: operands and results (the pooled record that carries the values of a
yield too), defers, and the continuations with which the method JIT resumes a
yield in compiled code. The coroutines of the tree walker, which run on
goroutines of their own, are not modelled.

### Tiering

One goroutine runs everything, so a step is one handler. `mgr` is the manager
together with the entry fields of the prototypes, and the operators on it are
its methods: `CompileBaseline`, `Install`, `Register`, `Publish`, `ClearInstall`,
`QueueDependents`, `CheckDependencies`, `SetEntries`. `stack` holds the
activations with the body they run and how they got there: by `executeTier2`
(`tier2`), by a native call (`native`), taken over by the native-call-exit
protocol (`resumed`), or in the interpreter after giving up. `task` is a
promotion that still has callees to compile, the unwinding of native frames, or
an error on its way. A frame keeps the function of its closure (`closure`) apart
from the one in whose body it is executed (`proto`), and `Name` gives the names of
the functions, because the protocol compares names: `ExitCallee` is the published
body of the function in the call slot, or else the body of the caller if the two
are one function or have one name, and `ResumeCallee` publishes the entry of
whatever `ExitCallee` chose and goes on there. All function literals are named
`<anonymous>`. An exit number or pc that the chosen body does not have is an error,
which `Fail` covers.

What a gate, a profile or a pass decides about bytecode is a free choice. A body
remembers the epoch of the globals and shapes it was compiled for, the callees it
speculated on and the feedback it has seen. The version of the entry fields is
not a number: `cached[p]` holds what call sites remember under the current
version, and a new version empties it. A history field of an activation,
`effect`, says that it did something the script can see.

Left out: the typed, leaf and numeric entries (they are published and cleared
with the ones modelled), guard suppression, the caches of global values, the
separate lanes of the q evaluator, the exported `CompileTier2`, the policy that
keeps functions in Tier 0, and the suppression of recursive partitions. Whether
an OSR may start the loop again is decided by `osrRestartSafetyGate` from the
bytecode; a loop that fires OSR is taken to have passed it. Code is generated
for arm64 on darwin only; on other platforms the manager is absent.

## 3. What TLC checks

Passing runs:

| run | what it shows |
|---|---|
| `loader` | two hosts, Load and ReloadIfChanged, edits, broken and missing files, cancelled contexts: generations are consecutive (`GenerationAdvances`), programs are published in the order in which they were read (`PublishedInReadOrder`), and polling brings the handle to the last text that compiles (`LoaderConverges`) |
| `instance` | two hosts load, reload, poll and call one instance: the recorded snapshot is the program the VM runs (`AppliedMatchesVM`), one goroutine at a time on the VM (`VMExclusive`), the VM is never left half way (`RunnableState`), no call hangs on the two mutexes (`EveryCallReturns`), polling brings the VM to the last text that runs (`InstanceConverges`) |
| `reload` | both engines, five versions of a script in any order, calls in between: functions are those of the applied program (`FunctionsAreCurrent`), a reload keeps the state in globals and in the fields of tables at any depth (`ReloadKeepsState`, `ReloadKeepsFields`), a rollback restores what every path of fields leads to (`RollbackRestores`), and, as long as no reload was rolled back, functions and globals use one cell (`StateIsShared`). The versions satisfy the hypotheses of the theorems with `S = {n, m}` (`UsualPrograms`) |
| `channel` | plain operations, blocking and polling selects of two goroutines on an unbuffered and a buffered channel: `NoPanic`, `FlagCoversClose`, `ImplementsChannelSpec`, the refinement, and `CloseUnblocks`: a close ends every operation on the channel |
| `group` | tasks started by the script and by a task, with `go` and in the group: `WaitReportsAll`, `FailureCancelled`, `DoneHasReason`, `ReasonIsFinal`, `BudgetExact`, `GoroutineLimit`, `NoPanic`, `FailureEndsWait` |
| `coroutine` | two script coroutines, one of them wrapped, a leaf and a wrapped generator resume each other and themselves, yield at any depth, fail and end: a coroutine runs exactly when it is on the Go stack (`RunningIsOnStack`), one that is suspended can go on (`SuspendedCanContinue`), a pcall gets the results of its own call (`ProtectedCallReturns`, with protected calls in the main program only), and the whole implements `CoroutineSpec` (`ImplementsCoroutineSpec`) |
| `tiering` | a function with a loop and the one it calls, in all tiers: the reverse index is exact (`DependentsExact`), a remembered entry is the one that would be loaded (`CachedEntryIsLoaded`), entries lead to published bodies (`EntryOfPublished`), executeTier2 never starts a body whose dependencies changed (`EnteredCodeIsValid`), an exit is handled in the body that took it (`ResumesInItsBody`) |

`loader` and `instance` do not mix the operations of the loader with those of an
instance, and `instance` has one instance: `stale_snapshot` below shows what
happens otherwise.

Runs that end in a counterexample, each against a sentence of the repository
(quoted under `findings` in `PROJECT.json`):

| run | counterexample |
|---|---|
| `stale_snapshot` | the instance records a snapshot that a concurrent ReloadIfChanged of the loader installed; its own ReloadIfChanged never applies the file again |
| `split_cells` | after a rollback, functions and globals use different cells |
| `limit` | tasks of a group escape the goroutine limit in the bytecode engine |
| `protected` | a pcall inside a coroutine enters `run()` in a VM whose `run()` stops only at the outermost frame: it goes on with the body of the coroutine and hands the body's results to pcall |
| `replay` | an error in compiled code that already did something visible: the VM falls through to the interpreter and runs the activation again from its start |

More behaviours were met while modelling; they are hazards with a note rather
than runs.

- Hot loader: LoadInstance and reloads of instances call `install` outside
  `loader.mu`, so two publications may carry one generation, and a reload that
  read the file before an edit may publish after the program read from the edit.
- Hot reload: an unchanged function that a reload skips keeps calling the old
  body of a changed one, through the cell it captured; a program that declares a
  name twice, first as a value and then as a function, loses the function when
  the same text is reloaded (the function is skipped and the value is not), and a
  name that changes from a function to a number leaves closures with the cell of
  the function; a table that is nested in
  one global and bound to another is two tables after a rollback; after a
  rollback in the bytecode engine host calls go to the tree walker and fail
  until a reload succeeds.
- Channels: a select with default may take the default although some case was
  ready all the time, because it polls one case after the other.
- Coroutines: a wrapped generator that is called directly advances a counter,
  and called by native code runs its body; a script that does both sees values
  twice.
- Tiering: after a precise deopt the pc of the frame has moved, and an error
  that comes later makes the fall-through go on behind the instruction that
  failed, so the error is lost. A compilation that is only put off is recorded as
  failed when the promotion of a caller asked for it. A native callee whose body
  was revoked while it ran turns its exit into an error of the caller
  (`MissingCallee`).
- Tiering, functions of one name: when the callee that was revoked has its
  caller's name, as two function literals have, `nativeExitCallee`
  (`tiering_manager_exit_native.go:198`) resumes it in the body of the caller, as an
  activation of the caller, and publishes the entry of that body, which may have
  been revoked itself. To see it, give the configuration of `tiering`
  `Name <- Anonymous` and `ResumesItsFunction` as its only property: TLC finds a
  counterexample within some ten thousand states. `docs/spec/implementation.md:63-64`
  asks fallback and recovery to "preserve the same visible result as interpreter
  execution". A function that calls itself meets the same code with itself as the
  caller: when its inner activation was recompiled, the outer exit is handled in
  the new body. That is why `ResumesInItsBody` and `EntryOfPublished` have
  hypotheses about names (`CallsNamesake`).
- Task groups: a task outside the group may start one inside while the script
  wakes from `group.wait`. Go's WaitGroup then panics in `wg.Wait`; `group.wait`
  does not recover it, as `mutex.unlock` recovers the panic of its mutex, and on the
  goroutine of the script nothing else does. To see it, give the configuration of
  `group` `Parent <- Outside`, `b` then being started by `c`, and `NoPanic` as its
  only property.

### Bounds

`MaxRev` (edits) of 2 to 4 and `MaxGen` (generations) of 2 or 3 allow two
operations to overlap with an edit before, between and after them; races in
this code involve two publications and at most two edits. `MaxGen` only stops
unconditional reloads from being started, so calls that are under way always
finish and the liveness properties are not cut short. Five applications and two
calls in `HotReloadState` allow load, reload, failure, reload and reload again.
Three operations per goroutine on a capacity 0 and a capacity 1 channel let each
goroutine close and then use a channel or the reverse, while the other is parked
in a select over both.
Three tasks, one of which is started by another, with a limit that is smaller
than their number let two goroutines compete for the last place while a third
releases one. Five calls and three frames per VM let a coroutine yield inside a
call, be resumed from another one and fail there, and a generator that yields
once reaches its end. Three bodies, one step of feedback and one change of the
facts let each of two functions be compiled, revoked and compiled again while the
other runs; at a depth of two activations no native exit is nested in another
one. The tiering run has no function that may be started again (`Replay` empty);
with `Replay = {g}`, where Tier 1 and Tier 2 entries of one function alternate,
the same properties hold (2.8 million states). Its two functions are declared
ones, with names of their own; with equal names, with functions that call
themselves or each other, and with three functions in a chain, the state space
is too large to finish: TLC found no violation of the same properties among the
first 3 to 9 million states of each, and the theorems below cover those cases.
Runs do not check for deadlock: applications and scripts may stop calling, and
a script that waits for a channel nobody serves is a legal one. That nobody is
stuck inside the code is what `EveryCallReturns`, `CloseUnblocks` and
`FailureEndsWait` say. No run uses symmetry.

### Fairness

`HotLoader!Fairness` is weak fairness of the steps of each host and strong
fairness of taking a mutex: Go schedules every runnable goroutine and
`sync.Mutex` hands over to a waiter that has waited for a millisecond. Script
code is taken to end. `PollSpec` adds `Polling`: the host keeps polling, and
from some time on with contexts that are not cancelled under it. The loader has
no watcher, so this is what an application does. `Channel!FairSpec` is weak
fairness of the steps of a goroutine, never of starting an operation.
`TaskGroup!Fairness` adds that tasks watch their context: once it is done they
end, although they may call other things first. `Coroutine` and `Tiering` have
one thread of control and no liveness property.

## 4. What is proved

For every value of the constants, with TLAPS:

- `HotLoaderProofs!TypeCorrect`, `VMExclusion`: for any hosts, instances and mix
  of operations. `VMExclusive` is not inductive; `Ownership` is: a call holds
  the mutex that its point says it holds, and an instance that is being loaded
  belongs to one call.
- `HotLoaderProofs!GenerationsInSequence`, `PublishedInOrder`: if an application
  uses only the loader's own operations (`Ops \subseteq LoaderOps`), generations
  are consecutive and follow the order of the file. The invariant `Serialised`
  says that the call that holds `loader.mu` knows the current generation once it
  has loaded it, and that what it read is at least as recent as what is
  published. With LoadInstance among the operations TLC finds two publications
  of one generation: the hypothesis is needed.
- `HotLoaderProofs!StateIsRunnable`: what a live instance runs has compiled and
  run to its end. A call that carries a program between its steps carries one
  that compiled, and one that has passed `ApplyProgram` one that ran (`Prepared`).
- `HotLoaderProofs!AppliedIsWhatRuns`: for an application that has one instance
  and does not use the loader's own operations (`OneUser`), the recorded snapshot
  is the program the VM runs. `AppliedExact` says that between the store of
  `install` and the load of `Adopt` nobody else can publish. The run
  `stale_snapshot` shows that the hypothesis is needed.
- `HotReloadStateProofs!BindingsHold`, `ReloadKeepsStateHolds`: for any programs,
  names and sequences of reloads, failures and calls. `Inv` says that every name has a cell of its own and every
  table value points to a table, in the state (`Cells`) and in the snapshot of an
  application (`Snapshot`), and that no statement unbinds a name. That names do
  not share cells is what `preserveHotReloadState` needs: it assigns by cell. The
  rollback numbers the globals of the snapshot; `Ranks` shows that the numbering
  gives each of them one new cell. The body of `ReloadKeepsStateHolds` is a fact
  about `Commit`; that only `Commit` and `Rollback` end an application is `Ends`.
- `HotReloadHeapProofs!TypeCorrect`: for any programs. `TypeInv` adds to `Inv`
  that every value, in a cell, in a field and in the snapshot, points to a table
  or closure that exists (`Types`, `RunTypes`), and that a captured cell belongs
  to one name (`Owned`). A bump that finds a number in the cell of one name would
  otherwise add to that of another.
- `HotReloadHeapProofs!ReloadKeepsFieldsHolds`: a merge, in whichever order it
  visits globals and nested tables, changes no field that is state (`MergeKeeps`,
  `MergesKeep`).
- `HotReloadHeapProofs!RollbackRestoresHolds`: the tables that a table of the
  snapshot refers to are in the snapshot too, although `Reachable` stops after as
  many passes as there are tables (`ReachableClosed`: each pass before it is
  complete adds a table); each has one clone (`Clones`); and the paths of fields
  from a restored global lead from each table to its clone or to itself, restored
  in place (`PathsLeadToClones`).
- `HotReloadHeapProofs!FunctionsStayCurrent`: if programs declare a name once
  (`OneDeclaration`) and do not assign to names of functions
  (`FunctionsOnlyDeclared`). `FunctionsInv` says of an application in progress
  that each function of the new program is current or still in the rest of the
  rewritten program, which is where the fingerprint rule of `ShouldSkip` is
  needed, and that the snapshot has the functions of the program before.
- `HotReloadHeapProofs!StateStaysShared`: for any set `S` of names that hold
  numbers while the others never do (`ScalarsApart`), if programs declare a name
  once. `NumbersInv` says that a closure has the cell of each number or none, and
  that a declaration of a number that still runs is the first one of its name:
  `ShouldPreserveDeclaredName` skips every other one, and a second cell is what
  would separate closures from globals.

  The loops of the code are recursive functions in the model. Their inductions
  are over the number of passes, from the fact that a set of numbers has a least
  one (`LeastNumber`, `Passes`), which is about sets and takes no operator; that
  each recursive function exists is proved in the same way (`MergingExists`,
  `KeepingExists`, `PairingExists`, `ReachingExists`).
- `ChannelProofs!TypeCorrect`: for any goroutines, channels, capacities and
  select statements.
- `ChannelProofs!NoHostPanic`, `FlagAgrees`: the inductive invariant `CloseInv`
  adds that a goroutine between the two assignments of `Close` holds the mutex
  of a channel that is flagged and not yet closed, which is why a second `close`
  of the Go channel cannot happen.
- `ChannelProofs!Refinement`: `Channel` implements `ChannelSpec`. `FifoInv` says
  that the buffer is what was sent and not yet received, at most `Cap` of it, and
  that nobody has a result before the operation ends. The errors that the flag
  reports before the Go channel is closed are errors of the abstract channel
  because of `FlagCoversClose`.
- `TaskGroupProofs!TypeCorrect`, `BudgetIsExact`, `DoneReason`, `ReasonFinal`: for
  any finite set of tasks, both engines and any limit. The invariant (`Inv`) ties
  the wait group, the error count and the budget to sets of tasks: those that
  hold a place, those that are counted, those that failed and recorded it
  (`BudgetExact`, `CountExact`, `ErrorsExact`), and says where each task can be
  (`Shape`). `ContextExact` says that there is a reason as soon as
  the `once` has begun, and that the channel is closed when it has ended.
- `TaskGroupProofs!LimitHolds`: no more tasks run than the limit, in the tree
  engine; the run `limit` shows the bytecode engine exceeding it.
- `TaskGroupProofs!WaitNeverPanics`, `FailureCancels`, `WaitTellsAll`: if the
  tasks of a group are started by the waiting goroutine and by tasks of the group
  (`OwnStarts`). A task that starts another one is itself counted until the
  other one is, so nothing is counted any more when `wait` wakes (`Idle`). The
  counter is the number of tasks that are counted (`CountExact`), and the one that
  calls `wg.Done` is among them, so it is never found at zero. A task outside the
  group that starts one inside may do so while `wait` returns, which the Go
  documentation of WaitGroup forbids.
- `TieringProofs!TypeCorrect`, `IndexIsExact`, `CacheIsExact`,
  `EntriesArePublished`, `EnteredIsValid`, `ResumedInItsBody`: for any functions,
  call graphs, bodies and depths. Every method of the manager has a lemma that it
  keeps `Good`: published bodies exist (`BodiesAreMade`), the reverse index and
  the speculation of the published bodies agree (`IndexExact`), call sites
  remember only what they would load (`CacheExact`), and entries lead to
  published bodies (`EntryExact`). An entry follows the published body (`Follows`)
  for every function that calls no namesake but itself; if it does call itself,
  its running body may be entered while none is published. `NativeOK` says that the
  native activations are on top of the stack and that each was called by the
  activation below it or through a namesake (`Linked`); one that is set apart by its
  name from its caller, and that calls no namesake but itself (`Separate`), runs the
  published body of its function, as long as there is one. This is what
  `ResumesInItsBody` needs, and `EntriesArePublished` what keeps it.
- `CoroutineProofs!TypeCorrect`, `RunningOnce`, `SuspendedCanGoOn`,
  `PCallGetsItsResults`: for any coroutines, wrappers, bodies and depths, if
  natives call back in the main program only (`Nesting \subseteq {Main}`). The run
  `protected` shows what happens otherwise. `Inv` splits the Go stack (`Split`):
  below are the activations of the main program, one per protected call, each
  entered one frame above the one before (`MainPart`); above is one activation
  for each running coroutine (`CoPart`). `Named` says that calls in progress are
  all different, `Kept` that status, VM and frames of a coroutine agree.
- `CoroutineRefinement!Refinement`: under the same hypothesis `Coroutine`
  implements `CoroutineSpec`. `Call` and `PCall` are `Call`; a return inside an
  activation or to pcall is `Return`; a return from the body of the main program
  or of a coroutine is `Finish`; `Error` is `Fail`, because the innermost guarded
  call is the one at the depth `fc` of the top activation; `Start` and `Continue`
  are `Resume`; `RunOnce` and `GiveUp` are `RunOnce`; the refusals are `Refuse`.
  A direct call of a generator is `RunOnce`, `Refuse` or nothing that the
  abstract specification sees.

The assumptions are `ConstantsAssumption`, `ReloadAssumption`,
`ChannelAssumption`, `TaskAssumption`, `CoroutineAssumption` and
`TieringAssumption`: the constants have their types, the null values are not
members of the sets, programs are sequences of statements over finitely many
globals, a group has finitely
many tasks. TLC evaluates them in every run. The hypotheses of theorems
(`Ops \subseteq LoaderOps`, `OneUser`, `OneDeclaration`, `FunctionsOnlyDeclared`,
`ScalarsApart(S)`, `Engine = "tree"`, `OwnStarts`,
`Nesting \subseteq {Main}`) restrict how the code is used; each is satisfied by a
passing run, and where it fails a run or the text above says what happens.

Only model-checked are the liveness properties (`LoaderConverges`,
`InstanceConverges`, `EveryCallReturns`, `CloseUnblocks`, `FailureEndsWait`):
fairness and ENABLED are out of the prover's reach. Every invariant and every
action property of a passing run, and both refinements, are stated by a theorem.

## 5. Plan

1. `SyncTables`: once, mutex and waitgroup with the serialised caller, to decide
   which nestings can wait for themselves; script cancel functions in
   `TaskGroup`.
2. `Pool` and the prototype cache of `Program`.
3. `HotReloadState`: metatables, declarations of several names, read-only
   globals; composition with `HotLoader`, so that the VM of an instance is a
   `HotReloadState`.

## 6. Not modelled

The models cover a small share of the repository's lines, and most of the rest
is out of their reach:

- the data and q libraries (`internal/stdlib/lib/data`, `lib/q` and their
  bindings) are vectorised kernels and an evaluator of expressions over
  unbounded columns: sequential, without state between calls, and compared with
  reference implementations by the repository's tests;
- the graph builder, passes, emitters and assembler of `internal/methodjit` are
  translations between programs. What they promise is the equivalence of two
  programs on all inputs; TLC can enumerate neither. `Tiering` models when their
  results are used;
- lexing, parsing, compilation and the opcodes of the VM: sequential code over
  unbounded data, covered by fuzz and equivalence tests. The opcodes that call,
  return, yield, resume and start goroutines are modelled;
- NaN boxing, table shapes and memory management: representation;
- LLM and HTTP clients: external services; the command line, language server
  and editors: user interfaces.

Smaller parts that are left out: read-only accessors such as `inst.Generation`,
which reads the applied snapshot without the mutex; the read and write races on
script tables that the `markConcurrentTables` switch guards against; and the
sharing of one coroutine by two goroutines, which no lock supports.
