# Formal models of gors

gors translates Go packages to Rust. It scans and parses the sources, resolves
the packages they import, infers types, lowers the program to a Rust syntax
tree, prints it, and can compile and run the result. A generated program runs
on the runtime in `gors-builtin`: channels, pointers, slices, maps, panics.

The models in this directory are about the three places where gors is hard to
test: the concurrent and non-local behaviour of **generated programs**
(channels, select, pointers, sync.Map, panics, loops and gotos,
initialization), the **state gors keeps between runs** (its output directory
and the build script's SDK cache), and the **passes whose state is spread out**
(dead code elimination, the scanner with the parser's comment groups). Every
definition is translated from the Rust source; `PROJECT.json` ("map") names the
lines of each one.

## The system

| Part | Source | State | Operations | What makes it hard | What makes it correct |
|---|---|---|---|---|---|
| Channels | `gors-builtin/src/lib.rs` `Chan` | per channel a mutex, queue, capacity, closed flag, two condition variables | send, recv, try_send, try_recv(_with_ok), close | goroutines are OS threads; `notify_one`; notification after unlock; an unbuffered sender waits on the senders' condition variable | order, capacity, no lost wakeup, close releases everybody, a rendezvous returns |
| Select | `compiler/mod.rs` `compile_select_stmt` | the polling loop's position | one try per communication, default, yield | the arms are tried at different instants | an arm passed over was not ready, the loop ends when it can |
| Defer, panic, recover | `compiler/mod.rs`, `gors-builtin/src/lib.rs` | per frame a defer stack, one global payload slot | defer, panic, run-time fault, recover, Drop, unwinding | non-local control flow; Drop during unwinding; a slot shared by threads | Go's order of deferred calls; no panic lost; recover finds its own panic |
| Loop control | `compiler/loop_control.rs`, `compiler/mod.rs` | none (a translation) | for, range, switch, select, labels, break, continue | `continue` becomes a break of a labelled block, so every jump between the two shifts | same run as Go; accepted by rustc |
| Import resolution | `parser/mod.rs` `parse_program` | visited set, recursion, completed list | visit, skip, record, fail | cycles, diamonds, failures deep in the recursion | dependencies first, once each, none missing |
| Program initialization | `compiler/mod.rs` `compile_program_impl`, lowering of files | the calls put before main's statements | stdlib calls, local calls, lazy variables | several Go functions become one Rust function | every init function runs, in order, before main |
| Output directory | `gors-cli/src/main.rs`, `compiler/manifest.rs` | generated files, manifest, binary on disk | load, skip, write, remove, save, rustc, execute | kills between steps, concurrent runs, stale manifest | a run executes what it compiled |
| Goto state machine | `compiler/goto_context.rs`, `compiler/ir.rs`, `compiler/mod.rs` | state of a dispatch loop | goto, labelled statements | jumps into the middle of lowered statements, out of nested machines | same run as Go |
| Pointers | `gors-builtin/src/lib.rs` `GorsPtr` | cells behind mutexes, guards that hold a projected value | lock, deref, drop | a projected value is out of its owner while its guard lives; guards nest; panics under guards | accesses act on variables; nothing is lost or kept |
| sync, sync/atomic | `compiler/runtime_primitives/` | entries behind a mutex, behind a pointer | atomic functions, Map, Pool | the handle is cloned first and the entries locked later; Range runs a callback | each operation happens at one instant |
| Dead code elimination | `compiler/mod.rs`, `compiler/dce_*.rs`, `reachability_cache.rs` | items per module, required names, cache of scans | scan, follow, drop, prune, repeat | three nested fixpoints over names, caches that must follow the cuts | what stays is closed under use and alive |
| SDK cache | `gors/build.rs` | archive, unpacked SDK, output directory | download, unpack, replace, preload | concurrent builds without a lock, kills, retries | the whole SDK of the right version is embedded |
| Scanner, comment groups | `scanner/mod.rs`, `parser/mod.rs` `next` | cursor, pending newline, pending directive | scan, next | newlines hidden in comments, positions that directives move | Go's semicolons; true positions; every comment in its place |
| Parser of expressions, resolver, type inference, lowering of expressions, coercions, printer, mapping, web front end, fuzzing | `gors/src/...`, `www/`, `fuzz/` | none that outlives a call | | large sequential translations | against grammars and type systems |

How the parts meet: the CLI calls the parser (import resolution), the compiler
(all lowerings) and the printer, then writes the output directory and calls
rustc. A generated program calls the runtime: select calls the channel
operations, a lowered function calls the panic runtime through its defer stack,
`main` calls the init functions in the order of import resolution, and every
variable whose address is taken is behind a pointer. The pass that removes dead
code runs on the lowered program, runtime included. The build script runs
before all of this, once per checkout: what it embeds is the standard library
that import resolution finds.

## Modules

    GoChannel      what a Go program relies on in a channel (abstract)
    Chan           the channel runtime, one action per critical section
    Select         EXTENDS Chan: the lowered select statements
    Chan_proofs    theorems about Chan and Select
    GoDefer        Go's rules for defer, panic, recover (recursive reference)
    PanicDefer     the lowered functions and the panic runtime
    PanicDefer_proofs        theorems about PanicDefer
    Memory         variables that goroutines reach through pointers (abstract)
    Pointer        GorsPtr: cells, projections, guards
    Pointer_proofs           theorems about Pointer
    AtomicMap      what a concurrent map promises (abstract)
    SyncMap        the replacement of sync.Map
    SyncMap_proofs           theorems about SyncMap
    ControlFlow    Rust's loops, labelled blocks, matches and jumps (rustc, external)
    LoopControl    Go's loops and gotos, and their lowering to ControlFlow
    DeadCode       the dead code pass
    DeadCode_proofs          theorems about DeadCode
    BuildScript    the build script: SDK cache and output directory
    BuildScript_proofs       theorems about BuildScript
    Scanner        the scanner, one action per kind of token
    CommentGroups  EXTENDS Scanner: how the parser takes tokens and comments
    ImportResolution         the parser's recursion over packages
    ProgramInit    EXTENDS ImportResolution: what main initializes, in order
    ImportResolution_proofs  theorems about ImportResolution and ProgramInit
    OutputCache    the output directory over several runs
    OutputCache_proofs       theorems about OutputCache
    MC*            instances for TLC, one per component

Operators commented "Mutant: ..." are wrong versions of the definition that
follows them, kept to show that each property notices such an error; nothing
uses them.

### Chan and GoChannel

`buf[c]` and `closed[c]` are `ChanInner`; the capacity is a constant because no
operation changes it. `pc[g]` says which condition variable wait or which
notification goroutine `g` is at, `asleep` is the union of all wait sets. One
action is one critical section of the mutex: nothing else sees the state
inside, and a `notify_one` under the mutex belongs to the same action. Where
the code unlocks first (`try_send`, `try_recv`) the notification is an action
of its own, `NotifyRx` or `NotifyTx`. `wait_chan` may return spuriously
(`SpuriousWakeup`). Poisoned mutexes are entered like others in the code, so
they are not modelled. `sent` and `rcvd` are history. A value is a goroutine
and its send's number, so that no two are equal. Nil channels park the
goroutine, or panic on `close`.

`GoChannel` keeps a log of accepted values, how many were taken, and whether
the channel is closed: nothing is accepted after close, and values leave in
order. `ImplementsGoChannel` is `Chan => GoChannel` under the mapping
`log <- sent, taken <- Len(rcvd), closed <- closed`.

### Select

A select with one communication and no default is the blocking operation, one
with a default is a single try, a larger one is a polling loop: `Poll` tries
the arm `arm[g]`, `Fallback` runs the default or starts again after
`yield_now`. `missed` is history: the arms that were unready at some instant of
the running select. The clause's body is ordinary code of the program and
therefore not part of the select.

### PanicDefer and GoDefer

A program is four functions whose bodies are calls, defers, panics, implicit
run-time faults and recovers. A frame has the `__GorsDeferStack` of the
lowering; `Caught` is the test by which the lowering wraps a body in
`catch_unwind`. `payload` is the one global `RECOVER_PAYLOAD`. `Unwind` has a
disjunct for each way an unwinding meets a frame. Arguments, results and named
results are left out. `GoDefer` computes what Go prescribes for the same
program, and `AgreesWithGo` compares log and end.

### Pointer and Memory

A cell holds a struct of integer leaves behind a mutex; a pointer is a cell and
the chain of projections (fields, elements) that were taken from it, each a
set of leaves. `steps` are the steps left of a goroutine's statement: lock the
owner, take the value out (which leaves the default), unlock, access, lock, put
back, unlock, and the same once more around each of these for every further
projection. `under` is a method called on the pointee: it runs while the guard
of its receiver is alive. A panic leaves the steps of the guards that are alive,
which is what unwinding runs. `Memory` has one step per access on plain
variables; `ImplementsMemory` maps a variable to the guard that has it out, or
to its cell. `raced` gives up the leaves that somebody accessed while another
guard had them out, and `RacedWhereShared` says when that can be.

### SyncMap and AtomicMap

`field` is the vector of entries that the map in the struct points to,
`handle[g]` the one that `g` has cloned; a map that is a field of a struct is
moved out by the projected pointer and moved back, with `broken` as the history
of two goroutines that do so at once. Each method is one critical section,
except `Range`, which takes a snapshot and then calls back. Keys are compared as
`any_eq` does, with keys of unlisted types and of types that do not compare.

### LoopControl and ControlFlow

`Compile` is the lowering from Go statements to Rust's loops, labelled blocks
and jumps, function by function as in `loop_control.rs`. A list with a label
that one of its gotos names becomes a machine: `HasPlan` is the decision,
`GotoMachine` the segments, `gotos` the stack of machines a goto may enter.
`ControlFlow` is the Rust side: how such statements run, and which labels and
jumps rustc rejects (E0695, E0696). Conditions are bits of an input consumed in
order, so "every input" is every sequence of outcomes. Both sides run in
fuelled steps, and an endless loop shows as a run that ends without finishing.

### DeadCode

A program is a set of items per module, with what the text of each part uses.
The pass sees names only: `Names` and `ImplNames` are what the collectors make
of uses and of impl headers, `Kept` and `Members` are the filter on an item,
`Expand` and `Visit` the fixpoint on one module, `Follow` and `Followed` the
fixpoint over modules, `EndRound` the outer one. Modules and items are taken in
any order, of which the code's (by name, as written) is one. `cache` are the
scans that a lookup may find: those whose key, a hash of items, roots and module
names, is that of the module as it is. A use is `bare` when its name stands
alone as an expression, and then it is collected only if no part of the item
that is left binds the name (`Shadowed`). A boxed value has the use `impl` if its
type and its trait are the module's own, and else `box`, which names nothing.
What the Rust compiler asks (`Resolves`) is about definitions, not names.
`Compiles` says the same of the programs that the pass is given, with what the
proofs need besides: what is used of another module comes with the name of its
struct or trait in the same text, the impl of a `box` is one that is kept by
itself or with its type, and no literal sets a field whose bare name is also
that of an unused field of another struct of its module. It asks nothing of a
bare name that the same item binds (`Hidden`), because the name may be that of the
local variable; `NothingDangles` says nothing of it either. The `dce` run
evaluates `Compiles` on each of its programs, of which some hide a function.

### BuildScript

One action per file operation that other builds can see: creating and filling
the archive, unpacking file by file into a private directory, removing the old
SDK file by file, the rename, the walk over the SDK, and the writes to the
output directory. `Kill` is possible everywhere; a failed or killed script is
stale, and cargo runs it again. `overlapped`, `cut` and `torn` are history:
whether two builds of one version were ever under way together, whether an
archive was being written when its build was killed, whether an output
directory was.

### Scanner and CommentGroups

A character is a member of a small alphabet, and a line directive's text is one
unit. `Scan` is a call of `scan`; every kind of token is an action. `cursor` has
the offset, the line, the column and the directive that waits for the end of its
line. `CommentGroups` adds `Parser::next`: tokens are taken until one that is no
comment, and the comments between are grouped and attached.

### ImportResolution and ProgramInit

`stack` is the recursion of `resolve_imports_recursive`. `imports` is the list
in the order in which the calls return; that order becomes the order of the
init calls. `ProgramInit` continues where the parser ends: the calls in front
of main's statements, the init functions that share one Rust function, the
package variables behind a `LazyLock`. `referred` are the standard library
packages that the program refers to: only those become modules
(`stdlib_modules.rs:42`), and only modules that the program imports itself have
their init functions called. A package and its module have one name in the model;
the code derives the module's from the package's (`mod.rs:5078`), and two
local packages of one name would share it. Packages that the program uses but that
are not in the standard library nor below the module fail to compile later and
are not modelled; a missing directory or a syntax error is `Fail`.

### OutputCache

A run is a process with a program counter through `write_generated_output` and
`run`. `std::fs::write` is two steps, truncation and writing. A content stands
for its hash. A release stands for `compiler_version` and `stdlib_version`
together. `Stop` is a kill, or an I/O error that ends the run. `unfinished` is
history: the manifests that interrupted runs never saved.

## Runs

| Run | What it asks | Bounds |
|---|---|---|
| `chan` | safety, refinement of GoChannel, and liveness of the channel runtime | three goroutines, two of which also receive; an unbuffered and a buffered channel; one send each |
| `chan_ping_pong` (violation) | does a rendezvous return? | two goroutines, one unbuffered channel, one send each |
| `select` | do selects pass over only unready arms, and end on closed channels? | one selecting goroutine and one free one, nine selects up to three arms, two channels |
| `panic` | does the generated program do what Go prescribes, and is every panic reported or recovered? | all programs of two classes of four functions, about 28000 programs |
| `loops` | is every lowered loop and goto accepted, and does it run as in Go? | all loops around two levels of statements; lists with gotos forward, backward and out of loops, switches, ranges and selects; all six-bit inputs |
| `init` | order, completeness and termination of resolution and initialization | all graphs over three local packages, or two and two of the standard library; up to two imports each |
| `cache` | is the directory right over several runs, also after kills? | three runs, two files, two contents, two releases, two kills |
| `pointer` | are accesses atomic, does nothing get lost, who can block whom for good? | two goroutines, every pair of programs of up to three statements, a struct of three leaves two levels deep and a plain cell |
| `syncmap` | is every operation atomic, and is Range complete? | two goroutines, two keys and three odd ones, a map that is a variable or a field |
| `dce` | does what is left compile, is it alive, are cached scans right, does the pass end? | generated programs of three modules with structs, traits, impls, variables and functions |
| `sdk` | what does a build embed, after kills, failures, edits and beside another build? | two builds, two versions, an SDK of two files, one kill with a network failure or with two edits |
| `scanner` | are the semicolons Go's, the positions true, the comments kept and attached to what they adjoin? | all sources of up to six characters of a comment alphabet, up to four tokens of twelve kinds, six pieces of comments, four pieces with line directives |

Why the bounds are enough. A wakeup is lost when a notification goes to a
waiter that does not need it: that takes two waiters and a third goroutine,
which `chan` has on both kinds of channel; more values repeat the same states,
and the invariants and the refinement are proved for every number. A cache error
needs a run that writes, one that is interrupted and one that is misled. Every
shape of cycle and diamond that a depth first search can tell apart occurs with
three packages; the theorems cover all others. Panic programs have room for a
panic in a deferred function of a deferred function. A projected pointer goes
wrong between the taking and the putting back of one guard, which takes two
goroutines; two levels of projection have every kind of nesting, since a level
only repeats what its owner does. The dead code pass needs two modules for a
requirement to travel, and a third for a cycle that does not come back to the
main module. Two builds are enough for each hazard of the SDK cache, because
each is one build between two steps of another; two files make "partly" and
"wholly" differ. A newline is hidden from the scanner by one comment and found
again behind a second; six characters hold both.

Fairness. In `chan` and `select` a goroutine that is past the start of an
operation and can go on does so: it is an OS thread holding or waiting for a
short-lived mutex. Nothing is assumed of the program (no call need ever be
made), nor that spurious wakeups happen. A polling select goes on polling.
In `init` and `dce` a single thread goes on. In `sdk` a running build goes on,
and one that is stale is started again (`WF(Start)`: the user repeats a failed
`cargo build`). The other runs check safety and need none.

Deadlock is not checked (`CHECK_DEADLOCK FALSE`) where the system may stop:
goroutines block for good when nobody serves them, programs end, runs are used
up, builds are done. The liveness properties say when that must not happen.
`syncmap`, `dce` and `scanner` do check it.

## What the runs show

What holds. Channels lose, reorder and duplicate nothing and keep to their
capacity under any mix of operations. In spite of
`notify_one` after unlock no wakeup is lost of a receiver, of a sender on a
buffered channel, or of a goroutine that alone sends on an unbuffered one, and a
closed channel leaves nobody asleep. Accesses
through pointers act on plain variables, atomically, except on memory that two projections share, and two different fields of one
struct never disturb each other; a panic gives everything back, so that only methods
called on a direct receiver can block anybody for good. sync.Map is atomic
and its Range complete. The defer stack runs deferred calls in Go's order for
functions without results whose deferred calls only recover, and no process
ends well with its last panic unrecovered. The lowered loops and gotos agree
with Go. Resolution and initialization respect dependencies, and of the init
functions exactly those run that no `return` cuts off. The dead code pass
leaves programs that are closed under use, but for names that the same item also
binds, and have nothing dead in them, and what its cache returns is closed. The manifest never misleads
uninterrupted runs one after the other, and a killed run that is simply repeated
repairs its directory. An SDK comes into the cache whole, and builds one at a
time embed all of it. Semicolons are Go's wherever comments stand, but for one
spelling of comments.

What does not hold, with a run and an entry in "findings":

- `chan_ping_pong`: an unbuffered sender waits until the whole buffer is empty
  (`lib.rs:2044`). If the receiver answers on the same channel first, the sender
  sees the answer, sleeps again, and both hang.

For the same reason goroutines that share an unbuffered channel as senders can
lose a wakeup: two have pushed and sleep, the first receive wakes one of them,
which sees the other's value and sleeps again, and the second receive takes that
value and wakes only one of the two (`lib.rs:2063`); the other sleeps on beside an
empty buffer. `NoLostRendezvousWakeup` therefore assumes a lone sender, and
`WaitersServed` leaves out those who wait for a rendezvous.

Met while modelling, outside the conditions of the passing runs:

- Channels and select. A send blocked on a full channel returns silently when
  the channel is closed (`lib.rs:2037`; Go panics). `try_send` refuses
  unbuffered channels (`lib.rs:2079`), so a select of two or more cases never
  sends on one. With a default, a select over several channels may take the
  default although one of them was ready at every instant.
- Panics. The payload slot is one for all goroutines (`lib.rs:1034`): a recover
  may take another goroutine's panic. Functions with results do not store a
  panic for `recover` (`mod.rs:12736`), a panicking deferred call loses the
  calls below it (`mod.rs:19301`), and a function with a defer, called by a
  deferred function, re-raises the pending panic (`lib.rs:2311`); hence the
  class `Tame` in `MCPanicDefer`.
- Loops. An unlabelled `continue` in a select continues the select's own polling
  loop (`mod.rs:4373`). A label on a `range` or on a plain block is put on a
  Rust block, which makes some jumps ill-formed (`mod.rs:23909`). Hence the
  programs of `MCLoopControl`.
- Goto. Where a loop's body is itself a machine, an unlabelled `break` or
  `continue` of that loop is captured by the machine's loop, and a labelled
  `continue` skips the post statement, because the visitors do not look inside
  a `match` (`loop_control.rs:128`). A goto in a clause of a switch with
  fallthrough makes no plan there and may be dropped (`mod.rs:23855`).
- Initialization. Package variables are initialized by their first use
  (`mod.rs:17571`), and the init functions of standard library packages run in
  the order of names (`mod.rs:5582`), so `InitOrder` is about init functions and
  the imports of local packages. A `return` in an init function leaves the Rust
  function that holds all of the package's init functions, and `main` for the
  main package (`mod.rs:22012`): the init functions after it do not run, which
  `AllInitsRun` states exactly. Those of a standard library package that nothing
  refers to, as after a blank import, do not run at all (`mod.rs:5582`), nor do
  those of one that only the standard library imports (`mod.rs:5578`).
- Output directory. Concurrent runs on one path mix their files and binaries
  (`main.rs:466`). After a killed run, going back to the earlier sources may
  execute the killed run's file (`main.rs:307`), and a file it created is never
  removed (`main.rs:327`), hence `Uninterrupted` in `OutputCache`.
- Pointers. Two guards on overlapping projections overwrite each other
  (`lib.rs:807`); a method with a pointer receiver may get a copy that is
  written back (`mod.rs:13907`), a read and a write; a pointer under whose guard
  a method runs blocks a method that uses it again (`mod.rs:13762`).
- sync.Map. A map that is a field of a struct is moved out for an instant: two
  goroutines at once may each get a map of their own, and one of them loses what
  it stored. Keys and values of types that `clone_any` does not list become nil
  (`lib.rs:299`).
- Dead code. An impl of an embedded interface is not kept by boxing the type as
  that interface alone; unused fields are found by bare names across structs,
  and their initializers go with what they call (`dce_pruning.rs:119`). Two
  structs of one module with a field of the same name, of which only the other
  loses it, leave a literal without the field: `FieldApart` excludes them. A name
  that stands alone is not collected if the item binds it anywhere, even in
  another scope or another method of its impl (`ref_collection.rs:586`), so that
  what it denotes may be cut: in the run, `aid`, which T's method m calls and
  whose name T's method n gives to a local variable. A method called by its bare
  name is not collected either if an item of the module has that name
  (`ref_collection.rs:733`); the model has such a call only as a use of the
  method itself. Bindings in the initializer of a field that is removed still
  count in the model for the rest of the item.
- SDK cache. An archive cut short by a kill is taken as it is by every later
  build (`build.rs:165`). Overlapping builds may remove the SDK that another is
  walking, which passes over what it cannot read (`build.rs:216`) and writes
  its marker all the same. A removal killed half way that leaves VERSION behind
  leaves a partial SDK that later builds accept (`build.rs:137`); in the run
  such a removal belongs to overlapping builds. A build killed while
  writing version B over A, with `.go-version` then set back, keeps the mixture
  (`build.rs:667`). `AloneIsRight` and `FailuresHaveCauses` name these
  conditions (`overlapped`, `cut`, `torn`).
- Scanner. A comment that ends in `/*/` may lose the semicolon after it, because
  `find_line_end` starts over at the inner `/*` (`scanner/mod.rs:791`). A line
  directive at the start of a line is not seen if an earlier one has set another
  column there, and one in the middle of a line is, if an earlier one has set
  column 1 there (`scanner/mod.rs:742`); `PositionsTrue` allows for the first and
  the run's directives leave out the second. After a directive without a column
  tokens have none, but errors report the one that is counted on
  (`scanner/mod.rs:903`), and `PositionsTrue` says so. The end of a text that ends in a newline
  is reported on the line before. Comments beside a line directive are grouped
  by the lines that are reported, not by those of the text (`parser/mod.rs:5380`).
  The comments of a call of `next` that ends in an error of the scanner are lost
  (`parser/mod.rs:5355`), the parse with them.

## Proofs

`Chan_proofs` proves, for any number of goroutines, channels, capacities and
sends, that `TypeOK`, `Fifo`, `CapacityBound`, `ClosedWakesAll` and
`NoLostWakeup` are invariants of `Spec`, and that `Spec` implements `GoChannel`
(`ImplementsGoChannel`). The only assumption is `ChanAssumption` (finitely many
goroutines, capacities in `Nat`, nil is no channel).

- `TypeOK` is inductive, and `Fifo` and `CapacityBound` are with it.
- `ClosedWakesAll` needs `SleepInv`: who sleeps waits for a channel.
- `NoLostWakeup` is a count for receivers and for senders on buffered channels:
  while a receiver sleeps, the receivers under way to
  a channel are as many as its values (`RxSafe`), and while a sender sleeps those
  under way to its free slots are as many as the slots (`TxSafe`). `Safe` is
  both; it is kept with the help of `WaitInv`: types, `SleepInv`, and that only
  senders on unbuffered channels wait for a rendezvous (`RendezvousOK`). A push
  or a pop moves one side of the count by one, its notification the other
  (`CardinalityMoves`, `StaysCovered`); a notification that is given after the
  unlock counts as a wakeup until then (`NotifySafe`); a spurious wakeup can
  only add one (`WakeSafe`). Of a lone unbuffered sender it says that it does not
  sleep beside an empty buffer: whoever pops its value and finds it asleep wakes
  it, and nobody else can be woken in its place (`LoneSafe`, `LoneWoken`).
- `RendezvousHandsOver` is about one step, the return of an unbuffered send, and
  rests on the whole wait: who waits for a rendezvous has its own value among
  those sent (`HandingOver`, whatever others send, receive or notify in between),
  leaves an open channel only when its queue is empty (`RendezvousLeft`), and
  then, by `Fifo`, all that was sent was received.
- The refinement needs that a pushed value is new to its channel. `Numbered`
  says that every value pushed by a goroutine carries an earlier number than
  its next one; with `Fifo`, each step is a step of `GoChannel` (`AbstractStep`).

`Select` is proved to implement `Chan` (`SelectImplementsChan`), so that the
theorems above hold for programs with selects (`SelectKeepsChannels`). The
hypothesis is that those who select are among those who may send and receive.
`EarlierArmsMissed` is proved with the invariant `MissedOK` (the arms before the
one being tried have been unready), if selects send on buffered channels only:
on an unbuffered one a try always fails, so its arm is passed over without ever
having been unready in the sense of Go.

`ImportResolution_proofs` proves, for every set of packages and import graph:
`TypeOK`, `RecordedOnce`, `DependenciesFirst` and `Closed`, from
`GraphAssumption` alone. None of the last three is inductive. The invariant
`IInv` says that the stack is a path of distinct packages from the main
package, that a package is marked exactly when it is recorded or on the path,
that every import already passed is marked or in the standard library set, and
(`Descent`) that every numbering that falls along imports falls along the path.
`Descent` is what rules out that an import of a completed package is still
unfinished: it would have to be on the path above its importer, where the
numbering is larger. `Closed` is the case of an empty path.

The same module proves `InitOrder` and `AllInitsRun` of `ProgramInit`, from
`ProgramAssumption` and the above. `PInv` says that the calls that are left have
no repetition and that, on acyclic imports, each comes after those of the
packages it imports (`CallsOK`), and that no import of a package that has begun
is still waiting (`LogOK`). The list of the standard library's
packages in the order of their names is shown to exist by the least
counterexample of a number of packages. `AllInitsRun` needs besides that every
init function of a package the program reaches has run, is cut off by a `return`
or is still owed by a call that waits (`InitsOK`), and that no return has cut off
what is to run next, main's statements included (`TurnOK`).

And it proves `CommentsKept` of `CommentGroups` for every text, alphabet and set of
tokens. The invariant `KeptInv` adds that comments and groups are sequences of
items. A call of `next` groups all that was set aside whatever the line it is
on, which is an induction over the comments: `Groups` and the flattening of
groups are recursive functions, shown to exist and to hold all comments from any one on
(`GroupsHoldAll`, `FlattenConcat`) by the least counterexample of a length.

It proves `SemicolonsAsInGo` as well, for every text, alphabet, set of operators
and of keywords, from `TextsAssumption` (no character is the mark `"end"` of the
end) and `OperatorsAssumption` (no operator begins like an identifier, a string
or a comment). The invariant `SemiInv` says of the last token `b`, the cursor
and the scanner's flags that one of five cases holds: no semicolon is due
(`NotDue`), it has been returned where it belongs (`Returned`), the scanner looks
out for the newline and has passed none (`LookedFor`), it found one in a comment
and returns it next (`DueInside`), or it has given it up (`GivenUp`). The last is the
hard one: `insert_semi` is cleared at a comment because `find_line_end` saw
more on the line, and this must stay true through any number of comments until
the token that was seen is reached. `GoesOn` keeps the function that looked ahead,
`ThroughComment` and `GoingOn` follow it from a comment's start to its end, and
the comment that ends in `/*/` is the one case in which it does not arrive there.
The recursive functions of the scanner (`ReadTo`, `FindLineEnd`) are shown to exist
by the least counterexample of a length.

`DeadCode_proofs` proves `CacheSound` and `NeedsFollowed` for any program of
any number of modules, in any order of scanning, from `ProgramsAssumption`.
`ScanInv` adds to `CacheSound` what each phase can count on (whose roots are
being scanned, which modules are still to be cut); the argument is that a scan
that ends is closed over the items it was made of (`EndScanSound`), and that a
step which cuts items forgets their scans. `FollowInv` adds that the requirements
only grow while modules are being followed.

It also proves `NothingDangles` and `ImplsFitTraits`, if the programs compile
before the pass (`Compiles`). Neither is inductive, nor is "the program
compiles" within a round, while some modules are cut and others are not. The
argument has two parts, and a lemma between them.

- Of one round, without any variable: a program whose modules are all cut to
  names that a scan closed, and that were asked of them, compiles
  (`CutCompiles`); so does one whose modules lose their unused fields
  (`TrimCompiles`), whose empty modules go (`EmptyGo`), and of which less is
  asked (`LessAsked`). `RoundCompiles` is one after the other. A field keeps its
  place in a literal because a struct that is said from another module loses
  nothing (`SaidAbroad`) and because names are apart (`SetStays`).
- A use that stays finds its names among those the cut was made to: it is
  collected, or hidden in the whole item (`ShadowedIsHidden`), or it is a `box`,
  whose impl stays with its type.
- Of the pass: `RoundInv` says that the round began with a program that
  compiles, and what it has done to each module since. Those that are not cut
  yet are as they were and have been asked for all that the scan of them will
  find, because a scan is not made twice (`OneScan`); those that are cut, are cut to
  closed names (`Cut`); what is asked of a module, some text of the program
  says (`Sourced`). `EndRound` is then an instance of `RoundCompiles`.

`BuildScript_proofs` proves `TarballSettles` and `ArrivesWhole` for any number of
builds, versions, files, kills, failures and edits, from `BuildScriptAssumption`.
`IInv` says that a build that unpacks has all files up to the one it is at
(`Unpacked`), that one which fills the archive has written all up to its own,
or the archive is whole or was cut (`Written`), and that what is held for
removal is there.

The invariant `JInv` adds what builds rely on and proves `AloneIsRight` and
`FailuresHaveCauses`. As long as no two builds of a version have overlapped, an
SDK that is not whole has no version file and so is not taken for one
(`NotHalf`), what a build has found in the cache stays so (`Uses`), and the
marker of an output directory that no kill has torn tells the truth, or another
version than the one being written (`MarkerTrue`).

`OutputCache_proofs` proves `UninterruptedRunsOwn`, `ManifestTrue`,
`NoLeftovers` and `RetryRepairs` for any number of runs one after the other
(`MaxRunning = 1`, the hypothesis; runs at once do mix their files), and any
files, contents, releases and kills. `Repairable` follows the disk after an
interruption: of the files that the run at work has not reached (`Untouched`),
the interrupted one would skip only right ones if it were repeated
(`SkipsRight`), and those it has settled are right (`Settled`). `Tidy` bounds the
files that can be there at each point of a run, as long as none was interrupted.

`PanicDefer_proofs` proves `PanicsSurface` for every program of functions, of one
goroutine. The invariant `NewestKept` says where the newest panic is until it is
recovered (`Alive`): it is unwinding, or in the slot while a frame drops its
deferred calls, or kept by a frame that an unwinding has met.

`SyncMap_proofs` proves that the replacement of sync.Map implements `AtomicMap`
(`ImplementsMap`) and that Ranges are complete (`RangeVisitsAll`), for any
goroutines, keys, values and programs, from `SyncMapAssumption`. `MInv` says that
no key that compares is in a vector twice, that until `broken` all goroutines
work on one vector (`OneVector`), and that what has been in the map since a
Range began is in the vector, and then in its snapshot (`RangesOK`). Each
operation is shown to change what `Lookup` says of its own key, as promised,
and of no other (`Right`), whatever it does to the places of the entries.

`Pointer_proofs` proves that the pointers implement `Memory`
(`ImplementsMemory`), and `RacedWhereShared` and `StuckOnlyInCalls`, for any
goroutines, cells, leaves, depth of projections and programs of any length, from
`PointerAssumption` and `ProgramsAssumption` (programs are lists of statements
whose pointers select ever smaller parts that are not empty). A level of
a slot is held from the `acquire` or `take` that begins it to the `release` or
`put` that ends it. `Moves(p, l, F, G)` says that the steps `l` are legal one
after the other and lead from the levels `F` to `G`: a mutex is locked only by
one who holds nothing but direct receivers (`OnlyMethods`), a value is taken only
from a level that is held and is not out yet.

- `GuardFits` proves that of what `Guard` compiles, by the least counterexample
  of a depth, and `CompileMoves` that a statement leads from nothing to nothing.
- The invariant `IInv` says that each goroutine holds some set of levels that
  matches the mutexes it owns and the guards it has (`Holding`), that its
  remaining steps lead from there to nothing (`GoesOn`), and that a leaf which
  is not given up is out for one goroutine and slot only (`OutOnce`). A panic
  keeps the tail of the steps, so it needs no other argument.
- `StuckOnlyInCalls` follows: who waits holds only mutexes of methods, and
  each one is still to be released (`MovesReleases`).
- For the refinement, the holders of a leaf that is not given up lie one
  above the other (`HoldersAre`), and its value is that of the deepest. `take`
  adds a deeper holder with the value just found (`TookValue`), `put` removes
  the deepest and restores the one below (`PutBackValue`), and an access
  changes the deepest one of all leaves of its region (`AccessedValue`).

The type invariants of `Chan` and `ImportResolution`, and `Fifo`,
`CapacityBound`, `RecordedOnce` and `DependenciesFirst`, are proved and not
listed again in a cfg: the `chan` run checks what they add up to as the
refinement of `GoChannel`, the `init` run as `InitOrder`.

Only model-checked: the agreement of loops, gotos and panics with Go
(`SameRun`, `Accepted`, `TameAgreesWithGo`), whose definitions (`GoDefer`,
`ControlFlow`, the lowering) recurse over programs; true positions and the
attachment of comments to lines (`PositionsTrue`, `LeadCommentAdjoins`,
`LineCommentTrails`), which count the newlines of every stretch of a text and
need an induction of their own for each directive that moves them;
`NothingDead`, which is about reachability in any number of steps; and liveness
throughout, which is outside the prover's reach.

## Plan

Done: channels, select, import resolution, initialization, dead code, the SDK
cache, the output directory, panics, pointers, sync.Map and the scanner with
proofs; loops and gotos.

What would come next is fallthrough in switches, and gotos within it.

## Not modelled

Parser of expressions, resolver, type inference, lowering of expressions,
coercions, printer and source maps: sequential functions over Go's and Rust's
whole syntax, tested against the fixtures; a model would have to restate them.
They are most of the source, so most of its lines are not mapped. Slices, maps,
strings and interfaces of the runtime are sequential too. The web front end and
the test runner are around the compiler.

Within the modelled parts: the expression and type patterns of
`recover_handlers.rs` and results changed by deferred functions; fallthrough,
hoisted locals and the errors for invalid gotos; `sync.Pool`; pointer equality;
libraries (programs without main), the pruning special to the builtin module,
Display impls, use items and clone hooks in the dead code pass;
`GORS_GO_SDK_PATH`, failing disks, temporary directories of killed builds and
build tags in the build script, where writing the list of files and truncating
the marker are one step (`build.rs:334`, `build.rs:683`): a kill between the two
leaves what `torn` stands for, too; the panics of `CompareAndSwap` on an
old value that does not compare (`sync.rs:238`) and of `Range` on a nil function
(`sync.rs:307`) in sync.Map; numbers, runes, escapes, byte order marks and
carriage returns in the scanner, whose tables of operators and keywords are
constants.
