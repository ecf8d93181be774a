# A TLA+ specification of ww-mca

ww-mca is the core library of Warewulf 4: the Modular Component Architecture
(MCA) that finds, loads and runs plugins, the variables that configure it, and
the objects, containers, threads and utilities it is built from.  This directory
holds TLA+ modules translated from its C sources, the TLC configurations that
check them on small instances, and theorems about them that TLAPS checks for
every instance.

To check a run, `tlc -config MCBase.cfg MCBase`; to check the
proofs of a module, `tlapm Framework_proofs.tla`.  `PROJECT.json` lists the
runs, the source lines each definition stands for, and for each property a
plausible bug of the code that breaks it.  Those bugs are the definitions marked
*Mutation* or *mutant* in the modules; no behaviour uses them.

## 1. Inventory

Paths are relative to `src/src/`.

| Component | State | Operations | Correct when |
|---|---|---|---|
| Frameworks, `mca/base/mca_base_framework.c` | flags REGISTERED and OPEN, reference count, list of components, selection | register, open, close | the count is the calls not yet closed; a holder never loses its framework; a failure leaves a state the next call can go on from |
| Components, `mca_base_component_find.c`, `mca_base_components_*.c` | the framework's list; which components are open | find, register, open, select, close | exactly the listed components of an open framework are open; a failed one is undone alone |
| Repository, `mca_base_component_repository.c` | for each plugin its handle and reference count | open, retain, release | a plugin stays in memory while anything points into it, and no longer |
| Variables, `mca_base_var.c`, `mca_base_var_group.c` | variables (flags, source, storage, synonyms), groups | register, register_synonym, set_value, deregister, group operations, build_env | documented precedence of sources; nothing written through freed storage; deregistering a group leaves nothing valid; a child reads what its parent has |
| Enumerators, `mca_base_var_enum.c` | none between calls | value of a text, text of a value | a value that has a text is read back from it |
| Files of values, `mca_base_parse_paramfile.c`, `util/keyval_parse.c` | lists of values by file; the parser's own buffers | cache_files, parse, finalize | the first file that has a name wins |
| Runtime, `runtime/ww_init.c`, `ww_finalize.c`, `mca_base_open.c` | count of initializations, everything they start | ww_init, ww_finalize, the library's destructor | starts and stops pair, also after failures |
| sec, dstore, `mca/sec`, `mca/dstore` | active modules by priority, whether selection was done | open, select, assign, close | the best module asked for is assigned |
| installdirs, `mca/installdirs` | the directories | open, expand, close | each directory is what it stands for, the environment before the configuration |
| dl, `mca/dl` | none | open, lookup, close | - |
| Progress threads, `runtime/ww_progress_threads.c` | list of trackers: name, count, event base, `ev_active`, thread | init, finalize, pause, resume; the thread's loop | no thread without a tracker; a stop ends; a paused base runs nothing |
| Hotel, `class/ww_hotel.c`, `.h` | rooms with occupant and timer, stack of empty rooms | checkin, checkout, eviction, destruction | a room has one occupant; each stay ends once |
| Ring buffer, pointer array, list, hash table, value array, `class/` | arrays, links and their bookkeeping | add, set, push, pop, splice, grow, remove, ... | a bounded queue; a table with its free slots; sequences; a map; an array |
| Objects, `class/ww_object.c`, `.h` | reference counts; tables of constructors | retain, release, class initialization | destroyed once, at the last release; each constructor runs once, parents first |
| Atomics, `sys/`, `asm/` | a word | add, sub, swap, cmpset; spin lock | each takes effect in one step; one thread has the lock |
| Conditions and mutexes, `threads/` | a mutex, counts of waiters and signals, a flag | acquire, release, wait, timedwait, signal, broadcast | one user; no wake-up is lost |
| Output, `util/output.c` | a table of streams, files they share, one buffer | open, reopen, close, write, finalize | a handle keeps its stream; a stream writes to its own file; lines are whole |
| Arrays of strings, environment, checksums, `util/argv.c`, `ww_environ.c`, `crc.c` | what the caller passes in | append, delete, insert, split, join; setenv, merge; partial sums | what was put in is there, in order; a name once; pieces add up |
| Other utilities, `util/`, help messages | none between calls | paths, names of files, errors, descriptors, timings | what each function computes |
| submanager, Perl library, scripts, build system | - | - | - |

How they interact.  `ww_init` starts the output, opens the framework installdirs,
reads the files of values, and opens sec and dstore.  Opening a framework
registers it: its variables are registered, its components are found (the
repository opens their plugins), and their register functions are called, which
register variables whose storage lies in the plugin.  Then the components are
filtered by the framework's selection variable and opened.  Closing undoes this
when the count reaches zero.  Registering a variable searches the lists made of
the files, the environment, and the names of synonyms; its value goes as text
into the environment of a child process, whose registration reads it.  Groups
and variables live in pointer arrays and hash tables, components and modules in
lists, and all of these are objects.  Progress threads run libevent callbacks,
among them the hotel's evictions, beside the caller's threads.

What is hard here.  (a) *Failures half way*: initializing the runtime, or
registering or opening a framework, takes a dozen steps of which any may fail
after others have taken references.  (b) *Lifetimes*: lists and variables point
into plugins that can be closed, a progress thread into a tracker that is freed,
a stream to a descriptor that another has closed.  (c) *Interleavings*: a stop
request races a thread about to enter its event loop; a checkout races an
eviction that is already queued; a wake-up comes between a test and a wait; an
atomic operation is a load and a store on many architectures.  (d) *Sequences of
calls*: open after register, close by one of several holders, a second life after
the first; splices, removals and growth in containers.  (e) *Order*: variables
get values from five places and through several names, files are read from the
last to the first.  (f) *Boundaries*: tables that grow, a ring that is full, a
checksum cut inside a word.  `PROJECT.json` lists these hazards line by line.

## 2. Plan

In the order of importance; all but the last item is done.

1. **Framework** (with `FrameworkService`, what a framework promises, which it
   implements): frameworks, components, repository.  *Proved.*
2. **ProgressThreads**: trackers, threads and libevent's loop.  *Proved but for
   liveness.*
3. **Hotel**.  *Proved but for liveness.*
4. **VarRegistry**: variables, synonyms and groups; sources and their precedence,
   documented as a function of what the user gave (`Documented`).  *Proved.*
5. **ConfigFiles**, **VarText**, **Environ**: the files the values come from, the
   texts they are read from and written as, and the environment that passes them
   on to children.  *Proved.*
6. **Runtime**, **InstallDirs**: starting and stopping over several lives, the
   selection in sec and dstore, the directories.  *Proved.*
7. **Atomics**, **SpinLock**, **ThreadLock**: every architecture's operations
   implement an atomic word; the locks built on them.  *Proved but for liveness.*
8. **RingBuffer**, **PointerArray**, **LinkedList**, **HashTable**,
   **ValueArray**, **ObjectSystem**: containers as what they promise
   (`BoundedQueue`, `ItemLists`, `KeyedValues`) and objects.  *Proved.*
9. **Output**, **OutputLine**, **Checksums**, **Argv**.  *Proved.*
10. **MCPromises** and the other violated runs: what headers and help texts
   promise and the code does not keep.
11. *Left:* re-registration of variables with another type, and the sources that
    a parent passes on.

## 3. What is modelled

### Framework, FrameworkService

One framework with static and loadable components, its repository items and its
callers.  `fw` is the `mca_base_framework_t` with its selection variable, its
list of components, which of them are open and which have valid variables; `ri`
the repository item of each plugin.  Calls are synchronous and the library has no
locks here, so each call is one action; a handler is an operator from the state
it finds to the set of results `[rc, fw, ri]`, one for each way the parts it does
not control may answer (the loader, component functions, callbacks).  `Open` goes
through `RegisterResults` as `mca_base_framework_open` calls
`mca_base_framework_register`.  What a call has done when it fails stays done.

| Action | Code |
|---|---|
| `Register`, `Open`, `Close` | `mca_base_framework_register`, `_open`, `_close` with everything they call |
| `Select` | `mca_base_select` |
| `SetSelection` | `mca_base_var_set_value` on the selection variable |
| `Retain`, `Release` | `mca_base_component_repository_retain_component`, `_release` by a client |

The framework's kind is chosen initially: *default* has the library's open and
close, *own* has callbacks that leave the components alone as in sec and dstore,
*noregister* has neither variables nor plugins as dl and installdirs.  Selection
strings are sets of names to include or exclude.  The callers keep the header's
convention that close is called once for each successful register or open;
`users` counts those that are outstanding, `leaked` the references that failed
registrations left.  `FrameworkService` is a counted resource; the mapping is
`users <- Users`, `state <- State`.

### ProgressThreads

For each name a tracker and its base, operating-system threads, and one caller at
a time (the tracking list has no lock).  A stop is three steps of the caller:
clear `ev_active` (with the start of finalize or pause), `LoopBreak`, `Join`,
between which threads run.  A thread goes round `Check` (the test of
`ev_active`), `EnterLoop`, `Wait`, `Wake`, `CallbackDone`.  The last four are
libevent's `event_base_loop(EVLOOP_ONCE)`, which is outside the repository: the
entry clears the break flag, the flag is looked at before the wait and after each
callback.  Joining a handle that was never set is undefined in C; the model lets
it return.

### Hotel

Rooms, each with its occupant and timer (idle, pending, or expired with the
callback queued), and the array of empty rooms used as a stack.  `Checkin`,
`Checkout` (both variants), `Evict`, `Destroy` are the functions; `Expire` is
libevent's timer.  `key` is the room number a client still holds for an
occupant, which it may use after the eviction.

### VarRegistry

Variables and synonyms are names; `mbv` is the `mca_base_var_t` of each, `group`
the state of each group, and `config` what does not change while the program
runs: which names have a value in which layer, which of those values cannot be
read as the variable's type, and the flags each variable is declared with.  A
value is the place it came from, which is all the properties tell apart.
`SetInitial` is `var_set_initial`, the search, made of `SetFromFile` (three
times) and `SetFromEnv` as in the code: also after a value from the override
file it goes on, and an unreadable value ends it with an error after the source
has been recorded.

| Action | Code |
|---|---|
| `RegisterVariable`, `RegisterSynonym` | `mca_base_var_register` and its variants, `_register_synonym`, with `register_variable` and the search |
| `SetValue`, `Deregister` | `mca_base_var_set_value`, `mca_base_var_deregister` |
| `GroupLock` | `mca_base_var_group_set_var_flag`, as `mca_base_framework_open` calls it |
| `GroupDeregister` | `mca_base_var_group_deregister` with the groups below |

Two preconditions come from the callers: a variable is not registered while the
group above its own is deregistered, since a framework registers its group
first (`mca_base_framework.c:76`), and synonyms are registered for valid
variables.  A group is deregistered with everything below it in one action; nested
groups are two deep, as in the code.  `Framework` has its own, smaller view of
variables: which components' variables are valid, and the selection.

### How the modules are put together for TLC

Where modules share no state one run checks several of them: the variable
`subject` picks one initially, and only that one's actions happen, so the state
graph is the union of theirs and not their product.  `MCBase` does so with
`Framework` and `VarRegistry`; `MCLoops` with `ProgressThreads`, `Hotel` and
`SpinLock`, the parts that have liveness properties; and `MCUnits` with the rest of
the units below.

`MCPromises` is for statements of headers and help texts that the code does not
keep, ten of them in seven units.  TLC stops at the first violation it finds, so the
units take turns: `Turn` is the first unit that still has a promise in `Promises`
that was kept in all states so far, `broken` collects those that were not, and the
invariant `SomePromiseKept` says that not all ten are broken.  It fails only when
each of them has been false in some state of its unit, and the trace shows where.
Each promise is an invariant of its unit, defined beside the unit's other
properties with the line it quotes.  The view leaves out the units that had their
turn.  Of the environments one is an array and one, `Process`, that of the
process.

### The units

| Module | Code | State and actions |
|---|---|---|
| `RingBuffer`, refines `BoundedQueue` | `class/ww_ring_buffer.c` | slots, head and tail; `RingPush`, `RingPop`, `RingPoke` |
| `PointerArray` | `class/ww_pointer_array.c` | the table, its size, the count of free slots and the lowest one; `Add`, `SetItem`, `TestAndSetItem`, `SetSize`, `RemoveAll` with the rule of growth |
| `LinkedList`, refines `ItemLists` | `class/ww_list.c`, `.h` | links, owners and counts of lists that share items; every operation, `Splice`, `Join` and `Sort` included; an insert at index 0 counts its item twice (`ww_list.c:126`, `:155`), which `SizeIsItems` is about |
| `HashTable`, refines `KeyedValues` | `class/ww_hash_table.c` | the table with linear probing; get, set and remove for each kind of key, `RemoveAllValues`; `Rehashed` is the growth, `Reinsert` closes the gap of a removal, `NextElement` traverses |
| `ValueArray` | `class/ww_value_array.c`, `.h` | memory, size and allocated size |
| `ObjectSystem` | `class/ww_object.c`, `.h` | `ClassInitialize` and its tables; `New`, `Retain`, `Release`, `HandOver` and `WriteBack`: a count is read in one step and written in another, and updates of several threads may overlap; `obj_raced` keeps of which objects they did |
| `Atomics`, refines `AtomicWord` | `sys/*/atomic.h`, `sys/atomic_impl.h` | for each architecture whether an operation is an instruction, a reserved load and conditional store, or a loop of compare-and-set; each of their steps is an action |
| `SpinLock` | `sys/atomic_impl.h`, `asm/asm.c` | the lock word, and the additions of sparc under it |
| `ThreadLock` | `threads/condition.h`, `threads.h`, `mutex_unix.h` | mutex, condition and flag; acquire, release, wake-up, both waits |
| `Runtime` | `runtime/ww_init.c`, `ww_finalize.c`, `mca_base_open.c`, `mca/sec/base`, `mca/dstore/base` | `InitSucceeds`, `InitFails` at each step, `InitCounted`, `Finalize`, `FinalizeCounted`, `Cleanup`; opening and closing a framework as `Framework` has it, reduced to its count and flags |
| `InstallDirs` | `mca/installdirs` | the directories, expanded field by field (`ExpandPass`, `ExpandDone`) |
| `Output`, `OutputLine` | `util/output.c` | the table, the files and their descriptors, the session directory; the buffer of a line.  `out_lost` are the handles whose file failed to open, `out_stranded` the streams whose descriptor was closed with another stream or kept from before |
| `Checksums` | `util/crc.c` | sums of words and a CRC of a message that comes in pieces |
| `VarText` | `mca/base/mca_base_var_enum.c`, `mca_base_var.c` | a variable of one type: `var_set_from_string`, `set_value`, `build_env`, and the child that reads the text.  A write through NULL ends the program (`CRASH`) |
| `ConfigFiles` | `mca/base/mca_base_parse_paramfile.c`, `util/keyval_parse.c`, `mca_base_var.c` | the lists of values, read file by file; what `-x` sets is kept as pairs, the buffer of text they are put in (`keyval_parse.c:279-291`) is abstracted with its bound |
| `Environ` | `util/ww_environ.c`, `mca_base_var.c` | an environment as an array; set, unset, merge, `mca_base_env_list`.  `env_expected` is what the names were set to, `env_open` the names for which the code last did something else than documented |
| `Argv` | `util/argv.c` | an array of strings and its caller's count |

`Powers` has the powers of a number, of which `Checksums` and `VarText` make the
widths of words.  A call is one action where the code runs to completion in one
thread; in `ObjectSystem`, `Atomics`, `SpinLock` and `ThreadLock` each access to
shared memory is one.  Texts are sequences of tokens.  A register of the CRC, its
polynomial and the value of a variable with flags are the sets of their bits that
are set; on the run bytes have two bits and the CRC has five.  Memory obtained from `malloc` and
not yet written is a value of its own (`Junk`, `Unset_`).

## 4. What the runs check

| Run | Instance | Shows |
|---|---|---|
| `mca_base` | framework: 1 static component, 2 plugins, a name nobody has; 4 selections; 3 kinds; every failure; up to 3 holders, 1 leaked reference | `RefcntExact`, `HeldIsOpen`, `NoDanglingComponent`, `NoStaleVariable`, `OpenedComponents` |
| | variables: a variable with a synonym in another group, a second variable, a group below another; values in any of 4 layers, 3 sets of flags, 2 sets of unreadable values | `ResolvedAsDocumented`, `OverrideKept`, `SourceTruthful`, `GroupCoversVariables` |
| `framework_service` | the framework with failures of opens only, 2 retains of each plugin | `ClosedIsClean`, `ImplementsService` |
| `framework_retain` | one holder, one retain, no failures | `RetainedStaysLoaded` is violated |
| `loops` | progress threads: 2 names, 2 threads, 2 holders of each name, 2 events at once of one name and 1 of the other, thread creation may fail on a resume | `RefcountExact`, `NoOrphanThread`, `PausedRunsNothing`, `StopTerminates`, `EventsProcessed` |
| | hotel: 3 rooms, 3 occupants, with and without an event base | `StackExact`, `TimerHasOccupant`, `StayEnds` |
| | spin lock: 3 threads, a word of 4 values | `LockedSumExact`, `SomeoneGetsLock` |
| `progress_break`, `progress_resume` | one name | `BreakStopsEvents`, `StoppedCanResume` are violated |
| `hotel_late` | 2 rooms, 2 occupants | `LateCheckoutFails` is violated |
| `vars_synonym` | the variables of `mca_base`, no override file | `OriginalNameWins` is violated |
| `units` | see below | one property or two for each unit |
| `object_race` | 1 object, 2 threads | `UpdatesAtomic` is violated |
| `promises` | a list of 2 items, 2 streams, lines of 2 lengths, strings "" and "a", 2 names in environments, the levels of verbosity | `SomePromiseKept` is violated: all ten promises are broken |
| `enum_flags` | three flags | `FlagsReadBack` is violated |

The units, one small instance each, in the run `units`:

| Unit | Instance | Shows |
|---|---|---|
| Ring buffer | 4 slots, 2 pointers | `RingIsQueue`: it is the bounded queue |
| Pointer array | 2 slots at first, maximum 6 | `FreeSlotsExact` |
| Lists | 2 lists, 3 items | `ListsAreSequences`, `LinksAgree` |
| Hash table | 31 slots that grow at the fifth key, 9 keys of three kinds, five of which have their homes at the table's end and beginning | `TableIsMap`: to searches, to traversals, and in its copies of keys |
| Value array | up to 3 elements, for which the allocation doubles twice at once | `ElementsKept` |
| Objects | 3 classes in two lines, 1 object, 2 threads whose updates may overlap | `CountIsHeld` |
| Atomics | 18 ways of making the operations, 2 threads, 4 requests, 2 bits | `OperationsAtomic` |
| Thread lock | 3 threads, 3 signals | `OneUser`, `BroadcastReachesSleepers` |
| Runtime | 2 components of sec, 2 of dstore; a count of up to 3 | `RuntimeStaged` |
| Directories | 4 fields, 18 environments, 4 kinds of `$WW_DESTDIR` | `DirectoriesResolved` |
| Output | 2 streams, 2 descriptors, 3 kinds of streams and of redirections | `StreamsKept`; for lines of 3 lengths, 2 prefixes and 2 suffixes `LinesWhole` |
| Checksums | 3 messages of 8 bytes, words of 3, every cut into pieces | `PiecesAgree` |
| Texts | 7 types and enumerators, 25 texts, 8 numbers and 7 sets of flags to set | `ValuesReadBack` |
| Strings | up to 3 of 3 strings, one of them empty | `ArgvExact` |
| Environments | 3 names, 2 values | `EnvironIsMap` |
| Files | 4 files, 30 configurations | `FirstFileWins` |

**Bounds.**  `MaxUsers` = 3 lets a register and two opens overlap, so a close is
seen with a register or an open still outstanding, and a failing open among
holders.  `MaxLeaked` = 1 is one failed registration before the next call is
stopped from failing again; a second one adds the same reference again.  Two
plugins let one fail while the other goes on, and a selection separate them; the
static component is the one no plugin handle protects.  `MaxRetained` = 2 tells a
retain from the framework's own reference.  Two names and two threads let one
name be stopped while the other runs and let a freed thread be used again;
two events at once of one name leave one behind when a loop is broken in a
callback; the other name, with one, is stopped and resumed meanwhile.  Three
occupants fill three rooms, which are enough for a stack of several entries to be
reordered; a fourth could only be refused, which changes nothing.  In `mca_base` the synonym and its
variable are in different groups, so one can be deregistered without the other,
and every combination of layers is tried for both names; the second variable
shares the synonym's group and its values.  Nothing is counted there, so no
bound cuts a behaviour short.

Of the units, those that are bounded are: the pointer array by its own maximum,
small enough that growth by doubling, growth for an index and refused growth all
happen; the lists by their items, with counts of at most `MaxExcess` = 1 more
than the items, as an insert at index 0 leaves them; the value array by `MaxItems`, two doublings; objects by
`MaxHeld` = 2 references of a thread; the thread lock by `MaxSignals` = 3 pending
signals, which is one for each thread; the runtime by a count of 3; texts of
directories by `MaxText` = 8 tokens, which only circular references reach;
strings by `MaxArgs` = 3 and a count of the caller's at most `MaxBehind` = 1
less than the strings; files
by `MaxReads` = 2, so that what one reading leaves in the parser meets the next.
The hash table has 31 slots and a density of 1 to 6, so that it grows at the
fifth key: four are in the table at once, with homes in the slots 29, 29, 30, 0 and
1, so they run over the table's end, and a removal closes a gap on either side of
it.  The
proofs below have no such bounds.

**Deadlock** is checked in `vars_synonym`, where some call is always possible.  In
the others it is not: a destroyed hotel has no more steps, a library
whose destructor has run or a message that has been read is at its end, a program
that wrote through NULL is over, and the bounds may leave a caller without a call.

**Fairness.**  In `ProgressThreads` each thread is scheduled (weak fairness of
`Engine(t)`): the operating system runs it, a wait ends at the latest with the
one-hour timer the code adds to the base for that purpose, and callbacks return.
The caller finishes a stop it began; it need not begin one, and `Post` is not
fair.  In `Hotel` the event loop runs (weak fairness of `Expire` and `Evict`): a
pending timer expires and a queued callback gets its turn; checkouts are not fair.
In `SpinLock` a thread that spins or holds the lock is scheduled (weak fairness of
`Going(t)`); it need not ask for the lock.  That suffices for some thread to get
it, and no fairness of the processor makes it each thread's turn, so the property
says no more.  `MCLoops` assumes all three (`EngineFairness`, `HotelFairness`,
`SpinFairness`): in a behaviour of one subject the actions of the others are never
enabled.  The other modules state none.

**Symmetry** is used only in the violation runs of `MCProgressThreads` and
`MCHotel`, whose properties are invariants or action properties.

### Disagreements found

* `framework_retain`: retaining a plugin is documented to keep it loaded after its
  framework is closed until the client releases it
  (`mca_base_component_repository.h:121-124`).  A loaded plugin is taken again by
  the framework's next registration without being counted, so after one more
  close of the framework it is unloaded under the client.
* `progress_break`: "the loop [is] to exit upon completion of any current event"
  (`ww_progress_threads.c:118-119`), but a break that comes before the loop is
  entered is lost; events run until a wait ends.  The stop still ends
  (`StopTerminates`).
* `progress_resume`: a resume is documented to succeed for every name that exists
  (`ww_progress_threads.h:59-63`); after one that failed to create the thread every
  further one is refused as busy.
* `hotel_late`: a late checkout is documented to "gracefully fail"
  (`ww_hotel.h:37-38`); when the room has a new occupant by then, it checks out
  that one.
* `vars_synonym`: a variable's own name is documented to win over its synonyms
  (`mca_base_var.h:463-468`).  A synonym is searched for when it is registered,
  after the variable got its value, and what is found then replaces it.
* `enum_flags`: the value of a text is documented to be looked up among the
  enumerator's names (`mca_base_var_enum.h:54-59`).  The code compares the i-th
  name of the text with the i-th flag only (`mca_base_var_enum.c:495`), so the text
  of any flags but the first ones is refused; a child cannot read what its parent
  has written.

* `object_race`: the count of an object is documented to be updated atomically
  (`ww_object.h:483`).  `ww_obj_update` is a plain `+=` (line 495): of two threads that
  update one object at once, both may read the old count.
* `promises`, list: `ww_list_get_size` is documented as "the number of items in a
  list" (`ww_list.h:411`); an insert at index 0 is counted twice (`ww_list.c:126`,
  `:155`).
* `promises`, output: once the session directory exists the file of a stream is
  documented to be created (`output.h:378-382`); when it could not be opened the
  stream is marked unused, and its handle is given away (`output.c:789`).
* `promises`, line: newlines are documented to be appended as necessary
  (`output.h:371-373`); a line that brings its newline and is as long as the buffer
  loses it (`output.c:879`).
* `promises`, argv: a deletion beyond the end is documented to delete up to the end
  or nothing (`argv.h:241-249`); the caller's count is reduced by what was asked for
  (`argv.c:492`).  A split with empty strings is documented to include them
  (`argv.h:157-158`); the last one is left out when it is empty (`argv.c:189`).
* `promises`, environ: what `mca_base_env_list` names is documented to be passed on
  (`help-mca-var.txt:130-131`, `mca_base_var.h:730-731`); a value with a "=" in it is
  taken for a name and a value (`mca_base_var.c:344`).
* `promises`, process: a set that may not overwrite is documented to leave the value
  (`ww_environ.h:80-82`); in the environment of the process it overwrites
  (`ww_environ.c:125`).
* `promises`, text: a value is documented to have a text
  (`mca_base_var_enum.h:77-92`), a text without a value to be out of bounds
  (`:60-61`), and the text's pointer to be allowed to be NULL (`:88-89`).  The level
  -1 of verbosity has no text (`mca_base_var_enum.c:168`), a text that is no level is
  stored as 0 (`:152`), and the name of a level is written through NULL, also by
  `mca_base_var_set_value` (`:175`).  A list of more names than there are flags
  reaches the NULL at the end of the flags as well (`:499`).

What the models keep as the code has it, without a run of its own, because the
program does not meet it or nothing documents otherwise: a pointer array with an
odd maximum writes the entry before the maximum past its table
(`ww_pointer_array.c:311-330`; both users have an even one, the run and the theorem
are about even ones); after a failed `ww_init` the next one
succeeds without doing anything (`ww_init.c:67`), and a second life of the
runtime has no modules (`sec_base_select.c:48`); with the list of files "none" the
override file is not read either (`mca_base_var.c:474`), so `FirstFileWins` asks
nothing then; a thread between its test of the flag and its wait misses a
wake-up, which takes no mutex (`threads.h:119`), and `BroadcastReachesSleepers` is
about those that sleep.  The properties say so where they make an exception.

Some properties of passing runs stop short of a promise above, so that they say what
holds beside it: `LinksAgree` has a count never less than the items, `ArgvExact` one
never more than the strings, `StreamsKept` leaves out `out_lost` and `out_stranded`,
`LinesWhole` a newline the caller brought, `EnvironIsMap` the names in `env_open`,
`CountIsHeld` the objects in `obj_raced`, and `ValuesReadBack` flags that are not the
first ones.

## 5. What is proved

For all values of the constants, by TLAPS:

| Module | Theorem | States |
|---|---|---|
| `Framework_proofs` | `TypeCorrect`, `CountExact`, `HoldersKeepFramework`, `ComponentsPaired` | `TypeOK`, `RefcntExact`, `HeldIsOpen`, `OpenedComponents` |
| | `NothingDangles`, `NothingStale` | `NoDanglingComponent`, `NoStaleVariable`, assuming `MaxRetained = 0` |
| | `ClosedLeavesNothing` | `ClosedIsClean`, assuming that registrations and component register functions succeed |
| | `FrameworkImplementsService` | `ImplementsService`, assuming that registrations succeed |
| `ProgressThreads_proofs` | `TypeCorrect`, `HeldBasesLive`, `NoThreadIsOrphaned`, `PausedIsQuiet` | `TypeOK`, `RefcountExact`, `NoOrphanThread`, `PausedRunsNothing` |
| `Hotel_proofs` | `TypeCorrect`, `StackStaysExact`, `TimersFindOccupants` | `HotelTypeOK`, `StackExact`, `TimerHasOccupant` |
| `VarRegistry_proofs` | `TypeCorrect`, `ResolutionAsDocumented`, `OverridesKept`, `SourcesTruthful` | `VarTypeOK`, `ResolvedAsDocumented`, `OverrideKept`, `SourceTruthful` |
| | `GroupsCover`, `ClosedGroupsEmpty` | `GroupCoversVariables`, `ClosedGroupIsEmpty` |
| `Containers_proofs` | `RingImplementsQueue` | `RingIsQueue` |
| | `ArrayStaysExact` | `FreeSlotsExact`, assuming an even maximum |
| | `LinksStayConsistent` | `LinksAgree` |
| | `ListsImplementSequences` | `ListsAreSequences` |
| | `ValuesStay` | `ElementsKept` |
| | `HashTableIsMap` | `TableIsMap` |
| `Threads_proofs` | `AtomicsAreAtomic` | `OperationsAtomic` |
| | `SpinLockKeepsSum` | `LockedSumExact` |
| | `OneThreadUsesLock`, `BroadcastReachesAll` | `OneUser`, `BroadcastReachesSleepers` |
| | `CountsAreReferences` | `CountIsHeld`: of the objects no two updates of which overlapped |
| | `ArraysStayOrdered` | the part `ArraysInOrder` of it, of all classes |
| `Runtime_proofs` | `RuntimeComesAndGoes` | `RuntimeStaged` |
| | `HandlesKeepStreams`, `EveryLineWhole` | `StreamsKept`, `LinesWhole` |
| `Texts_proofs` | `EnvironStaysMap` | `EnvironIsMap` |
| | `FirstFileAlwaysWins` | `FirstFileWins` |
| | `StringsStayExact` | `ArgvExact` |
| | `DirectoriesStayResolved` | `DirectoriesResolved` |
| | `PiecesAlwaysAgree` | `PiecesAgree` |
| | `ValuesAlwaysReadBack` | `ValuesReadBack` |

**Assumptions.**  The named assumptions on the constants in each module, which TLC
evaluates on every run.  `MaxRetained = 0` is needed: with retains the code does
unload a listed plugin (see `framework_retain`).  That registrations succeed is
needed for the refinement: a failed one keeps the reference it took, so the
framework is not closed by the last holder's close.  `ClosedIsClean` needs, too, that no
component fails to register: one that does is taken off the list but its plugin
stays in memory (`mca_base_components_register.c:131`).  An even maximum is needed for
the pointer array: with an odd one the code is wrong at one index.  `HashAssumption` has a density of at most one
element for a slot and a growth that does not shrink: `ww_hash_table_init`, through
which every table of the library is made, asks for a half and for twice
(`ww_hash_table.c:135`), and in a table without a vacant slot a search for another
key never ends (`ww_hash_table.c:301`).  The others are that a class hierarchy ends at the base class
(`HierarchyAssumption`), that there are finitely many items and lists
(`ListAssumption`), that no component is called "none" and priorities are
numbers (`RuntimeAssumption`), that no two directories have the same name or the
same reference (`InstallAssumption`), that a string is made of characters that are
not the delimiter and is not the end mark, which stands for NULL
(`ArgvAssumption`), that what is undefined is no text (`EnvironAssumption`), and the
types of the other parameters (`FilesAssumption`, `OutputAssumption`,
`LineAssumption`, `ChecksumAssumption`: a CRC has at least the bits of a byte).
`VarTextAssumption` says of an enumerator of values that no two have the same name and
that names, those of flags too, are texts and not numbers (`TextNames`), without which
the text of a value would be read as another; of flags what
`mca_base_var_enum_create_flag` asserts (`mca_base_var_enum.c:288`): a flag is one bit,
which no other has and with which it does not conflict; and of numbers that an int holds every level of verbosity and is
not wider than a long.

**Framework.**  `IInv` joins `TypeOK`, `RefcntExact` and `HeldIsOpen` with
`Consistent(fw)`, which ties the flags to each other and to the lists: an open
framework is registered, and its open components are the listed ones.  Without it
a close could find an open framework whose components had never been opened.  Each handler has a lemma on its results
(`RegisterResult`, `OpenResult`, `CloseResult`), so the step proof is short.
`MemoryInv` adds that what is listed or has valid variables is in memory and that
nobody retains; the lemmas named `...Keeps` carry it through each part of a
handler: a part that closes plugins has taken them off the list and made their
variables invalid.  `CleanInv` bounds the count of a plugin in memory by its
clients' retains and the list's one reference; a retain may get lost, so it is a
bound and not an equation, and it holds whatever the clients retain.

**ProgressThreads.**  `RefcountExact` and `NoOrphanThread` are not inductive.
`Paired` says that a thread that is not free was given a tracker that exists and
whose engine it is, and conversely; `StopInv` what holds while a stop is under way (the tracker
exists and `ev_active` is clear); `PausedHasNoEngine` that a paused tracker has no
engine.  With them a join can only release the thread it waited for.

**Hotel.**  Checking a room in or out permutes a prefix of an array.  The lemma
`StackHasPlace` is a counting argument: distinct entries that are all empty
rooms, with at least one room occupied, are fewer than the rooms, so the push
stays inside the array.  That is the assertion both checkouts and the eviction
make.

**VarRegistry.**  The lemmas `FileStep` and `EnvStep` say what one step of the search
finds and what it leaves alone (`SearchFrame`); `OwnSearch` and `SynonymSearch`
put them together for the two kinds of registration.  `ValuesInv` strengthens
`OverrideKept`, which is not inductive: an overridden variable is also not
settable, and its source says that it is overridden, which is what stops later
searches.  `GroupsInv` says that a group that was made has its parent made, so
that registering a variable again finds the group above valid.

**RingBuffer.**  `RingInv` says that the slots that hold a pointer are those from
the tail up to the head, going round, and all of them when both are the same.
`Place` lists the slots in the queue's order, so a push that finds a free slot
leaves it as it is, and one that does not, or a pop, moves it by one; the lemmas
`RingPushIsPush`, `RingPopIsPop` and `RingPokeIsPeek` compare the queues entry by
entry.

**PointerArray.**  `Exact` is the property with the lowest free slot described by
what it is rather than by the search for it.  Growing adds as many free slots as
there are new ones (`GrownFree`), and a write takes one or gives one back
(`WriteFree`).  `SizeForFits` is where the maximum has to be even.

**LinkedList.**  `ListInv` says that there are sequences of items, one for each list,
of which the links are the rings (`Linked`), and that the counts are never less than
their lengths (`Counted`).  `RingInjective` and `PlacesUnique` show that no
node is on two places of the rings, so an operation that changes three links leaves
all others alone.  `Step` walks the links by recursion; by least counterexample a
walk stays on its ring (`StepsStay`, which makes the insert at an index right even
when the index is past the end), and `ChainIsRange` reads a range of a list off its
links.  Each operation has a lemma that compares the links it leaves with the ring
of the new sequence, place by place: `LinkInserts`, `UnlinkRemoves`, `TransferApart`,
`TransferWithin` (a range that moves up or down in its own list), `SortLinks`,
`EmptyUnlinks`.  `ArrangementExists` shows that there is a sorted order to put the
items in, and `ChainWraps` that the header's condition on a range keeps its last
element from coming before its first.  A splice to where the range already is
changes nothing (`SpliceMoves`).

**ValueArray.**  `ValueInv` says that the memory is there and covers the size.
`Doubled` is a recursion; `DoubledCovers` shows that it ends above the size asked
for, as doubling a positive number does, and never below what was allocated.

**HashTable.**  The invariant `Sound` says that a key is in one slot at most and that
no slot between the home of a key and its element is vacant (`Reach`), so a
search that stops at a vacant slot has not missed the key (`SearchFinds`).
`TableInv` adds that the size counts the elements and leaves a slot vacant, without
which neither a search nor the scan after a removal would end; growth keeps it
because a table that grows gets larger than what was in it.  A rehash
(`RehashSound`) puts the elements one by one into a table that stays sound.  While
the scan after a removal is under way the table is not sound: `GapAt` says that
elements may have one vacant slot on their way, the gap, that those the scan has
passed do not have it, and that what is ahead is untouched.  An element that moves
down moves into the gap and leaves the next one (`ScanRound`; `PathComesRound` is
why it is on nobody's way that was already passed), and at the first vacant slot
the gap is on no way at all (`ScanEnds`, `PathGoesOn`).  `VisitedAll` shows that
a traversal visits the valid slots from the lowest up, and with as many calls as
the size says.

**Atomics.**  `CallInv` says that a thread whose reservation is not lost has loaded
the word as it still is, and that what a compare-and-set is about to store is what
the call wants of what it compares.  Then each step that ends a call is the step
that takes effect in `AtomicWord`, and all others stutter.

**Locks.**  `LockedSumExact` is inductive together with its types.  `OneUser` is
not: the flag is set for as long as some thread has the lock (`UsersInv`), also
while that thread sleeps without the mutex.  `BroadcastReachesSleepers` needs
`SleepersInv`: the waiters counted are the threads that sleep, and those a
broadcast owes a wake-up are among them and no more than the signals left, unless
a thread that came later took one.

**Objects.**  `ClassInv` ties what a class has initialized to what the array of
its class lists; the arrays themselves are a recursion over the hierarchy, and
`ArraysDefined` shows by least counterexample that it has a solution, with the
parent's constructors before the class's own and its destructors after.
`CountInv` has `ObjInv` for each object no two updates of which overlapped: at most
one update of it is under way, what that one read, and that the count is the references
held, with the one that is being given up.  The update of another object, raced or not,
leaves all of that alone, so races are not assumed away but confined to their object.

**Runtime.**  `RtInv` has one part for each stage of the lives.  `Balanced`: as
long as no framework failed to open, each is closed or held once, and one that is
closed has no modules.  `NeverUp` is a library before its first life, `UpForGood`
what that life leaves up for good, `UpNow` what is up while it is initialized; they hold
as long as no step has failed.  `ww_init` is thirteen states one after the
other; `StageFacts` says what is true in each, so that a failure at any step
leaves something `RtInv` describes.  `InsertKeepsRanked` and `QueriedIsRanked`
prove that the list of the answers of the components is in the order of their priorities
whatever they answer, again by least counterexample.

**Output.**  `OutInv` adds the table's types and that no stream is in use before the
output is initialized; `TableOK` has the property for the handles that are held and not
lost and the streams that are not stranded.  An entry is opened, switched and closed by
lemmas of its own.  A line is whole by the arithmetic of its parts.

**Environments.**  `EnvironInv` says that there is a map the array keeps: each name has
exactly one entry with a value if the map has one for it and none otherwise, whatever
entries without a value stand beside it; and that this map is the expected one but
for the names in `env_open`.  `SetInKeeps` shows the first half for one set, with and
without overwriting.  What merge and the list of variables do is a recursion over
sets; `SetAllFirst` and `SetAllLast` read off what it leaves for a name: without
overwriting what the name had, or the first that was given, and with it the last
(`LatestIsIn`).  `SentAsMeant` compares what the code makes of a list with what it
names: they are the same for a name that no misread entry touches.

**Files.**  `FilesInv` says of the list that is being read what `FirstFileWins`
says of one that was read, for the files from the first that was read up to the last
of them (`ListRead`); since they are read from the last to the first, the next one
is before all of them, and what it says replaces what they said (`FileIsRead`).  The
pairs that `-x` has set so far are those of the same files (`PairsOf`), so the buffer
that all lists share holds nothing of an earlier list: it is empty whenever a list is
begun, because the end of each list empties it.  The lists before the one being read
are done and those after it are empty.

**Strings.**  `ArgvInv` says that the cells are the expected strings and then the end
mark, and none beyond (`Ends`), and that the caller's count is at most their number.  Each operation is compared with the operation on
sequences cell by cell (`DeletedCells`, `InsertedCells`, `AppendAllIs`), so it says as
much of the memory as of the strings: no cell that was left unwritten is in the
array.  `SplitArg` follows the split through one string and its delimiter, and `JoinSplits`
through a whole range; `JoinedSplits` adds the last string, which has no delimiter
behind it, and `NonEmptyKeeps` and `AllKept` say what the two ways of splitting
keep.

**Directories.**  `InstallInv` says, while the fields are expanded one after the
other, that those that are done hold `$WW_DESTDIR` and what they stand for, that the others
hold what was set, and that the text under way means what its field stands for and
refers to earlier fields only (`GoodText`).  What a text means is the concatenation of
what its parts mean (`MeaningConcat`), so replacing a reference keeps it
(`ExpandStringKeeps`), in every pass; `OffsetIs` is why a field that has
`$WW_DESTDIR` already is read from behind it, and `BackwardResolves` that what a
field stands for has no reference left, so that where the passes stop the text is what it
means (`TextResolved`).

**Checksums.**  `PiecesTaken` says that the partial word is what was read of the
word under way and zero otherwise, and that the sum is that of the whole words read
before and of this one, modulo the size of a word.  A piece may end in the word
that it found (`GrownWord`), fill it, or begin another: in each case what was
added for a partial word is what is taken back when it grows, and sums that are
taken modulo the size of a word at every step agree with those that are taken at the
end.  The CRC is linear: a register shifted bit by bit is the exclusive or of
its parts shifted alone, so the entry of the table for the byte that is pushed out, which is
made of that byte alone, can be added to the rest (`CrcByteIs`).  `Value` and the
bits of a byte are recursions, handled as below.

**Variables as texts.**  `VarTextKept` says that the stored value is one of its kind
(`Stores`), that the environment, if it was built, holds the text of what was sent, and that
the child has what that text reads as.  The rest is that a text reads as the
value it was written for, kind by kind: `NumberRead` for numbers, which survive the
conversion to an unsigned long and back because they fit their width (`Ranges`,
`PowerAdds`, `HalvedIs`); `BoolRead`, `LevelRead` and `ValueTextRead` for names; and
`FirstFlagsRead` for flags, where the i-th name is looked up at the i-th flag, so that
the text of the first k flags is read back name by name.  `ProgramStores` says that
whatever the program stores, from a text or by `set_value`, is a value of the kind,
and `KeptIsReadBack` puts both together.  Nothing is assumed of what is set: where the
program writes through NULL it ends, and what was sent before stays as it was.

**Only proved:** `ClosedGroupIsEmpty`, that the recursion over a deregistered group
leaves nothing valid below it, is a theorem and not among the properties of a run.

**Only model-checked:** the liveness properties (`StopTerminates`,
`EventsProcessed`, `StayEnds`, `SomeoneGetsLock`), which TLAPS cannot prove under
fairness.
The prover's library of inductions cannot be used, but a recursion over the naturals
has the least counterexample instead (`MinIsLeast`, `LeastExists`), from which
`CountedUp` and `IteratesWithin` make an induction over the steps of a recursion and
the existence of its values.

## 6. What is not modelled

Memory exhaustion everywhere, but for the limits of tables that the code checks.

*Frameworks.*  The output streams of a framework, the version check of components,
the clash of a static and a dynamic name, the exit of the process on an unusable
selection, and the priorities by which `mca_base_select` chooses (any component
may win); the scan of directories for plugins.  The framework dl and its
components wrap `dlopen` and libltdl.

*Progress threads* called from several threads at once, which the unlocked list
does not support, or from their own callbacks.

*Variables.*  Re-registration with another type, the environment variables by
which a parent process passes on where it had a value from, dumping, and reading
variables back by their index; the bounded buffer in which the parser of files puts
what `-x` sets (`keyval_parse.c:279-291`).  `VarRegistry`, `VarText`, `ConfigFiles` and
`Environ` are checked side by side and not composed: the first takes the lists
of values as given, and the others what they do to one value, file or
environment.

*Runtime.*  `mca_base_close`, which nothing calls; a build whose library has no
destructor; what `ww_init` asks of the system; the credentials of sec, which come
from munge or the operating system; the functions of dstore, of which the
repository has no component.

*Classes and threads.*  `ww_class_finalize`, which runs when the program ends, and
two threads in the initialization of one class; memory barriers, the compare-and-set
of 128 bits and the timers; static and recursive mutexes, and the program built
without threads.

*Utilities.*  Several threads that write lines at once: `output.h:59-61` and `:293`
promise that lines are serialized, but `output.c` takes no lock, so a line is one step
of one thread here; syslog, and the text of prefixes;
help messages; paths and their search, names of files, the texts of errors,
printf, descriptors and timings, which are functions on strings or wrappers of
system calls and keep no state between calls.

The submanager tool only starts and stops the runtime; the Perl library, the
scripts and the build system are not part of the library.
