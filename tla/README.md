# Pinta in TLA+

Pinta is an ECMAScript-like language: a compiler in C# (`Marius.Pinta.Script`), a virtual
machine in C for embedded devices (`Marius.Pinta`) that allocates nothing outside the
memory region it is given, and a debugger (`Marius.Pinta.Debugger`) inside the virtual
machine's process. This directory models of the virtual machine its memory manager, its
native allocator, its weak references, its call stack, and its objects with their property
tables; of the debugger the session and the web server; and what the compiler writes and the
virtual machine reads back, where that is more than a layout: jumps and compressed blobs.

To check a run: `tlc -config gc.cfg GcHeapMC`; `PROJECT.json` names the module of each. To check
the proofs: `tlapm` on `CallStackProofs.tla`, `WeakListProofs.tla`, `ObjectsProofs.tla`,
`MemoryProofs.tla`, `HeapProofs.tla`, `GcHeapProofs.tla`, `DebuggerProofs.tla`,
`ModuleFileProofs.tla`. `PROJECT.json` also lists mutants, hazards, theorems and, for every
definition, the lines of source it stands for.

## 1. The system

| Part | Source | State | Operations |
|---|---|---|---|
| Managed heap | `heap.c` | `start`, `top`, `end`, free list, hint `largest_free_block_length` | alloc, init of a block, insert, remove and merge of free blocks |
| Collector | `gc.c`, `core.c` | block flags ALIVE, KEEP_ALIVE, PINNED; relocation table; `core->native_frame` | mark, clear weak, sweep, compact, relocate; `pinta_core_alloc`, `pinta_core_gc`, pin, unpin |
| Weak references | `weak.c` | `core->weak`, the head of a list through the objects | alloc, get and set target, relocate |
| Native memory | `memory.c` | `start`, `top`, `end`, free list | alloc, realloc, free |
| Thread stack | `stack.c` | frames and operands in one region up to `stack_end` | push, pop, duplicate, discard; frame push and pop |
| Interpreter | `code.c`, `code-rt.c`, `binary.c` | `code_pointer`, `code_next_pointer`, `domain`, `code_finished`, `code_is_suspended` | one function per opcode; call, invoke, new, require, return, exit |
| Modules and domains | `module.c`, `core.c`, `decompress.c` | tables of strings, blobs, functions, globals | init of a domain, lazy load of a string or blob |
| Functions, globals | `function-*.c`, `domain-global.c`, `global-object.c` | closures, exports, the global object | get and set of a closure's value, of a global by name |
| Objects, properties | `object.c`, `property.c` | prototype; a hash table with open addressing, of 4, 8, 17, 31, then 2^k - 1 slots | define, find, get, set; growth by copy; never a deletion |
| Values | `array.c`, `string.c`, `buffer.c`, `integer.c`, `decimal.c`, `format.c`, `encoding.c`, `json.c`, `pattern.c` | the object itself | conversions, arithmetic, typed reads and writes |
| Embedding API | `api.c` | the core | init, load, execute, results |
| Debugger session | `debugger.c`, `debug.c` | mode, breakpoints, `context`, `is_processing_commands` | wait, step, run; one hook for each event; a Tcl command interpreter |
| Debugger web server | `web.c` | an array of connections, each with its buffers | update: accept, serve, upgrade, read frames, close and compact |
| Compiler | `Marius.Pinta.Script` | syntax tree, scopes, code list | parse, resolve, compile, optimise, emit |
| Earlier compiler, tools, page | `Marius.Script`, `Tools`, `Marius.Pinta.Web.Debugger` | | superseded, vendored, or assets |

Everything in the virtual machine runs on one host thread. There is no preemption; what makes
it hard is *where a collection may happen* (any allocation, in the middle of any
instruction) and *what is in flight when it does*. All parts share one region of native
memory, taken by `pinta_memory_alloc`; objects are shared by reference and may move;
instructions reach their operands through `thread->frame`, which a call replaces; the
debugger is called back from every instruction, return and exit.

Hard behaviours, by part, and the properties that make the part correct:

* Heap and collector. The compactor moves blocks while roots and objects hold their old
  addresses, applies its table in the middle when it is full, works around pinned blocks,
  and finds new top and a new end of the free list at the end. Correct: the program cannot
  tell that it ran; the heap is walkable whenever references are rewritten; no allocation
  fails for fragmentation; the loop ends.
* Weak references. The list is rebuilt by the walk that reads it. Correct: a target is live
  or cleared, the list consists of weak references.
* Native memory. Correct: live blocks never overlap, free blocks are merged, none is lost.
* Calls. A tail call reuses its caller's frame; `new` and `require` push a value first and
  throw the result away; a call may enter another module, with other globals. Correct: a
  return goes back to the code that called, in its domain, with exactly one more operand,
  and never over `stack_end`.
* Interpreter. Correct: each opcode has the same effect on the operands on every path.
* Objects and properties. A table that grows is copied slot by slot, between allocations that
  may fail; an inherited name is redefined in the table of whoever has it. Correct: one slot
  per name, found from its hash; an object is a map, which a failed addition leaves alone.
* Debugger. The virtual machine waits in a loop for commands, on its only thread, and calls
  the server in it; connections are moved down their array while the session points into
  it; once the header of a frame is there its rest is read from a blocking socket. Correct:
  one session, no socket lost or closed for another's sake, a stopped program goes on.
* Compiler. The length of a jump depends on its offset and the offset on the lengths of the
  jumps between; a reference in a compressed blob points back into compressed data. Correct:
  jumps land on their labels, blobs read back; rewriting keeps the meaning; a captured
  variable is one variable.

The README of the repository says that the debugger is not usable and lists the parsers,
the web server and the Tcl interpreter as code of other projects; that is why the virtual
machine comes first.

## 2. The modules

| Module | Models | Composes |
|---|---|---|
| `Heap` | `heap.c` and the sweep of `gc.c`, as operators on a heap record | |
| `GcHeap` | `pinta_core_alloc`, `pinta_core_gc`, the compactor, the program above them | `Heap`; refines `ObjectGraph` |
| `ObjectGraph` | abstract: a graph of objects held by roots | |
| `CallStack` | `stack.c` and the calls and returns of `code.c`, `code-rt.c` | refines `Activations` |
| `Activations` | abstract: activations, each with operands and one result | |
| `NativeMemory` | `memory.c` | |
| `WeakList` | `weak.c` with `pinta_gc_clear_weak` and the collection around it | |
| `PropertyTable` | the hash table of `property.c`, as operators on a table record | |
| `Objects` | `object.c`, `global-object.c`, the additions of `property.c` | `PropertyTable`; refines `Members` |
| `Members` | abstract: objects as maps with prototypes | |
| `DebugServer` | `pinta_web_server_update`, the session's callbacks, the clients | |
| `Debugger` | `debugger.c`, `debug.c`, the loop of `pinta_code_execute` | `DebugServer` |
| `JumpOffsets` | lengths and offsets of jumps: the compiler's resolver and writer, the virtual machine's reader | |
| `BlobCompression` | the compressor's search, `pinta_decompress` | |
| `ModuleFile` | the saving of one function and of blobs | `JumpOffsets`, `BlobCompression` |
| `*MC` | instances for TLC | |
| `HeapProofs`, `GcHeapProofs` | lemmas about the heap's operations; theorems | `GcHeap` |
| `CallStackProofs` | theorems | `CallStack` |
| `ObjectsProofs` | theorems | `Objects` |
| `WeakListProofs` | theorems | `WeakList` |
| `MemoryProofs` | theorems | `NativeMemory` |
| `DebuggerProofs` | theorems | `Debugger` |
| `ModuleFileProofs` | theorems | `ModuleFile` |

A definition named `Mutant...` is a plausible bug in the one it is named after. A module of
proofs begins with the facts of numbers it needs (`LeastExists`, `FromZero`, `Iteration`).

### Heap, GcHeap

A heap is a record `[mem, top, free, largest]`; `mem[a]` is the header of the block at slot
`a`, or `Data`. The unit of a slot is a `PintaHeapObject`, as in the C pointer arithmetic.
A definition named after a C function returns the heap after it. One action is one call of
`pinta_core_alloc` that ends without compaction, one call of `pinta_core_gc`, one store or
load of a reference; a compaction is broken into the iterations of its loop, one action per
branch (`KeepInPlace`, `PassFree`, `Slide`, `Jump`, `LeaveBehind`, `FlushRelocations`,
`FinishCompaction`), with the locals of `pinta_gc_compact_worker` in `comp` and the table,
which the C keeps in the unused end of a thread stack, in `reloc`.

Abstracted: an object has one reference and a ghost identity; `Roots` stands for the stack
slots, native frames and handles that mark and relocate walk; one heap. The binary search
of `pinta_gc_relocate_find` is the entry that covers the address. KEEP_ALIVE objects are
those of `pinta_core_cache_init`, which lie in native memory and refer to nothing in a heap.

### CallStack

`frames` is the chain of `PintaStackFrame`; a frame has its first slot in `base` and its
operands in `ops`. A code pointer is the function it points into. An operand is a value, an
instance pushed by `new`, or the DOMAIN_GLOBAL pushed by `require`. The program is
arbitrary: after any instruction any other may follow, with any argument count and, for
`ret`, whether the bytes after it are NOP* RETURN. An exception ends the execution.

`CrossTail` says whether a function that was entered from another domain may invoke, in tail
position, a function of its own domain. The code does not exclude it; where it happens the
domain to return to is lost (finding 1). With it FALSE everything else is checked without
that case shadowing it; the run `calls_cross_tail` has it TRUE.

One execution per core is modelled: `thread->code_finished` is never reset.

`Activations` knows no frames, return addresses or flags. The mapping reads off each frame
what it will do on return: the result of a frame with `discard_result` goes nowhere, the
module of the frame below is the one the frame returns to.

### NativeMemory

Units of `PintaNativeBlock`; the free list is a sequence. `Reallocs` says whether
`pinta_memory_realloc` is called, which nothing in the repository does.

### WeakList

A heap of cells of one length, with the collection in one step: `GcHeap` has lengths and
iterations. `ClearWeak` and `Head` are what the loop of `pinta_gc_clear_weak` makes of the
list and its head.

### PropertyTable, Objects

A table is `[capacity, length, slots]`; a slot whose key is NULL is an index outside the
domain of `slots`. `Find` walks from the hash to the end and on from the start; `AddAt`
counts every addition in `length`, replacements too, as the C does; `CopyProperty` is the
insertion into the larger table, which compares no keys.

An addition is in flight in `pend`: the table, the slot its caller found before the addition
started, the property. Each iteration of the copy is an action (`CopySlot`); a table may
have to grow several times for one addition, and any allocation may fail (`OutOfMemory`).
A table that neither an object nor `pend` names is garbage and leaves `tables`. `through`
is history: it says that an object redefined a name it inherits. From then on it shares the
table of its prototype (`object.c:426`), and what is promised of maps no longer holds; the
properties of distinctness and of refinement are stated up to that step, those of the tables
without that condition.

The global object has, per name used, a native property that holds the token of a global;
the value lies in `domain->globals`. Accessors are found and called by the interpreter: here
only whether one is there matters.

### DebugServer, Debugger

There are two actors beside the program: the server, which runs only when the program calls
`pinta_web_server_update`, and the clients, which act between any two of its steps. One call
of update is `Select` (with the accepting of clients), the turns of the connections
(`PassOver`, `LosePeer`, `EndRequest`, `Upgrade`, `BeginRead`, `Read`, `Reject`) and, if one
is dead, a `Sweep` per dead entry. The array is modelled whole, with the entries past
`connection_count`: the memmove leaves copies of pointers there, the session keeps a pointer
into the array, and entries are used again with the buffers they have. A message is the
parts the server tells apart: a request, the header of a frame, the command in it. A
descriptor is the lowest free one, as the operating system hands them out.

A program waits for a client or not, loads modules, executes instructions with an event
before each (which suspends it, with a client that steps) and any others within, and ends. In
an event with a client it calls the server until a command clears `is_processing_commands`,
which starts as whatever the memory was. The thirteen hooks of calls and returns are one
action.

Abstracted: bytes, bodies of requests, what commands that only look print, breakpoint files;
the Tcl interpreter is the outcome of a command (run, step, look, bad). A write to a client
that has left fails or not.

### JumpOffsets, BlobCompression, ModuleFile

Both halves of each conversion are here, the C# and the C. `Resolve` predicts the length of
each jump from the bounds of the offsets, computes the offsets and pads; `Written` is the
bytes of a line, `Target` where the interpreter goes from there. The compressor's `Match` runs
the decoder on what is already written, with a stack one shorter, and `ModuleFile` takes one
turn of its loop per action, with the hash table of positions; `Decompress` is
`pinta_decompress` with its fixed stack. A byte of the output carries a tag that says what it
means at that place, where the C masks bits; that the tags can be told apart in a byte is
`ReferencesFit`. Numbers are written in groups of `Base` values, 128 in the code.

## 3. The runs

| Run | Shows | Bounds |
|---|---|---|
| `gc` | type; `pinta_debug_validate_heap` between operations; heap walkable at each iteration; the hint bounds the free blocks; allocation fails only when full; refinement of `ObjectGraph` | 6 slots, 3 objects, lengths 1-2, 2 roots, table of 2 |
| `gc_pinned` | with a pinned object and two lengths, up to and including the step that first loses an object: that step is the end of a compaction that left a movable object uncounted above a pinned one, and every such end loses one (finding 4); no other changes the graph the program sees; the heap walkable; the hole found holds or touches the object unless a pinned one lies below | 5 slots, 3 objects, one of them may be pinned, table of 1 |
| `gc_pinned_adjacent` | finding 3 | 6 slots, one length, 4 objects that refer to nothing, two of which may be pinned |
| `gc_ends` | liveness: a collection ends; pinned objects stay | 4 slots, 3 objects, lengths 1-2, one object may be pinned, table of 1: too few to lose one |
| `calls` | nine properties of calls, among them the refinement of `Activations` | 11 slots, frames of 2, 3 functions, 2 modules, 0-2 arguments |
| `calls_cross_tail` | finding 1 | 10 slots |
| `memory` | free list merged, disjoint from what is held; which step alone puts it out of order, which alone loses memory | 15 units, lengths 2-4, with realloc |
| `memory_distinct` | finding 2 | 8 units |
| `weak_list` | a collection serves every weak reference of the list, and drops from it all but the last that survives, which nothing else does (finding 5) | 3 cells, 3 roots, 3 objects |
| `objects` | tables searchable half copied or not; tables not shared; reads find the nearest; refinement of `Members`; what alone makes an object forget a name (finding 6) | 2 objects, 3 names of which 2 collide, 3 tables of capacities 2, 4, 7 |
| `debugger` | type; one session; sockets owned; exactly when the session's pointer and the buffers go wrong (finding 7); liveness: a stopped program goes on | 2 connections, 1 client waiting, 1 part unread per client |
| `module_file` | jumps land; blobs read back; references fit their bytes | groups of 4, at most 3; distance 8, length 6, stack 3; bodies of 3-5 lines; blobs of 11-13 bytes, or two of 3-5 |

Why the bounds are enough.

* Heap. Each branch of the compactor depends on one live block, the hole it finds and the
  block between; six slots hold a hole, a pinned or live block between, a longer block and a
  free tail, and a third move that finds the table of two full. Lengths 1 and 2 give
  "shorter", "equal" and "longer". Sweeping needs two dead neighbours and a live one on each side.
* Calls. Eleven slots of stack hold the base frame and three more with operands, so that a tail
  call in the middle of a chain, a constructor under it and an overflow at each kind of push
  occur; two modules, one with two functions, give calls inside and across.
* Native memory. Fifteen units of blocks of two to four hold four blocks at once, so that a block
  has free neighbours on both sides and others further away, and a shrink has a rest.
* Weak list. A weak reference that stays, one that falls off and a target fill three cells, and
  each may be dead.
* Objects. Two names hash past the end of a table of four, so that both wrap and one is
  displaced, and a table of two is small and fills up before it grows; a prototype and its
  object, or two without, or one and the global object; growth twice in a row; `FewProperties`
  stops at three properties in all.
* Debugger. With two entries one is moved onto another; the second client asks while the first
  has the session, has left, or is dead and not swept; one unread part per client is every
  point of a message at which it may leave. Each client comes again any number of times.
* Module file. With groups of 4 values, bodies of five lines have offsets of one, two and three
  groups, forward and back, and jumps over jumps. Blobs of eleven to thirteen bytes are long
  enough for references nested as deep as a stack of 3 allows, and deeper if the search does
  not stop; two short blobs share the positions of the first.

Every action fires in some passing run.

Three runs stop exploring where something first goes wrong, by a CONSTRAINT, since what
follows is undefined in the code: `NothingLost` in `gc_pinned` (a compaction has cut off an
object), `NotYetBroken` in `memory` (top moved back over a block, or the list is out of
order) and in `weak_list` (the list starts at a swept reference or has no end, or a target
dangles). The step that goes wrong is itself explored and checked, and properties of `gc_pinned`,
`memory` and `weak_list` say which step that is.
`objects` goes on after `through`, with the properties that are then still promised.

Fairness. `GcHeap` has `WF_vars(Collector)`: a compaction is a plain loop in the call that
started it, on the only thread, so that an enabled iteration happens. `Debugger` has weak
fairness of the program and the server together, which are that one thread; of its clients it
assumes that new ones come, that each asks for the session and, once it has begun a
frame, sends "run" some time, and (`SF` of `PassOver`) that one does not for ever send its
next message before the server has looked, which would keep it at one connection. Nothing is
assumed of leaving. `GoesOn` promises progress once clients stop leaving and stop sending what
ends a connection, and excepts a server that waits for the rest of a frame whose client has
left: there `recv` returns 0 for ever (`web.c:1075`).

`calls`, `calls_cross_tail`, `objects`, `debugger` and `module_file` run without a deadlock
check: a script and a compilation end, and objects that may be neither added to nor written
have no more steps.

## 4. What is proved

For every value of the constants that the modules' assumptions allow (sizes of the heap and of the
relocation table, lengths of objects; sets of functions and domains, sizes of stack and frame;
names, hash codes and capacities; numbers of connections and bounds of the clients):

* `GcHeapProofs`, whatever is pinned, of the behaviours in which a compaction has not yet cut off
  an object that it left behind (`UnbrokenSpec`): `GcKeepsTheGraphUnbroken`, the whole refinement
  `ProgramSeesOneGraph`; `GcPinnedStays`; `GcLeavesOnlyAbovePinned`, that an object is left behind
  only above a pinned one; `GcHeapWalkableUnbroken`, that the heap can be walked at each iteration
  of the compactor; `GcHintBoundsUnbroken`; `GcTypesUnbroken`. Of the behaviours up to the first
  step that loses the program an object, that step included (`WholeSpec`; what `gc_pinned`
  explores): `GcLosesByCutting`, that this step is the end of a compaction which left a movable
  object uncounted above a pinned one, and that every such end loses one;
  `GcKeepsTheGraphUnlessCut`, that no other step changes what the program sees. `GcNeverBreaks`
  shows that with `PinIds = {}` every behaviour is one of `UnbrokenSpec`, so that
  `GcKeepsTheGraph`, `GcLosesNothing`, `GcHeapWalkable`, `GcHintBounds` and `GcTypes` are then
  about `Spec`. With that hypothesis also `GcHeapValid`, that `pinta_debug_validate_heap` finds
  nothing wrong between operations; `GcFailsOnlyWhenFull`, the action property that an allocation
  never fails for fragmentation; and `GcSlidesTouch`, that the compactor slides and never jumps.
* `CallStackProofs`: `TypeCorrect`, `Tiling`, `FinalFrame`, `ReturnAddresses`, `Prepushed`,
  `ExportsResolved` (the six invariants of `calls` other than the domains) and `ReturnFits`,
  the action property that no return overflows; `OwnDomain`, `RunsInOwnDomain`, with
  `CrossTail = FALSE` as hypothesis: `calls_cross_tail` shows that it does not hold without.
  With the same hypothesis `ImplementsActivations`, the whole refinement
  `ProgramSeesActivations`.
* `ObjectsProofs`: `ObjectsTypeCorrect`; `TablesStayWellFormed`, that a search finds every
  key of every table, half copied ones included; `BodiesStayDistinct`, that no two objects come
  to share a table but by redefining what one inherits; `ReadsStayNearest`, that a read finds the
  nearest object that has the name; `ObjectsAreMaps`, the whole refinement of `Members`.
* `MemoryProofs`: `UnbrokenBlocksDistinct`, `UnbrokenFreeIsNotHeld`, `UnbrokenFreeListMerged`,
  the invariants, and `UnbrokenOnlyShrinkDisorders`, `UnbrokenOnlySuchFreesLoseUnits`, the
  action properties, of the behaviours in which nothing broke earlier.
* `WeakListProofs`: `UnbrokenListedAreServed` and `UnbrokenOthersFallOff`, the two action
  properties, likewise of the behaviours in which list and targets are sound when a step begins.
* `DebuggerProofs`: `DebuggerTypeCorrect`; `SessionIsOne` and `SocketsHaveOwners`, the two
  invariants; `EntriesGoByMoving`, the action property.
* `ModuleFileProofs`: `JumpsAlwaysLand`, `BlobsAlwaysReadBack` and `ReferencesAlwaysFit`, the
  three invariants of `module_file`, for bodies of any lines, any blobs, any groups, distances,
  lengths and sizes of the decoder's stack; `ModuleTypeCorrect`.

Heap and collector. Native code pins an object while it holds a raw pointer into it: the writers
of JSON (`string.c:898`, `string.c:1235`, `buffer.c:1114`, `buffer.c:2597`) and the debugger. With
a pinned object and blocks of two lengths the compactor may lower top below a live object
(finding 4): so the theorems with pins are about `UnbrokenSpec == Init /\ [][AllCounted /\ Next]_vars`,
whose steps all begin with every object counted: it ends before the step that cuts. About that
step are `GcLosesByCutting` and `GcKeepsTheGraphUnlessCut`, of
`WholeSpec == Init /\ [][NothingLost /\ Next]_vars`. That pins and fragmentation together fill
a heap early, and that free blocks then touch (finding 3), is why three statements keep
`PinIds = {}` as hypothesis.

`HeapProofs` takes the operations one by one. A free list is a set of blocks, each linked to the
nearest of the set below and above it (`OnList`, `Linked`), so that insert and remove are
statements about neighbours in a set. Blocks that are split, joined or exchanged are one notion,
`Recut`: between two places where blocks begin there are one or two others; one lemma says that
the heap stays tiled. A walk along the list (`FreeAt`) meets every block of it, in order, within
as many steps as there are slots: so `FirstFree` is the lowest block that fits, and the search of
an allocation is complete. A heap between operations is `Sound` (typed, tiled, the list has all
free blocks), at rest also `Rested` (top ends an object, the hint is right), and `Settled` if
besides no two free blocks touch. Each operation keeps the two apart (`Settles`): an allocation
needs a heap at rest, and merges nothing it did not find merged. `SweepInv` is the invariant of
the sweep's loop: below the slot reached there are the live objects and a merged list of
everything else, from there on the heap is as it was.

`GcHeapProofs` adds that what is marked holds the roots and is closed (`MarkedHolds`), and
`GcInv`. While the compactor runs it says that every reference, read through the table, is to an
object (`Closed`), and where its locals may point (`Roaming`): the last live one below the slot
reached, the free block carried along at or below it with no other free block between, and no
entry of the table past what has been looked at. That is all that is left once a pinned object
lies below (`PinBelow`). Until then (`Compacting`) all blocks below the slot reached are objects,
but for at most one free block, which ends there or, after a slide, begins there: so the block
that `pinta_gc_find_free_object` finds is that one, and each step merges, slides or keeps. `Slide`
and `Jump` are one notion, `MoveDoes`: an object that is not pinned goes down to a free slot and
the table gains an entry, which never changes what an earlier one says, since none covers what has
not been looked at. `FinishCompaction` cuts above the last live block, and here alone `AllCounted`
is needed. `BareInv` is `GcInv` where no object is pinned: there is then never one below, every
object is counted (`BareCounts`), the loop ends without a free block below top, and the slots of
the live blocks add up to top, which is `FailsOnlyWhenFull`.

That the program sees one graph (`GcKeepsTheGraphUnbroken`) rests on `GraphInv`: `GcInv`, and that names
are unique, that of a request that waits included. `ReachableBlocks` in the heap and
`Reachable` in the graph are the same kind of recursive function, the ways of n steps; as many
steps as there are objects lead wherever any do (`WaysEnd`), so both are the least set that
holds the roots and what its members refer to (`LeastFrom`). In that form no proof needs the
recursion. A step of the memory manager moves the reachable objects by a function `to` that
keeps their names and lengths, and what the new table makes of a reference is `to` of what the
old one made of it (`MovesObjects`): then the program sees what it saw (`MovesUnseen`), and a
pinned object, which `to` leaves alone, stays (`PinsStay`). For the
slide and the jump `to` moves one object, for all other steps it is the identity, since
applying the table to every reference and then emptying it reads the same. The program's own steps
(`Visible`) change a root, one reference, or add an object nothing refers to; the graph it had,
so changed, holds what is reached now, and `SeesReachable` says that this determines what is
seen. The assumption that neither `NoId` nor `Lost` is a name of an object keeps them apart
from one; both are ghosts.

The step that loses an object (`GcLosesByCutting`, `GcKeepsTheGraphUnlessCut`) rests on
`WholeInv`: `GraphInv`, that a compaction finds just what the program can reach (`AllReached`: the
sweep left nothing else, and every iteration moves the reachable objects), and that the pinned
objects below the slot reached are counted (`PinsCounted`: only `KeepInPlace` meets one, and it
counts it). Where every object is counted the step keeps all of this, and nothing is lost
(`WholeInvStep`, `GraphIsWhole`). Where one is not, the loop is at its end (`UncountedEnds`), the
uncounted one is movable and above a pinned one (`UncountedIsLeft`), and `FinishCompaction` lowers
top below it while a root or another reachable object still refers to it (`CutLoses`).

Calls. None of the invariants is inductive alone. `ReturnHasRoom` needs that the popped frame's
header lay where the result goes (`Tiling`); that the caller has an operand under a discarded
result needs that every frame's operands stay as they were at the call; `NoRawExport` needs
where an export may lie in frames that are *not* running. `Stack(fs)` says all this of any
list of frames, relating each to the one below by `FrameOn`: the base, `is_final`, the return
address, what lies under a discarded result, and that only the last operand may be an export,
under a frame that discards. `IInv` is `Stack(frames)` with what is true of a running thread.
Three lemmas say that `Stack` survives a change of the top frame, a push and a pop; every
action is a composition of those, so its proof is short. `DInv` adds to `IInv` that the return
domain of a frame is that of the function below it.

The refinement. `Acts(fs)` maps frames to activations. A lemma for each way frames change
(operands, push of a frame, reuse of one, pop with and without a result) says what
happens to their image; each action is one of these, and `DInv` supplies the module a call
returns to. Initial states map to initial states, every step to a step or a stutter.

Objects. The invariant says that tables are tables (`IsTable`) and well formed, that bodies name
tables and are distinct until `through`, and (`PendOK`) of an addition in flight that the slot
found is still the slot a search would find, and that the copy holds just the keys of the
slots already copied, so that a copied key is new there. That a displaced key stays
reachable needs the least of a set of numbers, which every `CHOOSE` of the probing rests on:
`LeastExists` says that there is one, by the library's well-foundedness of the naturals.
That a copy never swallows a property is a count: probing reaches every slot, so a table with
fewer entries than slots has room for any key (`RoomLeft`), and the copy has no more entries
than slots were passed. Reads and the refinement need no induction along prototypes: they make
no cycle (`Shape`), so that any set of objects has one whose prototype is outside, among them
the set of those where a search of tables and one of maps would end apart. `MapInv` says that
the table an addition is about to fill holds what the object does (`Contents`, `Own`), that the
addition is still allowed, and how much of it a copy has. An addition takes effect for
`Members` where its slot is written (`WriteProperty`, `SetValue`), every other step is a
stutter; what happens after `through` is excused there as in the run.

Native memory. The code breaks its own invariants (findings 2 and 9), so the theorems are about
`UnbrokenSpec`, whose steps all begin unbroken: the last step may break anything. That is what
the CONSTRAINT `NotYetBroken` makes of the run. `MInv` says that no two blocks of the free list
touch (`Spaced`, whatever their order: a shrink may have broken it), and that live blocks are
apart from them and from each other. Taking and freeing exchange neighbours in the list for one
block or none (`Exchanged`); one lemma each says when that keeps the list in order and merged,
keeps it clear of a block, and covers the same units. `Absorbs` says what a free merges, and the
one case, that of finding 8, in which it drops a unit.

Weak references. `WInv` says that cells not allocated are blank, that the others have names of
their own, and that the roots refer to allocated cells, for which `GetTarget` needs sound
targets. The list is walked for as many steps as there are cells; `WaysEnd` again makes of it
the least set that holds the head and is closed under the links (`ListIs`). So a reference put
before the head drops none (`ListGrows`), whatever the links, and no proof counts positions.
Compaction moves a marked cell to the number of marked ones up to it, by which no two meet
(`Places`); `SurvivorIs` says what becomes of a marked cell, through clear, sweep and
relocation. What a collection leaves on the list needs that it ends: then the walk meets no
reference twice (`WalkOnce`), so the survivor at which the head is left is the last and links to
nothing (`HeadIsLast`), and it is all that is listed (`OneIsListed`). That the list be one of weak
references is not needed for either theorem.

Debugger. `NetInv` joins the type, `Place` (which entry is served or swept in which phase),
`OneSession` and `SocketsOwned`. The step that needs it all is `Sweep`: after the memmove the
entry of each socket is the one before or the same, and the session is told of a web socket's end
however its pointer has gone. The pointer and the buffers: no step but `Sweep` touches what they
rest on (`StepAligns`), and of a `Sweep` the place of the entry it removes decides (`SweepMoves`),
since there is but one web socket and the last entry stays behind its copy. For `AcceptAll`, that
there are enough free descriptors is a count of the owned ones. `ProgInv` adds where the program
is.

Code emission: jumps. `CodeInv` says that the lines written begin where the sums of their
lengths put them, and that the groups after the first byte of a jump are those of its offset. That
these fit is the point of the resolver: wherever offsets lie between their bounds, the offset of
a jump is no further than what `Predicted` counts (`JumpFits`, from `OffsetsApart`: bounds on the
lengths bound every distance between two lines), so the padding is no less than 0 and the line is
as long as was predicted. That groups read back is a sum of digits (`DigitFacts`, `ReadsBack`),
for any base.

Code emission: blobs. `BlobInv` says that the output reads as a text (`ReadsAs`): there are a
text, the places in the output where something begins with the number of bytes of text before
each, and for each byte of the text the number of references it is nested in; a reference
repeats a part of the text before it, one deeper. The text has each blob from its start on, as
far as it is compressed, and no byte nested as deep as the stack has places. Nothing in the
output but that text, which the invariant says exists, tells what it means. Of the decoder,
`DecodedFacts` says that what it yields from a place on is the text from there, and all that was
asked for if none of it is nested too deep, for a stack of any size. Its invariant (`Stands`)
gives every place on the stack the part of the text that it and those above it have yet to yield;
`TurnAdvances`, that each turn yields, nests deeper or stops, so that the turns that `Decoded`
allows suffice. The compressor runs the same decoder with a stack one shorter: hence what it
matches is nested one less deep (`MatchFacts`), and the reference it writes keeps `BlobInv`
(`ReferenceReads`). With a search that has the whole stack exactly this fails, as its mutant shows.

The assumptions are those on the constants only (of `ModuleFile`, `ModuleFileAssumption`: labels
jumped to are marked, and twice the longest body can be written in the groups of an integer, which
in the code is 32 bits; of `Objects` also that NULL names no property,
`NullIsNoProperty`: in the C it is the null pointer, no string; of `GcHeap` and `WeakList` that
what stands for no object names none). The proofs use SMT, Zenon and, for the
last step of each theorem, PTL.

Only model-checked: liveness (`CollectionEnds`, `GoesOn`), since fairness and ENABLED are out of
the prover's reach; and `ForgetsByRedefining`. After an object is lost, or a block overlaps
another, nothing is promised. The installed backends have no induction over data: where a
recursive function is met in a proof, a least counterexample (`LeastExists`, `FromZero`) takes the
place of induction, which needs a statement in first-order terms; and that the function is defined
at all is proved by building it (`Iteration`, `Recursion`). No module with a theorem reaches a
RECURSIVE operator; recursion is by recursive functions throughout. `TypeOK` of `NativeMemory`
documents the variables and is in no run; those of `Objects`, `WeakList` and `ModuleFile` are
proved.

## 5. Findings

With a run whose counterexample shows them:

1. `code.c:2030`: `return_domain` is overwritten when a frame is reused, and the comment at
   `code.c:2020` says that a frame is not reused across domains (`calls_cross_tail`).
2. `memory.c:151`: `top` follows a block taken from the free list; the next allocation
   overlaps a live block, where `tests/memory_tests.c:48` has blocks distinct
   (`memory_distinct`).
3. `gc.c:698`: an object that jumps into the only hole met so far, and fills it, leaves a free
   block that `free_last` does not know, so that the next one is not merged with it; the
   assertion at `gc.c:146` finds them side by side when the compaction ends
   (`gc_pinned_adjacent`; it takes two pinned objects, but only one length).

With a property that says which step alone does it, for 4 to 7 also that every such step does, in
a run where it happens:

4. `gc.c:521`: the search for a free block stops at one *no longer* than the block to move,
   where the comment at 598 speaks of one big enough. With a pinned object below it, the block
   stays and is not counted as the last live one; if none above it is, top is lowered below it
   while the program holds it (`LosesByCutting`: this loses an object, and nothing else does).
   Ten states of `gc_pinned` lead there: an allocation each of a unit that is dropped, of one that
   is pinned and of two units, then a compaction. `NothingLost`, made an invariant, shows them.
5. `gc.c:303`: of the weak references on the list only the last live one stays, and the others
   keep swept targets later (`OthersFallOff`: this drops them, all of them, and nothing else
   does); `tests/weak_tests.c:21`, that a weak reference is cleared, is of a single one.
   `gc.c:300` leaves the head at a swept object when none is alive, against the assertion at
   `gc.c:284`; if that object's place is taken by a weak reference that leads back to it, the
   list has no end and the loop of `pinta_gc_clear_weak` neither (`NotYetBroken` ends the run there).
6. `object.c:426`: an object that redefines what it inherits shares its prototype's table from
   then on, and what it had itself is gone (`ForgetsByRedefining`: this makes it forget, and
   nothing else does; `BodiesDistinct` and `ImplementsMembers` hold until `through`).
7. `web.c:1793`: entries moved by memmove leave the session's pointer at another connection,
   which then gets its events, and buffers shared by two (`MovingMisplaces`:
   when an entry below the session's, or any but the last, is removed, and only then).
8. `memory.c:305`, `311`: the length of the next free block is forgotten when a block below it
   is freed while another free one lies further down (`OnlySuchFreesLoseUnits`);
   `tests/memory_tests.c:57` expects frees to merge into one block.
9. `memory.c:192`: the rest of a shrunk block is linked at the head of the list although it is
   the highest (`OnlyShrinkDisorders`).

Without either:

10. `web.c:1075`: a client that leaves within a frame leaves the server, and the program, in a loop
    (`Hung`, excepted in `GoesOn`).
11. `property.c:190`: the asserted bound on `length` fails after enough redefinitions, since
    `length` counts them (`CountWithinCapacity`, in no run: five definitions of two names in a
    table of four, then a search for a third, refute it); no search reads it.

## 6. Not modelled, and the plan

What is left of the parts that are modelled:

* Managed heap, collector: one heap, not the chain of several; roots for the walk of frames,
  handles and native frames.
* Calls and interpreter: calls, returns and jumps; any other instruction is a push, a pop, a
  duplicate or a native call. What each opcode does to the operands is left, with three places
  that need it: a setter's result left among the operands (`code.c:2267`), a result of
  two nulls pushed twice (`code.c:218`), division of the least integer (`code.c:262`).
* Modules, functions, globals: domains of code, globals, decompression; not the parsing of a
  module's tables, closures, or a second execution on one core (`core.c:121`).
* Objects: a write to an object without any table along its chain reads an
  uninitialised `is_found` (`object.c:292`, `540`); whatever it holds, the outcome is the addition
  that is modelled or an exception, which has no step. Nor has a name that is not a string.
* Debugger: not what commands print, breakpoint files, a socket that fails between accept
  and its configuration (`web.c:1460`), or idle clients that fill the array (`web.c:1439`), who
  are told apart from slow ones only by a timeout the code does not have.
* Code emission: jumps and blobs; the layout of the other tables of the file is not.

Not modelled:

* Arrays, strings, buffers, numbers, JSON: pure conversions and bounds checks on one object,
  with no state of their own.
* Embedding API, managed wrapper: translate arguments and call the parts above. Allocations
  that `heap.c:52` and `stack.c:87` do not check belong to initialisation, which is here a
  state that has succeeded.
* Parser (jint), Tcl interpreter (partcl), the debugger's page, build tools: code of other
  projects, or assets. The earlier compiler: superseded.
* Script compiler and code optimizer: sequential rewriting of trees and lists. A model needs
  the opcodes' effects first, so that rewritten code can be shown to refine the original.

The plan from here, in this order.

1. Opcodes: each one's effect on the operands and the code pointer, with accessors, arithmetic
   on nulls and on a small width; composes `CallStack` and `Objects`.
2. Module tables and the API: lazy loading, one execution after another, initialisation when
   memory runs out; composes `NativeMemory` and `BlobCompression`.
3. Scopes and the optimizer of the compiler, above the opcodes.

Theorems worth proving next: that a compaction cuts off nothing while the blocks below a pinned
object are all of one length, so that finding 4 takes two; how much of the heap a pinned object
can waste.
