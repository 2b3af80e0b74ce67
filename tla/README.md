# Verification of bolgenos-ng

TLA+ models of the bolgenos-ng kernel (`src/kernel`), model-checked with TLC on
small instances, and theorems about most of its parts that TLAPS proves for all
values of the constants. `PROJECT.json` has the same information for tools:
components, runs, mutants, the map from definitions to source lines, findings,
hazards and theorems.

## The system

bolgenos-ng is a kernel for one x86 CPU. It has cooperative tasks, interrupts
that may occur wherever they are enabled, and these parts:

| Part | Source (under `src/kernel`) | Modules | State |
|---|---|---|---|
| free list of blocks of one order | `memory/free_list.*` | `FreeList`, `FreeListSpec` | modelled, proved |
| buddy system | `memory/buddy_allocator.*` | `BuddyAllocator` | modelled |
| page allocator | `memory/page_allocator.*`, `memory/memory.cpp` | `PageAllocator`, `PageAllocatorSpec` | modelled, proved |
| slabs and kmalloc | `memory/mallocator.*`, `memory/slab.*` | `Mallocator` | partly (no slab destructor, no 32-bit overflow of sizes), proved |
| scheduler and tasks | `sched` | `Scheduler` | modelled, proved |
| circular list | `libkernelcxx/include/ext/intrusive_circular_list.hpp` | `IntrusiveCircularList`, `CircularListSpec` | modelled, proved |
| interrupt lock | `threading` | `InterruptDelivery` | modelled, proved |
| interrupts manager, PIC | `x86/src/irq.cpp`, `devices/interrupt_controller` | `InterruptDelivery` | partly (handlers are a parameter), proved |
| PS/2 controller and lines | `devices/ps2/src/{controller,line}.cpp` | `PS2Controller` | modelled, proved |
| PS/2 keyboard driver | `devices/ps2/src/ps2_keyboard*` | `PS2Keyboard`, probe in `PS2Controller` | modelled, proved |
| timer, time | `devices/src/pit.cpp`, `frequency_divider.*`, `libkernelcxx/src/time.cpp` | `Timer`, `TimeArithmetic` | modelled, proved |
| VGA console | `devices/src/vga_console.cpp` | `VgaConsole` | modelled, proved |
| log | `log` | `VgaConsole` | partly (the console's stream, not the serial copy) |
| streams and formatting | `libkernelcxx/src/ostream.cpp`, `ext/snprintf_stream.cpp` | `OutputStream` | partly |
| containers | `forward_list.hpp`, `memory.hpp` (`unique_ptr`) | `ForwardList`, `ForwardListSpec`, `UniquePtr` | partly, proved |
| C++ runtime | `libkernelcxx/src/backtrace.cpp` | `Backtrace` | partly |
| boot | `main.cpp` | initial states of the others | partly |
| serial port, descriptor tables, on-start tests | | | not modelled, see below |

How they interact: `kmalloc` gets slabs and large blocks from the page
allocator, which keeps free blocks in the buddy system's free lists; a task
gets its object from `kmalloc` and its stack from the page allocator; the
scheduler keeps tasks in a circular list and switches only where a task yields,
sleeps or ends; the timer interrupt counts `jiffies`, which a sleeping task
looks at whenever it runs; every interrupt comes in through the interrupts
manager and is ended at the PIC; critical sections hold interrupts back; the
controller finds the keyboard during boot, whose handler then prints on the
console, between or in the midst of what tasks log there.

Where a module builds on another part it uses that part's abstract
specification, which the part's own module is shown to implement:
`BuddyAllocator` sees free lists as `FreeListSpec` does, `Mallocator` takes pages
from `PageAllocatorSpec`, `Scheduler` has its list as the sequence that `CircularListSpec` describes.

## Modules

**`PageFrames`** has page numbers and the buddy arithmetic. Frames are page
numbers, `nullptr` is page 0, and `MaxOrder` is `BUDDY_ALLOCATOR_MAX_ORDER`.

**`FreeListSpec`** says what a free list promises: it is a set of frames;
putting a frame whose buddy is there returns the merged pair, except in the
list of the largest order; nothing panics. **`FreeList`** is the linked list of
`free_list.cpp`: the link of a free frame is the first word of its memory, which
its owner overwrites at will (`Words`). Each call is one step with the sanity
check that ends it, as the callers hold the interrupt lock.

**`BuddyAllocator`** has the free lists as sets; `put` is one step per block it
hands to a list, and one per merged block that moves up. **`PageAllocator`** adds
the map of last pages and the calls `initialize`, `allocate`, `deallocate`. Calls
do not interleave: each holds a `RecursiveIrqGuard`, which `InterruptDelivery` shows
to work. It implements
**`PageAllocatorSpec`**: allocate returns as many pages as requested that nobody
has, and nullptr only when no aligned free run of pages can serve the request;
deallocate takes back exactly what allocate handed out.

**`Mallocator`** is `kmalloc`, `kfree` and the slabs, in bytes. `kmalloc` falls
back from the right slab to the larger ones and then to pages; `kfree` finds the
owner from the address. They have no lock: tasks are cooperative and no
interrupt handler allocates.

**`IntrusiveCircularList`** has both links of all nodes, `_some` and an
iterator; it implements **`CircularListSpec`**, a cyclic sequence.
**`Scheduler`** has the list as such a sequence, a program counter for the
running context and a saved context for the others, the CPU's interrupt flag
and the copy that `irq.cpp` keeps. A task is the memory of its object and stack:
a new task may get the memory of a deleted one. At the end of a pass
`handle_finished_tasks` unlinks and deletes one finished task per step.

**`InterruptDelivery`** has the two 8259 chips (external: request and in-service
bits, priorities), the CPU's flag, the dispatch of a vector, and the stack of
`_enable_on_unlock` of the locks that are held. Boot begins with interrupts off;
critical sections nest before and after `kernel_main` enables them. Between
sections a task may be switched: `switch_to` turns interrupts off, `popfl` loads
whatever flag the next task's stack has, behind the back of the copy in
`irq.cpp`, and that task's `irq::enable()` makes the two agree again.

**`PS2Controller`** is `initialize_controller()` step by step, with its calls as
labels of a program counter and a return label: `clean_buffer`, `conf` (which
reads without waiting), `receive` and `send` with their timeouts, and the
keyboard driver's `probe` of both lines; then the interrupt handler. The chip and
the devices are external: an output buffer, a configuration byte, devices that
are keyboards, other devices or absent. A bounded number of faults makes an
answer late or the chip busy, so that what is written is lost, and keys may be
pressed at any time. **`PS2Keyboard`** has an external keyboard with a queue and
typematic repeat, and the state machine of `ps2_keyboard_sm.cpp`, one step per
state that handles a byte.

**`TimeArithmetic`** has `ms_to_ticks` and `set_frequency`; **`Timer`** has the
division of ticks, `jiffies` and a task in `sleep_`, which panics while
interrupts are off. Time is counted in hardware ticks.

**`VgaConsole`** is a task in the log's `overflow()` and in `putc_color()`, one
load or store at a time, and handlers that log lines and echo keys in between.
Nothing is locked there, and the variables are neither atomic nor volatile, so
the model allows what a compiler may do with them: keep `cursor_column` or
`cursor_line` in a register, load it again, load the two in either order, or
leave out a store that another overwrites. The history variable `raced` says
that the task had stored a coordinate at the edge and found another value when
it loaded it again for the comparison. `text` is
a history variable: the characters as they would come out on a roll of paper as
wide as the screen (`Feed`), which is what the screen is compared with.

**`ForwardList`** is `forward_list` with `push_after` as its two stores, between
which an interrupt may read the list; it implements **`ForwardListSpec`**, a
sequence. **`UniquePtr`** has pointers to objects and arrays, with self-moves.
**`OutputStream`** has numbers, strings and manipulators, `SnprintfStream` and the
dump of an interrupt frame. **`Backtrace`** walks any contents of the stack.
**`Library`** puts the circular list and `unique_ptr` side by side and
**`LinkedLists`** the free list and `forward_list`, for the proofs and for
`MCLibrary`, which adds the other parts of the library and `Mallocator`.
`MCDrivers` likewise puts `PS2Keyboard` and `Timer` side by side.

Modules named `MC...` extend a module for TLC. Operators marked as mutants
are plausible mistakes in the operator that follows them; with any of them in
its place, TLC finds the property named in `PROJECT.json` violated.

## Runs

| Run | Shows | Bounds |
|---|---|---|
| `page_allocator` | every page has one owner, the map is exact, lists are coalesced, calls return, the specification is implemented | orders 0..2, pages 7..15 managed: the first one is not aligned, and there are blocks of all orders; requests up to 5 pages, one more than the largest block |
| `library` | circular, free and forward list are what their specifications say, objects have one holder, numbers read back, dumps are aligned, the buffer holds a prefix, backtraces end, allocations are disjoint and freed memory returns | five nodes; orders 0..2 with five frames, with buddies, without, and neighbours that are not buddies; three nodes of two values; three pointers, two objects and an array; numbers at both ends of 8 and 16 bits, registers of one, two and eight hexadecimal digits, buffers of 0, 1 and 3 bytes; stacks of three frames with any contents; two slabs, 16-byte pages, requests of 0, 9 and 40 bytes, four held at a time: slabs run full, pages run out, and slabs that are placed badly leave no room for the next |
| `scheduler` | no use of a deleted task, no panic, each pass runs each task once, ready tasks run, finished ones are deleted | scheduler, main and memory for three tasks |
| `drivers` | the screen shows what was typed; the handler returns unless the key is held for pressed; `jiffies` is exact, sleeps end, and early by less than a tick | two printable keys, one with a shifted symbol, two special keys, an unmapped code, a queue of three bytes, two keystrokes; a second of 10 ms, five lengths of sleep, 60 hardware ticks, five to a software tick, counters of 64 values |
| `interrupts` | each interrupt is ended at its chips, sections exclude interrupts, each request is served | handled and unhandled lines of both chips, except line 8 (below); six requests, locks two deep, switches with either flag |
| `ps2_controller` | the keyboards are found and configured, handlers steal no answers, panics are true, initialization ends, bytes are handled | two lines with any of four devices, two configurations left by the firmware, a byte left in the buffer, one fault and one key |
| `console` | the cursor comes back, colours are restored, the screen shows the text | a screen of two by two, six characters: enough to wrap, to scroll and for handlers at every step |

The parts in `library` share no state, nor do the two in `drivers`: the initial
state chooses one of them, and only that one moves.

Five runs show where the code and its own documentation disagree:

- `keyboard_repeat`: a special key that is held until it repeats (left shift)
  keeps `KbdStateMachine::handle_byte` in its loop for ever.
- `interrupts_line8`: line 8 is not ended at the slave (`>` for `>=` at
  `pic_8259.cpp:45`).
- `ps2_wait`: a wait of the controller sleeps before there is a scheduler, and
  need not return. In the other properties of the controller this is the state
  `undefined`, from which nothing more is claimed.
- `timer_divider`: a software tick takes `restart_ + 1` hardware ticks, while a
  comment at `frequency_divider.hpp:28` says `restart_`. `JiffiesCountTicks` says
  what the code does.
- `timer_sleep`: a sleep may end before its time, though `time.hpp:16` says that it
  lasts for "at least specified time": the tick in which it begins counts in
  full. `SleepsToWithinATick` bounds by how much.

Some properties have a condition that the code needs:

- Those of the controller hold if it is `Undisturbed`: no wait ended before the
  answer came, no key was pressed while answers were awaited, and late answers
  and keys do not come together. Otherwise a late answer of one line can pass for
  one of the other, and a scan code for the configuration byte: the protocol has
  no way to tell.
- `ScreenShowsText` holds if no handler prints in the midst of `putc_color()`;
  `ColourIsRestored` needs no such condition.
- `CursorComesBack` holds for handlers at any load and store, unless the task
  loads a coordinate that it has just stored at the edge again to compare it, and
  a handler has moved the cursor in between (`raced`). The comparison with the
  edge is by equality, so the cursor would then stay beyond it. The language
  allows such code; code that compares the register it stored from, which the
  model has as well, is not affected.
- `BacktraceEnds` holds if saved frame pointers do not lead back down the stack:
  the code notices a frame that names itself, and no longer circle.
- `BufferHoldsPrefix` is about buffers of at least one byte.

The bounds are small, but each instance has the boundary cases of its
component: blocks at both ends of the region, lists and slabs that run empty and
full, memory used again, keys whose bytes wait in the queue. `drivers` stays below
the point where `jiffies` wraps around; what happens there is listed as a hazard.
Three models may stop (CHECK_DEADLOCK FALSE): the controller after a panic, an
undefined sleep or the last byte; `library` when a backtrace is over or the
initialization of `kmalloc` panics for want of memory; and `console` when the
text has reached its bound.

## Fairness

Each assumption is weak fairness of steps that nothing in the code can hold up,
unless noted:

- `PageAllocator`: a call in progress continues, as interrupts are off. No call
  need ever be made.
- `Scheduler`: the running context continues, and a task that runs yields, ends or
  creates tasks but does not run for ever without yielding: the kernel's tasks
  are cooperative, and a task that never sleeps or yields stops all others by
  design.
- `PS2Keyboard`: the pending interrupt is taken and the handler's loop continues.
- `PS2Controller`: the boot code continues, and pending interrupts are taken.
  Nothing is assumed of the devices: an answer may stay away.
- `InterruptDelivery`: handlers return, sections end and a switch goes on. Strong
  fairness is assumed of four steps that interrupts or inner sections disable
  again and again: the end of an outermost section, `irq::enable()` in
  `kernel_main` and at the end of a switch, and the acknowledgement of a line
  that is presented.
- `Timer`: the hardware ticks, and the sleeping task is scheduled again, which
  is what `TasksRun` of `Scheduler` shows.
- `Backtrace`: the loop continues.

## Proofs

TLC evaluates every assumption that a proof uses. Each safety theorem is
`Init => Inv`, `Inv /\ [Next]_vars => Inv'` with one step per action, and
`Inv =>` the property.

**`PageAllocatorProofs`**, for every region, `MaxOrder` and bound on requests:
`IInv` is inductive (`InductiveInvariant`), hence `TypeCorrectness`, `OneOwner`
and `MapIsExact`.

    IInv == TypeOK /\ CallState /\ MapMarksLastPages /\ PagesHaveOneOwner

The extents of the free lists, of the block that `put` works on, of a merged pair
on its way up and of the clients partition the managed pages. This is not
inductive alone: `MapMarksLastPages` is needed for `deallocate`, which computes
the size of a block from the map, and `CallState` says which variables are in use
in which phase of a call. Each step renames an extent, splits one in two or joins
two; three lemmas show that this keeps a partition. `ComputeOrderFits` shows that
`compute_order` finds a block that fits and is aligned. Assumptions:
`RegionAssumption` (the region is not empty and has room for the map),
`MaxOrderAssumption`, `MaxRequestAssumption` and `PowersOfTwo`, elementary facts
that the provers do not evaluate.

The second half of the module proves `ListsAlwaysCoalesced` and
`AllocatorImplementsSpec`: the allocator implements `PageAllocatorSpec`, safety
in full. What needs an argument is that `allocate` fails only when it must:

- `BuddyInv`: blocks in the lists are aligned, and a list (but the last) never
  holds both buddies, as `put` would have merged them.
- `AlignedBlocksNest`: aligned blocks are disjoint or nested; `Buddies`: a block
  and its buddy make up an aligned block of the next order.
- `FreeRunIsCovered`: an aligned run of free pages lies in one free block.
  Otherwise take the smallest free block in the run. Its buddy is in the run and
  is free; the block that has it is no smaller, and it cannot be larger, as it
  would contain the first; so the buddy itself is in the same list, which
  `BuddyInv` excludes.

**`InterruptProofs`** is about interrupts and the two drivers that live on them.
`SectionsAlwaysExclude` for any depth of nesting and any flags that switches load
(`SectionsInv`: in a handler nothing is locked, and the copy says enabled unless
the handler came in a switch between `popfl` and `irq::enable()`; a switch begins
without locks; of the held locks only the outermost may enable) and `InterruptsAlwaysEnded` for any
lines without line 8 (`ServiceInv`: what is in service belongs to the vector in
`handle_irq`).

For the timer: `JiffiesAlwaysCountTicks` for all frequencies and dividers
(`CountInv`: time is a multiple of the period plus what the counter has counted),
and `SleepsLongEnough` if the counter does not wrap around (`SleepInv`: a sleep's
end is the tick in which it began plus the ticks of its argument, and it began
before that tick was over). It rests on
`TickOfTime`, which bounds the time by the ticks, and on `MsToTicksRoundsUp`:
`ms_to_ticks` is the product divided by 1000 and rounded up, modulo the width of
its result.

For the keyboard: `AlwaysPrintsWhatWasTyped` and `KeyStatusAlwaysFollows`
for any keys, any length of the queue and any delay of the handler. What the
driver will do with the queue is decided when the bytes are sent: the invariant
says that there is a run, the states of the driver after each byte of the queue,
whose last state agrees with the keyboard unless a byte before it is one that the
handler never returns from. A step of the keyboard appends to the run; a step of
the driver moves along it.

**`LibraryProofs`**: `LinksStayInverse` for any set of nodes (`IInv`: linked nodes
have linked neighbours, and `_some` and the iterator are at linked nodes),
`LinksImplementCircularList`, and `ObjectsAlwaysHaveOneHolder` for any pointers and
objects. For the refinement the links have to make one circle rather than
several, which being inverse does not say: `CircleInv` adds that there is a
sequence without repetition, of all linked nodes, along which the links lead and
at whose end they return to `_some`. The abstraction, once round the circle, is
that sequence (`RoundIsCircle`).

**`LinkedListProofs`**: the two singly linked lists implement their specifications,
for any finite memory.

- `LinksImplementFreeList`, for any order of the list. `FreeInv`: the links lead from
  `list_` through a set of aligned frames from the lowest up (`Chain`), and
  `stats.items` counts them. The set is exactly what the walk along the links
  finds (`ChainIsSane`), whatever stands in frames that are not in the list, so
  `sanity_check()` finds neither a loop nor a wrong count. Each of the places where
  `get` and `put` unlink or link keeps the chain; that the two neighbours of a new
  frame are the only candidates for its buddy follows from the order of the chain
  and the alignment of its frames (`BuddyIs`, `Neighbours`).
- `NodesImplementForwardList`, for any nodes and values. `ForwardInv`: a path leads
  from the dummy node through every live node once and ends in null (`Path`); a call
  in progress stands at a node of the path, a node that is being added is off the
  path until the second store of `push_after`, and what `remove` has passed stays.
  So an interrupt that goes through the list between the two stores meets the
  old sequence, and after them the new one.

`LinkedListsAssumption`: frames are not page 0, there are finitely many frames and
nodes, and the dummy node and null are not nodes. Both invariants say that a
chain or a path *exists*; that a walk of a given length exists at all, and what a
walk meets, is shown by taking the least counterexample (`LeastExists`).

**`MallocatorProofs`**: `AllocationsAlwaysDisjoint` and `FreedMemoryAlwaysReturns`
for any number and size of slabs, any page size and any requests. The blocks of
the page allocator are disjoint (`BlocksInv`), each slab has one of them
(`SlabsInv`), and each allocation is a chunk of a slab that the slab's map does
not have, or a block that is no slab's (`HeldInv`); the converse, that each such
chunk and block is held, is `ReturnInv`. An address then has one owner only, which
is the one that `kfree` finds. `HeapAssumption` asks that the memory of each
slab of the chain has room for an element, as the kernel's does (1 MiB each, see
`memory.cpp:119`).

**`SchedulerProofs`**: `NoTaskDangles`, `SchedulerNeverPanics`,
`EachTaskRunsOncePerPass` and the action property `FinishedTasksAreLeft` for any
finite set of tasks. The scheduler's own task stays at the head of the list
(`ListInv`), so that new tasks are linked behind it and hence before the iterator:
the unfinished tasks from the iterator on are those that the pass still owes a
run (`PassInv`). `ContextInv` says where each context resumes and where interrupts
are on, from which no check of the flag fails.

**`PS2ControllerProofs`**: `ProbeAlwaysFindsKeyboards`, `AlwaysConfiguredAsProbed`,
`AnswersAreNeverStolen` and `PanicAlwaysMeansFailedSelfTest`, for any devices on the two
lines, any configuration and bytes that the firmware left, any timeouts and any
number of faults and keys. All four follow from one inductive invariant
(`ControllerInvariant`):

    IInv == TypeOK /\ Calls /\ (Undisturbed => HwInv(hw, presses) /\ Stage)

`Stage` says for each label of the program counter what the driver has reached and
what is under way to it: which clocks and interrupts are on, which lines have
been probed and with which result, and that the bytes in the output buffer and
those still to come are exactly the answer to the last command (`Expects`) or
none (`NoAnswers`). The properties need all of it: that a probe tells a keyboard
from another device depends on no byte of an earlier command being left when it
begins, back to the flush after the lines were disabled. `PS2Assumption` has the
types of the constants.

**`VgaConsoleProofs`**, for screens of any size and texts of any length:
`CursorAlwaysComesBack` (`CursorInv`: unless `raced`, how far each coordinate, and
the register that it was loaded into, may be beyond the edge depends on the
stores that the task has yet to do), `ColourAlwaysRestored`
(`ColourInv`: what each stream has saved, by where it is in a line) and
`ScreenAlwaysShowsText`. For the last, `Shown` relates cursor and screen to the
paper, and the whole of `putc_color()` keeps it (`PutShows`); while the task is
inside `putc_color()`, `ScreenInv` says that `Shown` holds of the screen as its
remaining stores will leave it.

Only model-checked:

- liveness (`CallsReturn`, `TasksRun`, `FinishedTasksAreDeleted`,
  `HandlerReturnsUnlessPressed`, `RequestsAreServed`, `SleepsEnd`,
  `InitializationEnds`, `BytesAreHandled`, `BacktraceEnds`), which is beyond this
  prover;
- what the stream prints (`NumbersReadBack`, `DumpsAreAligned`,
  `BufferHoldsPrefix`): `show_numerical_value` builds the digits with a recursive
  function, and what such a function computes for every number needs induction
  over data, which the installed provers cannot do.

## Not modelled

- **Serial port**: a busy wait and a write, without state in the kernel. A handler
  between the two can lose a character (listed as a hazard).
- **Descriptor tables**: built once at boot from constants; encoders of bit
  fields and single instructions, with nothing that interleaves.
- **Boot information, global constructors, guards of local statics**: they run
  once before anything else does. The end of the region that `memory.cpp` computes
  is a parameter.
- **On-start tests**: tests, not part of the kernel's function.
- **`optional`, `fixed_size_vector`, `string`, algorithms, type traits**: sequential
  or type-level code without shared state. `register_driver` drops a driver beyond
  the tenth silently; the kernel registers one.
- **Failure of `operator new` and `alloc_pages`** outside `Mallocator` itself: the
  code does not handle it. `forward_list` tests the result of an array `new`, which
  is never null as the array has a cookie in front; `Task` does not test for a null
  stack. `Scheduler` creates a task only while there is memory for one, and
  `ForwardList` a node likewise. `Scheduler` also follows the early return that the
  source has for a null node: `handle_exit` may leave its task off the list of
  finished ones.
- **Arithmetic overflow of sizes** close to 4 GiB in `kmalloc`.
