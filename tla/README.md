# jNix: TLA+ models, checks and proofs

This directory models the core of jNix, a hobby x86_64 kernel, in TLA+. The
modules are translated from the C++ sources under `kernel/` and `include/`;
TLC checks them on small instances and TLAPS proves theorems about them for
every value of the constants. `PROJECT.json` lists the runs, the source lines
behind every definition, the mutants each property was tested with, the
disagreements found between the code and its comments, and the hazards.

Below, `A/` stands for `kernel/arch/x86_64/`.

## 1. The system

The kernel runs on one processor. `kmain` (`A/kernel.cpp`) initialises, in this
order: frame buffer, GDT (which enables interrupts), memory map, paging and
heap, drivers' objects, IDT and PIC, VFS, drivers, initrd, scheduler; then it
enters the monitor, a command loop that never ends. Everything the kernel does
is done either by this one thread or by an interrupt handler. All gates are
interrupt gates, so handlers do not interrupt each other; nothing keeps a
handler from running in the middle of any kernel function. There are no locks
(`libk/sync/spinlock.cpp` is commented out). The build is `-O0`, so every
access to memory in the source is one in the program.

| Component | State | Operations | Talks to |
|---|---|---|---|
| Frame allocator, `A/memory/framealloc.cpp` | bitmap of frames | construct; allocate one frame or a run; free | called by the address space and the heap |
| Address space, `A/memory/addrspace.cpp`, `vmm.cpp` | page tables, 4 levels | bootstrap, map, unmap, look up | takes frames for tables |
| Memory map, `A/memory/memmap.cpp` | regions by type, byte counts | collect the boot loader's map | read by the frame allocator and the address space |
| Heap, `A/memory/allocation.cpp` | ring of slab headers | allocate, plain and aligned; free with merging | takes runs of frames, maps them; behind `new` and `delete` everywhere, interrupt handlers included |
| `vector`, `node`, `libcxx/` | doubly linked list, length | push, pop, delete, index, iterate | used by all that follows |
| Keyboard, `A/drivers/ps2.cpp` | shift state, `stdin` | interrupt handler appends a character | allocates in the handler; `getch` consumes |
| PS/2 controller set-up, `A/drivers/ps2.cpp` | ports found, configuration | tests, identification, polling | hardware |
| PIT and sleep, `A/drivers/pit.cpp`, `libk/time.cpp` | tick count, callbacks | tick; register a callback; sleep | calls the scheduler and the RTC from the interrupt |
| RTC, `A/drivers/rtc.cpp` | date and time | refresh on tick | read by the monitor |
| Scheduler, `kernel/scheduler/scheduler.cpp`, processes | queue, current process, ticks left, pids | tick, add, remove | tick comes from the PIT |
| Interrupts, `A/irq.cpp`, `A/idt.cpp` | gates, handlers, masks | install, mask, unmask, dispatch | all drivers |
| VFS, `A/vfs/vfs.cpp` | tree of vnodes, open descriptors | mount, open, close, read, write, seek | file system drivers |
| Initrd, `A/drivers/initrd.cpp` | tar headers in memory | scan, create, write, read, remove | VFS |
| Devices and drivers, `A/devices.cpp`, `A/drivers/drivers.cpp` | registries | add, look up | boot |
| Monitor, `libk/monitor.cpp` | commands | read a line, split, dispatch | everything above |
| ELF, C library, `String`, `ptr_t`, frame buffer | - | parsing, formatting, output | - |

### What is hard about it

* **Interrupts against the thread.** The keyboard handler allocates memory and
  appends to a list the thread is taking from; the tick handler walks the
  process queue. Both can hit any point of the thread's own calls.
* **Growth.** The heap's pages and the page tables come from one allocator, so
  pages that follow each other in the heap's list need not adjoin in memory.
* **Boundaries.** The contiguous frame search walks over byte boundaries of its
  bitmap with an off-by-one, and reads one bit more than it needs.
* **Long sequences.** Splitting, appending and merging slabs in any order;
  descriptors and files that are created, extended, removed and still referred
  to.
* **Polling** of hardware without a bound, and of a length an interrupt changes.

### What makes each component correct

* Frame allocator: no frame has two holders; only usable memory is handed out,
  never the bitmap; the bitmap agrees with the holders; it gives up only when it
  must.
* Heap: blocks of different clients are disjoint and contain no header; blocks
  lie in memory the heap was given; freeing loses no bytes; a held block is not
  affected by others; aligned blocks are aligned.
* Address space: two mappings share a table entry only if they are the same
  page; what was mapped is found; tables come from frames nobody else uses.
* Keyboard: every code of a key gives one character, once and in order; the character
  set is that of the shift keys; the consumer waits exactly while there is nothing.
* Scheduler: every process in the queue gets its turn; a removed process never
  runs; pids are unique.
* Interrupts: no interrupt is delivered to a gate or handler that is not there;
  masking one line leaves the others; the timer and the keyboard go on being
  served.
* PS/2: a port left enabled has a device that sends; devices are told apart;
  the boot comes to an end.
* Time: the clock's fields belong together; a sleep is long enough and ends.
* VFS and initrd: what is read is what was written there; what lookup finds under a path is
  the first entry of that name; a command gives its descriptors back.

## 2. What is modelled

### FramePool, FrameAlloc: physical memory

`FramePool` is the promise: an allocation is a run of frames nobody held, and
nothing else changes. `FrameAlloc` is the bitmap allocator. `used` is the bitmap
as the set of its set bits, together with a few bits of the memory behind it,
which the search can read; `live` records what clients hold; `oom` the call that
ended in the panic. Frame numbers and bit numbers are the same. The constructor
is `Init`, including the region it picks for the bitmap (the last that fits)
and the one frame too many it reserves for it. `Walk` is the increment of
`find_contiguous_frames` that gives each byte nine positions (0 to 8), where
position 8 always reads as free; `StartsRun` the test of `num` positions behind
the first. The four operations are atomic.

### SlabHeap: the kernel heap

`slab` is the memory of the slab headers, address by address, with the fields
of `slab_t`; the permission bits are left out, being the same in all slabs of
the kernel. `Kallocate` is the unaligned path (first fit, split, or growth),
`KallocateBehindTail` and `KallocateNewPages` the two aligned ones, `Kfree`
merges forward, then backward. The frames come from a bump pointer
`nextFrame`: once the kernel has booted, with one usable region, the frames
that are free are the upper part of that region, and neither the heap nor the
address space ever frees one. `TablesMissing` counts the page tables that
`create_page_table_entry` allocates for the (low) address it maps: they come
out of the same frames, right behind the pages. `blocks` is what clients hold.

The heap takes list neighbours for neighbours in memory, which they are not when page
tables lie in between. A header cut from the end of the tail gets the size of the new
pages although its data begins where the tail ends, so that the block reaches into the
tables; and `kfree` adds up the sizes of two slabs with a gap between them. `apart` records
that one of these has happened: from then on the slabs no longer cover just the heap's
pages (`PagesCovered`). That they stay in order and clear of each other, and
aligned blocks aligned, does not depend on it.

`uallocate` is not modelled: its list head is never set, so that its first call
dereferences `nullptr`.

### Stdin: the keyboard and getch

The vector behind `Streams::stdin()` with its nodes in memory, the keyboard's
interrupt handler as one action (`ShiftIrq`, `CharIrq`), and `getch` with
`pop_head`, `~node` and `size--` as one action per access to shared memory; `pc`
names the point. The handler runs at any of them. `raced` becomes true once it
has appended a character anywhere but in the wait: two properties hold only until
then, which shows that nothing but the interrupt is at fault when they do not.

The keyboard is `Press`, `Repeat` and `Release` of keys with a character, and the codes of
shift keys. Each press has a number: `typed` counts the characters that went in, `press` says
from which press each came, `fresh` which of them are of a press's first code, and `got` what
`getch` returned. The comment at ps2.cpp:516 reports double characters. The model shows where they
can come from: the handler appends a character for every code, so a key that is held and repeats
gives it again, and so does a release when the controller does not translate (`translated`), because
a break code is then `F0` and the same code. The stream itself never returns an append twice, whatever the
interrupt breaks (`GotInOrder`). `held` are the shift keys really down. With two of them, one flag
cannot be right: the release of one clears it for the other. `both` records that this can
be the case, and `UpperIffShifted` says that it errs in no other, and never the other way. Not modelled are
the shift codes some keyboards send around those of the arrow keys, a shift key that was held
since before the boot, and the tables from codes to characters.

A null head is a page fault and ends in the kernel's panic. The heap is taken
to be correct here, and it may reuse a freed node at once.

### Files: descriptors and the initrd driver

`open_fds` and `size` are the VFS's descriptors and the sizes in the inodes,
`headers` the driver's vector: name, inode number, the digits of the size field,
who allocated it, and the data behind it in whole blocks. `Write` follows the
driver: within the file in place (`WriteInPlace`), otherwise remove, create and
copy (`WriteExtending`). Numbers in headers are modelled by what is done to them:
`ToOctal` writes its digits at the left of the field, `ParseSize` counts every
byte of the field as a digit. A name that was read from a deleted header is
either still there or overwritten (`NameLeft`); if it is overwritten, and so has
become equal to another file's, `remove` can take the wrong header, which `mixed_up`
records. So it can when two entries of the archive have come to one name. A copy that runs over the end of its memory ends the model
("overrun"), and so do the pointer `lookup` does not return for a missing path
("wild pointer") and the halt when no descriptor number is left. `content` is
what the files should contain: each write puts its bytes at the position of its
descriptor.

`Names` are the names in the headers of the archive, anything that can be compared: numbers in
the run of this module, which begins with the mounted archive. How it gets there is `Mount`.

### Mount, Monitor: from the archive to the commands

`Mount` EXTENDS `Files` with the thread's way through `VFS::init`, the driver's
`install` (the boot loader gives no module, a module that is not it, or the
archive), `read_header`'s walk from block to block (`at`, `BlocksOf`), and
`mount`, one entry at a time: `children` and `vname` are the vnodes' tree, `lookup`
walks it by the pieces of a path. The image is what tar writes: `Ends` is where each
entry's blocks end, `ImageBlock` what is at a place of it, and the walk knows only the
sizes it parses. `Tokens` splits a path, or a line, as the code does, character by
character, with the piece begun so far; `Walk` goes down the tree piece by piece. Both are
recursive functions of a position. An entry without contents is a directory for
the driver and loses the last character of its name, which in tar is a slash for
directories only, in the header as well (`Names`). Two entries can come to one name this way, and so
hide each other: `FirstCalled` is the one that is found, and `mount` itself adds what is in
a hidden directory to what it finds in its place. Paths are sequences of characters
here, as short as will do.

`Monitor` EXTENDS `Mount` with the command loop: `Enter` is a line and its splitting
(an empty one, or one of spaces whose empty vector is popped), then one action for
each call a command makes of the VFS, with early returns and the descriptor each
path leaves open. `readelf` and `symbols` go through the ELF reader: what it reads of
its file, and the destructor that closes it; an executable's tables are as they should
be, those of any other file are anything. `shown` is what `read` and `ropen` have
printed. Commands that only print are one step (`JustPrints`).

### Interrupts, Devices, Ps2, Boot: the boot sequence

`Interrupts` has the state of the two PICs (masks, requests, service bits) and of
the kernel's gates and handlers, with the routines that change them as
operators; `Devices` the drivers and the device tree. `Ps2` is the driver's `install`
as a state machine over the controller: `output` is the queue of bytes behind
the output buffer, each with the port it came from; a read with nothing there
gives the last byte again. Every read, and every place where the driver gives up
waiting, is a step of its own, so that answers can come late, and to the wrong question.
The second half of the routines is the first for the other port and shares its
operators, with a condition on the port where the code differs. A byte for the second port
goes behind the prefix `D4`, and the wait in between has a bound: `writeb_device2` then fails with the
prefix sent, and the next byte for the first port goes to the second one (`prefix`). `reset_port2` does
not look, so this byte is the one the detection begins with. A `board` says what the hardware is. Its controller can
forget its configuration in the self test, and also in the resets and the detection,
as a comment of `install` suspects (ps2.cpp:351). The driver does not look: what it turned
on stays off, so `PortsWork` is stated of controllers that keep their configuration
(`KeepsConfig`). `DevicesFound` needs no such premise.

`Boot` composes them: `kmain`'s calls in their order, with `Interrupt(irq)` at any point
at which the PIC can deliver, `Switch` for drivers that are disabled and enabled
once the monitor runs (`driver_t` has these operations, and nothing calls `disable` so far), and `HardwareStep` for timer, clock, keyboard and mouse.
`pc` is the stage of the boot and the step within it.

### Scheduler

The state is `cur_process`, the ticks left, the queue and its length, the processes'
states, pids and priorities. `Tick` is the whole of `sched_on_tick`; `add_proccess`
and `remove_process` are one action per store that the tick can see (`Link`,
`Count`, `Run`, `Pause`; `Unlink`, `Uncount`, `RemovePid`). A walk of the list by the tick sees
the node either linked or not, so the queue is a sequence, with a length that
lags behind. The tick can make a process the current one before `add_proccess` comes to its `Pause`:
it then spends its turn paused, which `overtaken` records. `fault` is the null dereference at the
end of the queue, the one in `remove_process` of a pid that nobody has (`StopUnknown`), or what
`Ps` does: the copy of the queue that the monitor's `ps` makes shares the nodes, and
its destructor deletes them. Execution is not implemented in the kernel, so that a
process is its states.

### Clock

The timer and the real time clock are two hardware clocks that drift against each other; `Tick`
counts and, on the callback's divisor, runs `update_time`. The registers are BCD
and are decoded. The timer's request line holds one request: ticks can be lost.
`Sleep`, `Wake` and `Return` are the busy wait; `Get` reads one field for the clock command,
in the order the build evaluates the arguments of the call.

### PageMap, AddrSpace: virtual memory

`PageMap` is the promise: a map from pages to frames that only grows. `AddrSpace` is
`init_memmap` (regions by type, of which the last entry of a type wins), the frame
bitmap (through `FrameAlloc`'s operators), and `bootstrap` as one `map_page` after the
other, with the four levels of tables in frames of their own (`dir`); without a free frame for one, the
frame allocator halts the kernel. Then the heap's
pages, with physical and virtual address swapped as `create_page_table_entry` passes
them. `Translate` is what the processor computes.

## 3. Runs

| Run | Question | Result |
|---|---|---|
| `FrameAlloc` | two usable regions, requests of 1, 3 and 9 frames across byte boundaries of the bitmap: do holders, bitmap and abstract pool agree, and are panics justified up to one frame? | holds |
| `FrameAlloc_ten` | requests of 10 frames: only usable memory? | **violated**: the walk passes two ninth positions, so it tests only eight of the nine frames behind the first |
| `SlabHeap` | plain and aligned requests, frees, growth, out of memory: is the list in order, are blocks apart, backed and aligned, do slabs cover the heap's pages and nothing else, is merging complete? | holds; the coverage as long as no slabs have been joined that do not adjoin |
| `Stdin` | interrupts anywhere in `getch`: is a character returned twice or out of order, a press twice without its code being sent again? Unless `pop_head` is hit: is the list exact, is every character returned? Is upper case the shift keys' with two of them? | holds; the character set as long as the two were not down together |
| `Stdin_fault` | does `pop_head` find a node after the wait? | **violated**: length 1 and no head |
| `Files` | two descriptors on two files, extended several times: are positions within the files, the files intact and never shorter? | holds; the contents as long as `remove` has not taken a wrong header |
| `Boot` | seven machines, interrupts at every step, bytes that time out behind their prefix, controllers that forget: is no open line without gate and handler, do flags agree with masks, do ports and devices end as the hardware is, does the boot end, are timer and keyboard served? | holds, with the exceptions the properties name: a line of the second PIC masked, a reset given up, a late answer, a configuration forgotten after it was set |
| `Scheduler` | ticks between the stores of add and remove: one process running, states as the turns are, pids neither shared nor lost, every process dispatched, a removed one let go? | holds, unless the kernel panics; a process chosen before `add_proccess` paused it is paused in its turn |
| `Scheduler_wrap` | does the first process follow the last, as the comment says? | **violated**: the walk follows the null pointer behind the list |
| `Clock` | ticks, lost ticks and seconds in any order: do the fields belong together, is a sleep long enough, does it end, does the shown time never go back? | holds |
| `AddrSpace` | from the memory map to the tables in force and the heap's growth until memory is used up: is what the kernel touches mapped where it expects it, and is no page mapped twice? | holds |
| `Monitor` | from `VFS::init` through mounting to any sequence of 59 kinds of lines: does every path lead to the first entry of its name, does every command give its descriptor back, is what is shown what was written? | holds, as long as `remove` has not taken a wrong header |

A violated run checks one property that a comment of the code states; the
finding in `PROJECT.json` quotes it.

Conditions such as "unless `pop_head` is hit" are variables of the models
(`apart`, `raced`, `both`, `mixed_up`, `exhausted`, `overtaken`, `fault`, `crossed`, `skipped`, `late`) that only
record that a step the code gets wrong has been taken. The properties say that
nothing else goes wrong, and until then nothing does.

### Bounds

* `FrameAlloc`: 20 to 24 frames and 8 bits to a byte as in the code. This gives
  three bytes of bitmap, and runs that start and end at every position of
  a byte and cross one or two boundaries; nine frames are the longest run for
  which the search is sound, ten the shortest for which it is not. In `FrameAlloc` a frame holds
  3 bytes of bitmap, so that the bitmap fills one frame and the constructor
  reserves the next as well; in `FrameAlloc_ten` it holds 4, and one is reserved. One bit behind
  the bitmap is all a search can read.
* `SlabHeap`: headers of 2 bytes in pages of 8, requests of 2 bytes and of 9, more
  than a page; eight frames for pages and tables, page tables of 4
  entries. With these, splits leave nothing, too little for a header, or a
  slab; the list reaches nine slabs; growth needs new tables or none, and its pages adjoin
  the tail or do not; slabs of different pages merge; and memory runs out.
* `Stdin`: three nodes and three characters: more than one pop removes, so that
  interrupts meet lists of every length and freed nodes are used again, and a
  single pop can be hit by several. Two keys with a character, so that another can come between
  a press and its repeat, and two shift keys, which one flag cannot tell apart. The controller
  translates codes or does not. For the violation one key is enough.
* `Files`: two files of one byte and a directory, blocks of two bytes, files of
  up to five: each can be extended three times, which it takes for two files to
  end up with one name and for a third write to meet them, and a copy can run
  over its block. Two descriptors are on the same file or on two, and a third
  open halts. Size fields of three digits in 10-bit words relate as the eleven
  digits to 64 bits: the number a left-aligned size is parsed to wraps around.
  The largest offset is -1. Bytes written are all alike, but differ from those in
  the archive.
* `Boot`: devices on both ports, on either, on none; a port whose test fails, a
  controller whose self test fails, one that forgets its configuration in it, one that does so in the
  resets and the detection, one of a single channel. One key, pressed at any time of the boot or after it, is enough to
  come between any two reads of the driver. Two switches of drivers: a line can be
  masked and unmasked again, or two different ones masked.
* `Scheduler`: three processes and two pids, so that pids run out; slices of 2, 1 and
  0 ticks instead of the code's numbers, which only scale; two removals.
* `Clock`: four seconds around the end of a year, where every field changes; seven
  ticks to a second with one more or fewer for drift, and a divisor of three, so that
  updates fall everywhere in a second, its announcement included. One lost tick a
  second. Sleeps of none, of one tick, and of a whole second, which is what the monitor's test of
  `sleep` asks for.
* `AddrSpace`: tables of four entries on the code's four levels; 46 frames of memory with a
  hole, the kernel's entry with a module below it, and a frame buffer behind a
  gap; requests of one and two pages until memory ends.
* `Monitor`: an archive of seven entries: a directory, an executable of exactly one
  block, a file of a broken block, and a directory in the directory with another; a file without contents that
  comes to the name of this directory and hides it, and one that comes to the name of the
  file and is hidden by it. Lines are of every command, on files, directories, the root and
  missing paths, with counts in and outside the file, and below zero (from characters below
  '0': `atoi` skips a minus sign without applying it), and a line of spaces. A third open descriptor would halt; none is lost, so none does.

### Fairness

* `Stdin`: weak fairness of `Getch` as a whole. The processor executes the thread whenever
  it is not in a handler, and the handler takes bounded time. Nothing is assumed
  of the keyboard.
* `Boot`: the thread; the keyboard controller, which raises its line as long
  as there is a byte; and lines 0 and 1 as long as they can be delivered. Handlers
  run to their end and are short of a tick, so neither line keeps the
  other or the thread from its turn. Nothing is assumed of devices: the driver gives up on
  those. The controller itself is taken to accept and answer every command.
* `Scheduler`: the timer ticks, and the thread finishes an operation it has begun. It need
  not begin another.
* `Clock`: both clocks run, the tick's interrupt is served, the thread goes on.

### What is assumed of the surroundings

The boot loader starts the kernel with both PICs masked, gives a sorted map, and puts
the module below the kernel in the memory it loads both to. The firmware has not turned on the second
port's interrupts. A mouse is silent until it is told to report. The real time clock is set to
BCD and 24 hours. The compiler evaluates the arguments of a call from the right and, without
optimisation, a function that ends without a return statement returns what is in the register: this is
a choice over the possible values, or the end of the model.

`FilesAssumption`: sizes fit the field of a header, the field has at least three digits,
and what fits it fits a word. The code has 11 digits and 64 bits; files end at 8^11 bytes.
`MountAssumption`: the archive is one that tar makes: directories are listed before
what is in them, names do not begin with a slash and have no two in a row. They may come to be the same when
`mount` has cut them. Left out is a file without contents whose name, or the last piece of its path, is a single
character: nothing is left of that piece, so that `mount` takes the one before for the vnode's name, or looks for the last of no pieces. `MonitorAssumption`: the executables
are entries of the archive, and a line is shorter than 2^64.

Usable memory, the boot loader's own and the frame buffer lie below the kernel's image as it is linked, and
in the direct map (`AddressAssumption`): Limine puts the direct map into the middle of the address
space and the kernel into its top two GiB. `MemmapAssumption`: the map of memory has one frame buffer and
one to seven usable regions. Seven is the size of the array the kernel keeps them in (memmap.cpp:42), which it fills
without looking (memmap.cpp:52); with none the frame allocator panics.

`ClockAssumption`: between two seconds there is time for an update, after the ticks that are lost. The code
registers `update_time` for every 100th tick of 1000 a second (rtc.cpp:57), although what it logs just before (rtc.cpp:54)
is a tick 1000; with that divisor the assumption would fail. Sleeps have any length.

## 4. Proofs

`FrameAllocProofs`, `SlabHeapProofs`, `FilesProofs`, `SchedulerProofs`, `StdinProofs`,
`ClockProofs`, `AddrSpaceProofs` and `BootProofs` hold for all values of the constants
that satisfy the assumptions in the modules. All follow one pattern: an invariant
that is inductive, lemmas that each operation preserves it, and theorems that
read the properties off it.

* **FrameAlloc.** Type correctness needs nothing else. That allocations are
  disjoint needs requests of at most nine frames: then the walk of `num`
  positions passes at most one ninth position, so it covers the `num - 1` frames
  that follow the first (`WalkStaysNear`, `WalkMeetsFrame`, `StartsRunIsFree`).
  The inductive invariant says that every held frame has its bit set. That only
  usable memory is handed out needs, in addition, that the last frame of the
  bitmap is not usable: a run that starts near the end is otherwise checked
  against memory behind the bitmap. `NoEarlyPanic` needs no bound: whatever
  the walk tests lies within one frame behind the run (`OneFrameToSpare`).
  `ImplementsFramePool` is the refinement, step by step.
* **SlabHeap.** `HeapInv` says that the links stay within the list, that `next`
  ascends through all slabs and `previous` inverts it, that slabs do not
  overlap, that all of them end below the next free frame, and that each block
  has its slab, in use and large enough. Order over *all* slabs, and not just
  neighbours, is what makes it inductive: it is needed to see that a slab
  appended or carved stays between its neighbours. Each of the functions that
  rewrite the list (`Inserted`, `Marked`, `Merged`) has a lemma that it
  preserves order and never touches a slab in use; each operation composes
  them. Disjointness of the blocks follows from the order.

  Three more results stand on it. Alignment (`AlignedInv`): the tail that a block is
  cut from can have any history, but the gap behind a slab is always a number of whole pages,
  so the tail ends at a page boundary (`InsertedGaps`, `MergedGaps`). Merging
  (`MergingStaysComplete`): a slab that is freed makes at most two new pairs of free
  neighbours, one with each free neighbour, and each merge removes one
  (`MarkedPairs`, `MergedPairs`), so that a free adds none. That there are none is not so: aligned
  growth leaves some, and they stay. Coverage (`CoverInv`): splitting moves bytes from
  one slab to another, growing adds those of the new pages, and merging keeps all of
  them if the slabs adjoin (`SplitCover`, `AppendedCover`, `MergedCover`).
* **Files.** `PositionInv` adds the types of descriptors and sizes to
  `PositionWithinFile`. It is inductive without a word about the headers, because
  a read returns at most what was asked for and `seek` of the descriptor stops at the
  size. That a write never shortens a file then follows: the difference of size
  and position is its own remainder (`SmallMod`, `ExtendsMeansLonger`).
  Numbers are distinct because the search for a free one sees every open descriptor.

  `FilesStayIntact` stands on it: `IntactInv` says that every inode has exactly one header,
  so that the first one with its number is the one, that its data begin with what should
  be in the file, and that its size field is parsed to no less than that. A write in
  place changes one header (`ChangedHolds`, `ReplacedHeld`). One that extends the file drops
  a header and appends another, with the old data below the new (`MovedHolds`,
  `RenewedHeld`); as the position is within the file, the two leave no gap.

  `SizesReadBack` says what a size becomes on its way through a header, for any number of digits.
  `parse_size` adds up digits times powers of eight (`Weight`), so what it has after the
  last k bytes of a field from tar is the size's remainder by 8^k (`NextDigit`, `PaddedReads`). `to_octal` writes its
  k digits from the left, and the d zero bytes behind them count as -48 each: n becomes
  8^d * (n - 48/7) + 48/7 (`LeftAligned`). From 7 on that is at least n and at most 8^(k+d);
  below 7 it is negative and wraps around to what is near 2^64. It is never less than n. Two
  digits would be too few: a 6 with one zero byte behind it is read as 0.
* **Mount.** `TreeInv` follows the boot: while the headers are read, the place of the next one is where
  the next entry starts (`EndsGrow`, `EntryBlock`), because the size tar wrote is read back; while they are
  mounted, the ones still to do are the last ones, and the ones done are in the tree, each in its `Home`, the
  first entry called as its directory, in the order of the archive, and nothing else is there (`Built`). The mounted root stays
  as it is after that. Names need not differ. What makes this inductive is that directories come first, so that the vnode
  `mount` looks up by an entry's path without its last piece is there (`FolderFound`), that a path is determined by
  directory and name (`NamesAgree`), and that children stand in the order of the archive, so that the first child with
  a name is the first entry called so (`FirstChild`, `BuiltIsFound`). Splitting is about characters: one piece more behind a slash, nothing
  for a slash at the front or the end (`TakenBehindDelim`, `TokensLast`, `TokensTrailing`).
* **Monitor.** `CommandInv` says, as long as no copy has overrun and `remove` has not taken a wrong
  header, that the files are as `IntactInv` has them, that a descriptor is open exactly while a command
  works with it, and that it is the one the command was given (`OneDescriptor`); that a word of the line
  is no longer than a call can write (`TokensType`); and that what was shown is the file's. A write
  changes its file, but by then `shown` is of an earlier command: each one that starts
  forgets it (`EnterKeeps`). `WriteFails` is shown never to happen in a command: each
  writes to a descriptor it has opened on a file with a header (`NoWriteError`).

  What recursive functions compute needs induction, and the library's theorem takes the statement as an
  operator parameter. The proofs take the least number of which a statement is false instead
  (`LeastOf`, from `WFMin`), and get the functions themselves by the lemma `Recursion`: functions on
  0 .. n that satisfy the equation exist for each n unless there is a least n without one.
* **Scheduler.** `IInv` adds to the properties where the thread's process is at each of
  its steps (`Whereabouts`: in the queue from `Link` on, out of it from `Unlink` on),
  that no process is queued twice, and by how much the length lags. None of the
  properties is inductive without it: a tick resumes what it finds in the
  queue, so that `OneRunning` needs those others to be `PAUSED`
  (`OthersFollow`), and that in turn needs the one being added to be the
  exception. Between two operations it is `StatesFollowTurns`, with `overtaken` for the process whose `Pause` came too late. For pids, `PidsOwned` says that the taken ones and the owners,
  which include the process on its way in or out, are in bijection as long as
  there were enough. What linking and unlinking do to the queue are lemmas
  (`LinkQueue`, `UnlinkQueue`), as are the steps that disturb more than one conjunct.
* **Stdin.** `OrderInv` says that the characters ascend along the list and that what
  `getch` returned, holds in its hands and will find come in this order
  (`LinksAscend`, `Later`), at each of the accesses of `pop_head`. The interrupt can break the list: it can be
  left with a tail and no head. The links are claimed until then, and this state (`Doomed`)
  is shown to lead nowhere but to the fault. `ExactInv` is the stronger statement until `pop_head` is
  hit: a chain of as many nodes as are waiting, and what `pop_head` has read of it so far still true.
  That a press comes twice only if its code was sent again is `PressInv`: the first character of a press
  is of a later one than all before it. `UpperIffShifted` holds for any number of shift keys: a release that
  leaves another key down comes after both were (`ShiftInv`).
* **Clock.** `RecentInv`: the fields are those of the second, or of the one before it, and then fewer
  ticks of this second were served than the callback's divisor takes; the announcement of
  the update keeps the tick from reading in its middle. `SleepInv` counts the ticks a sleep still waits
  for, with the one that may be pending. `ShownInv`: the fields read so far, completed by those still to
  be read, are not before the time it was when the command began, although ticks replace
  them in between. `ClockAssumption` says that each second of the model's calendar comes after the one before,
  and that a second has more ticks than are lost, drift away or pass between two updates; a sleep may take many
  seconds.
* **AddrSpace.** The four levels of tables are shown to be a map of pages by way of the
  digits of an address: `Tree` says that entries lead to tables of the level below
  and no two entries to the same table. `map_page` is a descent in which each step finds or
  adds a table (`DescendStep`, `TableAdded`), and an entry that is written
  (`EntryWritten`). That nothing is mapped over follows from where the kernel maps what: a
  page has one frame that is meant for it, whoever maps it (`Target`, `Mapped`). `Through`
  says how far `bootstrap` has come, for `KernelReachable`. The size of the frames' bitmap is a sum over the regions
  and enters through `AddressAssumption`.
* **Boot.** `BootInv` relates the stage of the boot to masks, gates, handlers and
  requests. Lines 0 and 1 are the only ones ever requested: the mouse's is masked, or
  its interrupt not yet turned on while `init_pic` has the masks cleared. Each driver
  installs its handler before it unmasks its line, and in the monitor flags and masks change
  together, until a line of the second PIC is masked, which the code does in the first one's mask.
  The third theorem says what a boot can panic for: the name of a device that was never given one.

  `EnabledPortsWork` stands on `PortsInv`, which counts acknowledgements. No byte says
  which port it comes from, so that those of the first device can be taken for the second one's.
  But a port stays enabled only if one is read after each of the reset, `stop` and `identify`,
  and without a device behind it there are too few. Up to the resets nothing can be read that looks like one (`Quiet`), a device
  answers a reset with one of them (`ResetReply`), and where a port is not heard, the reads that
  keep it enabled use them up (`Resets`, `Detection`). What is late from the first device
  deceives the second port's reset only if the first port was disabled, and nothing is
  sent to it any more, as the controller keeps its configuration (`KeepsConfig`): no further acknowledgement comes to deceive the detection. Reading never makes an
  acknowledgement more (`BytesRead`), and neither do the keys that come in between (`ItemAdded`).

  `DevicesAreFound` needs the bytes themselves. `DevicesInv` says what waits at each stage and
  what was read last, as long as the answers come in time and no key is pressed: an answer asked for
  (`Waiting`), behind bytes nobody asked for, which are all of one kind. Up to the
  detection these are the zeros with which mice end a reset, later the acknowledgements
  of the first device's `start`. A poll for `FA` gets past zeros to the answer (`PollFinds`); past acknowledgements
  it takes one that is not its own, and each later read finds one too many (`PollsFirst`, `PollsAgain`), until
  the loop that reads the identity skips all of them (`Identified`). That a poll may read nothing new
  and be content with the byte it read before is part of the argument. None of this
  depends on which device has heard: a byte that went astray behind a prefix, or to a port whose clock was stopped,
  is one answer that does not come, or one more acknowledgement that nobody asked for. `ControllerInv` says how long
  a prefix is pending.

All safety properties of the runs that hold, and all of their action properties, are theorems. Model-checked
only is liveness, as fairness and `ENABLED` are beyond the prover: `EveryKeyReturned`, `BootEnds`,
`TimerServed`, `KeyServed`, `EventuallyDispatched`, `RemovedLetGo` and `SleepEnds`.

## 5. Not modelled

* The heap interrupted in the middle of `kallocate` or `kfree` by the keyboard's
  handler, which allocates. `SlabHeap`'s calls are atomic.
* `uallocate` and `ufree` (see above); `lookup` and `unmap` of an address space, its
  destructor and deactivation; a process's own page table, streams and `calloc`;
  removing a device; the RTC's interrupt and its setters; mounting a second file system
  below the root. None of these has a caller.
* `pop_tail`, `del`, `set`, `at` and assignment of `vector` as operations of their own.
* The contents of ELF headers and tables; execution is not implemented in the kernel.
* tar's long names, and names of 100 characters.
* Formatting and output, the frame buffer, the GDT's constants, port
  instructions; `String` and `ptr_t`, which only tests use; the spinlock, which is commented out.

What could follow, in order of importance: the interrupted heap; the vector with all of its operations
against a sequence; the composition of frame allocator, address space and
heap.
