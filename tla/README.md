# A TLA+ model of the TTOS kernel

TTOS is a small operating system for the i386: a monolithic kernel (`src/kernel`),
a C library (`src/libc`), a system call library (`src/libsys`) and a few programs
(`src/userland`: init, a shell and tools). This project models its parts in TLA+,
checks them with TLC on small instances and proves theorems about them, for
every size, with TLAPS. Every module says in its header which C files it is made
from; `PROJECT.json` maps each definition to its lines.

## 1. The system

### 1.1 Components

| Component | Source (under `src/`) | State | Operations | What makes it correct |
|---|---|---|---|---|
| Kernel heap | `kernel/src/memory/kheap.c` | doubly linked list of blocks in one arena, bump pointer before it exists | `kmalloc`, `kmalloc_a`, `kcalloc`, `krealloc`, `kfree`, `kheap_init` | buffers disjoint, headers intact, nothing lost |
| Physical memory | `kernel/src/memory/pmm.c` | bitmap of frames, counter of used frames | `pmm_init`, alloc, free, mark | a frame has one holder; counter and bitmap agree |
| Virtual memory, paging | `kernel/src/memory/vmm.c`, `arch/i386/paging.c` | page directories and tables, current directory, TLB | map with rollback, unmap, find free, create, destroy, switch | address spaces private, refused mappings undone, TLB coherent |
| Processes | `kernel/src/system/process.c`, `elf.c`, spawn and exit in `syscall.c` | `process_t`s linked by `parent`, `current_process` | create, run, terminate, kill | one runs, its ancestors wait, each keeps its pages |
| Interrupt dispatch | `arch/i386/interrupts/*`, `arch/i386/pic/8259.c` | listeners | dispatch, EOI, resume | an exception ends a program, not the kernel |
| Terminal | `kernel/src/io/tty.c`, `util/circular_buffer.h`, read and write in `syscall.c` | input and output ring, cursor, escape parser, shift and ctrl | key events, read, write, render | input in order, cursor on screen |
| Shell | `userland/shell/src/main.c` | line, cursor, history, search path | edit, recall, run | the screen shows the line |
| Files and directories | `kernel/src/io/file.c`, `io/dir.c`, the calls in `syscall.c` | file descriptors of each process, directory descriptors of all, nodes | open, close, read, write, seek, list, stat | nodes live while something points at them, a descriptor keeps to its file |
| Mounts, VFS, initfs, ext2 | `kernel/src/fs/*` | mount table, root nodes, file systems | mount, unmount, walk a path, look up blocks | no use of a file system that is gone; the bytes of the right blocks |
| Devices and volumes | `kernel/src/device/*`, `util/generic_tree.h`, `fs/mbr.c` | tree of devices, list of volumes | probe, register, find, list | whatever is registered is listed once and found |
| Disks, PCI | `kernel/src/drivers/storage/*`, `drivers/pci/*` | what each drive is, where its bytes go | read, write, scan | byte ranges exact, partitions apart |
| Keyboard | `kernel/src/drivers/input/ps2/keyboard.c` | listener, the port | interrupt handler, decoding of scan codes | each press finds its release |
| C library heap | `libc/src/stdlib/malloc.c`, `libsys/src/hmap.c` | block list in pages from `alloc_heap` | malloc, realloc, free | as the kernel heap, and a refused page loses nothing |
| Rest | timer, ACPI, serial, VGA registers, boot tables, panic screen, printing | | | boot-time or formatting |

### 1.2 How the components interact

* There is **no scheduler**. `spawn` blocks its caller, runs the child, and the
  child's end resumes the caller through its saved registers.
* System calls, exceptions and interrupts all enter with interrupts disabled and
  do not block; each handler is therefore **one step** of the models. What
  interleaves is the order in which programs call, fault and are interrupted,
  and the keyboard.
* The heap supplies every kernel structure (processes, page directories, page
  tables, nodes); memory is reused at the same addresses, so stale pointers and
  stale contents are real. Frames come from the physical memory manager.
* The keyboard sends scan codes over a wire; the interrupt handler reads the port
  as often as it thinks the key has codes and calls the terminal's listener, which
  fills the ring that `read` drains. Ctrl+C in it ends the foreground process in
  interrupt context.
* A path begins at the root node of a mount; descriptors point at nodes, nodes at
  file systems, file systems at volumes, volumes at ranges of a drive. Nothing
  counts references: each caller knows, or does not, what to free.

### 1.3 What is hard here

Long sequences of legal calls (heap, page tables), failures half way through an
operation (a mapping meets a used page, an image does not load), stale state (a
directory from memory of an older one, cached translations, the counter beside
the bitmap, nodes freed under a descriptor), codes that arrive while the handler
reads, interrupts between any two instructions of a program, memory maps and disks
of every layout, and limits (full ring, full heap, no descriptor, sizes that wrap). `PROJECT.json`
lists them as hazards at their lines, with the properties that watch them.

## 2. Plan

Ordered by importance.

| # | Modules | Composes / implements | State |
|---|---|---|---|
| 1 | `KernelHeap`, `KernelHeapProofs` | implements `BufferAllocator` | checked and proved |
| 2 | `PhysMem`, `MemoryMap`, `MemoryProofs` | the bitmap, and the boot loader's map in front of it; `MemoryMap` implements `PhysMem` | checked and proved |
| 3 | `Processes`, `ProcessesProofs` | process structures with address spaces | checked and proved |
| 4 | `AddressSpaces` (theorems in `MemoryProofs`) | page tables with frames, TLB and program heaps | checked and proved |
| 5 | `Screen`, `ScreenProofs` | | checked and proved |
| 6 | `LineEditor` (theorems in `ScreenProofs`) | the shell's editor on `Screen` | checked and proved |
| 7 | `CircularBuffer`, `TerminalInput`, `Keyboard`, `KeyboardProofs` | keyboard, listener, ring and reader; implements `BoundedQueue` | checked and proved |
| 8 | `Files`, `FilesProofs` | descriptors, nodes, mounts and processes that end | checked and proved |
| 9 | `Devices`, `Volumes`, `Ext2`, `StorageProofs` | each on the one before: boot, drives and partitions, the file system | checked; all but the listing of directories proved |
| 10 | `UserHeap`, `UserHeapProofs` | the operators of `KernelHeap` and the lemmas about them; implements `BufferAllocator` | checked and proved |
| 11 | the shell's tokenizer and search path | | open |
| 12 | proofs about `Ext2`: what listing a directory and walking a path deliver of a valid image | | open |

## 3. Modules

### KernelHeap (`kheap.c`)

`heap` holds the headers as functions of an address, `magic` the addresses at
which memory carries `KHEAP_MAGIC`: this is what `kfree` really trusts, so a stale
header is a reachable mistake and not excluded by the representation. `live` is
the callers' side, the size asked for each pointer. The actions are `kmalloc` and
`kmalloc_a` before and after `kheap_init`, `krealloc`, `kfree` and the
double free that `dir_close` and `initfs_unmount` perform. Best fit, both splits
(the padding before an aligned buffer, the rest behind it) and both merges are
operators on a heap, and those that walk the list take its end, so that `UserHeap` can use
them for a heap that grows. The contents of buffers are not modelled; callers stay inside
their buffers.

`BufferAllocator` is the promise: a map from pointers to sizes, where a
new buffer overlaps no other. `ImplementsAllocator` maps it to `live`.

### PhysMem, MemoryMap (`pmm.c`, `vmm_init`)

`bitmap` is the set of set bits, including the bits behind the last frame;
`used` is the counter. Actions: boot, allocation of a frame, marking and freeing,
each with its checks, also for frames that already have the state asked for; `held`
is the callers' side. `PhysMem` begins with any set of available frames.

`MemoryMap` computes that set as `pmm_init` does: entries cut to 32 bits, sorted by the
nested loops of `linked_list_sort`, trimmed by those of `pmm_fetch_memory_regions` where
two overlap, and released frame by frame. Both pairs of loops are the operator `ForPairs`,
which is given what is done with a pair. The trimming subtracts in the wrong order for some maps
and relies on lengths that wrap, so that it does not protect the reserved memory of every map.
`Tame` names a class of maps of which it does, and is no assumption but the left side of the
property `TameReservedKept`; every other property holds of all maps. In a tame map

* entries lie below 4 GB (one may end there), and those that share memory with one of the other
  sort, available or not, end below it;
* an entry that begins inside a frame does so in a frame that `vmm_init` reserves anyway, as
  the memory behind a PC's base memory does at 0x9FC00; entries end anywhere;
* a reserved entry that overlaps an available one begins behind address 0 and overlaps no
  other reserved one, and of two available ones that overlap neither begins at 0.

The memory map of an ordinary PC below 4 GB is tame; one with memory behind 4 GB is not, and
`phys_mem_large` shows what happens to it.

### Processes (`process.c`, `elf.c`, `syscall.c`, `isr_stage2.c`, `tty.c`)

`Proc` and `Dir` are heap addresses and reused. `Spawn` and its failures
(`SpawnMissing`, `SpawnInvalid`, `SpawnUnloadable`, `SpawnOutOfMemory`,
`SpawnOutside`) follow the order of `process_create`; `Exit`, `Fault` and `CtrlC` share
`process_terminate`. `active` is the page directory in use and `image[d]` whose
pages it maps: `vmm_destroy_address_space` unmaps the active directory's user
space whatever its argument, so the order of destruction and switch matters. A
panic halts everything.

### AddressSpaces (`vmm.c`, `paging.c`, `elf.c`, `syscall_alloc_heap`)

`tables` and `entry` are the contents of directories and page tables whether in
use or not, `tlb` every translation the CPU may have cached: what is mapped may be
cached at once, and only an `invlpg` or a switch removes it.
`MapMemory` maps page by page and `MapMemoryBlocked` is the path that meets a used
page and undoes the rest. `LoadSegment`, `MapStack`, `AllocHeap` are the callers.
Kernel mappings are made at boot and taken as given; the branch of
`vmm_clone_address_space` that copies user pages is not reached, only the kernel's
directory is ever cloned. Segments begin at page 1 or above.

Two mistakes of the code are part of the model. `vmm_clone_address_space` does not clear a new
directory, and `CreateSpace` makes it of memory that is wiped (never used, or wiped by a
merge of heap blocks) or that still has the pointers of the directory that was there. And
`syscall_alloc_heap` adds in 32 bits, so that `AllocHeap` with a request past the end of the
address space maps nothing and moves the limit down. Each has a history variable: `clean` is
false once a directory has kept a stale pointer, `wrapped` has the address spaces whose heap
was asked too far. The properties say what holds until then; `EndSparesOthers`, which says
nothing of `clean`, is violated in the run `stale_directory`.

### Screen (`tty.c`, `drivers/video/vga/tm`)

One byte written is one step: the output ring is empty between calls. A terminal
is a record of cursor, parser state, parameters and cells; rendering, commands and
parser are operators from terminal to terminal. Numbers wrap at `WordSize`;
`ansi_params` begins with arbitrary values, since `tty_create` does not set them.
Colours are left out.

### LineEditor (`userland/shell/src/main.c`)

Extends `Screen`. A key, with everything the shell prints for it, is one step; the
arrows are already decoded. `Enter` adds the line to the history, lets a command
print one of `Outputs` and starts the next line. The comment in `shell_redraw` assumes a
line that fits its row, and the code ensures neither that (a line has up to 255 characters, a
row 80 cells) nor that a command ends its last row. In the model lines get longer than the row
and commands end anywhere; the history variable `one_row` is true from a prompt that began an
empty row until a line did not fit or a command left another row, and `LineShown` speaks of these
states. What is kept of the line and the history is claimed of all.

### CircularBuffer, BoundedQueue, TerminalInput, Keyboard (`circular_buffer.h`, `tty.c`, `syscall_read`, `keyboard.c`)

A ring is the record of the C structure; `TerminalInput` uses it for the
keyboard's bytes. Key events change the modifiers or add one byte or three;
`Read(n)` is the whole loop of `syscall_read`, that stops at an empty ring and
at any character whose value is negative, which it takes and drops. `BoundedQueue` is the promise:
bytes in order, the last `Capacity` of them kept, and those it is told to refuse given to
nobody. `Refused` are the characters beyond ASCII, of which `de_DE`, the kernel's only layout,
has several.

`Keyboard` is the driver in front of it. What the keyboard sends (scan code set 1) is
external; `wire` holds codes under way and `port` those the controller has. Keys in
`Late` may be split on the wire, so that the handler meets a 0xE0 whose second code
has not arrived and reads the old byte again; the codes of the other keys arrive
together. Pause and Print Screen may be late like any other, although the handler reads their
four to six codes without asking whether they are there. What this does to Print Screen leaves
Ctrl alone; Pause contains the codes of Ctrl, and the history variable `hasty` is true once the
handler has read on within it. Then Ctrl may stick (section 6), and `CtrlReleased` says nothing.

### Files (`mount.c`, `vfs.c`, `file.c`, `dir.c`, the system calls)

`node` and `fs` are the structures at each address, `NULL` where nothing is
allocated; `mnt`, `procs` and `dirs` point at them. `procs` is the chain of processes,
of which the last runs, each a table of file descriptors; `dirs` is the one table of
directory descriptors for all. Volumes are constants: their kind, inodes and damage
(a header that is not sound, a root that cannot be read). Every refusal that changes
nothing is left to stuttering; the refusals that free something are actions
(`OpenDirExhausted`, `SpawnDirectory`). `of` and `seen` in a descriptor are history:
what was opened, and what the listing has delivered.

Programs call what they like. Three uses leave pointers to freed memory, and nothing refuses
them:

1. unmounting a drive on which files or directories are open: their nodes lead to a file
   system that is gone, and a file that is the root itself to no node;
2. giving the root of a drive to a call that frees what it has found: `spawn`, or
   `opendir` while every directory descriptor is in use (`FreeRoot`);
3. opening the root of the initial ramdisk as a file, whose close frees a pointer that
   was never set.

The pointers left behind are `Dangling`, and the model goes on: descriptors of other drives
are used, drives are mounted at the addresses that became free, offsets are moved. Only a call
that follows a dangling pointer, or frees the one that was never set, ends a history
(`FollowDangling`, `lost`), as nobody can say what the kernel reads there.

### Devices, Volumes, Ext2 (`device.c`, `generic_tree.h`, `pci.c`, `sata.c`, `initrd.c`, `ata.c`, `mbr.c`, `volume.c`, `ext2.c`)

`machine` is the hardware that the drivers ask and is one of `Machines`; `stage` follows
the order of `init_drivers`. `Devices` builds the tree of devices, as linked siblings.
`Volumes` probes the four drives, reads the partition table and registers the volumes;
a disk is a sequence of cells, where a cell is what the code reads as a unit, and
`SectorSize` of them are a sector. `AtaRead` and `AtaWrite` split ranges into sectors
as the code does, including its mistakes. The offset inside the first sector is not reset
for the following ones, so that only ranges that begin with a sector or stay in one get all
their cells (`SectorSafe`). Sizes and offsets wrap at `Word`. The sector commands select the
master of the channel whatever the drive, and a drive that knows no LBA delivers nothing, so
that its partition table is whatever the buffer held before. `Write` writes any range of any
volume; where the length of the last part comes out negative, `ata_write` copies past its buffers,
and the history ends with the stage `overrun`. What a write must not touch is claimed of every
write, what it must store of volumes that are `Addressable`: on a master with LBA of less
than 4 GB, inside the disk. No caller in the kernel writes to a volume today; the file systems
only read.
`Ext2` mounts a volume, walks a path, reads a file in pieces and lists a directory;
direct blocks, three levels of indirection and holes are operators over the cells.

### UserHeap (`malloc.c`, `hmap.c`)

The block operations of the C library are those of the kernel heap, and the operators are
taken from `KernelHeap` by `INSTANCE`. New are the list that does not exist before the
first `malloc`, its growth by one page whatever the size asked for, and a kernel
that may refuse at any time. `ImplementsUserAllocator` maps it to `BufferAllocator`.

## 4. Runs

| Run | Instance | Distinct states | Checks |
|---|---|---|---|
| `kernel_heap` | 16-byte arena, 2-byte headers, 4-byte pages, 3 bytes of placement memory, sizes 0, 1, 2, 5 | 50,040 | list intact and tiled, blocks match owners, buffers disjoint, double free harmless, a freed heap is a fresh one, aligned allocation exact, implements `BufferAllocator` |
| `phys_mem` | 7 frames, 2 per byte, 4 boot frames, all 27,900 maps of 2 or 3 of 30 entries (four addresses, three lengths, three types; aligned and not, up to the end of the address space) and a small PC's | 530,119 | counter and bitmap agree, boot frames kept, and for tame maps nothing that the boot loader reserved is available |
| `phys_mem_large` | a computer with memory behind 4 GB | violated | reserved frames become available |
| `processes` | 3 processes, 3 directories, every kind of image, exit codes -1 and 256, one exception | 142,276 | one runs and the others wait in a chain, address spaces intact, the status of a child that exits or is interrupted, and who waits is resumed |
| `address_spaces` | 2 directories, 3 page tables of 3 pages, 4 frames, heap requests of 1, 2 and 8 pages, of which the last wraps; histories up to the first directory made of stale memory | 46,788 | tables owned once, frames private, TLB coherent, program heap in one piece, refused mappings undone |
| `stale_directory` | the same, with stale directories | violated | the end of one process unmaps pages of another |
| `terminal` | 2 rows of 4 cells, tab stops of 3, 2 parameters, words of 6; a program that writes anything, or the shell with lines of 3, one more than fits the row, a tab, a history of 2 and commands that end anywhere | 552,828 | cursor on screen, parameters fresh and within their array, Ctrl+C leaves the next line readable, the screen shows the line while it fits, the last line is recalled |
| `terminal_input` | 9 keys, one with a character beyond ASCII, 4 strokes, four keys whose codes may be late, Pause among them, ring of 4, reads of up to 2 | 666,871 | arrows arrive whole, Ctrl sticks only after a late Pause, implements `BoundedQueue` |
| `user_heap` | 3 pages of 6 bytes, 2-byte headers, sizes 0, 1, 3, 9 | 1,813 | list intact, no memory lost, implements `BufferAllocator` |
| `files` | 4 volumes of every kind, 2 drive letters, 3 nodes, 2 file systems, 1 file and 2 directory descriptors, 2 processes, any calls | 217,921 | nothing dangles but what is marked so, descriptors keep their file, offsets inside the file, listings in order |
| `files_root` | the same | violated | the root of a mounted drive is freed |
| `storage` | 6 computers: an ext2 partition among others, an ext2 disk without a partition table, no keyboard, no ramdisk, a master with a slave, a disk past the word size beside a drive without LBA; writes of 0 and 3 cells at five offsets | 15,634 | devices and volumes listed once and found, files and directories read back, writes stay in their volume |

**Bounds and why they are enough.** The arena holds three buffers with headers, so
that a block has neighbours on both sides, is split in front and behind, and merges
in all four ways; three user pages give growth behind a used and behind a free block,
and a request larger than a page. Seven frames of two per byte give a partial last
byte; two or three entries overlap, contain one another, touch and come in any order, and the
small PC's map has six, as long a list as boot loaders make of simple machines.
Three processes are the depth at which Ctrl+C may act (init, shell, program), and each of
their structures is reused; `MaxPid` bounds the counter of identifiers, which no property
reads. Two user page tables and two directories suffice for a mapping that crosses
tables and for memory that moves from one address space to another. The screen is
small enough that every byte is near an edge, tab stops do not divide a row and numbers
wrap behind the last column. The ring of four holds one arrow and one more byte, so that
overflow cuts sequences at each of their bytes; four strokes are a modifier pressed and
released around another key, and `MaxCodes` lets one code be late while
the next key is struck. In `files` there are fewer node addresses than structures the
programs ask for, so that freed ones are reused at once, and both tables of descriptors
fill up. Where a run says less than the theorem about the same property (Ctrl with more
strokes, files with more nodes), the theorem has no bound. The first disk has a file with blocks of all four kinds, holes among them, at
the first and last pointer of an indirect block, inodes in three groups, a directory with
a hole, a dead entry, an entry that leads nowhere and one of length 0; the second has
larger blocks and inodes. `CHECK_DEADLOCK FALSE` stands where a kernel panic is an end the
code intends.

**Fairness.** Only `processes` needs it: `ProgramsEnd` says that a program other
than init that runs again and again ends at some time. It is an assumption about
programs: the kernel cannot take the CPU from one. That init does not end is
its code (a loop that starts the shell anew).

**Violations.** Each states a sentence of the repository and shows the code to do
otherwise; `PROJECT.json` quotes the lines under "findings".

## 5. Proofs

All theorems hold for every value of the constants that meets the named
assumptions of the modules, which TLC evaluates in every run. They have no further
hypothesis about machines, programs or keys, but for `FilesReadBack`, which names its own.
Where the code fails in some states, the property says so itself, by a history variable
that the code's own step sets (`clean`, `wrapped`, `hasty`, `one_row`, `lost`) or by a
condition on the input (`Tame`, `Addressable`).

* **KernelHeapProofs.** The inductive invariant is the conjunction of the type, the
  tiling, the links, the absence of free neighbours, the ownership of blocks and the
  state of the placement memory. None is inductive alone: a split or merge rewrites
  links correctly only if the tiling tells which header follows, and ownership needs
  that a block found by best fit is free. The proof treats the operators on heaps
  once (a split keeps a heap well formed, a merge does), for a list with any end, and
  the actions on top of them. From it follow `ListWellFormed`, `BlocksMatchOwners`,
  disjoint buffers, the harmless double free, that a freed heap is fresh, and the
  refinement `ImplementsAllocator`. `AlignedAllocationExact` needs arithmetic as well:
  the padding that `kmalloc_a` computes leads to the first aligned address with room
  for the headers in front, so that NULL means that no free block has a place.
* **MemoryProofs**, physical memory. Counter and bitmap agree by cardinalities; the other
  properties of `PhysMem` follow from it and from the frames being held only when marked.
  These theorems are about a manager that begins with any set of available frames.
  The rest is about the boot loader's map, with any number of entries in any order.
  `MapImplementsPhysMem` and `MapFramesKept` hold of every map: the frames released have a
  bit, because the loop of `pmm_init` works on addresses of 32 bits, so that the manager after
  `pmm_init` is one of those above; its counter may begin negative, since bits behind the last
  frame are released and counted too, and is in its range once `vmm_init` has marked the boot
  frames.
  `ReservedFramesStay` says of the tame maps that no frame is released which holds anything
  but available memory. Each pair of nested loops has an invariant. Sorting only rearranges and
  puts the least of the rest in its place. The clean-up leaves of each region its
  entry up to some end, with a length that may have wrapped around to it (`CutFrom`); it
  settles every pair of an available and a reserved entry it has looked at and leaves settled
  pairs alone, because no second reserved entry meets the first.
* **ProcessesProofs.** The invariant is the chain of parents, who runs, and which
  directory maps whose pages, together with what holds before init starts. The
  status of a resumed parent is an action property.
* **MemoryProofs**, address spaces. Tables have one owner, entries of tables in use name
  distinct frames that are not available, the kernel's tables are fixed, and no cached
  translation contradicts the tables. The invariant is one of the histories in which no
  directory kept a stale pointer: `clean => IInv` is inductive, as `clean` never becomes true
  again. `FramesPrivate`, `TlbCoherent` and `RefusedMappingUndone` follow. For `HeapContiguous`
  the invariant adds that each heap that did not wrap is a run of pages whose end is the limit
  that `alloc_heap` has stored. Requests have any size: one that ends behind the address space
  and yet does not panic maps nothing, and puts its address space into `wrapped`.
* **ScreenProofs.** `CursorOnScreen` is inductive with the type; within a byte the
  cursor may leave the screen by one row or to the right, and `Wrap` and `Scroll`
  bring it back. `ParametersFresh` and `InterruptStartsLine` are about what several
  bytes do one after the other from any such terminal; `Puts` is shown to be that
  sequence. `LastLineRecalled` is an invariant of the editor's own variables.
  `LineShown` joins the two: the row of the cursor shows prompt and line, nothing is
  behind it, and the parser is at rest. Redrawing prints the whole row and then moves
  the cursor back by a decimal number, so the proof follows texts of any length through
  the terminal and shows that the parser reads the number that was printed. It has no
  hypothesis on lines or commands: while `one_row` is true the line on the row fits it, and a
  command that prints nothing, whole lines or the sequence that clears the screen leaves an
  empty row for the next prompt; `one_row` is shown to come back only with an empty row.
* **KeyboardProofs.** `RingIsQueue`: on the elements, adding is `Append`
  (without the oldest for a full ring), taking is `Tail`, and the empty test is
  exact, for every capacity. `InputImplementsQueue` carries it through the listener and
  the loop of `syscall_read`, for every layout: the read that meets a character beyond ASCII is
  the promise's refusal. `ArrowKeysWhole`: in the last byte read and the ring
  behind it, every byte of an arrow stands beside its neighbour unless one was
  overwritten. `CtrlNeverSticks` looks at controller and wire as one sequence of codes.
  Its invariant says that this is a sequence of whole keys and that, unless a Ctrl key is
  down, each press in it has a release behind it, and so has a Ctrl that is on. Wholeness is
  needed because the handler takes a code by its predecessor: the Ctrl codes inside Pause are no
  presses, and a 0xE0 read alone must leave a known code behind. Any key may be late. The
  invariant holds until the handler reads on within a Pause that has not arrived, which is the
  step that makes `hasty` true.
* **FilesProofs.** `NothingDangles`, `DescriptorsKeepTheirFile`, `OffsetInFile` and
  `ListingsInOrder`, from one invariant: each drive has a file system of its own
  whose root, unless it was freed, is as mounting made it, every descriptor's node is live and,
  while its drive is mounted, stands for what was opened, two files share a node only if it is a root
  and directories share theirs with nothing, and a listing has delivered the first entries of
  its directory. It makes no assumption about programs: unmounting under open files and freeing
  a root are steps like any other, and the proof shows that what they leave dangling is
  what the model marks. That `RootsKept` fails is the run `files_root`.
* **UserHeapProofs.** The operators on block lists are those of the kernel heap, so its
  lemmas are taken over by `INSTANCE`. New in the invariant `Sound` are that memory
  without a header is zero, that the limit is a whole number of pages, and the growth
  that adds a page behind a used block or enlarges a free one. From it
  follow `UserListWellFormed`, `UserHeapReusable` and the refinement
  `ImplementsUserAllocator`, whatever requests the kernel refuses.

* **StorageProofs.** `DevicesStayListed`: the tree of devices is well formed after any
  sequence of registrations. Its invariant `IsTree` says that links lead forward, that the
  members of a family name one parent, that every node is reached and that none is linked
  twice; the walk of `generic_tree_foreach` is followed from the last node to the first and
  delivers each node once. `VolumesStayAddressable`: identifiers differ, because one
  is drawn until it is free, and so each leads back to its volume. `WritesKeepTheirPlace` is
  `WritesStayInVolume` for every computer, sector size, word size, disk
  and write: the loop of `ata_write` over sectors, each read, altered and written back, changes
  no cell outside the range, slaves, drives without LBA and wrapped offsets included; where the
  driver can address the volume and the range begins with a sector or stays in one, it
  puts every cell in its place. The cut in `volume_write` keeps the range in the volume. Its
  invariant says that disks keep their lengths and what the driver knows of each
  drive. `ReadsKeepTheirPlace` is the other direction, the pieces that `ata_read` puts one behind
  the other are the range, and `WritesReadBack` joins the two; what they claim is limited in the
  same way, as the code gets the other ranges wrong (section 6). All three are about ranges
  whose own end does not wrap.
  `FileReadIsExact` is about the loop of `ext2_read`, block by block from any offset: for
  every file system and inode it delivers the asked range, cut at the end of the file, with
  each cell from the block that `InodeBlock` gives for its position and zero where there is a
  hole. `FileReadsCompose` says that reading in two pieces or in one makes no difference.
  `FilesReadBack` joins reads over a whole session: its invariant `ReadSoFar` says that what
  was delivered is the beginning of the file, and at the end all of it. Its hypothesis is
  `FileStored`, that the blocks of the open file do hold the file. It is stated of every
  state and says nothing of what the reads deliver; it is true of every file of the images
  in the run `storage`, and the code, which never writes to such a file system
  itself, relies on it.

Where a proof needs induction (a heap walked block by block, a text printed character by
character, a number written digit by digit), it takes the least number for which
the claim fails, which exists by the library's well-foundedness of the naturals
(`LeastNatural`), and shows that a smaller one fails too. Recursive functions are given
by their existence: such a function over `0 .. n` exists for every `n`, and `CHOOSE` picks it.

**Only model-checked:**

* `WaitingIsResumed`: liveness is out of the prover's reach.
* `ListingComplete`: the walk of `ext2_readdir` along lengths of records delivers the
  entries of a directory only of an image on which these lengths lead from one entry to the
  next and each block ends with one. What the walk delivers of any such image is an induction
  over the data of the image.
* That the pointers of an image, direct or through three levels, lead to the blocks of the
  file its maker meant: the proof of `FileReadsBack` takes it as `FileStored`, the run
  computes it, with files that have blocks of every kind.

## 6. Observations not made into runs

Memory:

* `pmm_find_free_contiguous_frames` tests `pmm_bitmap[bit_index]` (`pmm.c:227`), another
  byte than the one it visits; nothing calls `pmm_alloc_frames`.
* For maps that are not tame the clean-up protects reserved memory only by chance: three entries
  that overlap in a chain, some overlaps at address 0, an entry that begins inside a frame
  behind the boot frames, overlaps at the end of the address space, and entries behind 4 GB
  (`phys_mem_large`). Available entries are not cut to whole frames: the frame in which one
  begins or ends is released whole.
* The scan for a free frame stops before the last byte of the bitmap when that is partial
  (`pmm.c:207`): up to seven frames are counted as available and never allocated.
* `pmm_num_memory_frames_used` may be negative between `pmm_init` and `vmm_init`, as bits behind
  the last frame are released and counted; nothing reads it there.
* `vmm_unmap_page` does not give frames back (`vmm.c:167` has the call commented out):
  the frames of an ended process are lost.
* `vmm_clone_address_space` copies the kernel's entries and leaves the others as they are in
  the memory `kmalloc_a` returned (`vmm.c:239`). When that memory was a directory before
  and its block was not merged, a new address space leads to freed page tables
  (`stale_directory`).
* `vmm_map_memory` aligns a start address down but keeps the size, so that a region
  that starts in the middle of a page and just crosses a boundary gets one page too
  few, where `vmm.h:69` promises whole pages. Linked programs begin at a page.
* `syscall_alloc_heap` multiplies and adds in 32 bits; a request whose end wraps around
  maps nothing and returns a limit below the old one, where `hmap.h:10` promises NULL. The
  address space is then in `wrapped`.
* `krealloc(NULL, n)` before `kheap_init` returns placement memory, where `kheap.h:96`
  says it fails.

Processes:

* Spawning an empty file halts the kernel: `kmalloc(0)` is NULL and `process.c:29` takes that
  for exhausted memory, where `syscall.c:447` says that -1 is returned.
* `process.c:252` says a fault is reported as -1; the code reports 128 plus the
  exception's number, as `process.c:260` says. `ResumedWithStatus` therefore claims nothing of
  faults. `process.c:278` calls init PID 1; it gets 0.

Terminal and keyboard:

* `syscall_read` takes a character from the ring and drops it if its value is negative
  (`syscall.c:584`), so that letters beyond ASCII are swallowed; `ImplementsQueue` says so.
* The handler reads the codes of Pause and Print Screen without asking whether they have
  arrived; late ones are then taken for keys of their own, and Ctrl (after Pause) or Shift (after
  Print Screen) can stick.
* A 0xE0 that is handled alone turns the right Ctrl into the left and an arrow into a key
  of the keypad. Releasing one of two held Ctrl keys clears `ctrl`. Holding Caps Lock
  toggles it with every repetition. The shifts that a keyboard inserts around arrows
  while Num Lock is on are not expected.
* A line that is longer than its row (`SHELL_LINE_MAX` is 256, a row has 80 cells) is redrawn on
  the last of its rows, and a command that does not end its last row leaves the prompt behind it:
  the screen then shows another line than the one that runs.
* A tab in the shell's line is one character and several columns; after Left, or an
  insertion before it, the terminal's cursor is not where the editor's is.
* `vga_tm_scroll` moves by 80 cells whatever the mode's width; the only text mode has 80.

Files:

* `file_close` frees the descriptor and what the file system has loaded, not the node;
  `vfs_findpath` leaks the nodes along a path; `process_destroy` closes nothing, so
  that directory descriptors, which all processes share, stay taken.
* `file_read` and the file systems cut a read by comparing the 32-bit sum of offset and size with
  the file's size (`file.c:78`, `ext2.c:385`). A size for which the sum wraps is not cut: the file
  system fills the caller's buffer past what the file has, and past what the caller has, before it
  could return. The model has the value that is returned, under which the offset stays in the
  file; what the copying destroys is not modelled.
* `initfs_close` frees `inode_data` of the ramdisk's root, which nothing has set; a program
  can open that root as a file.
* Unmounting does not look for open files; their next use reads a freed node or file system.
* `vfs_findpath` frees the address behind the one it allocated for paths like `A://x`.
* `file_seek` before the beginning wraps and is clamped to the end; no program calls it.

Storage:

* The ATA commands for sectors always select the master (0xE0), where `ata.c:446` says
  "Choose master/slave drives": a slave is identified, and what is read from and written to it is
  its master's. `FileReadsBack` is run with file systems on masters.
* The offset inside the first sector is used in every sector of a range (`ata.c:365`, the same in
  `ata_read`): a range that begins inside a sector and goes on in the next leaves gaps, and one
  that ends before that offset in its last sector copies a negative length; a size of 0
  at offset 0 wraps around. File systems ask for ranges that begin with a sector or
  stay in one.
* Sizes and offsets on disks are 32 bits of bytes: a drive of 4 GB or more has its size modulo
  4 GB (`ata.c:308`), a partition behind 4 GB its offset and size (`volume.c:106`), and is sought at
  the wrong place.
* The probes do not look at how much was read: on a drive without LBA, or whose size is a multiple
  of 4 GB, the partition table is what the buffer held before. `sata_init` leaks its list when it
  returns early. `volume_write`, `volume_unregister_device` and `device_unregister` have no
  caller.

## 7. Not modelled

* The shell's tokenizer and search path, which are string handling without shared state.
* `pmm_alloc_frames`, the unregister functions, `tty_gets` and `8042.c`: nothing reaches
  them; `lsmnt` and `sysinfo` only report.
* The timer (a counter on which nothing waits), ACPI, serial and VGA registers, the boot
  tables: hardware programmed once.
* Printing and string helpers: no state. Data bytes of buffers, registers, colours and
  messages are abstracted.
* The checks that system calls make of user pointers, and the registration of interrupt
  listeners, which is done once at boot.
