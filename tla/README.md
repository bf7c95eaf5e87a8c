# A verification of Osakauss

Osakauss is a small x86-64 kernel in C (stivale2 boot protocol, compiled with
`-O0`). This directory models its core in TLA+: what each part promises, how the
code keeps the promise, and what interrupts, failing allocations and odd memory
maps do to it. TLC checks the models on small instances; TLAPS proves the bitmap, the
allocator, the key ring and its echo, the list, strings and memory functions, the numbers
and messages printed, the tree of files and the archive it is loaded from, the console, and
boot with its interrupts correct for every size.

## The system

The kernel has one thread. `main` (src/src/kernel/main.c) calls `init`, which
brings the parts up one after the other, prints what it finds and then halts in a
loop. The only concurrency is between this thread and the interrupt handlers of
the keyboard (IRQ 1) and the serial port (IRQ 4). All gates are interrupt gates,
so a handler runs to its end with interrupts off; the thread can be interrupted
between any two instructions, and because of `-O0` every use of a variable is a
load or a store of its own.

| Component | State | Operations | Talks to |
|---|---|---|---|
| libs/bitmap.c | words of 32 bits in memory, 31 bits of each in use | set, clear, get a bit; new sector | pmm.c through function pointers |
| kernel/mem/pmm.c | bitmap (two bits a block), `block_entries`, start address | pmmInit, pmm_alloc, pmm_calloc, pmm_realloc, pmm_free | boot loader's memory map; dynlist.c, vfs.c, devfs.c, tar.c, string.c |
| kernel/input.c | ring of 2000 characters, `r`, `w`; flags | key_buffer_append (handlers), read_key_buffer, input_read, input_readln (thread) | kb.c, serial.c, console.c (barriers) |
| drivers/console | cursor in pixels (`column`, `row`), in characters (`offset_x`, `offset_y`), barrier, colour | putch, scroll, MVCURSORC, ConsoleSetBarrier, ConsoleRemBarrier | log.c, kb.c, input.c, framebuffer |
| drivers/uart/serial.c | `offset`, `barrier`, the UART | serial_readb, serial_writeb, handler, barriers | log.c, input.c |
| drivers/kb/kb.c | caps lock | keyboard_handler | console.c, input.c |
| kernel/log.c, libs/format.c, libs/klibc/libc.c | which outputs are up | require_log, logf, formatv and the conversions | console.c, serial.c |
| libs/klibc/mem.c | none | memset, memcpy, memmove, memcmp | pmm.c, console.c |
| drivers/graphics | the bytes of the framebuffer, its pitch | framebufferInit, PutPixel, bitmapPC | console.c |
| libs/klibc/dynlist.c | items, capacity, total | push, set, get, pop, resize, free | pmm.c; vfs.c, fd.c |
| libs/klibc/string.c | strtok's static pointer, and the caller's buffer | strtok, strcmp, strcpy, strdup | vfs.c, devfs.c, tar.c |
| kernel/fs (vfs.c, devfs.c, tar.c, fd.c) | tree of nodes on the heap, mount pointers, descriptor list | vfs_mkdir, vfs_mkfile, vfs_add_node, vfs_mount, vfs_get_dir, vfs_get_file, vfs_deldir, tar_parse_filesystem, add_new_device, fd_* | pmm.c, dynlist.c, strtok |
| kernel/cpu (GDT, IDT, ISR), kernel/asm | descriptor tables, handler table, PIC | gdtInit, IDTInit, ISRInit, PicRemap, install_handler, irq_handler, fault_handler | everything with a handler |
| kernel/main.c | the order of everything above | init, init_initrd, stivale2_get_tag | boot loader |

What makes the parts hard, and what must hold of each (every hazard is listed at
its line in PROJECT.json):

- **bitmap, pmm**: a block's state is two bits in words that skip their top bit; a
  scan that looks one block past the map; a table of extents that is never reset; a
  realloc that frees even when it fails. No block may have two holders or none, a
  holder must get what it asked for, and the tables and foreign memory must stay
  untouched.
- **input**: the handlers move `r` as well as `w`, between any two accesses of the
  reader. What is typed must reach the reader once, in order and edited as the user
  saw it.
- **console**: one cursor in pixels and one in characters, a wrap in the middle of
  `putch`, a page that scrolls under the prompt, and handlers that run a `putch` of
  their own. The page must be the one a terminal would show; nothing may be drawn
  outside the framebuffer.
- **dynlist, strtok**: shifting and halving around exact boundaries; tokens that point
  into a buffer which is still being cut.
- **vfs, devfs, tar**: memory that runs out between two steps, lookups through mount
  points, memory never given back; offsets and sizes rounded in several places. A name
  must lead to the node it was given to, and that node to the bytes of its file.
- **serial**: an echo and a ring that record the same keys, a prompt guarded by a counter
  that loses increments. What the user sees must be what the reader gets.
- **interrupts, boot**: edges that come before there is a handler or before the PIC is
  programmed, a FIFO that gets ahead, lines held back by one that is never ended. Who
  asks must be served.
- **formatting, memory, framebuffer**: signs of remainders, leading zeroes, overlapping
  copies, mirrored rows: what is printed, copied or drawn must be what was given.

No test exists in the repository, and its few promises are comments; they are quoted
where a run refutes one. `kernel/drivers/disk/initrd.h`, which main.c includes, is not
in the tree, so the initrd driver is external.

## Modules

| Module | Models | State and actions |
|---|---|---|
| BitArray | the promise of libs/bitmap.c | independent bits |
| BitMap | libs/bitmap.c | the words; `setBit_`, `clrBit_` with sector and masked shift, new sectors |
| Words | BitMap with names that leave room for the allocator's, as the run and the proofs take it | those of BitMap |
| BlockMap | SetBlock, GetBlock and the answer of the scan | no state: `Code`, `GetBlock`, `SetBlocks`, `Takes`, `NoSpace` |
| PmmScan | the loop of pmm_alloc | its locals; `Examine` is an iteration, `Leave` the exit |
| Loop | the same loop, over the blocks and amounts of BlockMap | instantiates PmmScan; says that its answer is `Takes` or `NoSpace` |
| Heap | the promise of pmm.c | who owns which block; `Alloc`, `Free`, `Realloc` |
| Pmm | kernel/mem/pmm.c | bit pairs, `block_entries`; `pmmInit`, `pmm_alloc`, `pmm_free`, `pmm_realloc`, a call a step |
| Input | kernel/input.c | `key_buffer`; `Handler` is one step, the reader takes five for each character |
| Echo | serial.c with input.c: a terminal on the port | adds `offset`, `barrier` and the text on the terminal; the handler is one step, for a 0 as well, which the ring refuses and the echo counts; the thread is one access a step |
| Interrupts | main.c's `init`, kernel/cpu, the serial port's set-up, and the two handlers as their devices see them | tables, handlers, PIC, keyboard controller and UART; an action is a step of init, an interrupt, half a handler, or something a device does |
| List, DynList | libs/klibc/dynlist.c and its promise | items, capacity, total; an action for each function, a heap that grants or refuses |
| Strtok | strtok and vfs_token_path | the buffer, `backup_string`, the tokens; an action is a call |
| Format | libs/format.c and the conversions of libc.c | a call and what it wrote |
| Memory | mem.c, and string.c but strtok | a call and the memory before and after it |
| Vfs | vfs.c, devfs.c, the nodes of tar.c | the nodes, the free blocks; an action for each function |
| Archive | the boot loader's tags and init_initrd of main.c, tar.c, vfs_read and vfs_write | the archive, the parser's offset, the nodes; a turn of the parser's loop is a step |
| Klibc, Files | Klibc: DynList, Strtok, Format and Memory; Files: Vfs and Archive, side by side | no state of its own: the constants, what is assumed of them, the properties |
| Console | console.c, the extent of a glyph in bitmap.c | `struct Sconsole` and the screen, in places of one glyph; no actions |
| Terminal | the promise of the console | a page, a cursor, a colour |
| Typing | logfc, keyboard_handler and a reader around Console | an action is a call |
| ConsoleRace | logf on the thread against keyboard_handler | an action of the thread is one access to `struct Sconsole`; a key, or an arrow, is one step |
| ConsoleUsers | Typing, ConsoleRace and Framebuffer side by side, as the run and the proofs take them | no state of its own |
| Framebuffer | framebuffer.c, bitmap.c, the memcpy of scroll | the bytes, under the places of Console |
| MC* | values for TLC | MCKlibc, MCVfs and MCConsole put modules side by side that share no state; a behaviour is of one of them |

Pmm does not run the scan of pmm_alloc: it takes its answer from `Takes` and `NoSpace`
of BlockMap, and Loop shows that the loop in PmmScan gives that answer. BitMap shows that a
bit number can stand for a bit, which is all Pmm knows of the bitmap. Vfs likewise
takes a path as the names Strtok shows it is cut into, and counts a list as one block;
Archive is about positions and bytes and leaves memory to Vfs. The two handlers are
taken apart by what they touch: Interrupts has the ports they read and the PIC, Echo the
ring and the terminal, Typing and ConsoleRace the console. A glyph in the place that
Console gives it is, in bytes, what Framebuffer draws there.

`TypeOK` of a module states the types of its variables. Those of BitMap, Pmm, Input,
DynList, Vfs, Typing, ConsoleRace and Interrupts are proved; the runs check properties that say
more, and would stop with an error where a type is wrong.

Operators under a comment that begins with "Fault" are not part of the models: each is
a plausible mistake, and PROJECT.json says which definition it stands in for and which
property then fails.

## Runs

| Run | Bounds | Shows |
|---|---|---|
| bitmap | bit numbers on both sides of each place where a sector or a shift begins, 4 sectors, memory of zeros or of ones | the words behave as independent bits |
| pmm_scan | 4 blocks and one past them, every content, amounts around the multiples of the block size | the loop ends, with the first run that is long enough, or what it counted at the end |
| pmm_heap | 9 blocks of 16 bytes: a piece of 6, a foreign region of 24 bytes and a hole, and a piece of 2; tables that do not fill whole blocks; no FREE bits past the map; amounts of 1 block, a byte more, and 3 blocks | refinement of Heap; usable memory only, at addresses that miss it by the bytes the numbering skipped; tables kept out but for the ends that rounding cuts off |
| pmm_stale | 9 blocks of 18 bytes, 5 of them served in two pieces, a foreign one between, no holes; any bits past them; amounts of 0, 1 block and a byte more | bitmap, `block_entries` and callers agree; what is too short reaches past the map |
| pmm_short | the map of pmm_stale, amounts of 1 and 3 blocks | violated, see below |
| pmm_uneven | the map of pmm_heap | violated, see below |
| echo | a ring of 3 cells; 4 keys out of a letter, newline, backspace and what terminals send for them; 1 character printed, 1 zero received; reads of 2 characters and lines | order and editing of what is read; a line returns; the prompt stays but for one character for each echoed and not shown; the echo is the line |
| input_bounds | a ring of 3 cells, 5 keys | violated, see below |
| klibc | lists of 6 places that double to 12, 7 items, every position at the edges; paths of up to 6 characters, cut twice; numbers of 12 bits around zero, powers of the bases and both ends, in bases from 1 to 37; formats of up to 3 directives; every move in 6 bytes, every pair of strings in 5 | a list is a sequence; a path is cut into its names; numbers read back; messages are the sum of their pieces; copies and comparisons are right |
| vfs | heaps of 0 to 9 blocks, which covers every point of boot where memory can run out, and of 15, which leaves 7 after it; 2 names and `dev`, paths of 2 names, an archive of one file; and archives of up to 2 files with sizes around 512 and 1024, reads of and at such lengths and up to a word | paths, places of nodes, and blocks accounted for; places and bytes of files |
| console | a framebuffer of 26 by 33 pixels in lines of 112 bytes, 2 lines of 2 characters and the margins; a letter, colours, tab, backspace, carriage return, caps lock, arrows; any number of keys at any access, the cursors at most 1 apart when one comes, and 1 arrow between two margin tests; 2 glyphs of the real font at, between and over places, and scrolls | the page is that of Terminal; the prompt stays; drawing stays inside, or leaves a line by what the race allows; the bytes are the page |
| irq | a FIFO of 3 bytes with a threshold of 2; 2 keys, 4 bytes, 2 interrupts of others (the timer's line and one of the second PIC) at any moment from reset on | who asks is heard; every interrupt is ended; no wait with interrupts off; keys and bytes are read |

Why these are enough: each has at least one more of everything than the code can tell
apart. In pmm 9 blocks leave room for an allocation before, behind and at the place of
one that was freed, for a run too small, one that fits and one that must not cross the
foreign block, and for one that reaches the end; the theorems below lift the bound. A
ring of 3 is full, empty and wraps within 4 keys, a printed character can lose its
increment to one, and a zero lets one backspace through to the prompt. A list of 6 doubles and halves within
7 items. A page of 2 lines of 2 characters wraps (a tab wraps
it twice), scrolls, and has a prompt on either line; a width of 26
leaves 8 when divided by 9, as 800 does. A FIFO of 3 with a threshold of 2 is
below, at and above it, and full. Two files show what the size of one does to the place
of the next, and how a third would follow.
In `echo`, `console`, `klibc` and `vfs` `2^32` is reduced to a number far above everything compared
with it, so that wrapping is still seen. In `vfs` a depth of 2 enters a mount point and
names a child behind it.

`CHECK_DEADLOCK FALSE` is set where the system stops: a scan that is over, a list
that is given up or freed, a call that has returned, a path that is cut as often as the
bound allows, a kernel that has written through NULL or halted on an error, a reader that
waits for a key after the last one, a machine to which nothing more is sent.

### Where the code does not do what its comments say

- **pmm_short** (`AllocationsCover`). "if we can't find any space then we have to sadly
  return NULL" (src/src/kernel/mem/pmm.c:170). The scan runs to `i <= entries` and
  `amnt` is compared with 0 only: with too little room at the end of the map, and a
  pair of bits behind it that reads FREE, the caller gets fewer bytes than it asked for.
  `ShortOnlyPastTheMap`, proved, says that this is the only way to get too few.
- **pmm_uneven** (`TablesNotHandedOut`). "making sure that the bitmap is not written
  over" (src/src/kernel/mem/pmm.c:123). The size of the tables is rounded down to
  blocks, and the block in which `block_entries` ends is handed out. `TablesKept`, proved, says that this is all that is.
- **input_bounds** (`StaysInBounds`). "circlular buffer. makes sure the buffer does not go
  out of bounds" (src/src/kernel/input.c:124). A backspace at index 0 makes `w` or `r`
  `2^32 - 1`, and the next access to `buf`, the handler's store or the reader's load, is
  outside it.

Seen while modelling, with no statement in the repository that a run could refute: block
numbers count regions and addresses do not, so that a block behind a hole in the memory
map is addressed too low by the bytes skipped before it (`HandsOutUsableMemory` says so,
of every map), and a hole before the region of the tables makes pmmInit halt or reserve
the wrong blocks; pmm_calloc and pmm_realloc write through NULL before their callers can
test it; a second mount at a path is accepted and lands on the root of the first; a lookup
that goes on below a node without children returns that node; the left arrow moves the
cursor 7 pixels to the right. A 0 that the serial port receives is refused by the ring but
echoed and counted in `offset`, so that afterwards one backspace more than it should passes
the barrier and takes a character of the prompt (`PromptKept` allows one for each
character that was not shown). A key between the thread's margin test and the drawing of
its glyph moves the column: with a width that leaves 8 when divided by 9, as the 800 pixels
main.c asks for does, the glyph ends one pixel beyond its line, and for every arrow pressed
there 9 pixels further (`DrawnNear`).
A key that is pressed before require_keyboard, or while the PIC is programmed, leaves the
keyboard silent for good; a serial port that fails its test leaves the keyboard without a
handler; a FIFO that fills past its threshold between two interrupts is not read again
(`KeysRead` and `BytesRead` name these conditions). A file name of 100 characters runs on
into the mode; the read of a file is not clipped when offset and size wrap together; itob
prints the smallest number wrongly.

## Fairness

Three runs check liveness. PmmScan assumes `WF(Next)`: the loop is straight-line code
without a wait. Echo assumes `WF(ThreadStep)`: between interrupts the processor runs the
thread, which spins in read_key_buffer, so a step that stays possible is taken. Nothing
is assumed about keys or about callers: `ReadlnReturns` says that a line returns once
its newline is in the ring. It stops at the point where a handler has dropped a full
ring or taken a backspace over something nobody had read (`orderly`).

Interrupts assumes `WF(Boot)` and `WF(irq_handler)`, the processor executes; `WF(Deliver)`,
it takes an interrupt that is pending while interrupts are on; `WF(FillBuffer)` and
`WF(Timeout)`, the keyboard controller passes on the next code once its buffer is free and
the UART reports bytes that have waited. Nobody has to press a key or send a byte. Boot
may stop on an error at the points where the code can, and both properties speak of the
machine once it idles.

## Proofs

TLAPS checks these for every value of the constants: number and size of blocks, every
memory map that satisfies the assumptions and every set of amounts; the size of the ring,
the keys and how many of them; the width of a u32; the items and the first capacity of a
list; letters and length of a path; the nibbles of a word, the numbers and bases asked for,
the strings and pieces of a message; size of the memory that is copied, and its bytes; names,
trees and sizes of the heap; files of an archive, the digits of a size and the width of a word; the size of the framebuffer and of a glyph,
letters and colours; size and threshold of the FIFO, other devices, and how much the devices send. The bounds of the models
(`MaxTyped`, `MaxNulls`, `MaxTotal`, `MaxAhead`, `MaxDrift`, `MaxPushed` and so on) are constants as well, so the
theorems hold for each of their values. A module is a component's; PROJECT.json lists the
theorems, and which of them state a property that a run checks.

- **Pmm_proofs**, from one inductive invariant: `TypeCorrect`, `NoDoubleAllocation`, `NoLeak`,
  `ExtentsKnown`, `ShortRuns`, `ForeignStays`. None of these is inductive by itself:
  that pmm_free clears exactly its own run needs the extents to be right, and that a
  later allocation leaves them right needs that what is held reads IN_USE. `IInv`
  therefore holds the three together (`Agree`: types, marks and extents), and adds that
  before pmmInit nobody holds anything. The step goes through pmmInit, pmm_alloc, pmm_free
  and pmm_realloc, the last built from the lemmas for taking a run (`GrabKeeps`) and for
  giving one back (`ReleaseKeeps`).
  When no pair past the map reads FREE (`NoStaleFree`), `PmmRefinesHeap` and
  `AllocationsAreCovered`: `SolidInv` adds to `IInv` that served blocks nobody owns
  read FREE, and that nothing else does: so a run that `Takes` finds `Suits`, and where
  the scan finds none there is none.
  `UsableMemoryOnly` and `TablesAreKept` ask nothing of the map or of the bits past it.
  The first compares the two ways from memory to numbers: each region that pmmInit counts adds
  its blocks to the number and its length to the address, and what the two differ by adds up
  to `Skipped` (`RegionAddress`, by induction along the map). The second adds `TablesShut` to
  `IInv`: the whole blocks that pmm_alloc_ataddress reserved never read FREE again, for a
  run that is taken meets none of them and a run that is given back was taken. The run
  pmm_uneven shows that the rounding in `TablesKept` cannot be left out.
  The scan itself, with the loop of Loop: `LoopInvariant` and `ScanCorrect`. The invariant has
  two parts. `Counted`: what was counted is the free run that ends before `i` and cannot be
  extended to the left. `NoneEarlier`: no run long enough begins before `start`. At the exit
  the first gives the run, the second that it is the first fit; and that is the same
  answer as `Takes` and `NoSpace` give (`SameAnswer`), on which the theorems above rest.
  Of the bitmap under it, in Words: `WordsTyped`; `CellInjective`, no two bit numbers share a
  sector and a shift; and from it `BitMapRefinesBitArray`, every step of the words is a step
  of independent bits or a stutter.
- **Echo_proofs**, of Input and of Echo, whose steps are steps of Input or leave it alone
  (`EchoIsInput`). `RingIsTyped` and `ReaderIsNotOvertaken` come from `InputInv`: while the keys
  were orderly, the cells from `r` to `w` hold what was typed and not taken, and a reader
  in the middle of its four loads holds the oldest of them, because a backspace moves
  `r` back only when there is nothing to take. `LineIsTyped`: the line is a fold of the edits
  over what was typed since the call began; what such a fold does with one more
  character is proved for FoldLeft by taking the least prefix on which it would be wrong.
  `CallsEndInTime` is the counterpart for where a call stops. `PromptIsKept`: `offset` minus
  `barrier` never counts more than what stands behind the prompt and what was echoed there
  without being shown (`unseen`); a lost increment only makes it smaller. `EchoIsTheLine` adds `LineInv`: what stands behind the prompt is the line, without
  its last character if a backspace is on its way, and then what waits in the ring. It assumes
  that the characters typed and printed and the zeroes can be counted in a u32
  (`MaxTyped + MaxPrinted + MaxNulls < U32`):
  beyond that `offset` wraps while a line is read.
- **DynList_proofs**, of Klibc: `ListIsTyped`, and `DynListRefinesList`, one lemma for each function of
  dynlist.c, with the shifting loops given by their closed form in DynList. `ListIsDense`: a
  list that has grown is more than a quarter full, for a first capacity over 2 (dynlist.h
  has 6): push doubles a full list and pop halves one that is exactly a quarter full, and a
  position next to either limit cannot be stepped over.
  `PathsAreCut` and `PathsAreCutOnce`, of Strtok, from `CutInv`: strtok points to a place that no
  name lies across, the buffer is the path with the names before that place cut off, and
  the tokens point to those names, each once and in order. A call skips slashes and finds
  the end of a name (`SkipsSlashes`, `FindsEnd`); that the tokens are the names, and not only
  as many, is counted in `PointsToNth`.
  `MemoryIsRight`, of Memory: the loops are folds over positions in the order in which the
  code takes them, and `StoresOneByOne` says what they have written after each turn. That
  memmove reads no byte it has already written is where its choice of a direction
  enters (`CopyWrites`). The comparisons stop at the first byte that differs (`SearchFinds`), and
  answer with its sign (`Compares`).
- **Format_proofs**, of Format in Klibc: `NumbersReadBack` and `MessagesAreSums`. Digits and
  counts are recursive functions over the numbers of a word; that such a function exists, and
  what holds of it, comes from the quotient being nearer to zero than the number
  (`DescentExists`). The digits of a number are those of its quotient and one more, and so
  is its value (`DigitsAreRight`); the leading nibbles of format_h32 are, after each turn
  of its loop, the number divided by the power of 16 the loop has come to (`HexRolls`);
  oct2bin agrees with the value as long as that fits, for a value that fits has prefixes
  that fit (`OctalReads`). A message is followed along its format string: after each
  character or directive no % waits, so many arguments are taken, and this much is printed
  (`Said`), which holds of each piece (`SaysPiece`) and hence, piece by piece, of all of them
  (`PiecesSaid`). That the fixed pieces print what the model says is computed for
  words of every size (`PrintsGreatest`, `PrintsSixteen`).
- **Vfs_proofs**: `TreeIsTyped`, `NodesHaveOnePlace` and `HeapIsAccounted` from `TreeInv`, which
  holds of every archive, set of names and size of the heap, and wherever an allocation
  fails. `Linked`: children and mount points are nodes that were made, from which it follows that
  a lookup returns such a node, also where it keeps `found_child` from the name before.
  `Placed`: all nodes but `Roots` are listed once and those not at all; it is
  inductive because vfs_add_node lists only the node made just before it, which nothing
  refers to yet, and because a mount changes neither children nor names. `Blocks`: a
  node, a list and a directory's list each take one block, and what a lookup or a parse
  does not give back is counted in `lists`. It also says that the root of devfs is there, and
  older than that of a parsed archive. What one function does to a tree is one lemma each
  (`NewNodeFacts`, `AddNodeFacts`, `LookupFacts`, `MountFacts`, `ParseFacts`). The loops of
  tar_parse_filesystem and of the lookup are folds in Vfs: `FirstByFirst` shows, with the
  least position at which something would be wrong, that what each turn keeps holds at
  the end.
  `PathsLeadRight` adds `PathInv`: a mount point carries devfs or a filesystem made before the
  mount point was, so that nothing leads to a directory just made but its own name, and an
  archive that was only parsed is not found by any lookup. A path is followed name by
  name (`Go`): a lookup that stopped short in a node without children is one whose path goes
  nowhere, for good (`NamedGoes`). What making a node and mounting change of one name
  (`ListsGo`, `MountGo`) then gives, along the path, what they change of all of it
  (`ListsNamed`, `MountNamed`); for a path that enters the mount point more than once, the
  first time counts.
  Of Archive: `FilesAreFound` and `FilesAreRead` from `TarInv`, that the nodes made so far are the
  first files and `offset` is the `Position` of the next header. Each turn keeps it because of
  three facts about all sizes: getsize returns the number whose digits it is given, although
  its power of 8 wraps in a word (`SizeIsRead`; sum and product are taken modulo the word at
  each digit, and a size fits in one); the parser's two steps of rounding are the padding of
  tar (`RoomFacts`); and positions grow, so only one header lies at each
  (`PositionsGrow`).
- **Console_proofs**, of Typing: `TypingTyped` and `GlyphsAreInside` from `Sound` (the row
  is a row of the page, in pixels and in characters; about the column nothing, which is why the
  arrows do no harm); `PromptIsSafe` from `Orderly`, which adds `Straight` (column and `offset_x`
  agree) and `Kept` (the prompt is what stands left of the barrier, in the barrier's row, or has
  scrolled up with its row); `ConsoleIsTerminal`, where each kind of character is a step
  of Terminal on the page, a wrap, a tab and an erasure taken apart into the glyphs they
  draw.
  Of ConsoleRace, whose console is shown to be the same (`Sameputch`): `RaceIsTyped`,
  `RowStaysOnPage` and `RaceStaysInside`. `RaceInv` says for each access of the thread where the row
  and the column may be and what its registers hold; the handler keeps it from wherever
  it comes in (`putchKind`), as it leaves a row of the page on the page and the row below the
  last one on one of the two that the thread's scroll can deal with. The proof does not use
  that the two cursors are near each other. It needs a page of two lines (`TwoLines`): on a page
  of one, a row that the handler has taken back and the thread takes back again falls below
  0. Between the margin test
  and the load of the column a key moves it by one place, or, at the margin, back to the
  first ones, and an arrow, which `pushed` counts, by up to one place more: that is what `RaceStaysInside` says of a glyph of the thread,
  while the handler's own stay inside their lines.
  Of Framebuffer: `PixelsAreGlyphs` from `ScreenInv`, which adds that everything from the row
  below the last line on is black: the memcpy of scroll ends in the middle of a
  place there. No byte is of two pixels (`SpotsApart`); the double loop of
  DrawAlphaBitmap, one fold over its turns, writes each pixel of the glyph once and no
  other (`DrawPlots`); and a place beside a glyph is one `Shown` leaves out (`BesideGlyph`).
- **Interrupts_proofs**: `TypeCorrect`, `LinesHeard`, `AllEnded` and `ByteThere`. `LineHeard` is
  kept by every step that leaves the tables alone, but that an interrupt reaches its
  handler at all, and is ended by it, needs `TablesLoaded` (how far init has come with
  the tables, and that interrupts are off until it is through) and `InService` (in
  service is what irq_handler serves and nothing else). `StillHigh` (a line that asks is
  high: the byte that made it ask has not been read) gives the port's handler its byte.
  What a device may do is one lemma (`DevicesHeard`), what init may do is taken apart
  into what it leaves alone, the tables, the order and the devices.
- **ArithmeticLemmas**: rounding up, quotients, multiples, remainders of sums and products, and
  that a set of naturals has a least element, from which the proofs above take the
  inductions they need; from that also that the function of a fold or of a recursion exists.

Assumed of the constants, by name in the modules and evaluated by TLC in each run that
extends them: the memory map is a list of regions (`MapTyped`) and begins with the second page
of memory (address2blockoffset takes off one block for it), `Block` holds every bit pmmInit
looks at, and the map has a region for the tables or pmmInit halts (`MapAssumption`); the
characters that the code tells apart are different ones (`EchoAssumption`, `CharAssumption`);
names are not NULL (`VfsAssumption`); the slash, the end of a string and letters are different
(`StrtokAssumption`), and a byte has eight bits (`MemoryAssumption`); the bit numbers used
lie in the words there are (`WordsAssumption`); a word has two nibbles or more, numbers are
words, bases are a u8, and strings are of characters (`FormatAssumption`); a header has room for the
digits of a size, and a word for the size (`TarAssumption`); a
framebuffer has room for a character, and a u32 for four times its size
(`ConsoleAssumption`), its sizes fit in a u16, its lines hold four bytes a pixel and a multiple
of four (`pitch` is any such number), and the glyph of the space has no bit set
(`ScreenAssumption`, `SpaceAssumption`; the columns glyphs are drawn at are those
`DrawnInside` allows). The hypotheses of single theorems are definitions:
`NoStaleFree`, which holds in pmm_heap, and `TwoLines`, which the module of the run console
asserts. Assumed of callers: they free live allocations only,
and never from a handler (no handler in the tree allocates).

Only model-checked, as fairness and ENABLED are beyond the prover: the liveness properties
(`Ends`, `ReadlnReturns`, `KeysRead`, `BytesRead`).

## What is left out

- The entry of `block_entries` for the block past the map lies behind the table; it is taken to
  be a cell that nobody else writes.
- The casts to u32 in pmm.c and the overflow of u64 byte counts: they need terabytes of
  memory.
- The content of allocated memory; parent, child_id and permissions of nodes, which nothing
  reads; the shapes of glyphs but three, the table of scan codes and the texts printed.
- Drawing a glyph, and moving the page up, are one step in ConsoleRace; interleavings
  inside them disturb pixels only. TLC's keys in the race are spaces, newlines and backspaces; the
  proofs allow every character.
- The bytes of scroll's memcpy are copied at once in Framebuffer. The code copies them one by
  one in ascending order, over lines that overlap; its target is below its source, for
  which `MemoryRight` says that such a copy is right.
- In Echo the console is left out: its barrier is set before the serial one and is the
  subject of Typing. In Interrupts what the handlers do with a character is left out.
- fd.c (fd_open stores nothing and nobody calls it), vfs_deldir and vfs_delfile (no caller,
  callbacks never set), bitmapPS, SetFramebufferColor, printk, serial_printf,
  uninstall_handler, IRQSetMask, IRQClearMask, reboot_system (no caller).
- The assembly, beyond what it does with the vector and the interrupt flag.
- Devices, the boot loader, tar as it writes archives, and the driver of the ramdisk are
  external: modelled as the code in the tree uses them.

## Plan

The allocator came first because everything stands on it, then the places where
interrupts meet the thread, then what is built on the heap, then boot, interrupts and the
library. What can still be added is a prompt read from both ends at once: keyboard and
serial port, with the console's barrier set in its two stores.
