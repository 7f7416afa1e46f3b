# A TLA+ verification of MOKernel

MOKernel is a small 32-bit x86 kernel in C: it boots from GRUB, prints to the VGA
text screen, and from then on does everything inside interrupt handlers. This
directory holds TLA+ modules that model its parts, TLC configurations that check
them on small instances, and TLAPS proofs for every size. All paths below are
relative to `src/code/src`.

## 1. Inventory

| part | state | operations | talks to |
|---|---|---|---|
| Filesystem (`fs.c`) | `fs_table` (32 inodes), `fs_cwd` | mkdir, cd, touch, write, rm, rmdir; pwd, ls, cat print | called by the shell |
| Terminal (`kernel.c`) | command buffer, history, modifier keys, cursor | one scancode per keyboard interrupt | runs the shell on Enter, echoes with `kprint` |
| Shell (`execute_command`) | none of its own | parses a line, calls fs and net | filesystem, network |
| Demand paging (`paging.c`, `pmm.c`, `swap.c`) | page table, frame watermark, swap slots | map, unmap, allocate, swap write, page fault | CPU faults; no caller in the kernel yet |
| Network stack (`net.c`) | ARP cache, ping flags | frame handlers, `ip_send`, ping, udp | driver, called by the shell, polls |
| RTL8139 driver (`net.c`) | receive ring offset, transmit descriptor index | init, receive, send | the card's DMA |
| Mouse (`kernel.c`) | packet bytes, cursor cell | one byte per interrupt | shares the screen with `kprint` |
| Timer | a tick counter | one increment per interrupt | nobody reads it |
| Boot (`kmain`, `start.asm`) | all of the above | initialises the parts in order | interrupts are on from `load_idt` |

What makes the code hard:

* **Long sequences of legal commands.** Inodes and history rows are reused with
  their old contents in place. Freeing an inode resets only its type.
* **Limits.** Full inode table, full history, a command that fills the buffer,
  exhausted frames and swap slots, a cursor that leaves the screen.
* **Nesting.** The page fault handler faults inside its own copy; `net_poll` is
  re-entered from the handlers it calls.
* **Interleaving.** A command runs to its end in the keyboard interrupt, with
  interrupts off, so commands are atomic among themselves. From `load_idt` to the
  end of `kmain`, though, interrupts run between the steps of the boot.
* **Loss and delay.** Late echo replies, evicted ARP entries, lost mouse bytes,
  a receive ring whose two ends wrap at different places.

`PROJECT.json` lists each of these hazards at its line, with the properties that
cover it or a note that says why none does.

What makes each part correct: the inode table is a tree holding the current
directory, with unique names; the screen shows the command Enter will execute and
the history returns whole commands in order; no two pages share a frame and a page
fault ends; an ARP entry is unique and found when needed, a reply is counted for its
own request; the driver reads frames where the card wrote them; the cursor cell is
inverted exactly once; what is typed during the boot does the running system no harm.

## 2. Modules

### FileSystem, FileSystemProofs

`fs_table` and `fs_cwd` are the variables, under their C names. Each operation of
`fs.c` that changes them is an operator of the same name, and each shell command an
action (`cmd_mkdir`, ...). A refused command prints and changes nothing: it is a
stuttering step, and an action's guard is the negation of the code's early returns.
Loops that return the first matching index are the least element of a set (`First`).
Names and texts are opaque; what the code does to them is kept as functions:
`StoredName` (cut at 16 characters by `fs_strncpy`), `TypedName` and `WriteText`
(the shell's `write` takes 15 characters as the name and leaves the rest to the
text). Properties: `NoOrphan`, `CwdLive`, `Acyclic`, `PathsReachRoot` (the walk of
`pwd` fits its stack), `UniqueNames`, `LocalStep`; `TouchCreatesEmpty` states the
help text.

### Terminal, LineEditor, TerminalProofs

`Terminal` has one action per kind of scancode of `keyboard_handler_main`. The
buffer and the history are byte arrays, stale bytes behind the NUL included. Of
the screen it keeps what was echoed since the kernel last printed (`shown`), the
cell where that begins (`home`), and whether erasing went further back than that
(`eaten`); a command is its effect on the cursor, some rows of output or `clear`.

The model starts when `load_idt` turns the interrupts on. From there `kmain` prints
`BootText`, the rest of its messages and the first prompt, one byte of a cell at a
time (`KmainChar`, `KmainAttribute`, `KmainNewline`), and keys come between any two of
them: `at` is how far `kmain` is, `half` that it stands between the two bytes of a
cell. A key pressed there is echoed from the middle of a cell on, until a newline puts
the cursor right. A command entered before the first prompt is bounded in number
(`MaxBootCommands`). `LineEditor` is the abstract specification: a line, the past lines, a
position, all plain sequences. `Terminal!ImplementsEditor` is the refinement, with
`Line` for the line and the C strings in the history rows for the past. The other
properties are `LineOnScreen` (what is shown is what Enter executes, and nothing
erases the prompt) and `NulTerminated`. `TypedIsVisible` states a line of the
repository's README.

`LineOnScreen` has one exception, which the code has. A line begun while `kmain` still
prints is cut by what `kmain` prints (`adrift`): the first prompt comes up empty over a
buffer that is not, Enter executes more than is shown, and Backspace goes on into the
prompt. Then the screen still shows the end of the line and nothing else, and the next
Enter ends it, unless `kmain` is inside a cell at that moment.

Scancodes that do nothing (releases, keys without a character, characters with the
buffer full) are stuttering steps. The two bytes of a cell are separate steps; the
load and the store of one `current_loc++` are not. A key between those would have its
own movement of the cursor undone, and what it echoed printed over: the cell numbers
would differ, and the line counts as `adrift` as it does in the model.

### VirtualMemory, VirtualMemoryProofs

The page table, the watermark of `pmm.c`, the swap slots and a stack of CPU
activities: an access of the kernel or a `swap_write`, and the page fault handlers
nested above it. `Touch` is the CPU accessing the page the current activity needs:
mapped, the activity completes; unmapped, `page_fault_handler` is entered on top.
The copy in `swap_read` is such an access, to the address of the new frame, because
paging is on. The kernel itself calls none of map, unmap and swap yet; the model
lets a caller use them in any order, with one restriction: `map_page` takes any
physical address, and the model's caller gives it only frames fresh from
`pmm_alloc_page`, so `NoAlias` is about the handler and the allocator and not about
what a caller may do to itself. Pages that hold the
kernel are left out of the numbering, page contents are opaque and offsets are
dropped, as the code clears them. `NestingBounded` counts the levels; that the 8 KB
stack of the kernel holds them is not considered. Properties: `NoAlias`,
`NestingBounded`, `HandlerNeverReturns`, `SwapHoldsLast`, `FaultEnds`, and
`LoadedFromSwap` for what the comments say.

`SwapHoldsLast` compares the slot `swap_find_index` finds with what was last stored for
the page (the history variable `stored`). Its two exceptions are the code's: a second
`swap_test_store` of a page takes a second slot, which the first one hides, so the data
it registers is never found; and `swap_write` marks its slot used before it copies.

### NetStack, NetStackProofs

The ARP cache, the two flags of ping, and the stack of calls in progress: a ping
waiting for a reply, an `ip_send` waiting for a MAC, a `net_poll`. Nothing else runs
while a command does, but frames reach the card between any two steps, and the
handler of an echo request calls `ip_send` from inside `net_poll`, which may wait and
poll again. `PollFrame` handles one frame by the handlers under their C names;
`PollDone` is the return of `net_poll` with the second look of `ip_send` that follows
it. A frame is its kind, sender and sequence number; what the handlers drop (too
short, for another host, other protocols, UDP) is `junk`. What is sent matters only
as the set of echo requests on the wire: the network loses, delays and doubles their
answers, and ARP frames arrive asked for or not. Lengths and checksums are left out,
as is the card below `net_send` and `rtl_recv`. Properties: `ArpUnique`,
`LookupFollowsArp`, `CommandEnds`, and `ReplyIsOwn` for a comment of `net_cmd_ping`.

### Driver, DriverProofs

`net_init`, `rtl_recv`, `net_poll` and `net_send` against the card. Memory is counted
in cells of four bytes, the alignment of everything in the receive ring; a cell holds
a part of a frame or zeros, so that reading at a wrong offset is visible as such. The
card is external: with `RTL_RCR_WRAP` set it writes a frame in one piece, past the end
of its 32 KB ring if need be, and past the end of `rx_buf` too, which it does not know
(`spilled` records it), and wraps its own offset; it drops a frame that does not
fit; it sends the transmit descriptors round-robin. `net_init` is four steps (found or
absent, reset, enabled, ready), because interrupts are already on and commands may
poll and send between them. A length read from data that is no header may be anything.
The history variables (`want`, `seen`, `garbled`, `handed`, `sent`, `misordered`, ...)
compare what comes out with an ideal queue. Properties: `FirstLapInOrder`,
`WaitingIntact`, `SentInOrder`, `CommandEnds`, and `ReadsTrackCard` for a comment.

`WaitingIntact` is about the frames that wait for `rtl_recv`: what the driver writes to
CAPR must keep the card from storing over them, and the room behind the ring must hold
the end of a frame that starts near its end. That room is short by the end of the CRC:
`RTL_RX_BUF_SIZE` is 32768 + 16 + 1500 bytes, and a frame of 1518 bytes with its header
from offset 32764 ends two bytes behind it. `rtl_recv` does not copy the CRC, so the
frame is returned whole, but the two bytes behind `rx_buf` are written. The property
leaves out the time in which frames are read again (below), when CAPR moves back and
the card may store over frames that wait. `CommandEnds` is claimed for the first lap
only: after it the driver may take data for headers.

`FirstLapInOrder` has an exception that its proof brought to light. A command that
polls while `net_init` is enabling the receiver takes frames from the card; then
`rx_cur = 0` makes the driver read them again. While it does, the card's ring pointer,
which went on from where the driver had been, may reach the end of the ring, and the
driver's old offset can coincide with the card's new one: the ring looks empty with
frames unread. No frame is garbled or reordered by it. `DriverAssumption` asks for a
ring longer than the longest frame and its header, as 32 KB is.

### Mouse, Boot, BootProofs

`Mouse` has the state of the mouse code (`mouse_cycle`, `mouse_byte`, `mouse_x`,
`mouse_y`), the set of cells whose attribute is inverted, and the device: packets of
three bytes, any of which may be lost, and acknowledgements that `mouse_init` did not
wait for. Bytes are 0..255 on the wire and signed in `mouse_byte`, as the compiler
makes `char` on x86. `Boot` composes it with `FileSystem` and `kmain`: `mouse_init`
with interrupts off, then `idt_init`, the assignments of `fs_init` (its two inner
loops, which clear the bytes of a name and of a content, are one step each, which is
exact for names and texts of one character), `net_stack_init` as one step (its own
steps are in `Driver`), the drawing of the
cursor as the loads of row and column, its read and its write, and the halt loop. From
`idt_init` on, any command of `FileSystem`, `pwd` and any mouse byte may come between
two of these steps. Handlers are
not interrupted, as their gates clear the interrupt flag. Of the text on the screen
only its effect on inverted cells is kept.

`mouse_init` writes a byte it read back as the controller's configuration. It may be
the scancode of a key, or a stale byte when `mouse_wait` gives up, so in the model the
bit that enables the keyboard interrupt comes out either way (`ReadStatus`). Nothing in
the code guards against it and no property is claimed; without the bit no command is
ever typed.

`pwd` (and `ls`, which begins with it) changes nothing, but its walk up the parents need
not end on a half-initialised table. Then it writes past `stack[]` and the interrupt
does not return: `hung`, after which nothing happens any more.

Properties: `CwdRooted`, `BootsFileSystem` (a refinement of `FileSystem`, which
justifies the state that module starts from), `Aligned`, `RightWay`, `OneCursor`,
`PwdReturns`, `BootEnds`. Four of them are stated with the exceptions the code
has, each found by a counterexample to the plainer statement:

* `CwdRooted`: `Rooted` asks for a set of directories in use that holds the current
  one and the root, is closed under "parent of" and has no cycle. A command that ends
  between `fs_table[0].type = FS_TYPE_DIR` and `fs_table[0].parent = FS_NULL_IDX` can
  remove the root. It takes five commands during the boot: make two directories and go
  into the second before `fs_init` clears it, make one there, in slot 0, and remove
  that one after slot 0 has become the root.
* `PwdReturns`: `pwd` returns if no command that changes the filesystem came inside
  `fs_init`, wherever `pwd` itself comes, and once `fs_init` is done it returns but for
  the window of `CwdRooted`. Inside `fs_init` five commands suffice against it: make two
  directories, go into the second, then, with slot 0 the root again and `fs_cwd` still 1,
  make a directory, which takes slot 1 and is its own parent, and `pwd`. The window does
  matter later: with nine commands, one of them in it, the root is removed, its slot
  becomes a child of slot 1, slot 1 a child of itself, and `cd ..` with `pwd` after the
  boot does not return. `BootEnds` excepts the boots in which `pwd` did not return.
* `OneCursor`: a packet that moves the cursor before `kmain` has drawn it leaves an
  inverted cell behind for good, as does text printed over the cursor. A packet
  between loading the position and reading the attribute is harmless; one between
  reading and writing is not.
* `RightWay`: a move to the left goes to column 0 and a move down to row 24, whatever
  its length; one past the top goes to row 24; one of 128 or more to the right or up
  may go the other way. What holds is that shorter ones never do, nor any move to the
  left or down.

## 3. Runs

| run | result | what it shows |
|---|---|---|
| `filesystem` | passes, 124,545 states | four inodes, two ordinary names, `.` and `..`, one text: every sequence of commands keeps the six invariants and `LocalStep` |
| `fs_long_names` | violated | a 17-character name is stored as its 16-character prefix but looked up whole, so a directory gets two entries of one name |
| `fs_touch` | violated | touch, write, rm, touch: the new "empty" file holds the old text |
| `terminal` | passes, 505,480 states | every sequence of scancodes over three characters, during the end of the boot and after it, keeps buffer and history in step and implements `LineEditor`; the screen is in step but for a line `kmain` printed into |
| `terminal_visible` | violated | output moves the prompt below the last row; what is typed there is not visible |
| `paging` | passes, 134,570 states | frames are not shared, the swap holds what was stored last but for the two exceptions, faults end |
| `paging_swap_in` | violated | a page registered with `swap_test_store` and accessed with frames free ends in the panic loop |
| `network` | passes, 348,879 states | unique cache entries, answers that follow the announcements, and commands that end, under three arriving frames of any kind |
| `ping_late_reply` | violated | the reply to request 1 comes after its timeout and is reported for request 2 |
| `driver` | passes, 859,320 states | on the first lap of the ring what is returned is the next frame, and an empty-looking ring has been read to the end but for the exception above; waiting frames are intact; frames leave in order unless all descriptors time out in a row or one is used before the reset; commands end while the first lap lasts |
| `rx_ring` | violated | after the first lap `rtl_recv` looks for the next header where the card wrote none, rejects the zeros it finds and returns nothing |
| `boot` | passes, 1,258,538 states | five commands and mouse bytes anywhere in the boot keep the eight properties of `Boot` and `Mouse` |

Bounds. Four inodes give chains of three directories below the root and a table that
fills up; names matter only by equality and by being special or cut, so two ordinary
names, `.` and `..`, and in `fs_long_names` a name with its 16- and 15-character
prefixes, are all the cases. `LocalStep` is checked without cut names, and does not say
that `write` changes the file that was named. A buffer of three bytes holds lines of two characters:
word and blank in either order, full lines, and shorter commands over longer ones in
the same row; two history rows fill and shift. Capital and small letters are one,
since the handler treats them alike. `MaxRow` and `MaxOutput` bound the rows a
session prints; the boot text is a newline and a prompt of one cell, so that a key can
come before the newline, between it and the prompt, and in the middle of a cell, and one
command may be entered before the prompt. Two mapped pages, two frames above them, five pages and two slots
let a fault nest, a frame's own address be in the swap, the frames run out and the
slots fill up. The check for deadlock is off in the paging runs: the machine does
stop, in the handler's `hlt` loop. Three hosts against a cache of two entries let an
address be evicted; for one to be evicted and come back a fourth ARP frame is needed,
one more than `MaxFrames`, and that case rests on the theorems. Two requests per ping let a reply be late; one poll
per wait is enough for a wait to succeed, to time out, and to be interrupted by an
echo request whose own wait nests in it. `MaxFrames` bounds the traffic of a
behaviour, `MaxRx` what the card holds. A ring of twelve cells and frames of three,
five and six cells with their headers let a frame end exactly at the end of the ring,
cross it and start in its last cells, and frames be read again after `rx_cur = 0`,
within the four frames of `MaxFrames`; four sends over three descriptors use one again
after a timeout. In `boot`, `MaxIrq` bounds commands
and mouse bytes together: five are needed for the exceptions of `CwdRooted` and
`PwdReturns`, and four for the handler to take a late acknowledgement for a first byte
and find the packets again. To lose a byte and find them again takes six, which the run
does not have: there the theorem `PacketsAligned` stands alone, as `CwdStaysRooted`
does for `cd ..`, since the run has no `..`. Three inodes and two names let a stale current directory get
children. The motions go left and past the top, right, and down with a move too long
for a `char`; two of the three have a movement byte that looks like a first byte. The
screen has its real size.

Fairness. `VirtualMemory` assumes weak fairness of `Touch` and
`page_fault_handler`, and `NetStack` of `Kernel`: the CPU goes on with what it has
begun, since both run with interrupts off. None is assumed of the caller, the user
or the network. `Driver` assumes the same of `Kernel`, and `Boot` of `kmain`:
interrupts delay the boot, and are too short to keep it from going on, but for a `pwd`
that does not return, after which `kmain` has no step to take. That the
traffic of a behaviour is finite matters to `CommandEnds`, as a `net_poll` that
always finds another frame does not return. `FileSystem` and `Terminal` have safety
properties only: a user need not type.

Every property of a passing run has a variant of a modelled operation, defined next
to it (`fs_rmdir_NotEmpty`, `CopyRow_NoNul`, `page_fault_handler_Frame0`, ...), under
which TLC finds the property violated.

## 4. Proofs

Every action property, every refinement and, but for `WaitingIntact`, every invariant
that a passing run checks is also a theorem, for every value of the constants that the named assumptions
allow. Bounds such as `MaxFrames` or `MaxIrq` are constants too, so the theorems hold
for sessions of any length. The inductive invariants below were checked by TLC on the
runs' instances before they were proved.

**`FileSystemProofs`**, from at least one inode, and names and texts closed under
cutting. The inductive invariant is `TreeInv`, the conjunction of `TypeOK`, `NoOrphan`,
`CwdLive` and `Acyclic`; none of the last three is inductive alone. Freeing a slot is
safe because what is freed is a leaf, and a file is a leaf only because parents are
directories (`NoOrphan`). The current directory is never what is freed because that
lies in it, and a cycle of length one is excluded (`Acyclic`). A new inode takes a free
slot, which is nobody's parent, so it closes no cycle. `StepCases` reduces the six
commands to four kinds of step and is the only lemma that looks at the searches.
`UniqueNames` is proved under the hypothesis that no typed name is cut, which
`fs_long_names` shows to be needed. `Locality` is the action property `LocalStep`.
`PathsFit` follows from `TreeInv`: among the inodes without a path to the root one
would have a parent with a path (`AllHavePaths`); a path repeats no inode, so by the
pigeonhole principle it is shorter than the table (`PathShort`); and the loop of
`fs_print_path`, a recursive function, has that path as its only solution
(`ClimbUnique`, by a least difference, which needs no induction theorem).

**`TerminalProofs`**, from `SizesAssumption` and `KeysAssumption` (buffer and history
of at least one, no key types a NUL). `TypeOK`, `LineOnScreen` and `NulTerminated` are
inductive together with `LineChars`, that the bytes of the line are characters, none of
them NUL, shown on the screen or not; it makes the string that
Enter stores the whole line (`BufFacts`). `CopyRowFacts` says that copying up to the
NUL keeps the string whatever bytes were behind it, and `HistoryRows` that a recalled
row has its NUL inside, so that `cmd_set` never cuts it. `TerminalRefinesEditor` is the
refinement of `LineEditor`, key by key: the arrow keys and Ctrl-P are `Older` and
`Newer` or stutter, Ctrl-W is `EraseWord`, and Enter is `Submit`, where shifting the
rows of a full history is the suffix that `Recent` takes.

**`VirtualMemoryProofs`**, from `MemoryAssumption`: the allocator starts at or above the
pages of the first table, as `0x00400000` does. The inductive invariant adds to
`TypeOK` and `NoAlias` where the frames in the table come from (`FramesOwned`), that
handlers load into high frames and are nested above a single activity
(`HandlersNested`), and that each level but a new one holds a frame
(`LevelsHoldFrames`). It yields `NoAliasing`, `BoundedNesting` and `NeverServed`:
on no machine does the handler return from a fault. `SwapKeepsLast` is the invariant
`SwapHoldsLast`, inductive relative to the rest: `SwapSteps` reduces every step to
leaving the swap alone, `swap_test_store`, or the beginning or the end of a
`swap_write`, and a slot that is taken was free, so it is none of another page's
(`TakenFacts`).

**`NetStackProofs`**, from `NetAssumption` (a cache of at least one entry, at least one
host). The inductive invariant `CacheInv` is the typing of cache and frames with
`ArpUnique`. `ArpUnique` says more than that addresses are unique, namely that the
entries fill a prefix of the cache: otherwise the search could stop at a free slot in
front of an entry of the same address. `CacheSteps` shows that only an ARP frame
changes the cache. `LookupSafety` is the action property `LookupFollowsArp`, from the
invariant before and after the step. `StackTyping` adds the calls in progress, however
deep `ip_send` and `net_poll` nest.

**`DriverProofs`**, from `DriverAssumption`. `TypeInv` adds to `TypeOK` that a cell of
the buffer is of a frame the card has stored. `SentInOrder` rests on `TxInv`: as long
as no run of timeouts used all descriptors and none was used before the reset, the
frames handed over and not yet sent are exactly what the descriptors before `tx_cur`
hold, in order (`InOrder`); that they are fewer than the descriptors is what the count
of timeouts gives. `FirstLapInOrder` rests on `RxInv`: the frames lie one behind the
other (`Layout`); on the first lap they stay where they were stored, `rx_cur` is at
the one that comes next, and the card's idea of `rx_cur` is the same, or, between
`rx_cur = 0` and the next read, behind the last frame read (`OnLap`).

**`BootProofs`**, from `BootAssumption` and `MouseAssumption`. `LateInv` and `PacketInv`
give types, `Aligned` and `RightWay`: acknowledgements come before the first packet,
and two bytes into a whole packet the handler waits for the third or for a first byte.
`DrawInv` gives `OneCursor`: while `kmain` draws, a packet leaves the old cell and the
new one inverted, and the late write takes the old one back. `RootInv` gives
`CwdRooted`; each command keeps the set of directories that roots the current one,
with the one it enters added or the one it removes taken out. `ClearInv`, which fields
the loop of `fs_init` has blanked, gives `BootRefinesFileSystem`: the table is fresh
when it becomes visible, and from then on a step is a command or a stutter.
`PwdInv` gives `PwdReturns`: as long as no command has come inside `fs_init`, all
directories lie on trails to slot 0 whenever a command can come (`DirsKept`), and the
walk from the current one ends. `fs_init` keeps the second of these although it takes
the first away, since all it does to a parent is to set it to `FS_NULL_IDX`, where the
walk stops too (`ClearParents`, `PathKept`). Once `fs_init` is done `CwdRooted` takes
over.

Only model-checked: `WaitingIntact`, an invariant of the driver and the card together; `FaultEnds`, `CommandEnds` (of `NetStack` and of `Driver`) and
`BootEnds`. The last three are liveness properties under fairness, out of the prover's reach.

## 5. Findings

1. Long names defeat the duplicate check (`fs_long_names`).
2. `touch` does not create an empty file in a reused slot (`fs_touch`).
3. Nothing scrolls, so typed characters stop being visible (`terminal_visible`).
4. Demand paging can never load a page (`paging_swap_in`, theorem `NeverServed`).
5. A late echo reply is counted for the next request (`ping_late_reply`).
6. The driver loses the receive ring after one lap of 32 KB (`rx_ring`).

## 6. Not modelled, and the plan

The models and the theorems that were planned are complete. What could be added are
safety facts behind the liveness properties, such as a measure that every step of
`Kernel` in `NetStack` lowers.

Left out for good: the accesses of PCI and the PIT set-up (port I/O without state),
the timer (a counter nobody reads), the assembly stubs, and the wording and layout of
output. `ip_checksum`, `parse_ip` and the payload lengths are functions of the bytes
of one header or line; no state depends on them. Checksums are computed for what is
sent and verified for nothing that is received, so a frame with a wrong one is handled
like any other. Of the text that `kprint` writes while another `kprint` is interrupted
`Terminal` keeps where the echo goes, not what the cells then show.
