--------------------------------- MODULE Boot ---------------------------------
(***************************************************************************)
(* The boot of MOKernel (kmain in kernel.c) from mouse_init to the halt    *)
(* loop.  idt_init enables interrupts (load_idt executes sti) before       *)
(* fs_init, net_stack_init and the first drawing of the cursor, so         *)
(* commands typed and mouse bytes that arrive during the boot interleave   *)
(* with them.  kmain is interrupted between any two assignments of         *)
(* fs_init; a handler is never interrupted.                                *)
(*                                                                         *)
(* What net_stack_init does is in Driver and NetStack: here it is one      *)
(* step.  A command is one of FileSystem; what it and kmain print is kept  *)
(* as far as it overwrites an inverted cell of the screen.  A name is one  *)
(* character, so that clearing name[] or content[] is its first            *)
(* assignment.                                                             *)
(***************************************************************************)
EXTENDS Mouse, Sequences

CONSTANTS
    FS_MAX_ENTRIES,  \* number of inodes (32 in fs.h)
    Names, Data,     \* the names and texts a user types
    MaxIrq           \* bound: commands and mouse bytes altogether

ASSUME BootAssumption ==
    /\ FS_MAX_ENTRIES \in Nat \ {0}
    /\ "" \notin Names /\ "" \notin Data
    /\ MaxIrq \in Nat

VARIABLES
    pc,          \* where kmain is
    k,           \* the assignments fs_init has made
    fs_table, fs_cwd,
    cell, attr,  \* update_mouse_cursor in kmain: the cell, its attribute as read
    kbd_irq,     \* the controller raises keyboard interrupts
    hung,        \* the keyboard interrupt does not return
    irqs,        \* number of commands and mouse bytes so far
    early,       \* history: whether a command ran inside fs_init, and whether
                 \* one ran between its first two assignments to the root
    disturbed    \* history: the cursor moved before kmain drew it, or was
                 \* printed over

files == <<fs_table, fs_cwd>>
draw  == <<cell, attr>>
ctrl  == <<kbd_irq, hung>>
vars  == <<mouse, pc, k, files, draw, ctrl, irqs, early, disturbed>>

FS == INSTANCE FileSystem WITH
        StoredName <- [n \in Names |-> n], TypedName <- [n \in Names |-> n],
        WriteText <- [w \in Names \X Data |-> w[2]], Length <- [d \in Data |-> 1]

-------------------------------------------------------------------------------
(* mouse_init, with interrupts still disabled. *)

\* The byte that is read is written back as the configuration, and its bit 0
\* enables the keyboard interrupt. It is the configuration byte, in which that is
\* set; or the scancode of a key pressed shortly before; or, when mouse_wait(0)
\* times out, a stale byte: the bit may come out either way.
ReadStatus ==
    /\ pc = "status" /\ pc' = "ack1"
    /\ kbd_irq' \in BOOLEAN
    /\ UNCHANGED <<mouse, k, files, draw, hung, irqs, early, disturbed>>

\* Variant of mouse_read without the time-out.
mouse_read_Forever ==
    /\ \/ pc = "ack1" /\ pc' = "ack2"
       \/ pc = "ack2" /\ pc' = "idt"
    /\ present
    /\ UNCHANGED <<mouse, k, files, draw, ctrl, irqs, early, disturbed>>

\* mouse_read, after each of the commands 0xF6 and 0xF4: it takes an
\* acknowledgement, or gives up and leaves it to arrive later, if a mouse is
\* there to send it.
mouse_read ==
    /\ \/ pc = "ack1" /\ pc' = "ack2"
       \/ pc = "ack2" /\ pc' = "idt"
    /\ \/ present /\ late' \in {late, late + 1}
       \/ ~present /\ UNCHANGED late
    /\ UNCHANGED <<decoder, present, motion, pos, whole, synced,
                   k, files, draw, ctrl, irqs, early, disturbed>>

-------------------------------------------------------------------------------
(* The rest of kmain. *)

\* Interrupts are enabled.
idt_init ==
    /\ pc = "idt" /\ pc' = "fs_init"
    /\ UNCHANGED <<mouse, k, files, draw, ctrl, irqs, early, disturbed>>

\* fs_init assigns the fields of each inode in this order.
Fields == <<"type", "size", "parent", "name", "content">>
Blank == [type |-> FS!FS_TYPE_NONE, size |-> 0, parent |-> FS!FS_NULL_IDX,
          name |-> FS!Empty, content |-> FS!Empty]

\* The number of assignments of the loop of fs_init.
LoopEnd == FS_MAX_ENTRIES * Len(Fields)

\* Variant of ClearField whose loop leaves the last inode out.
ClearField_ShortLoop ==
    /\ pc = "fs_init" /\ k < LoopEnd
    /\ IF k \div Len(Fields) = FS_MAX_ENTRIES - 1
         THEN UNCHANGED fs_table
         ELSE LET f == Fields[(k % Len(Fields)) + 1]
              IN  fs_table' = [fs_table EXCEPT ![k \div Len(Fields)][f] = Blank[f]]
    /\ k' = k + 1
    /\ UNCHANGED <<mouse, pc, fs_cwd, draw, ctrl, irqs, early, disturbed>>

\* One assignment of the loop.
ClearField ==
    /\ pc = "fs_init" /\ k < LoopEnd
    /\ LET f == Fields[(k % Len(Fields)) + 1]
       IN  fs_table' = [fs_table EXCEPT ![k \div Len(Fields)][f] = Blank[f]]
    /\ k' = k + 1
    /\ UNCHANGED <<mouse, pc, fs_cwd, draw, ctrl, irqs, early, disturbed>>

\* One of the three assignments to the root directory.
MakeRoot ==
    /\ pc = "fs_init"
    /\ \/ /\ k = LoopEnd
          /\ fs_table' = [fs_table EXCEPT ![FS!FS_ROOT_IDX].type = FS!FS_TYPE_DIR]
       \/ /\ k = LoopEnd + 1
          /\ fs_table' = [fs_table EXCEPT ![FS!FS_ROOT_IDX].parent = FS!FS_NULL_IDX]
       \/ /\ k = LoopEnd + 2
          /\ fs_table' = [fs_table EXCEPT ![FS!FS_ROOT_IDX].name = FS!Empty]
    /\ k' = k + 1
    /\ UNCHANGED <<mouse, pc, fs_cwd, draw, ctrl, irqs, early, disturbed>>

\* Variant of SetCwd that trusts fs_cwd's initial value.
SetCwd_Keep ==
    /\ pc = "fs_init" /\ k = LoopEnd + 3
    /\ pc' = "net"
    /\ UNCHANGED <<mouse, k, files, draw, ctrl, irqs, early, disturbed>>

\* The last assignment of fs_init.
SetCwd ==
    /\ pc = "fs_init" /\ k = LoopEnd + 3
    /\ fs_cwd' = FS!FS_ROOT_IDX
    /\ pc' = "net"
    /\ UNCHANGED <<mouse, k, fs_table, draw, ctrl, irqs, early, disturbed>>

net_stack_init ==
    /\ pc = "net" /\ pc' = "load"
    /\ UNCHANGED <<mouse, k, files, draw, ctrl, irqs, early, disturbed>>

\* update_mouse_cursor(1), which kmain may be interrupted in: the row and the
\* column are loaded, the attribute read, and the inverted attribute written.
LoadY ==
    /\ pc = "load" /\ pc' = "loadx"
    /\ cell' = <<cell[1], mouse_y>>
    /\ UNCHANGED <<mouse, k, files, attr, ctrl, irqs, early, disturbed>>

LoadX ==
    /\ pc = "loadx" /\ pc' = "read"
    /\ cell' = <<mouse_x, cell[2]>>
    /\ UNCHANGED <<mouse, k, files, attr, ctrl, irqs, early, disturbed>>

ReadAttr ==
    /\ pc = "read" /\ pc' = "write"
    /\ attr' = (cell \in inverted)
    /\ UNCHANGED <<mouse, k, files, cell, ctrl, irqs, early, disturbed>>

WriteAttr ==
    /\ pc = "write" /\ pc' = "halt"
    /\ inverted' = IF attr THEN inverted \ {cell} ELSE inverted \cup {cell}
    /\ UNCHANGED <<mouse_cycle, mouse_byte, mouse_x, mouse_y, device,
                   k, files, draw, ctrl, irqs, early, disturbed>>

\* while (1) hlt
Halt == pc = "halt" /\ UNCHANGED vars

kmain ==
    /\ ~hung
    /\ \/ ReadStatus \/ mouse_read \/ idt_init \/ ClearField \/ MakeRoot \/ SetCwd
       \/ net_stack_init \/ LoadY \/ LoadX \/ ReadAttr \/ WriteAttr

-------------------------------------------------------------------------------
(* The interrupts. *)

IdtLoaded == pc \in {"fs_init", "net", "load", "loadx", "read", "write", "halt"}
InterruptsOn == IdtLoaded /\ ~hung

\* A command that changes the filesystem is typed.
Command ==
    /\ InterruptsOn /\ kbd_irq /\ irqs < MaxIrq
    /\ FS!Next
    /\ early' = IF pc # "fs_init" \/ k = 0 THEN early
                ELSE IF k = LoopEnd + 1 \/ early = "root" THEN "root" ELSE "loop"
    /\ irqs' = irqs + 1
    /\ UNCHANGED <<mouse, pc, k, draw, ctrl, disturbed>>

\* Does the walk of fs_print_path from inode i meet the root or FS_NULL_IDX?
PathEnds(i) ==
    \A S \in SUBSET FS!Idx :
      i \in S /\ FS!FS_ROOT_IDX \notin S => \E j \in S : fs_table[j].parent \notin S

\* pwd or ls is typed. If the walk does not end it overruns stack[], and the
\* interrupt never returns; if it ends, the command changes nothing.
fs_pwd ==
    /\ InterruptsOn /\ kbd_irq /\ irqs < MaxIrq
    /\ ~PathEnds(fs_cwd)
    /\ hung' = TRUE
    /\ irqs' = irqs + 1
    /\ UNCHANGED <<mouse, pc, k, files, draw, kbd_irq, early, disturbed>>

Hang == hung /\ UNCHANGED vars

\* A byte of the mouse arrives or is lost. A move disturbs the cursor unless
\* kmain has drawn it, or has loaded the old position and not yet read the cell.
MouseByte ==
    /\ InterruptsOn /\ irqs < MaxIrq
    /\ LateAck \/ SendByte \/ LoseByte
    /\ disturbed' = (disturbed \/ (Cursor' # Cursor /\ pc \notin {"read", "halt"}))
    /\ irqs' = irqs + 1
    /\ UNCHANGED <<pc, k, files, draw, ctrl, early>>

\* kprint, as any command and clear_screen, writes the normal attribute over an
\* inverted cell. Elsewhere it changes no attribute.
kprint ==
    /\ InterruptsOn
    /\ \E c \in inverted : inverted' = inverted \ {c}
    /\ disturbed' = TRUE
    /\ UNCHANGED <<mouse_cycle, mouse_byte, mouse_x, mouse_y, device,
                   pc, k, files, draw, ctrl, irqs, early>>

\* The tables are zero at load time: type NONE, parent 0, no name.
Init ==
    /\ MouseInit
    /\ pc = "status" /\ k = 0
    /\ fs_table = [i \in FS!Idx |-> [Blank EXCEPT !.parent = 0]]
    /\ fs_cwd = 0
    /\ cell = Cursor /\ attr = FALSE
    /\ kbd_irq = TRUE /\ hung = FALSE
    /\ irqs = 0 /\ early = "no" /\ disturbed = FALSE

Next == kmain \/ Halt \/ Hang \/ Command \/ fs_pwd \/ MouseByte \/ kprint

\* kmain goes on: interrupts that return delay it and do not stop it.
Spec == Init /\ [][Next]_vars /\ WF_vars(kmain)

-------------------------------------------------------------------------------
(* Properties. *)

fs_ready == pc \in {"net", "load", "loadx", "read", "write", "halt"}

\* The mouse is well typed and its cursor on the screen, and the filesystem is
\* well typed from the zeroed tables on.
TypeOK ==
    /\ MouseTypeOK
    /\ FS!TypeOK
    /\ pc \in {"status", "ack1", "ack2", "idt", "fs_init",
               "net", "load", "loadx", "read", "write", "halt"}
    /\ k \in 0 .. LoopEnd + 3
    /\ cell \in Cell /\ attr \in BOOLEAN
    /\ kbd_irq \in BOOLEAN /\ hung \in BOOLEAN
    /\ irqs \in 0 .. MaxIrq
    /\ early \in {"no", "loop", "root"} /\ disturbed \in BOOLEAN

\* A path of directories in use leads from directory i to the root: i and the root
\* are in a set of them that is closed under "parent of" and has no cycle.
Rooted(i) ==
    \E S \in SUBSET {j \in FS!Idx : fs_table[j].type = FS!FS_TYPE_DIR} :
      /\ {i, FS!FS_ROOT_IDX} \subseteq S
      /\ \A j \in S \ {FS!FS_ROOT_IDX} : fs_table[j].parent \in S
      /\ \A T \in SUBSET (S \ {FS!FS_ROOT_IDX}) :
           T # {} => \E j \in T : fs_table[j].parent \notin T

\* Whatever was typed during the boot, even into the half-initialised table, the
\* user stands in a directory in use whose path leads to the root once fs_init
\* has run: fs_init resets fs_cwd last. The one exception is a command between
\* fs_table[0].type = FS_TYPE_DIR and fs_table[0].parent = FS_NULL_IDX: slot 0
\* may then still be a child of the old fs_cwd, and rmdir removes the root.
CwdRooted == fs_ready /\ early # "root" => Rooted(fs_cwd)

\* The filesystem as FileSystem sees it: fresh until fs_init is done, and not
\* looked at when a command ran inside fs_init.
Fresh == [i \in FS!Idx |->
            IF i = 0 THEN [Blank EXCEPT !.type = FS!FS_TYPE_DIR] ELSE Blank]
Seen == fs_ready /\ early = "no"
Abstract == INSTANCE FileSystem WITH
        fs_table <- IF Seen THEN fs_table ELSE Fresh,
        fs_cwd <- IF Seen THEN fs_cwd ELSE 0,
        StoredName <- [n \in Names |-> n], TypedName <- [n \in Names |-> n],
        WriteText <- [w \in Names \X Data |-> w[2]], Length <- [d \in Data |-> 1]

\* When no command runs inside fs_init, the boot implements FileSystem: commands
\* typed between idt_init and the loop of fs_init leave no trace, and every
\* later command is one of a filesystem that started fresh.
BootsFileSystem == Abstract!Spec

\* Exactly the cell under the mouse is inverted once kmain has drawn the cursor,
\* through moves, lost bytes and late acknowledgements, even when a packet moves
\* the cursor while kmain is drawing it at the old place; unless it moved before
\* that or text was printed over it.
OneCursor == pc = "halt" /\ ~disturbed => inverted = {Cursor}

\* A packet in step never moves the cursor the wrong way, although a negative
\* movement byte is subtracted from 256 as a negative char, unless it moves right
\* or up by 128 or more; a move past the top goes to the bottom row.
RightWay ==
    [][synced /\ pos = 2 /\ mouse_cycle' # mouse_cycle =>
         /\ motion[1] < 0 => mouse_x' <= mouse_x
         /\ motion[1] \in 0 .. 127 => mouse_x' >= mouse_x
         /\ motion[2] < 0 => mouse_y' >= mouse_y
         /\ motion[2] \in 0 .. 127 /\ motion[2] <= mouse_y => mouse_y' <= mouse_y]_vars

\* pwd returns if no other command came inside fs_init: before it, at any point of
\* it and after it. And once fs_init is done it returns whatever came inside it,
\* with the exception that CwdRooted names. What is left is real: inside fs_init
\* mkdir may take the slot of the directory that fs_cwd still stands in, which so
\* becomes its own parent, and pwd does not return.
PwdReturns == hung => early # "no" /\ (fs_ready => early = "root")

\* The boot ends in the halt loop with the cursor drawn, also when no mouse
\* is there to acknowledge a command, as mouse_wait gives up; unless a command
\* typed inside fs_init does not return.
BootEnds == <>(pc = "halt" \/ hung)
===============================================================================
