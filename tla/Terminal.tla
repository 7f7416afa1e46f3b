------------------------------- MODULE Terminal -------------------------------
(***************************************************************************)
(* The terminal of MOKernel (kernel.c): the keyboard interrupt handler     *)
(* with its modifier keys, the command buffer, the command history and the *)
(* echo on the text screen.  The handler runs with interrupts disabled, so *)
(* one scancode is one action, the command it may execute included.        *)
(*                                                                         *)
(* The buffer and the history rows are kept as the byte arrays they are,   *)
(* stale bytes behind the NUL included, because what is checked is that    *)
(* they are always read up to a NUL that is there.  Of the screen the      *)
(* model keeps what was echoed since the kernel last printed, and where.   *)
(*                                                                         *)
(* The terminal starts when load_idt turns the interrupts on (line 634).   *)
(* kmain goes on printing its messages and the first prompt, one byte of   *)
(* a cell at a time, while keys arrive between any two of them.            *)
(***************************************************************************)
EXTENDS Integers, Sequences, SequencesExt

CONSTANTS
    CMD_BUFFER_SIZE,  \* bytes of the command buffer (256)
    HISTORY_MAX,      \* rows of the history (10)
    CharKeys,         \* keys that type a character, named by the character
    Shifted,          \* the character a key types with Shift (keyboard_map_shift)
    Columns,          \* cells of a screen row (80)
    Rows,             \* rows of the screen (25)
    PromptLen,        \* cells of the prompt "OS> " (4)
    BootRow,          \* the row the cursor is on when the interrupts are enabled (5)
    BootText,         \* what kmain prints from then on, the first prompt included
    MaxRow,           \* bound: the last row a prompt may be printed on
    MaxOutput,        \* bound: most rows a command prints
    MaxBootCommands   \* bound: most commands entered while kmain still prints

ASSUME SizesAssumption ==
    /\ CMD_BUFFER_SIZE \in Nat \ {0} /\ HISTORY_MAX \in Nat \ {0}
    /\ Columns \in Nat \ {0} /\ Rows \in Nat \ {0}
    /\ PromptLen \in 0 .. Columns - 1
    /\ MaxRow \in Nat /\ MaxOutput \in Nat /\ MaxBootCommands \in Nat /\ BootRow \in 0 .. MaxRow
    /\ BootText \in Seq({"cell", "newline"})

NUL == "NUL"

\* Scancodes that type nothing. "up" and "down" are 0x48 and 0x50, "release" any
\* key release but those of Ctrl and Shift, "dead" a key keyboard_map has no
\* character for.
ControlKeys == {"e0", "ctrl", "ctrl_up", "shift", "shift_up", "up", "down",
                "enter", "backspace", "release", "dead"}

\* The characters that can be typed.
Chars == CharKeys \cup {Shifted[k] : k \in CharKeys}

ASSUME KeysAssumption == /\ DOMAIN Shifted = CharKeys
                         /\ NUL \notin Chars
                         /\ CharKeys \cap ControlKeys = {}

VARIABLES
    cmd_buffer, cmd_len,
    history, history_count, history_index,
    shift_pressed, ctrl_pressed, e0_pressed,
    shown,   \* the characters echoed since the kernel last printed
    home,    \* the cell of the first of them
    eaten,   \* erasing has taken cells of what the kernel printed
    at,      \* kmain: the next element of BootText
    half,    \* kmain has written the first of the two bytes of a cell
    adrift   \* kmain has printed after a line that was not empty, since the last Enter

mods   == <<shift_pressed, ctrl_pressed, e0_pressed>>
screen == <<shown, home, eaten>>
edit   == <<cmd_buffer, cmd_len, screen>>
hist   == <<history, history_count, history_index>>
kmain  == <<at, half>>
vars   == <<edit, hist, mods, kmain, adrift>>

Bytes == 0 .. CMD_BUFFER_SIZE - 1
Slots == 0 .. HISTORY_MAX - 1

\* The C string in a byte array: what a loop that stops at NUL reads.
CString(a) ==
    LET n == CHOOSE i \in 0 .. CMD_BUFFER_SIZE :
               /\ i < CMD_BUFFER_SIZE => a[i] = NUL
               /\ \A j \in 0 .. i - 1 : a[j] # NUL
    IN  [i \in 1 .. n |-> a[i - 1]]

\* The command being typed.
Line == [i \in 1 .. cmd_len |-> cmd_buffer[i - 1]]

\* The cursor, in cells from the top left of the screen (current_loc / 2).
Cursor == home + Len(shown)

\* The row after a newline: current_loc += 160 - current_loc % 160.
NextRow == Cursor \div Columns + 1

-------------------------------------------------------------------------------
(* The buffer. *)

\* k times: the cursor goes back one cell, which it blanks, unless it is at the top
\* left (current_loc >= 2). Behind the echo lies what the kernel printed. Then text is
\* echoed.
EraseAndEcho(k, text) ==
    /\ shown' = SubSeq(shown, 1, Len(shown) - k) \o text
    /\ home' = IF k <= Len(shown) THEN home
               ELSE IF k <= Cursor THEN Cursor - k ELSE 0
    /\ eaten' = (eaten \/ (k > Len(shown) /\ home > 0))

\* Variant of cmd_set that forgets the old line without erasing its echo.
cmd_set_NoClear(str) ==
    LET n == IF Len(str) < CMD_BUFFER_SIZE THEN Len(str) ELSE CMD_BUFFER_SIZE - 1
    IN  /\ cmd_buffer' = [i \in Bytes |-> IF i < n THEN str[i + 1] ELSE cmd_buffer[i]]
        /\ cmd_len' = n
        /\ EraseAndEcho(0, SubSeq(str, 1, n))

\* cmd_set(str): erase the line from the screen, then copy and echo str.
cmd_set(str) ==
    LET n == IF Len(str) < CMD_BUFFER_SIZE THEN Len(str) ELSE CMD_BUFFER_SIZE - 1
    IN  /\ cmd_buffer' = [i \in Bytes |-> IF i < n THEN str[i + 1] ELSE cmd_buffer[i]]
        /\ cmd_len' = n
        /\ EraseAndEcho(cmd_len, SubSeq(str, 1, n))

history_up ==
    IF history_count # 0 /\ history_index > 0
      THEN /\ history_index' = history_index - 1
           /\ cmd_set(CString(history[history_index']))
           /\ UNCHANGED <<history, history_count>>
      ELSE UNCHANGED <<edit, hist>>

\* Variant of history_down with <= in its bound.
history_down_PastEnd ==
    IF history_count # 0 /\ history_index <= history_count
      THEN /\ history_index' = history_index + 1
           /\ cmd_set(IF history_index' < history_count
                        THEN CString(history[history_index']) ELSE <<>>)
           /\ UNCHANGED <<history, history_count>>
      ELSE UNCHANGED <<edit, hist>>

history_down ==
    IF history_count # 0 /\ history_index < history_count
      THEN /\ history_index' = history_index + 1
           /\ cmd_set(IF history_index' < history_count
                        THEN CString(history[history_index']) ELSE <<>>)
           /\ UNCHANGED <<history, history_count>>
      ELSE UNCHANGED <<edit, hist>>

\* Drop the last k characters of the line, one cell of the screen for each.
EraseChars(k) ==
    /\ cmd_len' = cmd_len - k
    /\ EraseAndEcho(k, <<>>)
    /\ UNCHANGED cmd_buffer

\* The number of characters backspace_word erases: blanks, then a word.
backspace_word ==
    LET IsBlank(i) == cmd_buffer[i] = " "
        m == CHOOSE m \in 0 .. cmd_len :
               /\ \A i \in m .. cmd_len - 1 : IsBlank(i)
               /\ m > 0 => ~IsBlank(m - 1)
        k == CHOOSE k \in 0 .. m :
               /\ \A i \in k .. m - 1 : ~IsBlank(i)
               /\ k > 0 => IsBlank(k - 1)
    IN  EraseChars(cmd_len - k)

\* Variant of CopyRow that leaves the NUL out.
CopyRow_NoNul(dst, src) ==
    LET n == Len(CString(src))
    IN  [i \in Bytes |-> IF i < n THEN src[i] ELSE dst[i]]

\* A non-empty command enters the history; when the history is full its rows move
\* down by one first. A row is copied up to its NUL and keeps its bytes behind it.
CopyRow(dst, src) ==
    LET n == Len(CString(src))
    IN  [i \in Bytes |-> IF i <= n THEN src[i] ELSE dst[i]]

SaveHistory(buf) ==
    IF cmd_len = 0 THEN UNCHANGED <<history, history_count>>
    ELSE IF history_count < HISTORY_MAX
      THEN /\ history' = [history EXCEPT ![history_count] = CopyRow(@, buf)]
           /\ history_count' = history_count + 1
      ELSE /\ history' = [j \in Slots |->
                            CopyRow(history[j], IF j = HISTORY_MAX - 1 THEN buf
                                                ELSE history[j + 1])]
           /\ UNCHANGED history_count

-------------------------------------------------------------------------------
(* keyboard_handler_main, by the kind of scancode it reads. *)

KeyE0 ==
    /\ e0_pressed' = TRUE
    /\ UNCHANGED <<edit, hist, shift_pressed, ctrl_pressed, kmain, adrift>>

\* The scancode after 0xE0: the arrow keys; any other extended key is ignored.
KeyExtended(code) ==
    /\ e0_pressed
    /\ code # "e0"
    /\ e0_pressed' = FALSE
    /\ CASE code = "up"   -> history_up
         [] code = "down" -> history_down
         [] OTHER         -> UNCHANGED <<edit, hist>>
    /\ UNCHANGED <<shift_pressed, ctrl_pressed, kmain, adrift>>

KeyModifier(code) ==
    /\ ~e0_pressed
    /\ code \in {"ctrl", "ctrl_up", "shift", "shift_up"}
    /\ ctrl_pressed' = IF code \in {"ctrl", "ctrl_up"} THEN code = "ctrl" ELSE ctrl_pressed
    /\ shift_pressed' = IF code \in {"shift", "shift_up"} THEN code = "shift" ELSE shift_pressed
    /\ UNCHANGED <<edit, hist, e0_pressed, kmain, adrift>>

\* The character of a key.
chr(code) == IF shift_pressed THEN Shifted[code] ELSE code

\* Ctrl-W erases a word, Ctrl-P recalls the previous command.
KeyCtrl(code) ==
    /\ ~e0_pressed /\ ctrl_pressed
    /\ \/ chr(code) \in {"w", "W"} /\ backspace_word /\ UNCHANGED hist
       \/ chr(code) \in {"p", "P"} /\ history_up
    /\ UNCHANGED <<mods, kmain, adrift>>

\* Enter: newline, NUL, history, execute_command, a new prompt. A command prints
\* some rows of text, or is "clear" and moves the cursor to the top. The newline
\* also puts a cursor right that stands between the two bytes of a cell; if kmain is
\* between the two, its second byte puts the cursor wrong again.
KeyEnter ==
    /\ ~e0_pressed
    /\ at <= Len(BootText) /\ cmd_len > 0 => history_count < MaxBootCommands
    /\ LET buf == [cmd_buffer EXCEPT ![cmd_len] = NUL] IN
       /\ cmd_buffer' = buf
       /\ SaveHistory(buf)
       /\ history_index' = history_count'
    /\ \E row \in 0 .. MaxRow :
         /\ row - NextRow \in 0 .. MaxOutput \/ (cmd_len > 0 /\ row = 0)
         /\ home' = row * Columns + PromptLen
    /\ cmd_len' = 0
    /\ shown' = <<>>
    /\ eaten' = FALSE
    /\ adrift' = half
    /\ UNCHANGED <<mods, kmain>>

KeyBackspace ==
    /\ ~e0_pressed
    /\ cmd_len > 0
    /\ EraseChars(1)
    /\ UNCHANGED <<hist, mods, kmain, adrift>>

\* Variant of KeyChar that fills the last byte too.
KeyChar_Full(code) ==
    /\ ~e0_pressed
    /\ ~(ctrl_pressed /\ chr(code) \in {"w", "W", "p", "P"})
    /\ cmd_len < CMD_BUFFER_SIZE
    /\ cmd_buffer' = [cmd_buffer EXCEPT ![cmd_len] = chr(code)]
    /\ cmd_len' = cmd_len + 1
    /\ shown' = Append(shown, chr(code))
    /\ UNCHANGED <<home, eaten>>
    /\ UNCHANGED <<hist, mods, kmain, adrift>>

KeyChar(code) ==
    /\ ~e0_pressed
    /\ ~(ctrl_pressed /\ chr(code) \in {"w", "W", "p", "P"})
    /\ cmd_len < CMD_BUFFER_SIZE - 1
    /\ cmd_buffer' = [cmd_buffer EXCEPT ![cmd_len] = chr(code)]
    /\ cmd_len' = cmd_len + 1
    /\ shown' = Append(shown, chr(code))
    /\ UNCHANGED <<home, eaten>>
    /\ UNCHANGED <<hist, mods, kmain, adrift>>

\* Releases, keys without a character and, with a full buffer, characters change
\* nothing: they are the stuttering steps of Spec.

-------------------------------------------------------------------------------
(* kmain, from fs_init's message to the first prompt (kernel.c 656-666). *)

Printing(element) == ~half /\ at <= Len(BootText) /\ BootText[at] = element

\* The kernel's text comes after what was echoed so far.
PrintAt(cell) ==
    /\ home' = cell
    /\ shown' = <<>>
    /\ eaten' = FALSE
    /\ UNCHANGED <<cmd_buffer, cmd_len, hist, mods>>

\* vidptr[current_loc++] = str[i]: a key that comes now is echoed from the middle of
\* a cell on.
KmainChar ==
    /\ Printing("cell")
    /\ PrintAt(Cursor + 1)
    /\ adrift' = (adrift \/ cmd_len > 0)
    /\ half' = TRUE
    /\ UNCHANGED at

\* vidptr[current_loc++] = 0x07: the second byte of the cell.
KmainAttribute ==
    /\ half
    /\ PrintAt(Cursor)
    /\ adrift' = (adrift \/ cmd_len > 0)
    /\ half' = FALSE
    /\ at' = at + 1

\* A newline moves the cursor to the start of a row, from the middle of a cell too.
KmainNewline ==
    /\ Printing("newline")
    /\ NextRow <= MaxRow
    /\ PrintAt(NextRow * Columns)
    /\ adrift' = (cmd_len > 0)
    /\ at' = at + 1
    /\ UNCHANGED half

-------------------------------------------------------------------------------

Init ==
    /\ cmd_buffer = [i \in Bytes |-> NUL]
    /\ cmd_len = 0
    /\ history = [j \in Slots |-> [i \in Bytes |-> NUL]]
    /\ history_count = 0
    /\ history_index = 0
    /\ shift_pressed = FALSE /\ ctrl_pressed = FALSE /\ e0_pressed = FALSE
    /\ home = BootRow * Columns
    /\ shown = <<>> /\ eaten = FALSE
    /\ at = 1 /\ half = FALSE /\ adrift = FALSE

Next ==
    \/ KeyE0
    \/ \E code \in ControlKeys \cup CharKeys : KeyExtended(code)
    \/ \E code \in ControlKeys : KeyModifier(code)
    \/ \E code \in CharKeys : KeyCtrl(code)
    \/ KeyEnter
    \/ KeyBackspace
    \/ \E code \in CharKeys : KeyChar(code)
    \/ KmainChar
    \/ KmainAttribute
    \/ KmainNewline

Spec == Init /\ [][Next]_vars

-------------------------------------------------------------------------------
(* Properties. *)

\* cmd_len stays short of the last byte, which the NUL needs, and history_count and
\* history_index inside the history: no write of keyboard_handler_main leaves an
\* array, and only characters are echoed.
TypeOK ==
    /\ cmd_buffer \in [Bytes -> Chars \cup {NUL}]
    /\ cmd_len \in Bytes
    /\ history \in [Slots -> [Bytes -> Chars \cup {NUL}]]
    /\ history_count \in 0 .. HISTORY_MAX
    /\ history_index \in 0 .. history_count
    /\ shift_pressed \in BOOLEAN /\ ctrl_pressed \in BOOLEAN /\ e0_pressed \in BOOLEAN
    /\ shown \in Seq(Chars) /\ home \in Nat /\ eaten \in BOOLEAN
    /\ at \in 1 .. Len(BootText) + 1 /\ half \in BOOLEAN /\ adrift \in BOOLEAN
    /\ half => at <= Len(BootText)

\* The characters of the line that are not on the screen.
Hidden == cmd_len - Len(shown)

\* What stands behind the prompt is the command that Enter would execute, and erasing
\* has not touched the prompt (cmd_clear_display, cmd_set, backspace_word, the
\* Backspace branch). The exception is real: a line begun while kmain still prints is
\* cut by its text, so the first prompt comes up empty over a buffer that is not, and
\* Backspace takes the prompt away. Then the screen shows the end of the line only,
\* but never a character that is not in it, and the next Enter ends it.
LineOnScreen ==
    /\ Hidden >= 0
    /\ \A i \in DOMAIN shown : shown[i] = cmd_buffer[Hidden + i - 1]
    /\ ~adrift /\ ~half => Hidden = 0 /\ ~eaten

\* A row of the history holds a NUL inside the row, after at least one character.
\* Without it cmd_set and the shifting loop of the Enter branch, which both run to
\* the NUL, leave the row; the bytes an older, longer command left behind the NUL
\* are what makes it hard.
NulTerminated ==
    \A j \in 0 .. history_count - 1 :
      /\ \E i \in Bytes : history[j][i] = NUL
      /\ history[j][0] # NUL

\* With its NUL-terminated arrays, its shifting of a full history and its index
\* arithmetic the terminal does what a line editor over plain sequences does:
\* recalled commands are the last HISTORY_MAX submitted ones, in order and whole.
Editor == INSTANCE LineEditor WITH
            line <- Line,
            past <- [i \in 1 .. history_count |-> CString(history[i - 1])],
            pos <- history_index,
            LineMax <- CMD_BUFFER_SIZE - 1,
            HistoryMax <- HISTORY_MAX
ImplementsEditor == Editor!Spec

\* "Characters appear on screen as typed" (README.md): each character of the line is
\* in a cell of the screen. kprint never scrolls and never wraps to the top.
TypedIsVisible ==
    \A i \in DOMAIN shown : home + i - 1 < Rows * Columns
===============================================================================
