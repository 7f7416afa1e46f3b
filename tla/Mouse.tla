-------------------------------- MODULE Mouse ---------------------------------
(***************************************************************************)
(* The PS/2 mouse of MOKernel (kernel.c): the interrupt handler that puts  *)
(* packets of three bytes together, the position of the cursor and the     *)
(* cells of the text screen whose attribute is inverted.  The handler runs *)
(* with interrupts disabled, so one byte is one action.                    *)
(*                                                                         *)
(* The mouse itself is external.  It sends packets; a byte may be lost (an *)
(* overrun of the controller), and an acknowledgement that mouse_init gave *)
(* up waiting for (mouse_read) arrives late, as the first byte the handler *)
(* sees.  Bytes keep their width: they are 0..255 on the wire, and signed  *)
(* once they are in the char array mouse_byte.                             *)
(*                                                                         *)
(* This module has the mouse's state and actions; Boot composes them with  *)
(* kmain and the filesystem commands.                                      *)
(***************************************************************************)
EXTENDS Integers

CONSTANTS
    Motions,  \* the <<dx, dy>> the mouse reports, 9-bit signed, dy upwards
    Columns,  \* cells of a screen row (80)
    Rows      \* rows of the screen (25)

ASSUME MouseAssumption ==
    /\ Motions \subseteq (-256 .. 255) \X (-256 .. 255)
    /\ Columns \in Nat \ {0} /\ Rows \in Nat \ {0}

VARIABLES
    mouse_cycle, mouse_byte, mouse_x, mouse_y,
    inverted,  \* the cells whose attribute is inverted
    present,   \* a mouse is attached
    motion,    \* the motion whose packet the mouse is sending; Still between two
    pos,       \* the next byte of that packet to send, 0, 1 or 2
    late,      \* acknowledgements mouse_init has not read
    whole,     \* history: no byte of this packet was lost, and no movement
               \* byte of it has the bit that marks a first byte
    synced     \* history: nothing was lost since the start or the last packet
               \* that was whole

decoder == <<mouse_cycle, mouse_byte, mouse_x, mouse_y, inverted>>
device  == <<present, motion, pos, late, whole, synced>>
mouse   == <<decoder, device>>

Cell == (0 .. Columns - 1) \X (0 .. Rows - 1)
Cursor == <<mouse_x, mouse_y>>

Bit(byte, mask) == (byte \div mask) % 2 = 1
Sync(byte) == Bit(byte, 8)

\* A byte as the char it is stored as.
Char(byte) == IF byte > 127 THEN byte - 256 ELSE byte

\* update_mouse_cursor(1) for a given cell.
Flip(cells, c) == IF c \in cells THEN cells \ {c} ELSE cells \cup {c}

ACK == 250   \* 0xFA
Still == <<0, 0>>

\* Byte k of the packet that reports motion mv.
Packet(mv, k) ==
    CASE k = 0 -> 8 + (IF mv[1] < 0 THEN 16 ELSE 0) + (IF mv[2] < 0 THEN 32 ELSE 0)
      [] k = 1 -> mv[1] % 256
      [] k = 2 -> mv[2] % 256

-------------------------------------------------------------------------------
(* The handler. *)

\* Variant of MoveX that subtracts the movement byte itself, not 256 less it.
MoveX_NoWrap(flags, dx) ==
    LET x == IF Bit(flags, 16) THEN mouse_x - Char(dx) ELSE mouse_x + Char(dx)
    IN  IF x < 0 THEN 0 ELSE IF x > Columns - 1 THEN Columns - 1 ELSE x

\* Variant of MoveX that clamps one cell too far right.
MoveX_OffByOne(flags, dx) ==
    LET x == IF Bit(flags, 16) THEN mouse_x - (256 - Char(dx)) ELSE mouse_x + Char(dx)
    IN  IF x < 0 THEN 0 ELSE IF x > Columns THEN Columns ELSE x

\* The column and the row after a packet. A row above the screen becomes the
\* bottom row.
MoveX(flags, dx) ==
    LET x == IF Bit(flags, 16) THEN mouse_x - (256 - Char(dx)) ELSE mouse_x + Char(dx)
    IN  IF x < 0 THEN 0 ELSE IF x > Columns - 1 THEN Columns - 1 ELSE x

MoveY(flags, dy) ==
    LET y == IF Bit(flags, 32) THEN mouse_y + (256 - Char(dy)) ELSE mouse_y - Char(dy)
    IN  IF y < 0 \/ y > Rows - 1 THEN Rows - 1 ELSE y

\* Variant of Decode that takes any byte as the first of a packet.
Decode_NoSync(in) ==
    /\ mouse_cycle' = (mouse_cycle + 1) % 3
    /\ mouse_byte' = [mouse_byte EXCEPT ![mouse_cycle] = in]
    /\ IF mouse_cycle = 2
         THEN /\ mouse_x' = MoveX(mouse_byte[0], mouse_byte[1])
              /\ mouse_y' = MoveY(mouse_byte[0], in)
         ELSE UNCHANGED <<mouse_x, mouse_y>>

\* The switch over mouse_cycle.
Decode(in) ==
    IF mouse_cycle = 0 /\ ~Sync(in)
      THEN UNCHANGED <<mouse_cycle, mouse_byte, mouse_x, mouse_y>>
      ELSE /\ mouse_cycle' = (mouse_cycle + 1) % 3
           /\ mouse_byte' = [mouse_byte EXCEPT ![mouse_cycle] = in]
           /\ IF mouse_cycle = 2
                THEN /\ mouse_x' = MoveX(mouse_byte[0], mouse_byte[1])
                     /\ mouse_y' = MoveY(mouse_byte[0], in)
                ELSE UNCHANGED <<mouse_x, mouse_y>>

\* Variant of mouse_handler_main that does not un-invert the old cell.
mouse_handler_main_NoErase(in) ==
    /\ Decode(in)
    /\ inverted' = Flip(inverted, Cursor')

\* The handler for a byte that is there: un-invert, decode, invert.
mouse_handler_main(in) ==
    /\ Decode(in)
    /\ inverted' = Flip(Flip(inverted, Cursor), Cursor')

-------------------------------------------------------------------------------
(* What the mouse sends. *)

\* A late acknowledgement reaches the handler.
LateAck ==
    /\ late > 0
    /\ mouse_handler_main(ACK)
    /\ late' = late - 1
    /\ synced' = FALSE
    /\ UNCHANGED <<present, motion, pos, whole>>

\* The next byte of a packet; a new packet starts with any motion. The mouse
\* has acknowledged the command that turns its reports on before it sends any.
NextByte(mv) ==
    /\ present /\ late = 0
    /\ pos = 0 \/ mv = motion
    /\ motion' = IF pos = 2 THEN Still ELSE mv
    /\ pos' = (pos + 1) % 3
    /\ UNCHANGED <<present, late>>

SendByte ==
    \E mv \in Motions :
      /\ NextByte(mv)
      /\ mouse_handler_main(Packet(mv, pos))
      /\ whole' = (pos = 0 \/ (whole /\ ~Sync(Packet(mv, pos))))
      /\ synced' = (synced \/ (pos = 2 /\ whole'))

LoseByte ==
    \E mv \in Motions :
      /\ NextByte(mv)
      /\ whole' = FALSE
      /\ synced' = FALSE
      /\ UNCHANGED decoder

MouseInit ==
    /\ mouse_cycle = 0 /\ mouse_byte = [k \in 0 .. 2 |-> 0]
    /\ mouse_x = Columns \div 2 /\ mouse_y = Rows \div 2
    /\ inverted = {}
    /\ present \in BOOLEAN /\ motion = Still /\ pos = 0 /\ late = 0
    /\ whole = FALSE /\ synced = TRUE

-------------------------------------------------------------------------------
(* Properties. *)

\* The packet position is one of three, and the cursor is on the screen, so
\* update_mouse_cursor never writes outside the text screen, however wrongly
\* the bytes were put together.
MouseTypeOK ==
    /\ mouse_cycle \in 0 .. 2
    /\ mouse_byte \in [0 .. 2 -> 0 .. 255]
    /\ Cursor \in Cell
    /\ inverted \subseteq Cell
    /\ present \in BOOLEAN /\ motion \in Motions \cup {Still} /\ pos \in 0 .. 2 /\ late \in 0 .. 2
    /\ whole \in BOOLEAN /\ synced \in BOOLEAN

\* The handler finds the packets again after lost bytes and late
\* acknowledgements: one packet that arrives whole and whose movement bytes do
\* not look like a first byte is enough, wherever mouse_cycle stood; and it
\* stays in step until the next byte is lost.
Aligned == synced => mouse_cycle = pos
===============================================================================
