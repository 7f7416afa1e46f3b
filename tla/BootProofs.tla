------------------------------ MODULE BootProofs ------------------------------
(***************************************************************************)
(* What the boot and the mouse guarantee for every screen, every set of    *)
(* motions, every number of inodes and any interleaving of interrupts.     *)
(***************************************************************************)
EXTENDS Boot, TLAPS

-------------------------------------------------------------------------------
(* The invariants. *)

\* mouse_init leaves at most one acknowledgement per command, and the mouse sends
\* no packet before they have arrived.
LateInv ==
    /\ pc \in {"status", "ack1"} => late = 0
    /\ pc = "ack2" => late <= 1
    /\ late > 0 \/ ~IdtLoaded => pos = 0

\* Two bytes into a packet that arrives whole the handler waits for the third, or
\* for a first byte, which the third does not look like. In step, the bytes it
\* has are those of the packet.
PacketInv ==
    /\ Aligned
    /\ pos = 2 /\ whole => mouse_cycle \in {0, 2}
    /\ pos # 0 => motion \in Motions
    /\ synced /\ pos # 0 => mouse_byte[0] = Packet(motion, 0)
    /\ synced /\ pos = 2 => mouse_byte[1] = Packet(motion, 1)

\* Which cells are inverted while kmain draws the cursor, undisturbed: none before
\* the position is loaded; then, if a packet moves the cursor, the old cell and the
\* new one, until the write at the old cell takes that back.
DrawInv ==
    ~disturbed =>
      /\ pc \in {"read", "write"} =>
           inverted = IF cell = Cursor THEN {} ELSE {cell, Cursor}
      /\ pc = "write" => (attr <=> cell \in inverted)
      /\ pc = "halt" => inverted = {Cursor}
      /\ pc = "loadx" => cell[2] = mouse_y
      /\ pc \notin {"read", "write", "halt"} => inverted = {}

\* The root as far as fs_init has made it, unless a command came between its type
\* and its parent.
RootInv ==
    early # "root" =>
      /\ fs_ready \/ k > LoopEnd => fs_table[FS!FS_ROOT_IDX].type = FS!FS_TYPE_DIR
      /\ fs_ready \/ k > LoopEnd + 1 => fs_table[FS!FS_ROOT_IDX].parent = FS!FS_NULL_IDX
      /\ fs_ready => Rooted(fs_cwd)

-------------------------------------------------------------------------------
(* The mouse. *)

LEMMA Screen == Columns \in Nat \ {0} /\ Rows \in Nat \ {0}
  BY MouseAssumption

LEMMA MotionRange ==
    ASSUME NEW mv \in Motions
    PROVE  mv[1] \in -256 .. 255 /\ mv[2] \in -256 .. 255
<1>1. mv \in (-256 .. 255) \X (-256 .. 255)
  BY MouseAssumption, Zenon
<1> QED BY <1>1

LEMMA PacketFacts ==
    ASSUME NEW mv \in Motions
    PROVE  /\ mv[1] \in -256 .. 255 /\ mv[2] \in -256 .. 255
           /\ \A i \in 0 .. 2 : Packet(mv, i) \in 0 .. 255
           /\ Packet(mv, 1) = mv[1] % 256 /\ Packet(mv, 2) = mv[2] % 256
           /\ Sync(Packet(mv, 0))
           /\ Bit(Packet(mv, 0), 16) <=> mv[1] < 0
           /\ Bit(Packet(mv, 0), 32) <=> mv[2] < 0
<1>1. mv[1] \in -256 .. 255 /\ mv[2] \in -256 .. 255
  BY MotionRange
<1>2. Packet(mv, 1) = mv[1] % 256 /\ Packet(mv, 2) = mv[2] % 256
  BY DEF Packet
<1>3. Packet(mv, 0) = 8 + (IF mv[1] < 0 THEN 16 ELSE 0) + (IF mv[2] < 0 THEN 32 ELSE 0)
  BY DEF Packet
<1>4. \A x \in -256 .. 255 : x % 256 \in 0 .. 255
  OBVIOUS
<1>5. Packet(mv, 0) \in 0 .. 255
  BY <1>1, <1>3
<1>6. \A i \in 0 .. 2 : Packet(mv, i) \in 0 .. 255
  BY <1>1, <1>2, <1>4, <1>5
<1>7. CASE mv[1] < 0 /\ mv[2] < 0
  <2>1. Packet(mv, 0) = 56
    BY <1>3, <1>7
  <2> QED BY <1>1, <1>2, <1>6, <1>7, <2>1 DEF Sync, Bit
<1>8. CASE mv[1] < 0 /\ ~(mv[2] < 0)
  <2>1. Packet(mv, 0) = 24
    BY <1>3, <1>8
  <2> QED BY <1>1, <1>2, <1>6, <1>8, <2>1 DEF Sync, Bit
<1>9. CASE ~(mv[1] < 0) /\ mv[2] < 0
  <2>1. Packet(mv, 0) = 40
    BY <1>3, <1>9
  <2> QED BY <1>1, <1>2, <1>6, <1>9, <2>1 DEF Sync, Bit
<1>10. CASE ~(mv[1] < 0) /\ ~(mv[2] < 0)
  <2>1. Packet(mv, 0) = 8
    BY <1>3, <1>10
  <2> QED BY <1>1, <1>2, <1>6, <1>10, <2>1 DEF Sync, Bit
<1> QED BY <1>7, <1>8, <1>9, <1>10

\* The clamping keeps the cursor on the screen, whatever the bytes.
LEMMA MoveFacts ==
    ASSUME Cursor \in Cell, NEW flags, NEW byte \in 0 .. 255
    PROVE  MoveX(flags, byte) \in 0 .. Columns - 1 /\ MoveY(flags, byte) \in 0 .. Rows - 1
<1>1. mouse_x \in 0 .. Columns - 1 /\ mouse_y \in 0 .. Rows - 1
  BY DEF Cursor, Cell
<1>2. Char(byte) \in -128 .. 127
  BY DEF Char
<1> QED BY <1>1, <1>2, Screen DEF MoveX, MoveY

\* A movement as the handler reads its byte.
AsChar(v) == Char(v % 256)

\* It is a char, and up to 127 the movement itself.
Faithful(v) == AsChar(v) \in -128 .. 127 /\ (v \in 0 .. 127 => AsChar(v) = v)

LEMMA AsCharFacts == \A v \in -256 .. 255 : Faithful(v)
  BY SMTT(30) DEF Faithful, AsChar, Char

\* A packet in step moves the cursor the way the mouse moved.
LEMMA MoveDirection ==
    ASSUME Cursor \in Cell, NEW mv \in Motions
    PROVE  LET x == MoveX(Packet(mv, 0), Packet(mv, 1))
               y == MoveY(Packet(mv, 0), Packet(mv, 2))
           IN  /\ mv[1] < 0 => x <= mouse_x
               /\ mv[1] \in 0 .. 127 => x >= mouse_x
               /\ mv[2] < 0 => y >= mouse_y
               /\ mv[2] \in 0 .. 127 /\ mv[2] <= mouse_y => y <= mouse_y
<1>1. mouse_x \in 0 .. Columns - 1 /\ mouse_y \in 0 .. Rows - 1
  BY DEF Cursor, Cell
<1>2. mv[1] \in -256 .. 255 /\ mv[2] \in -256 .. 255
  BY PacketFacts
<1>3. Packet(mv, 1) = mv[1] % 256 /\ Packet(mv, 2) = mv[2] % 256
  BY PacketFacts
<1>4. Char(Packet(mv, 1)) = AsChar(mv[1]) /\ Char(Packet(mv, 2)) = AsChar(mv[2])
  BY <1>3 DEF AsChar
<1>5. /\ Char(Packet(mv, 1)) \in -128 .. 127 /\ Char(Packet(mv, 2)) \in -128 .. 127
      /\ mv[1] \in 0 .. 127 => Char(Packet(mv, 1)) = mv[1]
      /\ mv[2] \in 0 .. 127 => Char(Packet(mv, 2)) = mv[2]
  <2>1. Faithful(mv[1]) /\ Faithful(mv[2])
    BY <1>2, AsCharFacts
  <2>2. /\ AsChar(mv[1]) \in -128 .. 127 /\ AsChar(mv[2]) \in -128 .. 127
        /\ mv[1] \in 0 .. 127 => AsChar(mv[1]) = mv[1]
        /\ mv[2] \in 0 .. 127 => AsChar(mv[2]) = mv[2]
    BY <2>1, Zenon DEF Faithful
  <2> QED BY <1>4, <2>2, Zenon
<1>6. /\ mv[1] < 0 => MoveX(Packet(mv, 0), Packet(mv, 1)) <= mouse_x
      /\ mv[1] \in 0 .. 127 => MoveX(Packet(mv, 0), Packet(mv, 1)) >= mouse_x
  <2>1. Bit(Packet(mv, 0), 16) <=> mv[1] < 0
    BY PacketFacts
  <2> QED BY <1>1, <1>2, <1>5, <2>1, Screen DEF MoveX
<1>7. /\ mv[2] < 0 => MoveY(Packet(mv, 0), Packet(mv, 2)) >= mouse_y
      /\ mv[2] \in 0 .. 127 /\ mv[2] <= mouse_y => MoveY(Packet(mv, 0), Packet(mv, 2)) <= mouse_y
  <2>1. Bit(Packet(mv, 0), 32) <=> mv[2] < 0
    BY PacketFacts
  <2> QED BY <1>1, <1>2, <1>5, <2>1, Screen DEF MoveY
<1> QED BY <1>6, <1>7

\* What the handler does to the position in a packet.
LEMMA DecodeFacts ==
    ASSUME MouseTypeOK, NEW in \in 0 .. 255, mouse_handler_main(in)
    PROVE  /\ mouse_cycle' \in 0 .. 2 /\ mouse_byte' \in [0 .. 2 -> 0 .. 255] /\ Cursor' \in Cell
           /\ inverted' \subseteq Cell
           /\ inverted' = Flip(Flip(inverted, Cursor), Cursor')
           /\ mouse_cycle = 0 /\ ~Sync(in) => mouse_cycle' = 0
           /\ mouse_cycle = 0 /\ Sync(in) => mouse_cycle' = 1 /\ mouse_byte'[0] = in
           /\ mouse_cycle = 1 => mouse_cycle' = 2 /\ mouse_byte'[1] = in /\ mouse_byte'[0] = mouse_byte[0]
           /\ mouse_cycle = 2 => /\ mouse_cycle' = 0
                                 /\ mouse_x' = MoveX(mouse_byte[0], mouse_byte[1])
                                 /\ mouse_y' = MoveY(mouse_byte[0], in)
<1>1. mouse_cycle \in 0 .. 2 /\ mouse_byte \in [0 .. 2 -> 0 .. 255] /\ Cursor \in Cell /\ inverted \subseteq Cell
  BY DEF MouseTypeOK
<1>2. Decode(in) /\ inverted' = Flip(Flip(inverted, Cursor), Cursor')
  BY DEF mouse_handler_main
<1>3. mouse_cycle' \in 0 .. 2 /\ mouse_byte' \in [0 .. 2 -> 0 .. 255]
  BY <1>1, <1>2 DEF Decode
<1>4. Cursor' \in Cell
  <2>1. mouse_x \in 0 .. Columns - 1 /\ mouse_y \in 0 .. Rows - 1
    BY <1>1 DEF Cursor, Cell
  <2>2. mouse_byte[1] \in 0 .. 255
    BY <1>1
  <2>3. mouse_x' \in 0 .. Columns - 1 /\ mouse_y' \in 0 .. Rows - 1
    <3>1. CASE UNCHANGED <<mouse_x, mouse_y>>
      BY <2>1, <3>1
    <3>2. CASE mouse_x' = MoveX(mouse_byte[0], mouse_byte[1]) /\ mouse_y' = MoveY(mouse_byte[0], in)
      BY <1>1, <2>2, <3>2, MoveFacts
    <3> QED BY <1>2, <3>1, <3>2 DEF Decode
  <2> QED BY <2>3 DEF Cursor, Cell
<1>5. inverted' \subseteq Cell
  BY <1>1, <1>2, <1>4 DEF Flip
<1>6. mouse_cycle = 0 /\ ~Sync(in) => mouse_cycle' = 0
  BY <1>2 DEF Decode
<1>7. mouse_cycle = 0 /\ Sync(in) => mouse_cycle' = 1 /\ mouse_byte'[0] = in
  BY <1>1, <1>2 DEF Decode
<1>8. mouse_cycle = 1 => mouse_cycle' = 2 /\ mouse_byte'[1] = in /\ mouse_byte'[0] = mouse_byte[0]
  BY <1>1, <1>2 DEF Decode
<1>9. mouse_cycle = 2 => /\ mouse_cycle' = 0
                         /\ mouse_x' = MoveX(mouse_byte[0], mouse_byte[1])
                         /\ mouse_y' = MoveY(mouse_byte[0], in)
  BY <1>1, <1>2 DEF Decode
<1> QED BY <1>2, <1>3, <1>4, <1>5, <1>6, <1>7, <1>8, <1>9

\* The byte that reaches the handler, and what is sent with it.
LEMMA ByteCases ==
    ASSUME MouseTypeOK, LateInv, PacketInv, LateAck \/ SendByte \/ LoseByte
    PROVE  \/ /\ late > 0 /\ pos = 0 /\ mouse_handler_main(ACK)
              /\ late' = late - 1 /\ synced' = FALSE
              /\ UNCHANGED <<present, motion, pos, whole>>
           \/ \E mv \in Motions :
                /\ NextByte(mv) /\ UNCHANGED <<present, late>>
                /\ pos' = IF pos = 2 THEN 0 ELSE pos + 1
                /\ motion' = IF pos = 2 THEN Still ELSE mv
                /\ pos # 0 => mv = motion
                /\ \/ /\ mouse_handler_main(Packet(mv, pos))
                      /\ whole' = (pos = 0 \/ (whole /\ ~Sync(Packet(mv, pos))))
                      /\ synced' = (synced \/ (pos = 2 /\ whole'))
                   \/ whole' = FALSE /\ synced' = FALSE /\ UNCHANGED decoder
<1>1. CASE LateAck
  BY <1>1 DEF LateAck, LateInv, MouseTypeOK
<1>2. ASSUME NEW mv \in Motions, NextByte(mv)
      PROVE  /\ UNCHANGED <<present, late>>
             /\ pos' = IF pos = 2 THEN 0 ELSE pos + 1
             /\ motion' = IF pos = 2 THEN Still ELSE mv
             /\ pos # 0 => mv = motion
  <2>1. \A p \in 0 .. 2 : (p + 1) % 3 = IF p = 2 THEN 0 ELSE p + 1
    OBVIOUS
  <2>2. pos \in 0 .. 2
    BY DEF MouseTypeOK
  <2> QED BY <1>2, <2>1, <2>2 DEF NextByte
<1>3. CASE SendByte
  BY <1>2, <1>3 DEF SendByte
<1>4. CASE LoseByte
  BY <1>2, <1>4 DEF LoseByte
<1> QED BY <1>1, <1>3, <1>4

LEMMA MouseByteTypes ==
    ASSUME MouseTypeOK, LateInv, PacketInv, LateAck \/ SendByte \/ LoseByte
    PROVE  MouseTypeOK'
<1>1. CASE late > 0 /\ mouse_handler_main(ACK) /\ late' = late - 1 /\ synced' = FALSE
           /\ UNCHANGED <<present, motion, pos, whole>>
  <2>1. ACK \in 0 .. 255
    BY DEF ACK
  <2>2. /\ mouse_cycle' \in 0 .. 2 /\ mouse_byte' \in [0 .. 2 -> 0 .. 255] /\ Cursor' \in Cell
        /\ inverted' \subseteq Cell
    BY <1>1, <2>1, DecodeFacts, ZenonT(30)
  <2>3. late' \in 0 .. 2
    BY <1>1 DEF MouseTypeOK
  <2> QED BY <1>1, <2>2, <2>3 DEF MouseTypeOK
<1>2. ASSUME NEW mv \in Motions, UNCHANGED <<present, late>>,
             pos' = IF pos = 2 THEN 0 ELSE pos + 1,
             motion' = IF pos = 2 THEN Still ELSE mv
      PROVE  pos' \in 0 .. 2 /\ motion' \in Motions \cup {Still} /\ present' \in BOOLEAN /\ late' \in 0 .. 2
  BY <1>2 DEF MouseTypeOK
<1>3. ASSUME NEW mv \in Motions, mouse_handler_main(Packet(mv, pos))
      PROVE  /\ mouse_cycle' \in 0 .. 2 /\ mouse_byte' \in [0 .. 2 -> 0 .. 255] /\ Cursor' \in Cell
             /\ inverted' \subseteq Cell
  <2>1. Packet(mv, pos) \in 0 .. 255
    BY PacketFacts DEF MouseTypeOK
  <2> QED BY <1>3, <2>1, DecodeFacts
<1>4. ASSUME UNCHANGED decoder
      PROVE  /\ mouse_cycle' \in 0 .. 2 /\ mouse_byte' \in [0 .. 2 -> 0 .. 255] /\ Cursor' \in Cell
             /\ inverted' \subseteq Cell
  BY <1>4 DEF decoder, MouseTypeOK, Cursor
<1>5. ASSUME NEW mv, whole' = (pos = 0 \/ (whole /\ ~Sync(Packet(mv, pos)))),
             synced' = (synced \/ (pos = 2 /\ whole'))
      PROVE  whole' \in BOOLEAN /\ synced' \in BOOLEAN
  BY <1>5
<1>6. CASE \E mv \in Motions :
                /\ NextByte(mv) /\ UNCHANGED <<present, late>>
                /\ pos' = IF pos = 2 THEN 0 ELSE pos + 1
                /\ motion' = IF pos = 2 THEN Still ELSE mv
                /\ pos # 0 => mv = motion
                /\ \/ /\ mouse_handler_main(Packet(mv, pos))
                      /\ whole' = (pos = 0 \/ (whole /\ ~Sync(Packet(mv, pos))))
                      /\ synced' = (synced \/ (pos = 2 /\ whole'))
                   \/ whole' = FALSE /\ synced' = FALSE /\ UNCHANGED decoder
  <2>1. PICK mv \in Motions :
                /\ UNCHANGED <<present, late>>
                /\ pos' = IF pos = 2 THEN 0 ELSE pos + 1
                /\ motion' = IF pos = 2 THEN Still ELSE mv
                /\ \/ /\ mouse_handler_main(Packet(mv, pos))
                      /\ whole' = (pos = 0 \/ (whole /\ ~Sync(Packet(mv, pos))))
                      /\ synced' = (synced \/ (pos = 2 /\ whole'))
                   \/ whole' = FALSE /\ synced' = FALSE /\ UNCHANGED decoder
    BY <1>6
  <2>2. pos' \in 0 .. 2 /\ motion' \in Motions \cup {Still} /\ present' \in BOOLEAN /\ late' \in 0 .. 2
    BY <1>2, <2>1
  <2>3. /\ mouse_cycle' \in 0 .. 2 /\ mouse_byte' \in [0 .. 2 -> 0 .. 255] /\ Cursor' \in Cell
        /\ inverted' \subseteq Cell
    BY <1>3, <1>4, <2>1
  <2>4. whole' \in BOOLEAN /\ synced' \in BOOLEAN
    BY <1>5, <2>1
  <2> QED BY <2>2, <2>3, <2>4 DEF MouseTypeOK
<1> QED BY <1>1, <1>6, ByteCases

LEMMA LateByte ==
    ASSUME MouseTypeOK, LateInv, PacketInv, LateAck \/ SendByte \/ LoseByte, IdtLoaded, pc' = pc
    PROVE  LateInv'
<1>1. late \in 0 .. 2 /\ pos \in 0 .. 2
  BY DEF MouseTypeOK
<1>2. pc \notin {"status", "ack1", "ack2"} /\ IdtLoaded'
  BY DEF IdtLoaded
<1>3. late' > 0 => pos' = 0
  <2>1. CASE LateAck
    BY <1>1, <2>1 DEF LateAck, LateInv
  <2>2. CASE SendByte \/ LoseByte
    <3>1. late = 0 /\ late' = late
      BY <2>2 DEF SendByte, LoseByte, NextByte
    <3> QED BY <3>1
  <2> QED BY <2>1, <2>2
<1> QED BY <1>2, <1>3 DEF LateInv

\* One whole packet is enough to be in step again.
LEMMA PacketByte ==
    ASSUME MouseTypeOK, LateInv, PacketInv, LateAck \/ SendByte \/ LoseByte
    PROVE  PacketInv'
<1>0. /\ mouse_cycle \in 0 .. 2 /\ pos \in 0 .. 2 /\ whole \in BOOLEAN /\ synced \in BOOLEAN
      /\ synced => mouse_cycle = pos
      /\ pos = 2 /\ whole => mouse_cycle \in {0, 2}
  BY DEF MouseTypeOK, PacketInv, Aligned
<1>1. CASE late > 0 /\ pos = 0 /\ synced' = FALSE /\ UNCHANGED <<present, motion, pos, whole>>
  BY <1>1 DEF PacketInv, Aligned
<1>2. ASSUME NEW mv \in Motions,
             pos' = IF pos = 2 THEN 0 ELSE pos + 1,
             motion' = IF pos = 2 THEN Still ELSE mv,
             pos # 0 => mv = motion
      PROVE  pos' # 0 => motion' = mv /\ pos # 2 /\ pos' = pos + 1
  BY <1>0, <1>2
<1>3. ASSUME NEW mv \in Motions,
             pos' = IF pos = 2 THEN 0 ELSE pos + 1,
             motion' = IF pos = 2 THEN Still ELSE mv,
             pos # 0 => mv = motion,
             whole' = FALSE, synced' = FALSE
      PROVE  PacketInv'
  BY <1>2, <1>3 DEF PacketInv, Aligned
<1>4. ASSUME NEW mv \in Motions,
             pos' = IF pos = 2 THEN 0 ELSE pos + 1,
             motion' = IF pos = 2 THEN Still ELSE mv,
             pos # 0 => mv = motion,
             mouse_handler_main(Packet(mv, pos)),
             whole' = (pos = 0 \/ (whole /\ ~Sync(Packet(mv, pos)))),
             synced' = (synced \/ (pos = 2 /\ whole'))
      PROVE  PacketInv'
  <2>0. Packet(mv, pos) \in 0 .. 255 /\ Sync(Packet(mv, 0))
    BY <1>0, PacketFacts, SMTT(40)
  <2>1. /\ mouse_cycle = 0 /\ ~Sync(Packet(mv, pos)) => mouse_cycle' = 0
        /\ mouse_cycle = 0 /\ Sync(Packet(mv, pos)) => mouse_cycle' = 1 /\ mouse_byte'[0] = Packet(mv, pos)
        /\ mouse_cycle = 1 => mouse_cycle' = 2 /\ mouse_byte'[1] = Packet(mv, pos)
                              /\ mouse_byte'[0] = mouse_byte[0]
        /\ mouse_cycle = 2 => mouse_cycle' = 0
    BY <1>4, <2>0, DecodeFacts
  <2>2. CASE pos = 0
    <3>1. pos' = 1 /\ motion' = mv /\ (synced' = synced)
      BY <1>0, <1>4, <2>2
    <3> QED BY <1>0, <2>0, <2>1, <2>2, <3>1 DEF PacketInv, Aligned
  <2>3. CASE pos = 1
    <3>1. pos' = 2 /\ motion' = mv /\ mv = motion /\ (synced' = synced) /\ pos # 0
      BY <1>0, <1>4, <2>3
    <3>2. whole' => mouse_cycle' \in {0, 2}
      <4>1. whole' => ~Sync(Packet(mv, pos))
        BY <1>4, <3>1, Zenon
      <4> QED BY <1>0, <2>1, <4>1
    <3>3. synced => mouse_byte[0] = Packet(motion, 0)
      BY <2>3 DEF PacketInv
    <3> QED BY <1>0, <2>1, <2>3, <3>1, <3>2, <3>3 DEF PacketInv, Aligned
  <2>4. CASE pos = 2
    <3>1. pos' = 0
      BY <1>4, <2>4
    <3>2. synced' => mouse_cycle' = 0
      <4>1. CASE synced
        BY <1>0, <2>1, <2>4, <4>1
      <4>2. CASE ~synced
        <5>1. synced' => whole'
          BY <1>4, <4>2, Zenon
        <5>2. pos # 0
          BY <2>4
        <5>3. whole' => whole /\ ~Sync(Packet(mv, pos))
          BY <1>4, <5>2, Zenon
        <5> QED BY <1>0, <2>1, <2>4, <5>1, <5>3
      <4> QED BY <4>1, <4>2
    <3> QED BY <3>1, <3>2 DEF PacketInv, Aligned
  <2> QED BY <1>0, <2>2, <2>3, <2>4
<1> QED BY <1>1, <1>3, <1>4, ByteCases

\* Steps that leave the mouse alone.
LEMMA MouseStays ==
    ASSUME MouseTypeOK, LateInv, PacketInv, UNCHANGED mouse,
           \/ pc' = pc
           \/ pc = "status" /\ pc' = "ack1"
           \/ pc = "idt" /\ pc' = "fs_init"
           \/ IdtLoaded /\ IdtLoaded'
    PROVE  MouseTypeOK' /\ LateInv' /\ PacketInv'
<1>1. UNCHANGED <<mouse_cycle, mouse_byte, mouse_x, mouse_y, inverted, present, motion, pos, late, whole, synced>>
  BY DEF mouse, decoder, device
<1>2. MouseTypeOK' /\ PacketInv'
  BY <1>1 DEF MouseTypeOK, PacketInv, Aligned, Cursor
<1> QED BY <1>1, <1>2 DEF LateInv, IdtLoaded

LEMMA MouseInvNext ==
    ASSUME MouseTypeOK, LateInv, PacketInv, cell \in Cell, [Next]_vars
    PROVE  MouseTypeOK' /\ LateInv' /\ PacketInv'
<1>1. CASE UNCHANGED vars
  BY <1>1, MouseStays DEF vars
<1>2. CASE ReadStatus \/ fs_pwd \/ Hang
  BY <1>2, MouseStays DEF ReadStatus, fs_pwd, Hang, vars
<1>3. CASE idt_init \/ ClearField \/ MakeRoot \/ SetCwd
  BY <1>3, MouseStays DEF idt_init, ClearField, MakeRoot, SetCwd, IdtLoaded
<1>4. CASE net_stack_init \/ LoadY \/ LoadX \/ ReadAttr \/ Halt \/ Command
  BY <1>4, MouseStays DEF net_stack_init, LoadY, LoadX, ReadAttr, Halt, vars, Command, IdtLoaded
<1>5. CASE mouse_read
  <2>1. late \in 0 .. 2 /\ late' \in {late, late + 1}
    BY <1>5 DEF mouse_read, MouseTypeOK
  <2>2. UNCHANGED <<mouse_cycle, mouse_byte, mouse_x, mouse_y, inverted, present, motion, pos, whole, synced>>
    BY <1>5 DEF mouse_read, decoder
  <2>3. \/ pc = "ack1" /\ pc' = "ack2" /\ late' \in 0 .. 1
        \/ pc = "ack2" /\ pc' = "idt" /\ late' \in 0 .. 2
    BY <1>5, <2>1 DEF mouse_read, LateInv
  <2>4. pos = 0
    BY <2>3 DEF LateInv, IdtLoaded
  <2>5. LateInv'
    BY <2>2, <2>3, <2>4 DEF LateInv
  <2> QED BY <2>2, <2>3, <2>5 DEF MouseTypeOK, PacketInv, Aligned, Cursor
<1>6. CASE WriteAttr \/ kprint
  <2>1. inverted' \subseteq Cell
    BY <1>6 DEF WriteAttr, kprint, MouseTypeOK
  <2>2. UNCHANGED <<mouse_cycle, mouse_byte, mouse_x, mouse_y, present, motion, pos, late, whole, synced>>
    BY <1>6 DEF WriteAttr, kprint, device
  <2>3. IdtLoaded /\ IdtLoaded'
    BY <1>6 DEF WriteAttr, kprint, InterruptsOn, IdtLoaded
  <2>4. LateInv'
    BY <2>2, <2>3 DEF LateInv, IdtLoaded
  <2> QED BY <2>1, <2>2, <2>4 DEF MouseTypeOK, PacketInv, Aligned, Cursor
<1>7. CASE MouseByte
  <2>1. (LateAck \/ SendByte \/ LoseByte) /\ IdtLoaded /\ pc' = pc
    BY <1>7 DEF MouseByte, InterruptsOn
  <2> QED BY <2>1, MouseByteTypes, LateByte, PacketByte
<1> QED BY <1>1, <1>2, <1>3, <1>4, <1>5, <1>6, <1>7 DEF Next, kmain

-------------------------------------------------------------------------------
(* Types. *)

LEMMA FsFacts ==
    /\ FS!FS_ROOT_IDX = 0 /\ FS!FS_NULL_IDX = -1 /\ FS!Idx = 0 .. FS_MAX_ENTRIES - 1
    /\ FS_MAX_ENTRIES \in Nat \ {0} /\ 0 \in FS!Idx
    /\ LoopEnd = FS_MAX_ENTRIES * 5
    /\ FS!FS_TYPE_NONE = "none" /\ FS!FS_TYPE_FILE = "file" /\ FS!FS_TYPE_DIR = "dir"
<1>1. FS_MAX_ENTRIES \in Nat \ {0}
  BY BootAssumption, Zenon
<1>2. FS!Idx = 0 .. FS_MAX_ENTRIES - 1
  BY DEF FS!Idx
<1>3. Len(Fields) = 5
  BY DEF Fields
<1> QED BY <1>1, <1>2, <1>3 DEF FS!FS_ROOT_IDX, FS!FS_NULL_IDX, LoopEnd, FS!FS_TYPE_NONE, FS!FS_TYPE_FILE, FS!FS_TYPE_DIR

\* One assignment of the loop changes one field of one inode.
LEMMA ClearFacts ==
    ASSUME FS!TypeOK, k \in Nat, ClearField
    PROVE  FS!TypeOK'
<1>1. PICK i \in Int : i = k \div 5 /\ i \in FS!Idx
  <2>1. k < FS_MAX_ENTRIES * 5
    BY FsFacts DEF ClearField
  <2>2. k \div 5 \in 0 .. FS_MAX_ENTRIES - 1
    BY <2>1, FsFacts
  <2> QED BY <2>2, FsFacts
<1>2. Len(Fields) = 5
  BY DEF Fields
<1>3. k % 5 \in 0 .. 4
  OBVIOUS
<1>4. /\ Fields[1] = "type" /\ Fields[2] = "size" /\ Fields[3] = "parent"
      /\ Fields[4] = "name" /\ Fields[5] = "content"
  BY DEF Fields
<1>5. fs_table' = [fs_table EXCEPT ![i][Fields[(k % 5) + 1]] = Blank[Fields[(k % 5) + 1]]]
  BY <1>1, <1>2 DEF ClearField
<1>6. fs_cwd' = fs_cwd
  BY DEF ClearField
<1>7. fs_table \in [FS!Idx -> FS!fs_entry_t]
  BY DEF FS!TypeOK
<1>8. CASE k % 5 = 0
  BY <1>1, <1>4, <1>5, <1>6, <1>7, <1>8 DEF FS!TypeOK, FS!fs_entry_t, Blank
<1>9. CASE k % 5 = 1
  BY <1>1, <1>4, <1>5, <1>6, <1>7, <1>9 DEF FS!TypeOK, FS!fs_entry_t, Blank
<1>10. CASE k % 5 = 2
  BY <1>1, <1>4, <1>5, <1>6, <1>7, <1>10 DEF FS!TypeOK, FS!fs_entry_t, Blank
<1>11. CASE k % 5 = 3
  BY <1>1, <1>4, <1>5, <1>6, <1>7, <1>11 DEF FS!TypeOK, FS!fs_entry_t, Blank
<1>12. CASE k % 5 = 4
  BY <1>1, <1>4, <1>5, <1>6, <1>7, <1>12 DEF FS!TypeOK, FS!fs_entry_t, Blank
<1> QED BY <1>3, <1>8, <1>9, <1>10, <1>11, <1>12

\* An assignment to the root.
LEMMA MakeRootFacts ==
    ASSUME FS!TypeOK, MakeRoot
    PROVE  FS!TypeOK'
<1>1. fs_table \in [FS!Idx -> FS!fs_entry_t] /\ fs_cwd' = fs_cwd
  BY DEF FS!TypeOK, MakeRoot
<1>2. fs_table' \in [FS!Idx -> FS!fs_entry_t]
  <2>1. CASE fs_table' = [fs_table EXCEPT ![FS!FS_ROOT_IDX].type = FS!FS_TYPE_DIR]
    BY <1>1, <2>1, FsFacts DEF FS!fs_entry_t
  <2>2. CASE fs_table' = [fs_table EXCEPT ![FS!FS_ROOT_IDX].parent = FS!FS_NULL_IDX]
    BY <1>1, <2>2, FsFacts DEF FS!fs_entry_t
  <2>3. CASE fs_table' = [fs_table EXCEPT ![FS!FS_ROOT_IDX].name = FS!Empty]
    BY <1>1, <2>3, FsFacts DEF FS!fs_entry_t
  <2> QED BY <2>1, <2>2, <2>3 DEF MakeRoot
<1> QED BY <1>1, <1>2 DEF FS!TypeOK

\* What a command does: it makes an inode in a free slot, writes a file, frees a
\* file or an empty directory of fs_cwd, or moves to the root, up, or down.
Created(slot, type, name) ==
    /\ fs_table[slot].type = "none"
    /\ fs_table' = [fs_table EXCEPT ![slot] =
                      [@ EXCEPT !.type = type, !.parent = fs_cwd, !.size = 0, !.name = name]]
    /\ fs_cwd' = fs_cwd

Written(i, data) ==
    /\ fs_table' = [fs_table EXCEPT ![i] = [@ EXCEPT !.content = data, !.size = 1]]
    /\ fs_cwd' = fs_cwd

Freed(i) ==
    /\ fs_table[i].parent = fs_cwd
    /\ \/ fs_table[i].type = "file"
       \/ \A j \in FS!Idx : fs_table[j].type = "none" \/ fs_table[j].parent # i
    /\ fs_table' = [fs_table EXCEPT ![i].type = "none"]
    /\ fs_cwd' = fs_cwd

Moved(t) ==
    /\ \/ t \in {0, fs_cwd}
       \/ fs_table[fs_cwd].parent # -1 /\ t = fs_table[fs_cwd].parent /\ fs_table[t].type = "dir"
       \/ fs_table[t].type = "dir" /\ fs_table[t].parent = fs_cwd
    /\ fs_cwd' = t
    /\ fs_table' = fs_table

LEMMA CommandCases ==
    ASSUME FS!TypeOK, FS!Next
    PROVE  \/ \E slot \in FS!Idx, type \in {"file", "dir"}, name \in Names : Created(slot, type, name)
           \/ \E i \in FS!Idx, data \in Data : Written(i, data)
           \/ \E i \in FS!Idx : Freed(i)
           \/ \E t \in FS!Idx : Moved(t)
<1>1. CASE FS!cmd_mkdir
  BY <1>1, FsFacts DEF FS!cmd_mkdir, FS!fs_mkdir, FS!fs_alloc, FS!First, FS!Live, FS!NewEntry, Created
<1>2. CASE FS!cmd_touch
  BY <1>2, FsFacts DEF FS!cmd_touch, FS!fs_create_file, FS!fs_alloc, FS!First, FS!Live, FS!NewEntry, Created
<1>3. CASE FS!cmd_write
  BY <1>3, FsFacts DEF FS!cmd_write, FS!fs_write_file, Written
<1>4. CASE FS!cmd_rm
  BY <1>4, FsFacts DEF FS!cmd_rm, FS!fs_rm, FS!fs_find_in, FS!First, FS!Matches, FS!Release, Freed
<1>5. CASE FS!cmd_rmdir
  BY <1>5, FsFacts DEF FS!cmd_rmdir, FS!fs_rmdir, FS!fs_find_in, FS!First, FS!Matches, FS!fs_dir_empty,
                       FS!Live, FS!Release, Freed
<1>6. CASE FS!cmd_cd
  <2>1. PICK n \in Names \cup {"/"} : FS!fs_cd(n)
    BY <1>6 DEF FS!cmd_cd
  <2>2. fs_table' = fs_table
    BY <2>1 DEF FS!fs_cd
  <2>3. CASE fs_cwd' = 0
    BY <2>2, <2>3, FsFacts DEF Moved
  <2>4. ASSUME NEW t \in FS!Idx, FS!fs_resolve_dir(n, t), fs_table[t].type = FS!FS_TYPE_DIR, fs_cwd' = t
        PROVE  Moved(t)
    <3>1. CASE n = "."
      BY <2>2, <2>4, <3>1 DEF FS!fs_resolve_dir, Moved
    <3>2. CASE n = ".."
      BY <2>2, <2>4, <3>2, FsFacts DEF FS!fs_resolve_dir, Moved
    <3>3. CASE n # "." /\ n # ".."
      <4>1. FS!fs_find_in(n, fs_cwd, t)
        BY <2>4, <3>3, Zenon DEF FS!fs_resolve_dir
      <4> QED BY <2>2, <2>4, <4>1, FsFacts DEF FS!fs_find_in, FS!First, FS!Matches, Moved
    <3> QED BY <3>1, <3>2, <3>3
  <2> QED BY <2>1, <2>3, <2>4, FsFacts DEF FS!fs_cd
<1> QED BY <1>1, <1>2, <1>3, <1>4, <1>5, <1>6 DEF FS!Next

\* A command keeps the types, also in the half-initialised table.
LEMMA CommandTypes ==
    ASSUME FS!TypeOK, FS!Next
    PROVE  FS!TypeOK'
<1>0. fs_table \in [FS!Idx -> FS!fs_entry_t] /\ fs_cwd \in FS!Idx
  BY DEF FS!TypeOK
<1>1. ASSUME NEW slot \in FS!Idx, NEW type \in {"file", "dir"}, NEW name \in Names, Created(slot, type, name)
      PROVE  FS!TypeOK'
  <2>1. fs_table[slot] \in FS!fs_entry_t /\ fs_cwd \in FS!Idx \cup {FS!FS_NULL_IDX}
        /\ type \in {FS!FS_TYPE_NONE, FS!FS_TYPE_FILE, FS!FS_TYPE_DIR}
    BY <1>0, FsFacts
  <2>2. [fs_table[slot] EXCEPT !.type = type, !.parent = fs_cwd, !.size = 0, !.name = name] \in FS!fs_entry_t
    BY <2>1 DEF FS!fs_entry_t
  <2> QED BY <1>0, <1>1, <2>2 DEF Created, FS!TypeOK
<1>2. ASSUME NEW i \in FS!Idx, NEW data \in Data, Written(i, data)
      PROVE  FS!TypeOK'
  <2>1. fs_table[i] \in FS!fs_entry_t
    BY <1>0
  <2>2. [fs_table[i] EXCEPT !.content = data, !.size = 1] \in FS!fs_entry_t
    BY <2>1 DEF FS!fs_entry_t
  <2> QED BY <1>0, <1>2, <2>2 DEF Written, FS!TypeOK
<1>3. ASSUME NEW i \in FS!Idx, Freed(i)
      PROVE  FS!TypeOK'
  <2>1. fs_table[i] \in FS!fs_entry_t /\ "none" \in {FS!FS_TYPE_NONE, FS!FS_TYPE_FILE, FS!FS_TYPE_DIR}
    BY <1>0, FsFacts
  <2>2. [fs_table[i] EXCEPT !.type = "none"] \in FS!fs_entry_t
    BY <2>1 DEF FS!fs_entry_t
  <2> QED BY <1>0, <1>3, <2>2 DEF Freed, FS!TypeOK
<1>4. ASSUME NEW t \in FS!Idx, Moved(t)
      PROVE  FS!TypeOK'
  BY <1>0, <1>4 DEF Moved, FS!TypeOK
<1> QED BY <1>1, <1>2, <1>3, <1>4, CommandCases

\* Types, with what the mouse's part of them rests on.
TypeInv == TypeOK /\ LateInv /\ PacketInv

LEMMA FsTypesNext ==
    ASSUME TypeOK, [Next]_vars
    PROVE  FS!TypeOK'
<1>0. FS!TypeOK /\ k \in Nat
  BY FsFacts DEF TypeOK
<1>1. CASE UNCHANGED files
  BY <1>0, <1>1 DEF files, FS!TypeOK
<1>2. CASE ClearField
  BY <1>0, <1>2, ClearFacts
<1>3. CASE MakeRoot
  BY <1>0, <1>3, MakeRootFacts
<1>4. CASE SetCwd
  BY <1>0, <1>4, FsFacts DEF SetCwd, FS!TypeOK
<1>5. CASE Command
  BY <1>0, <1>5, CommandTypes DEF Command
<1>6. CASE UNCHANGED vars \/ Halt \/ Hang \/ fs_pwd
  BY <1>1, <1>6 DEF vars, Halt, Hang, fs_pwd
<1>7. CASE ReadStatus \/ mouse_read \/ idt_init \/ net_stack_init
  BY <1>1, <1>7 DEF ReadStatus, mouse_read, idt_init, net_stack_init
<1>8. CASE LoadY \/ LoadX \/ ReadAttr \/ WriteAttr \/ MouseByte \/ kprint
  BY <1>1, <1>8 DEF LoadY, LoadX, ReadAttr, WriteAttr, MouseByte, kprint
<1> QED BY <1>2, <1>3, <1>4, <1>5, <1>6, <1>7, <1>8 DEF Next, kmain

BootTypes ==
    /\ pc \in {"status", "ack1", "ack2", "idt", "fs_init",
               "net", "load", "loadx", "read", "write", "halt"}
    /\ k \in 0 .. LoopEnd + 3
    /\ cell \in Cell /\ attr \in BOOLEAN
    /\ kbd_irq \in BOOLEAN /\ hung \in BOOLEAN
    /\ irqs \in 0 .. MaxIrq
    /\ early \in {"no", "loop", "root"} /\ disturbed \in BOOLEAN

LEMMA BootTypesNext ==
    ASSUME BootTypes, MouseTypeOK, [Next]_vars
    PROVE  BootTypes'
<1> USE DEF BootTypes
<1>0. MaxIrq \in Nat /\ LoopEnd \in Nat
  <2>1. MaxIrq \in Nat
    BY BootAssumption, Zenon
  <2> QED BY <2>1, FsFacts
<1>1. CASE UNCHANGED vars \/ Halt \/ Hang
  BY <1>1 DEF vars, draw, ctrl, Halt, Hang
<1>2. CASE fs_pwd
  BY <1>0, <1>2 DEF fs_pwd, draw
<1>3. CASE ReadStatus
  BY <1>3 DEF ReadStatus, draw
<1>4. CASE mouse_read
  BY <1>4 DEF mouse_read, draw, ctrl
<1>5. CASE idt_init \/ net_stack_init
  BY <1>5 DEF idt_init, net_stack_init, draw, ctrl
<1>6. CASE ClearField
  <2>1. k' \in 0 .. LoopEnd + 3
    BY <1>0, <1>6 DEF ClearField
  <2> QED BY <1>6, <2>1 DEF ClearField, draw, ctrl
<1>7. CASE MakeRoot
  <2>1. k' \in 0 .. LoopEnd + 3
    BY <1>0, <1>7 DEF MakeRoot
  <2> QED BY <1>7, <2>1 DEF MakeRoot, draw, ctrl
<1>8. CASE SetCwd
  BY <1>8 DEF SetCwd, draw, ctrl
<1>9. CASE LoadY \/ LoadX
  <2>1. cell' \in Cell
    BY <1>9 DEF LoadY, LoadX, MouseTypeOK, Cursor, Cell
  <2> QED BY <1>9, <2>1 DEF LoadY, LoadX, ctrl
<1>10. CASE ReadAttr
  BY <1>10 DEF ReadAttr, ctrl
<1>11. CASE WriteAttr
  BY <1>11 DEF WriteAttr, draw, ctrl
<1>12. CASE Command
  <2>1. irqs' \in 0 .. MaxIrq
    BY <1>0, <1>12 DEF Command
  <2> QED BY <1>12, <2>1 DEF Command, draw, ctrl
<1>13. CASE MouseByte
  <2>1. irqs' \in 0 .. MaxIrq
    BY <1>0, <1>13 DEF MouseByte
  <2>2. disturbed' \in BOOLEAN
    BY <1>13 DEF MouseByte
  <2> QED BY <1>13, <2>1, <2>2 DEF MouseByte, draw, ctrl
<1>14. CASE kprint
  BY <1>14 DEF kprint, draw, ctrl
<1> QED BY <1>1, <1>2, <1>3, <1>4, <1>5, <1>6, <1>7, <1>8, <1>9, <1>10, <1>11, <1>12, <1>13, <1>14
        DEF Next, kmain

LEMMA TypeInvNext ==
    ASSUME TypeInv, [Next]_vars
    PROVE  TypeInv'
<1>1. TypeOK /\ BootTypes /\ MouseTypeOK /\ LateInv /\ PacketInv /\ cell \in Cell
  BY DEF TypeInv, TypeOK, BootTypes
<1>2. BootTypes' /\ FS!TypeOK' /\ MouseTypeOK' /\ LateInv' /\ PacketInv'
  BY <1>1, BootTypesNext, FsTypesNext, MouseInvNext
<1> QED BY <1>2 DEF TypeInv, TypeOK, BootTypes

LEMMA TypeInvInit == Init => TypeInv
<1> SUFFICES ASSUME Init PROVE TypeInv
  OBVIOUS
<1>1. MouseTypeOK
  <2>1. Columns \div 2 \in 0 .. Columns - 1 /\ Rows \div 2 \in 0 .. Rows - 1
    BY Screen
  <2>2. Cursor \in Cell
    BY <2>1 DEF Init, MouseInit, Cursor, Cell
  <2>3. mouse_byte \in [0 .. 2 -> 0 .. 255]
    BY DEF Init, MouseInit
  <2>4. motion \in Motions \cup {Still}
    BY DEF Init, MouseInit
  <2>5. mouse_cycle \in 0 .. 2 /\ pos \in 0 .. 2 /\ late \in 0 .. 2
    BY DEF Init, MouseInit
  <2>6. inverted \subseteq Cell
    BY DEF Init, MouseInit
  <2>7. present \in BOOLEAN /\ whole \in BOOLEAN /\ synced \in BOOLEAN
    BY Zenon DEF Init, MouseInit
  <2> QED BY <2>2, <2>3, <2>4, <2>5, <2>6, <2>7, Zenon DEF MouseTypeOK
<1>2. LateInv /\ PacketInv
  BY DEF Init, MouseInit, LateInv, PacketInv, Aligned
<1>3. FS!TypeOK
  <2>1. [Blank EXCEPT !.parent = 0] \in FS!fs_entry_t
    BY FsFacts DEF Blank, FS!fs_entry_t
  <2> QED BY <2>1, FsFacts DEF Init, FS!TypeOK
<1>4. MaxIrq \in Nat /\ LoopEnd \in Nat
  <2>1. MaxIrq \in Nat
    BY BootAssumption, Zenon
  <2> QED BY <2>1, FsFacts
<1>5. cell \in Cell
  BY <1>1 DEF Init, MouseTypeOK
<1>6. BootTypes
  <2>1. k \in 0 .. LoopEnd + 3 /\ irqs \in 0 .. MaxIrq
    BY <1>4 DEF Init
  <2>2. attr \in BOOLEAN /\ kbd_irq \in BOOLEAN /\ hung \in BOOLEAN /\ disturbed \in BOOLEAN
    BY Zenon DEF Init
  <2>3. pc = "status" /\ early = "no"
    BY DEF Init
  <2> QED BY <1>5, <2>1, <2>2, <2>3, Zenon DEF BootTypes
<1> QED BY <1>1, <1>2, <1>3, <1>6 DEF TypeInv, TypeOK, BootTypes

LEMMA TypeInvariant == Spec => []TypeInv
  BY TypeInvInit, TypeInvNext, PTL DEF Spec

\* Whatever bytes arrive in whatever order, the cursor stays on the screen, and
\* commands typed into the half-initialised table keep it well typed.
THEOREM BootTyping == Spec => []TypeOK
  BY TypeInvariant, PTL DEF TypeInv

\* One whole packet, whose movement bytes do not look like a first byte, puts the
\* handler in step, for every set of motions and any losses before it.
THEOREM PacketsAligned == Spec => []Aligned
<1>1. TypeInv => Aligned
  BY DEF TypeInv, PacketInv
<1> QED BY <1>1, TypeInvariant, PTL

-------------------------------------------------------------------------------
(* The cursor. *)

\* What a byte does to the screen.
LEMMA ByteScreen ==
    ASSUME MouseTypeOK, LateInv, PacketInv, LateAck \/ SendByte \/ LoseByte
    PROVE  \/ inverted' = Flip(Flip(inverted, Cursor), Cursor')
           \/ inverted' = inverted /\ Cursor' = Cursor
<1>1. \/ \E in \in 0 .. 255 : mouse_handler_main(in)
      \/ UNCHANGED decoder
  <2>1. CASE LateAck
    BY <2>1 DEF LateAck, ACK
  <2>2. CASE SendByte
    BY <2>2, PacketFacts DEF SendByte, MouseTypeOK
  <2>3. CASE LoseByte
    BY <2>3 DEF LoseByte
  <2> QED BY <2>1, <2>2, <2>3
<1>2. CASE UNCHANGED decoder
  BY <1>2 DEF decoder, Cursor
<1>3. ASSUME NEW in \in 0 .. 255, mouse_handler_main(in)
      PROVE  inverted' = Flip(Flip(inverted, Cursor), Cursor')
  BY <1>3 DEF mouse_handler_main
<1> QED BY <1>1, <1>2, <1>3

LEMMA DrawByte ==
    ASSUME TypeInv, DrawInv, MouseByte
    PROVE  DrawInv'
<1> SUFFICES ASSUME ~disturbed' PROVE DrawInv'
  BY DEF DrawInv
<1>1. ~disturbed /\ (Cursor' = Cursor \/ pc \in {"read", "halt"})
  BY DEF MouseByte
<1>2. pc' = pc /\ cell' = cell /\ attr' = attr
  BY DEF MouseByte, draw
<1>3. \/ inverted' = Flip(Flip(inverted, Cursor), Cursor')
      \/ inverted' = inverted /\ Cursor' = Cursor
  BY ByteScreen DEF TypeInv, TypeOK, MouseByte
<1>4. CASE Cursor' = Cursor
  <2>1. inverted' = inverted
    BY <1>3, <1>4 DEF Flip
  <2>2. mouse_y' = mouse_y
    BY <1>4 DEF Cursor
  <2> QED BY <1>1, <1>2, <1>4, <2>1, <2>2 DEF DrawInv
<1>5. CASE Cursor' # Cursor /\ pc = "read"
  <2>1. inverted = IF cell = Cursor THEN {} ELSE {cell, Cursor}
    BY <1>1, <1>5 DEF DrawInv
  <2>2. inverted' = Flip(Flip(inverted, Cursor), Cursor')
    BY <1>3, <1>5
  <2>3. inverted' = IF cell = Cursor' THEN {} ELSE {cell, Cursor'}
    BY <1>5, <2>1, <2>2 DEF Flip
  <2> QED BY <1>2, <1>5, <2>3 DEF DrawInv
<1>6. CASE Cursor' # Cursor /\ pc = "halt"
  <2>1. inverted = {Cursor}
    BY <1>1, <1>6 DEF DrawInv
  <2>2. inverted' = {Cursor'}
    BY <1>3, <1>6, <2>1 DEF Flip
  <2> QED BY <1>2, <1>6, <2>2 DEF DrawInv
<1> QED BY <1>1, <1>4, <1>5, <1>6

LEMMA DrawNext ==
    ASSUME TypeInv, DrawInv, [Next]_vars
    PROVE  DrawInv'
<1>1. ASSUME UNCHANGED <<mouse_x, mouse_y, inverted, cell, attr, disturbed>>,
             pc' = pc \/ {pc, pc'} \cap {"loadx", "read", "write", "halt"} = {}
      PROVE  DrawInv'
  BY <1>1 DEF DrawInv, Cursor
<1>2. CASE UNCHANGED vars \/ Halt \/ Hang \/ fs_pwd \/ Command
  BY <1>1, <1>2 DEF vars, Halt, Hang, fs_pwd, Command, mouse, decoder, draw
<1>3. CASE ReadStatus \/ mouse_read \/ idt_init \/ net_stack_init
  BY <1>1, <1>3 DEF ReadStatus, mouse_read, idt_init, net_stack_init, mouse, decoder, draw
<1>4. CASE ClearField \/ MakeRoot \/ SetCwd
  BY <1>1, <1>4 DEF ClearField, MakeRoot, SetCwd, mouse, decoder, draw
<1>5. CASE LoadY \/ LoadX
  BY <1>5 DEF LoadY, LoadX, DrawInv, mouse, decoder, Cursor, TypeInv, TypeOK, Cell
<1>6. CASE ReadAttr
  BY <1>6 DEF ReadAttr, DrawInv, mouse, decoder, Cursor
<1>7. CASE WriteAttr
  BY <1>7 DEF WriteAttr, DrawInv, draw, Cursor
<1>8. CASE MouseByte
  BY <1>8, DrawByte
<1>9. CASE kprint
  BY <1>9 DEF kprint, DrawInv
<1> QED BY <1>2, <1>3, <1>4, <1>5, <1>6, <1>7, <1>8, <1>9 DEF Next, kmain

\* One cell is inverted, the one under the mouse, once kmain has drawn the cursor,
\* even if a packet moved it between the load of the position and the write of the
\* attribute, for every screen and every sequence of bytes.
THEOREM CursorDrawnOnce == Spec => []OneCursor
<1>1. Init => DrawInv
  BY DEF Init, MouseInit, DrawInv
<1>2. DrawInv => OneCursor
  BY DEF DrawInv, OneCursor
<1> QED BY <1>1, <1>2, TypeInvariant, DrawNext, PTL DEF Spec

\* A packet in step moves the cursor the way the mouse moved, for every screen and
\* every motion within a char: the bytes the handler decodes are those of one packet.
THEOREM PacketsRightWay == Spec => RightWay
<1> DEFINE Way ==
        synced /\ pos = 2 /\ mouse_cycle' # mouse_cycle =>
          /\ motion[1] < 0 => mouse_x' <= mouse_x
          /\ motion[1] \in 0 .. 127 => mouse_x' >= mouse_x
          /\ motion[2] < 0 => mouse_y' >= mouse_y
          /\ motion[2] \in 0 .. 127 /\ motion[2] <= mouse_y => mouse_y' <= mouse_y
<1>1. TypeInv /\ [Next]_vars => [Way]_vars
  <2> SUFFICES ASSUME TypeInv, Next, synced, pos = 2, mouse_cycle' # mouse_cycle PROVE Way
    OBVIOUS
  <2>1. MouseTypeOK /\ LateInv /\ PacketInv /\ Cursor \in Cell
    BY DEF TypeInv, TypeOK, MouseTypeOK
  <2>2. MouseByte
    <3>1. CASE UNCHANGED vars \/ Halt \/ Hang \/ fs_pwd \/ Command \/ ReadStatus \/ mouse_read \/ idt_init
      BY <3>1 DEF vars, Halt, Hang, fs_pwd, Command, ReadStatus, mouse_read, idt_init, mouse, decoder
    <3>2. CASE net_stack_init \/ ClearField \/ MakeRoot \/ SetCwd \/ LoadY \/ LoadX \/ ReadAttr \/ WriteAttr \/ kprint
      BY <3>2 DEF net_stack_init, ClearField, MakeRoot, SetCwd, LoadY, LoadX, ReadAttr, WriteAttr, kprint, mouse, decoder
    <3> QED BY <3>1, <3>2 DEF Next, kmain
  <2>3. PICK mv \in Motions : mv = motion /\ mouse_handler_main(Packet(mv, 2))
    <3>1. LateAck \/ SendByte \/ LoseByte
      BY <2>2 DEF MouseByte
    <3>2. ~LateAck
      BY <2>1 DEF LateAck, LateInv
    <3>3. ~LoseByte
      BY DEF LoseByte, decoder
    <3> QED BY <3>1, <3>2, <3>3 DEF SendByte, NextByte
  <2>4. Packet(mv, 2) \in 0 .. 255
    BY PacketFacts
  <2>5. mouse_cycle = 2 /\ mouse_byte[0] = Packet(mv, 0) /\ mouse_byte[1] = Packet(mv, 1)
    BY <2>1, <2>3, SMTT(40) DEF PacketInv, Aligned
  <2>6. mouse_x' = MoveX(Packet(mv, 0), Packet(mv, 1)) /\ mouse_y' = MoveY(Packet(mv, 0), Packet(mv, 2))
    BY <2>1, <2>3, <2>4, <2>5, DecodeFacts
  <2> QED BY <2>1, <2>3, <2>6, MoveDirection
<1>2. Spec => [][Way]_vars
  BY <1>1, TypeInvariant, PTL DEF Spec
<1> QED BY <1>2 DEF RightWay

-------------------------------------------------------------------------------
(* The current directory. *)

\* S is a set as Rooted asks for, but that slot 0 need not be in use.
Trail(S) ==
    /\ S \subseteq FS!Idx /\ 0 \in S
    /\ \A j \in S \ {0} : fs_table[j].type = "dir"
    /\ \A j \in S \ {0} : fs_table[j].parent \in S
    /\ \A T \in SUBSET (S \ {0}) : T # {} => \E j \in T : fs_table[j].parent \notin T

LEMMA RootedTrail ==
    ASSUME Rooted(fs_cwd)
    PROVE  \E S : Trail(S) /\ fs_cwd \in S
  BY FsFacts DEF Rooted, Trail

LEMMA TrailRooted ==
    ASSUME NEW S, Trail(S)', fs_cwd' \in S, fs_table'[0].type = "dir"
    PROVE  Rooted(fs_cwd)'
  BY FsFacts DEF Rooted, Trail

\* Only the types and the parents of S itself matter.
LEMMA TrailKept ==
    ASSUME NEW S, Trail(S),
           \A j \in S \ {0} : fs_table'[j].type = fs_table[j].type /\ fs_table'[j].parent = fs_table[j].parent
    PROVE  Trail(S)'
<1>1. S \subseteq FS!Idx /\ 0 \in S /\ \A j \in S \ {0} : fs_table'[j].type = "dir"
  BY DEF Trail
<1>2. \A j \in S \ {0} : fs_table'[j].parent \in S
  BY DEF Trail
<1>3. ASSUME NEW T \in SUBSET (S \ {0}), T # {}
      PROVE  \E j \in T : fs_table'[j].parent \notin T
  <2>1. PICK j \in T : fs_table[j].parent \notin T
    BY <1>3 DEF Trail
  <2> QED BY <2>1
<1> QED BY <1>1, <1>2, <1>3 DEF Trail

\* The directory below the end of a trail prolongs it.
LEMMA TrailDown ==
    ASSUME NEW S, Trail(S), NEW t \in FS!Idx, fs_table[t].type = "dir", fs_table[t].parent \in S
    PROVE  Trail(S \cup {t})
<1>1. CASE t \in S
  <2>1. S \cup {t} = S
    BY <1>1
  <2> QED BY <2>1
<1>2. CASE t \notin S
  <2>1. /\ S \cup {t} \subseteq FS!Idx /\ 0 \in S \cup {t}
        /\ \A j \in (S \cup {t}) \ {0} : fs_table[j].type = "dir"
        /\ \A j \in (S \cup {t}) \ {0} : fs_table[j].parent \in S \cup {t}
    BY DEF Trail
  <2>2. ASSUME NEW T \in SUBSET ((S \cup {t}) \ {0}), T # {}
        PROVE  \E j \in T : fs_table[j].parent \notin T
    <3>1. CASE T \ {t} = {}
      BY <1>2, <2>2, <3>1
    <3>2. CASE T \ {t} # {}
      <4>1. T \ {t} \in SUBSET (S \ {0})
        OBVIOUS
      <4>2. PICK j \in T \ {t} : fs_table[j].parent \notin T \ {t}
        BY <3>2, <4>1 DEF Trail
      <4>3. fs_table[j].parent \in S
        BY <4>1 DEF Trail
      <4> QED BY <1>2, <4>2, <4>3
    <3> QED BY <3>1, <3>2
  <2> QED BY <2>1, <2>2 DEF Trail
<1> QED BY <1>1, <1>2

\* A directory that is nobody's parent can be left out of a trail.
LEMMA TrailWithout ==
    ASSUME NEW S, Trail(S), NEW i, i # 0, \A j \in S \ {0} : fs_table[j].parent # i
    PROVE  Trail(S \ {i})
<1>1. /\ S \ {i} \subseteq FS!Idx /\ 0 \in S \ {i}
      /\ \A j \in (S \ {i}) \ {0} : fs_table[j].type = "dir"
      /\ \A j \in (S \ {i}) \ {0} : fs_table[j].parent \in S \ {i}
  BY DEF Trail
<1>2. ASSUME NEW T \in SUBSET ((S \ {i}) \ {0}), T # {}
      PROVE  \E j \in T : fs_table[j].parent \notin T
  <2>1. T \in SUBSET (S \ {0})
    OBVIOUS
  <2> QED BY <1>2, <2>1 DEF Trail
<1> QED BY <1>1, <1>2 DEF Trail

\* No directory of a trail is its own parent.
LEMMA TrailAcyclic ==
    ASSUME NEW S, Trail(S), NEW j \in S \ {0}
    PROVE  fs_table[j].parent # j
<1>1. {j} \in SUBSET (S \ {0}) /\ {j} # {}
  OBVIOUS
<1>2. PICK i \in {j} : fs_table[i].parent \notin {j}
  BY <1>1 DEF Trail
<1> QED BY <1>2

\* A command, once the root is made, keeps the root.
LEMMA RootKept ==
    ASSUME FS!TypeOK, FS!Next, fs_table[0].type = "dir", fs_table[0].parent = -1
    PROVE  fs_table'[0].type = "dir" /\ fs_table'[0].parent = -1
<1>0. fs_table \in [FS!Idx -> FS!fs_entry_t] /\ fs_cwd \in FS!Idx /\ -1 \notin FS!Idx
  BY FsFacts DEF FS!TypeOK
<1>1. ASSUME NEW slot \in FS!Idx, NEW type, NEW name, Created(slot, type, name)
      PROVE  fs_table'[0] = fs_table[0]
  BY <1>0, <1>1, FsFacts DEF Created
<1>2. ASSUME NEW i \in FS!Idx, NEW data, Written(i, data)
      PROVE  fs_table'[0].type = "dir" /\ fs_table'[0].parent = -1
  BY <1>0, <1>2, FsFacts DEF Written, FS!fs_entry_t
<1>3. ASSUME NEW i \in FS!Idx, Freed(i)
      PROVE  fs_table'[0] = fs_table[0]
  <2>1. i # 0
    BY <1>0, <1>3 DEF Freed
  <2> QED BY <1>0, <1>3, <2>1, FsFacts DEF Freed
<1>4. ASSUME NEW t, Moved(t)
      PROVE  fs_table'[0] = fs_table[0]
  BY <1>4 DEF Moved
<1> QED BY <1>1, <1>2, <1>3, <1>4, CommandCases

\* A command keeps the user in a directory with a trail.
LEMMA RootedKept ==
    ASSUME FS!TypeOK, FS!Next, fs_table[0].type = "dir", fs_table[0].parent = -1, Rooted(fs_cwd)
    PROVE  Rooted(fs_cwd)'
<1>0. fs_table \in [FS!Idx -> FS!fs_entry_t] /\ fs_cwd \in FS!Idx /\ -1 \notin FS!Idx
  BY FsFacts DEF FS!TypeOK
<1>1. PICK S : Trail(S) /\ fs_cwd \in S
  BY RootedTrail
<1>2. S \subseteq FS!Idx /\ 0 \in S /\ \A j \in S : fs_table[j].type = "dir"
  BY <1>1 DEF Trail
<1>7. fs_table'[0].type = "dir"
  BY RootKept
<1>3. ASSUME NEW slot \in FS!Idx, NEW type, NEW name, Created(slot, type, name)
      PROVE  Rooted(fs_cwd)'
  <2>1. slot \notin S /\ fs_cwd' \in S
    BY <1>1, <1>2, <1>3 DEF Created
  <2>2. \A j \in S : fs_table'[j] = fs_table[j]
    BY <1>0, <1>2, <1>3, <2>1 DEF Created
  <2>3. Trail(S)'
    BY <1>1, <2>2, TrailKept
  <2> QED BY <2>1, <2>3, <1>7, TrailRooted
<1>4. ASSUME NEW i \in FS!Idx, NEW data, Written(i, data)
      PROVE  Rooted(fs_cwd)'
  <2>1. \A j \in S : fs_table'[j].type = fs_table[j].type /\ fs_table'[j].parent = fs_table[j].parent
    BY <1>0, <1>2, <1>4 DEF Written, FS!fs_entry_t
  <2>2. Trail(S)' /\ fs_cwd' \in S
    BY <1>1, <1>4, <2>1, TrailKept DEF Written
  <2> QED BY <2>2, <1>7, TrailRooted
<1>5. ASSUME NEW i \in FS!Idx, Freed(i)
      PROVE  Rooted(fs_cwd)'
  <2>1. i # 0
    BY <1>0, <1>5 DEF Freed
  <2>2. Trail(S \ {i})
    <3>1. CASE i \notin S
      <4>1. S \ {i} = S
        BY <3>1
      <4> QED BY <1>1, <4>1
    <3>2. CASE i \in S
      <4>1. \A j \in S : fs_table[j].parent # i
        BY <1>2, <1>5, <3>2 DEF Freed
      <4> QED BY <1>1, <2>1, <4>1, TrailWithout
    <3> QED BY <3>1, <3>2
  <2>3. i # fs_cwd
    <3> SUFFICES ASSUME i = fs_cwd PROVE FALSE
      OBVIOUS
    <3>1. fs_table[i].parent # i
      BY <1>1, <2>1, TrailAcyclic
    <3> QED BY <1>5, <3>1 DEF Freed
  <2>4. \A j \in S \ {i} : fs_table'[j] = fs_table[j]
    BY <1>0, <1>2, <1>5 DEF Freed
  <2>5. Trail(S \ {i})'
    BY <2>2, <2>4, TrailKept
  <2>6. fs_cwd' \in S \ {i}
    BY <1>1, <1>5, <2>3 DEF Freed
  <2> QED BY <2>5, <2>6, <1>7, TrailRooted
<1>6. ASSUME NEW t \in FS!Idx, Moved(t)
      PROVE  Rooted(fs_cwd)'
  <2>1. PICK U : Trail(U) /\ t \in U
    <3>1. CASE t \in {0, fs_cwd}
      BY <1>1, <1>2, <3>1
    <3>2. CASE fs_table[fs_cwd].parent # -1 /\ t = fs_table[fs_cwd].parent /\ fs_table[t].type = "dir"
      <4>1. fs_cwd \in S \ {0}
        BY <1>1, <3>2
      <4> QED BY <1>1, <3>2, <4>1 DEF Trail
    <3>3. CASE fs_table[t].type = "dir" /\ fs_table[t].parent = fs_cwd
      <4>1. Trail(S \cup {t})
        BY <1>1, <3>3, TrailDown
      <4> QED BY <4>1
    <3> QED BY <1>6, <3>1, <3>2, <3>3 DEF Moved
  <2>2. Trail(U)'
    BY <1>6, <2>1, TrailKept DEF Moved
  <2> QED BY <1>6, <2>1, <2>2, <1>7, TrailRooted DEF Moved
<1> QED BY <1>3, <1>4, <1>5, <1>6, CommandCases

LEMMA RootNext ==
    ASSUME TypeOK, RootInv, [Next]_vars
    PROVE  RootInv'
<1>0. /\ FS!TypeOK /\ k \in Nat /\ LoopEnd \in Nat
      /\ fs_table \in [FS!Idx -> FS!fs_entry_t] /\ fs_cwd \in FS!Idx
  BY FsFacts DEF TypeOK, FS!TypeOK
<1>1. ASSUME UNCHANGED <<files, k, early>>, fs_ready' = fs_ready
      PROVE  RootInv'
  BY <1>1 DEF files, RootInv, Rooted
<1>2. CASE UNCHANGED vars \/ Halt \/ Hang \/ fs_pwd \/ MouseByte \/ kprint
  BY <1>1, <1>2 DEF vars, Halt, Hang, fs_pwd, MouseByte, kprint, fs_ready
<1>3. CASE ReadStatus \/ mouse_read \/ idt_init \/ net_stack_init \/ LoadY \/ LoadX \/ ReadAttr \/ WriteAttr
  BY <1>1, <1>3 DEF ReadStatus, mouse_read, idt_init, net_stack_init, LoadY, LoadX, ReadAttr, WriteAttr, fs_ready
<1>4. CASE ClearField
  <2>1. ~fs_ready' /\ ~(k' > LoopEnd) /\ ~(k' > LoopEnd + 1)
    BY <1>0, <1>4 DEF ClearField, fs_ready
  <2> QED BY <2>1 DEF RootInv
<1>5. CASE MakeRoot
  <2>1. ~fs_ready' /\ k' = k + 1 /\ early' = early
    BY <1>5 DEF MakeRoot, fs_ready
  <2>2. CASE k = LoopEnd /\ fs_table' = [fs_table EXCEPT ![FS!FS_ROOT_IDX].type = FS!FS_TYPE_DIR]
    <3>1. fs_table'[FS!FS_ROOT_IDX].type = FS!FS_TYPE_DIR
      BY <1>0, <2>2, FsFacts DEF FS!fs_entry_t
    <3> QED BY <1>0, <2>1, <2>2, <3>1 DEF RootInv
  <2>3. CASE k = LoopEnd + 1 /\ fs_table' = [fs_table EXCEPT ![FS!FS_ROOT_IDX].parent = FS!FS_NULL_IDX]
    <3>1. early # "root" => fs_table'[FS!FS_ROOT_IDX].type = FS!FS_TYPE_DIR
      BY <1>0, <2>3, FsFacts DEF FS!fs_entry_t, RootInv
    <3>2. fs_table'[FS!FS_ROOT_IDX].parent = FS!FS_NULL_IDX
      BY <1>0, <2>3, FsFacts DEF FS!fs_entry_t
    <3> QED BY <2>1, <3>1, <3>2 DEF RootInv
  <2>4. CASE k = LoopEnd + 2 /\ fs_table' = [fs_table EXCEPT ![FS!FS_ROOT_IDX].name = FS!Empty]
    <3>1. early # "root" => /\ fs_table'[FS!FS_ROOT_IDX].type = FS!FS_TYPE_DIR
                            /\ fs_table'[FS!FS_ROOT_IDX].parent = FS!FS_NULL_IDX
      BY <1>0, <2>4, FsFacts DEF FS!fs_entry_t, RootInv
    <3> QED BY <2>1, <3>1 DEF RootInv
  <2> QED BY <1>5, <2>2, <2>3, <2>4 DEF MakeRoot
<1>6. CASE SetCwd
  <2> SUFFICES ASSUME early' # "root" PROVE RootInv'
    BY DEF RootInv
  <2>1. /\ fs_table[0].type = "dir" /\ fs_table[0].parent = -1
        /\ fs_table' = fs_table /\ fs_cwd' = 0 /\ fs_ready'
    BY <1>0, <1>6, FsFacts DEF SetCwd, RootInv, fs_ready
  <2>2. Trail({0})'
    BY <2>1, FsFacts DEF Trail
  <2>3. Rooted(fs_cwd)'
    BY <2>1, <2>2, TrailRooted
  <2> QED BY <2>1, <2>3, FsFacts DEF RootInv
<1>7. CASE Command
  <2> SUFFICES ASSUME early' # "root" PROVE RootInv'
    BY DEF RootInv
  <2>1. early # "root" /\ ~(pc = "fs_init" /\ k = LoopEnd + 1)
    BY <1>0, <1>7, FsFacts DEF Command
  <2>2. FS!Next /\ k' = k /\ pc' = pc /\ (fs_ready' <=> fs_ready) /\ (pc = "fs_init" \/ fs_ready)
    BY <1>7 DEF Command, fs_ready, InterruptsOn, IdtLoaded
  <2>3. CASE ~fs_ready /\ k <= LoopEnd
    BY <1>0, <2>2, <2>3 DEF RootInv
  <2>4. CASE fs_ready \/ k > LoopEnd
    <3>1. fs_table[0].type = "dir" /\ fs_table[0].parent = -1
      BY <1>0, <2>1, <2>2, <2>4, FsFacts DEF RootInv
    <3>2. fs_table'[0].type = "dir" /\ fs_table'[0].parent = -1
      BY <1>0, <2>2, <3>1, RootKept
    <3>3. fs_ready => Rooted(fs_cwd)'
      BY <1>0, <2>1, <2>2, <3>1, RootedKept DEF RootInv
    <3> QED BY <2>2, <3>2, <3>3, FsFacts DEF RootInv
  <2> QED BY <1>0, <2>3, <2>4
<1> QED BY <1>2, <1>3, <1>4, <1>5, <1>6, <1>7 DEF Next, kmain

\* However many inodes there are and whatever was typed while fs_init ran, a trail
\* of directories leads from fs_cwd to the root afterwards, unless a command came
\* between the two assignments that make slot 0 a root.
THEOREM CwdStaysRooted == Spec => []CwdRooted
<1>1. Init => RootInv
  <2>1. LoopEnd \in Nat
    BY FsFacts
  <2> QED BY <2>1 DEF Init, RootInv, fs_ready
<1>2. RootInv => CwdRooted
  BY DEF RootInv, CwdRooted
<1>3. TypeInv => TypeOK
  BY DEF TypeInv
<1> QED BY <1>1, <1>2, <1>3, TypeInvariant, RootNext, PTL DEF Spec

-------------------------------------------------------------------------------
(* What fs_init has cleared. *)

\* When no command ran inside fs_init, the fields it has assigned are blank, but for
\* the type of the root once that is set.
ClearInv ==
    /\ pc \in {"status", "ack1", "ack2", "idt"} => k = 0
    /\ pc = "fs_init" /\ early = "no" =>
         \A i \in FS!Idx :
           /\ 5 * i < k => fs_table[i].type = IF i = 0 /\ k > LoopEnd THEN "dir" ELSE "none"
           /\ 5 * i + 1 < k => fs_table[i].size = 0
           /\ 5 * i + 2 < k => fs_table[i].parent = -1
           /\ 5 * i + 3 < k => fs_table[i].name = FS!Empty
           /\ 5 * i + 4 < k => fs_table[i].content = FS!Empty

\* One assignment of the loop.
LEMMA ClearLoop ==
    ASSUME FS!TypeOK, k \in Nat, ClearInv, ClearField
    PROVE  ClearInv'
<1>1. k \in 0 .. FS_MAX_ENTRIES * 5 - 1 /\ k' = k + 1 /\ pc = "fs_init" /\ pc' = pc /\ early' = early
  BY FsFacts DEF ClearField
<1>2. PICK q \in Int, r \in Int : q = k \div 5 /\ r = k % 5 /\ q \in FS!Idx /\ r \in 0 .. 4 /\ k = 5 * q + r
  <2>1. k \div 5 \in 0 .. FS_MAX_ENTRIES - 1 /\ k % 5 \in 0 .. 4 /\ k = 5 * (k \div 5) + (k % 5)
    BY <1>1, FsFacts
  <2> QED BY <2>1, FsFacts
<1>3. Len(Fields) = 5 /\ Fields[1] = "type" /\ Fields[2] = "size" /\ Fields[3] = "parent"
      /\ Fields[4] = "name" /\ Fields[5] = "content"
  BY DEF Fields
<1>4. fs_table' = [fs_table EXCEPT ![q][Fields[r + 1]] = Blank[Fields[r + 1]]]
  BY <1>2, <1>3 DEF ClearField
<1>5. fs_table \in [FS!Idx -> FS!fs_entry_t]
  BY DEF FS!TypeOK
<1>6. ASSUME NEW i \in FS!Idx, i # q
      PROVE  fs_table'[i] = fs_table[i]
  BY <1>4, <1>5, <1>6
<1>7. /\ fs_table'[q].type = IF r = 0 THEN "none" ELSE fs_table[q].type
      /\ fs_table'[q].size = IF r = 1 THEN 0 ELSE fs_table[q].size
      /\ fs_table'[q].parent = IF r = 2 THEN -1 ELSE fs_table[q].parent
      /\ fs_table'[q].name = IF r = 3 THEN FS!Empty ELSE fs_table[q].name
      /\ fs_table'[q].content = IF r = 4 THEN FS!Empty ELSE fs_table[q].content
  <2>0. fs_table[q] \in FS!fs_entry_t
    BY <1>2, <1>5
  <2>1. CASE r = 0
    <3>1. Fields[r + 1] = "type" /\ Blank.type = FS!FS_TYPE_NONE
      BY <1>3, <2>1 DEF Blank
    <3>2. fs_table'[q] = [fs_table[q] EXCEPT !.type = FS!FS_TYPE_NONE]
      BY <1>2, <1>4, <1>5, <3>1
    <3> QED BY <2>0, <2>1, <3>2, FsFacts DEF FS!fs_entry_t
  <2>2. CASE r = 1
    <3>1. Fields[r + 1] = "size" /\ Blank.size = 0
      BY <1>3, <2>2 DEF Blank
    <3>2. fs_table'[q] = [fs_table[q] EXCEPT !.size = 0]
      BY <1>2, <1>4, <1>5, <3>1
    <3> QED BY <2>0, <2>2, <3>2, FsFacts DEF FS!fs_entry_t
  <2>3. CASE r = 2
    <3>1. Fields[r + 1] = "parent" /\ Blank.parent = FS!FS_NULL_IDX
      BY <1>3, <2>3 DEF Blank
    <3>2. fs_table'[q] = [fs_table[q] EXCEPT !.parent = FS!FS_NULL_IDX]
      BY <1>2, <1>4, <1>5, <3>1
    <3> QED BY <2>0, <2>3, <3>2, FsFacts DEF FS!fs_entry_t
  <2>4. CASE r = 3
    <3>1. Fields[r + 1] = "name" /\ Blank.name = FS!Empty
      BY <1>3, <2>4 DEF Blank
    <3>2. fs_table'[q] = [fs_table[q] EXCEPT !.name = FS!Empty]
      BY <1>2, <1>4, <1>5, <3>1
    <3> QED BY <2>0, <2>4, <3>2, FsFacts DEF FS!fs_entry_t
  <2>5. CASE r = 4
    <3>1. Fields[r + 1] = "content" /\ Blank.content = FS!Empty
      BY <1>3, <2>5 DEF Blank
    <3>2. fs_table'[q] = [fs_table[q] EXCEPT !.content = FS!Empty]
      BY <1>2, <1>4, <1>5, <3>1
    <3> QED BY <2>0, <2>5, <3>2, FsFacts DEF FS!fs_entry_t
  <2> QED BY <1>2, <2>1, <2>2, <2>3, <2>4, <2>5
<1>8. ASSUME early = "no", NEW i \in FS!Idx
      PROVE  /\ 5 * i < k + 1 => fs_table'[i].type = "none"
             /\ 5 * i + 1 < k + 1 => fs_table'[i].size = 0
             /\ 5 * i + 2 < k + 1 => fs_table'[i].parent = -1
             /\ 5 * i + 3 < k + 1 => fs_table'[i].name = FS!Empty
             /\ 5 * i + 4 < k + 1 => fs_table'[i].content = FS!Empty
  <2>1. i \in Nat /\ ~(k > LoopEnd)
    BY <1>1, FsFacts
  <2>2. /\ 5 * i < k => fs_table[i].type = "none"
        /\ 5 * i + 1 < k => fs_table[i].size = 0
        /\ 5 * i + 2 < k => fs_table[i].parent = -1
        /\ 5 * i + 3 < k => fs_table[i].name = FS!Empty
        /\ 5 * i + 4 < k => fs_table[i].content = FS!Empty
    BY <1>1, <1>8, <2>1 DEF ClearInv
  <2>3. CASE i = q
    <3>1. /\ 5 * i < k + 1 => r = 0 \/ 5 * i < k
          /\ 5 * i + 1 < k + 1 => r = 1 \/ 5 * i + 1 < k
          /\ 5 * i + 2 < k + 1 => r = 2 \/ 5 * i + 2 < k
          /\ 5 * i + 3 < k + 1 => r = 3 \/ 5 * i + 3 < k
          /\ 5 * i + 4 < k + 1 => r = 4 \/ 5 * i + 4 < k
      BY <1>2, <2>1, <2>3
    <3> QED BY <1>7, <2>2, <2>3, <3>1
  <2>4. CASE i # q
    <3>1. fs_table'[i] = fs_table[i]
      BY <1>6, <2>4
    <3>2. /\ 5 * i < k + 1 => 5 * i < k
          /\ 5 * i + 1 < k + 1 => 5 * i + 1 < k
          /\ 5 * i + 2 < k + 1 => 5 * i + 2 < k
          /\ 5 * i + 3 < k + 1 => 5 * i + 3 < k
          /\ 5 * i + 4 < k + 1 => 5 * i + 4 < k
      BY <1>2, <2>1, <2>4
    <3> QED BY <2>2, <3>1, <3>2
  <2> QED BY <2>3, <2>4
<1>9. ~(k + 1 > LoopEnd)
  BY <1>1, FsFacts
<1> QED BY <1>1, <1>8, <1>9 DEF ClearInv

LEMMA ClearNext ==
    ASSUME TypeOK, ClearInv, [Next]_vars
    PROVE  ClearInv'
<1>0. FS!TypeOK /\ k \in Nat /\ LoopEnd \in Nat /\ fs_table \in [FS!Idx -> FS!fs_entry_t]
  BY FsFacts DEF TypeOK, FS!TypeOK
<1>1. ASSUME UNCHANGED <<fs_table, k, early, pc>>
      PROVE  ClearInv'
  BY <1>1 DEF ClearInv
<1>2. CASE UNCHANGED vars \/ Halt \/ Hang \/ fs_pwd \/ MouseByte \/ kprint
  BY <1>1, <1>2 DEF vars, files, Halt, Hang, fs_pwd, MouseByte, kprint
<1>3. CASE ReadStatus \/ mouse_read
  BY <1>3 DEF ReadStatus, mouse_read, ClearInv
<1>4. CASE idt_init
  <2>1. k' = 0 /\ pc' = "fs_init"
    BY <1>4 DEF idt_init, ClearInv
  <2> QED BY <2>1, FsFacts DEF ClearInv
<1>5. CASE SetCwd \/ net_stack_init \/ LoadY \/ LoadX \/ ReadAttr \/ WriteAttr
  BY <1>5 DEF SetCwd, net_stack_init, LoadY, LoadX, ReadAttr, WriteAttr, ClearInv
<1>6. CASE ClearField
  BY <1>0, <1>6, ClearLoop
<1>7. CASE MakeRoot
  <2> SUFFICES ASSUME early' = "no" PROVE ClearInv'
    BY <1>7 DEF MakeRoot, ClearInv
  <2>1. k' = k + 1 /\ pc = "fs_init" /\ pc' = pc /\ early = "no" /\ k >= LoopEnd
    BY <1>0, <1>7 DEF MakeRoot
  <2>2. \A i \in FS!Idx : 5 * i < k /\ 5 * i + 1 < k /\ 5 * i + 2 < k /\ 5 * i + 3 < k /\ 5 * i + 4 < k
    BY <1>0, <2>1, FsFacts
  <2>3. ASSUME NEW i \in FS!Idx
        PROVE  /\ fs_table[i].type = IF i = 0 /\ k > LoopEnd THEN "dir" ELSE "none"
               /\ fs_table[i].size = 0 /\ fs_table[i].parent = -1
               /\ fs_table[i].name = FS!Empty /\ fs_table[i].content = FS!Empty
    BY <2>1, <2>2 DEF ClearInv
  <2>4. ASSUME NEW i \in FS!Idx
        PROVE  /\ fs_table'[i].type = IF i = 0 THEN "dir" ELSE "none"
               /\ fs_table'[i].size = 0 /\ fs_table'[i].parent = -1
               /\ fs_table'[i].name = FS!Empty /\ fs_table'[i].content = FS!Empty
    <3>0. fs_table[i] \in FS!fs_entry_t
      BY <1>0
    <3>1. CASE k = LoopEnd /\ fs_table' = [fs_table EXCEPT ![FS!FS_ROOT_IDX].type = FS!FS_TYPE_DIR]
      BY <1>0, <2>3, <3>0, <3>1, FsFacts DEF FS!fs_entry_t
    <3>2. CASE k = LoopEnd + 1 /\ fs_table' = [fs_table EXCEPT ![FS!FS_ROOT_IDX].parent = FS!FS_NULL_IDX]
      BY <1>0, <2>3, <3>0, <3>2, FsFacts DEF FS!fs_entry_t
    <3>3. CASE k = LoopEnd + 2 /\ fs_table' = [fs_table EXCEPT ![FS!FS_ROOT_IDX].name = FS!Empty]
      BY <1>0, <2>3, <3>0, <3>3, FsFacts DEF FS!fs_entry_t
    <3> QED BY <1>7, <3>1, <3>2, <3>3 DEF MakeRoot
  <2>5. k + 1 > LoopEnd
    BY <1>0, <2>1
  <2> QED BY <2>1, <2>4, <2>5 DEF ClearInv
<1>8. CASE Command
  <2>1. pc' = pc /\ k' = k /\ pc \notin {"status", "ack1", "ack2", "idt"}
    BY <1>8 DEF Command, InterruptsOn, IdtLoaded
  <2>2. CASE pc = "fs_init" /\ early' = "no"
    <3>1. k = 0
      BY <1>8, <2>2 DEF Command
    <3> QED BY <2>1, <2>2, <3>1, FsFacts DEF ClearInv
  <2> QED BY <2>1, <2>2 DEF ClearInv
<1> QED BY <1>2, <1>3, <1>4, <1>5, <1>6, <1>7, <1>8 DEF Next, kmain

\* Once nobody typed during fs_init, the table it leaves is FileSystem's initial one.
LEMMA SetCwdFresh ==
    ASSUME TypeOK, ClearInv, SetCwd, early = "no"
    PROVE  fs_table' = Fresh
<1>0. k \in Nat /\ LoopEnd \in Nat /\ fs_table \in [FS!Idx -> FS!fs_entry_t]
  BY FsFacts DEF TypeOK, FS!TypeOK
<1>1. fs_table' = fs_table /\ pc = "fs_init" /\ k = LoopEnd + 3
  BY DEF SetCwd
<1>2. \A i \in FS!Idx : /\ 5 * i < k /\ 5 * i + 1 < k /\ 5 * i + 2 < k /\ 5 * i + 3 < k /\ 5 * i + 4 < k
                        /\ k > LoopEnd
  BY <1>0, <1>1, FsFacts
<1>3. ASSUME NEW i \in FS!Idx
      PROVE  fs_table[i] = Fresh[i]
  <2>1. /\ fs_table[i].type = IF i = 0 THEN "dir" ELSE "none"
        /\ fs_table[i].size = 0 /\ fs_table[i].parent = -1
        /\ fs_table[i].name = FS!Empty /\ fs_table[i].content = FS!Empty
    BY <1>1, <1>2 DEF ClearInv
  <2>2. fs_table[i] \in FS!fs_entry_t
    BY <1>0
  <2> QED BY <2>1, <2>2, FsFacts DEF Fresh, Blank, FS!fs_entry_t
<1> QED BY <1>0, <1>1, <1>3 DEF Fresh

-------------------------------------------------------------------------------
(* pwd.                                                                      *)

\* The walk from a directory of a trail ends.
LEMMA TrailPathEnds ==
    ASSUME NEW S, Trail(S), NEW i \in S
    PROVE  PathEnds(i)
<1> SUFFICES ASSUME NEW P \in SUBSET FS!Idx, i \in P, 0 \notin P
             PROVE  \E j \in P : fs_table[j].parent \notin P
  BY FsFacts DEF PathEnds
<1>1. P \cap S \in SUBSET (S \ {0}) /\ P \cap S # {}
  OBVIOUS
<1>2. PICK j \in P \cap S : fs_table[j].parent \notin P \cap S
  BY <1>1 DEF Trail
<1>3. fs_table[j].parent \in S
  BY <1>1 DEF Trail
<1> QED BY <1>2, <1>3

LEMMA RootedPathEnds ==
    ASSUME Rooted(fs_cwd)
    PROVE  PathEnds(fs_cwd)
  BY RootedTrail, TrailPathEnds

\* The directories in use, and slot 0.
Dirs == {j \in FS!Idx : fs_table[j].type = "dir"} \cup {0}

\* While no command has come inside fs_init: all directories make a trail whenever
\* a command can come, and the walk from fs_cwd ends, also in between.
PwdInv ==
    early = "no" =>
      /\ k = 0 \/ fs_ready => Trail(Dirs) /\ fs_cwd \in Dirs
      /\ PathEnds(fs_cwd)

\* A command keeps that, also one before fs_init, when slot 0 is like any other.
LEMMA DirsKept ==
    ASSUME FS!TypeOK, FS!Next, Trail(Dirs), fs_cwd \in Dirs
    PROVE  Trail(Dirs)' /\ fs_cwd' \in Dirs'
<1>0. fs_table \in [FS!Idx -> FS!fs_entry_t] /\ fs_cwd \in FS!Idx /\ 0 \in FS!Idx
  BY FsFacts DEF FS!TypeOK
<1>1. PICK S : S = Dirs
  OBVIOUS
<1>2. Trail(S) /\ fs_cwd \in S /\ S \subseteq FS!Idx /\ 0 \in S
  BY <1>0, <1>1 DEF Dirs
<1>3. \A j \in FS!Idx : j \in S <=> j = 0 \/ fs_table[j].type = "dir"
  BY <1>1 DEF Dirs
<1>4. ASSUME NEW U, Trail(U)', fs_cwd' \in U, U = Dirs'
      PROVE  Trail(Dirs)' /\ fs_cwd' \in Dirs'
  BY <1>4
<1>5. ASSUME NEW slot \in FS!Idx, NEW type \in {"file", "dir"}, NEW name, Created(slot, type, name)
      PROVE  Trail(Dirs)' /\ fs_cwd' \in Dirs'
  <2>1. /\ \A j \in FS!Idx \ {slot} : fs_table'[j] = fs_table[j]
        /\ fs_table'[slot].type = type /\ fs_table'[slot].parent = fs_cwd
        /\ fs_table[slot].type = "none" /\ fs_cwd' = fs_cwd
    BY <1>0, <1>5 DEF Created, FS!fs_entry_t
  <2>2. slot \notin S \ {0}
    BY <1>3, <2>1
  <2>3. Trail(S)'
    BY <1>2, <2>1, <2>2, TrailKept
  <2>4. CASE type = "dir" /\ slot # 0
    <3>1. Trail(S \cup {slot})'
      <4>1. /\ S \cup {slot} \subseteq FS!Idx /\ 0 \in S \cup {slot} /\ slot \notin S
            /\ \A j \in (S \cup {slot}) \ {0} : fs_table'[j].type = "dir"
            /\ \A j \in (S \cup {slot}) \ {0} : fs_table'[j].parent \in S
        BY <1>2, <2>1, <2>2, <2>3, <2>4 DEF Trail
      <4>2. ASSUME NEW T \in SUBSET ((S \cup {slot}) \ {0}), T # {}
            PROVE  \E j \in T : fs_table'[j].parent \notin T
        <5>1. CASE T \ {slot} = {}
          BY <4>1, <4>2, <5>1
        <5>2. CASE T \ {slot} # {}
          <6>1. T \ {slot} \in SUBSET (S \ {0})
            OBVIOUS
          <6>2. PICK j \in T \ {slot} : fs_table'[j].parent \notin T \ {slot}
            BY <2>3, <5>2, <6>1 DEF Trail
          <6> QED BY <4>1, <6>1, <6>2
        <5> QED BY <5>1, <5>2
      <4> QED BY <4>1, <4>2 DEF Trail
    <3>2. S \cup {slot} = Dirs'
      BY <1>2, <1>3, <2>1, <2>4 DEF Dirs
    <3> QED BY <1>2, <1>4, <2>1, <3>1, <3>2
  <2>5. CASE ~(type = "dir" /\ slot # 0)
    <3>1. S = Dirs'
      BY <1>2, <1>3, <2>1, <2>5 DEF Dirs
    <3> QED BY <1>2, <1>4, <2>1, <2>3, <3>1
  <2> QED BY <2>4, <2>5
<1>6. ASSUME NEW i \in FS!Idx, NEW data, Written(i, data)
      PROVE  Trail(Dirs)' /\ fs_cwd' \in Dirs'
  <2>1. \A j \in FS!Idx : fs_table'[j].type = fs_table[j].type /\ fs_table'[j].parent = fs_table[j].parent
    BY <1>0, <1>6 DEF Written, FS!fs_entry_t
  <2>2. Trail(S)' /\ fs_cwd' \in S
    BY <1>2, <1>6, <2>1, TrailKept DEF Written
  <2>3. S = Dirs'
    BY <1>2, <1>3, <2>1 DEF Dirs
  <2> QED BY <1>4, <2>2, <2>3
<1>7. ASSUME NEW i \in FS!Idx, Freed(i)
      PROVE  Trail(Dirs)' /\ fs_cwd' \in Dirs'
  <2>1. /\ \A j \in FS!Idx \ {i} : fs_table'[j] = fs_table[j]
        /\ fs_table'[i].type = "none" /\ fs_cwd' = fs_cwd /\ fs_table[i].parent = fs_cwd
    BY <1>0, <1>7 DEF Freed, FS!fs_entry_t
  <2>2. CASE i \in S \ {0}
    <3>1. \A j \in S \ {0} : fs_table[j].parent # i
      BY <1>2, <1>3, <1>7, <2>2 DEF Freed
    <3>2. Trail(S \ {i})
      BY <1>2, <2>2, <3>1, TrailWithout
    <3>3. Trail(S \ {i})'
      BY <1>2, <2>1, <3>2, TrailKept
    <3>4. fs_cwd \in S \ {i}
      BY <1>2, <2>1, <2>2, <3>1
    <3>5. S \ {i} = Dirs'
      BY <1>2, <1>3, <2>1, <2>2 DEF Dirs
    <3> QED BY <1>4, <2>1, <3>3, <3>4, <3>5
  <2>3. CASE i \notin S \ {0}
    <3>1. Trail(S)'
      BY <1>2, <2>1, <2>3, TrailKept
    <3>2. S = Dirs'
      BY <1>2, <1>3, <2>1, <2>3 DEF Dirs
    <3> QED BY <1>2, <1>4, <2>1, <3>1, <3>2
  <2> QED BY <2>2, <2>3
<1>8. ASSUME NEW t \in FS!Idx, Moved(t)
      PROVE  Trail(Dirs)' /\ fs_cwd' \in Dirs'
  <2>1. t \in S /\ fs_cwd' = t /\ fs_table' = fs_table
    BY <1>2, <1>3, <1>8 DEF Moved
  <2>2. Trail(S)' /\ S = Dirs'
    BY <1>1, <1>2, <2>1, TrailKept DEF Dirs
  <2> QED BY <1>4, <2>1, <2>2
<1> QED BY <1>5, <1>6, <1>7, <1>8, CommandCases

\* Assigning fields of the table without a command shortens walks at most.
LEMMA PathKept ==
    ASSUME NEW i, PathEnds(i),
           \A j \in FS!Idx : fs_table'[j].parent \in {fs_table[j].parent, -1}
    PROVE  PathEnds(i)'
<1> SUFFICES ASSUME NEW P \in SUBSET FS!Idx, i \in P, 0 \notin P
             PROVE  \E j \in P : fs_table'[j].parent \notin P
  BY FsFacts DEF PathEnds
<1>1. PICK j \in P : fs_table[j].parent \notin P
  BY FsFacts DEF PathEnds
<1>2. fs_table'[j].parent \in {fs_table[j].parent, -1} /\ -1 \notin P
  BY FsFacts
<1> QED BY <1>1, <1>2

LEMMA ClearParents ==
    ASSUME FS!TypeOK, k \in Nat, ClearField \/ MakeRoot
    PROVE  \A j \in FS!Idx : fs_table'[j].parent \in {fs_table[j].parent, -1}
<1>0. fs_table \in [FS!Idx -> FS!fs_entry_t]
  BY DEF FS!TypeOK
<1> SUFFICES ASSUME NEW j \in FS!Idx
             PROVE  fs_table'[j].parent \in {fs_table[j].parent, -1}
  OBVIOUS
<1>1. fs_table[j] \in FS!fs_entry_t
  BY <1>0
<1>2. CASE MakeRoot
  BY <1>0, <1>1, <1>2, FsFacts, SMTT(30) DEF MakeRoot, FS!fs_entry_t
<1>3. CASE ClearField
  <2>1. PICK q \in Int, f \in {"type", "size", "parent", "name", "content"} :
          fs_table' = [fs_table EXCEPT ![q][f] = Blank[f]]
    <3>1. k \div 5 \in Int /\ k % 5 \in 0 .. 4
      OBVIOUS
    <3>2. Len(Fields) = 5 /\ Fields[1] = "type" /\ Fields[2] = "size" /\ Fields[3] = "parent"
          /\ Fields[4] = "name" /\ Fields[5] = "content"
      BY DEF Fields
    <3>3. Fields[(k % 5) + 1] \in {"type", "size", "parent", "name", "content"}
      BY <3>1, <3>2
    <3> QED BY <1>3, <3>1, <3>2, <3>3 DEF ClearField
  <2>2. fs_table'[j] = fs_table[j] \/ fs_table'[j] = [fs_table[j] EXCEPT ![f] = Blank[f]]
    BY <1>0, <2>1
  <2>3. CASE f = "parent"
    BY <1>1, <2>2, <2>3, FsFacts DEF FS!fs_entry_t, Blank
  <2>4. CASE f # "parent"
    BY <1>1, <2>1, <2>2, <2>4 DEF FS!fs_entry_t
  <2> QED BY <2>3, <2>4
<1> QED BY <1>2, <1>3

LEMMA PwdNext ==
    ASSUME TypeOK, ClearInv, PwdInv, [Next]_vars
    PROVE  PwdInv'
<1>0. FS!TypeOK /\ k \in Nat /\ fs_table \in [FS!Idx -> FS!fs_entry_t] /\ 0 \in FS!Idx
  BY FsFacts DEF TypeOK, FS!TypeOK
<1>1. ASSUME UNCHANGED <<files, k, early>>, fs_ready' = fs_ready
      PROVE  PwdInv'
  BY <1>1 DEF files, PwdInv, PathEnds, Trail, Dirs
<1>2. CASE UNCHANGED vars \/ Halt \/ Hang \/ fs_pwd \/ MouseByte \/ kprint
  BY <1>1, <1>2 DEF vars, Halt, Hang, fs_pwd, MouseByte, kprint, fs_ready
<1>3. CASE ReadStatus \/ mouse_read \/ idt_init \/ net_stack_init \/ LoadY \/ LoadX \/ ReadAttr \/ WriteAttr
  BY <1>1, <1>3 DEF ReadStatus, mouse_read, idt_init, net_stack_init, LoadY, LoadX, ReadAttr, WriteAttr, fs_ready
<1>4. CASE ClearField \/ MakeRoot
  <2> SUFFICES ASSUME early' = "no" PROVE PwdInv'
    BY DEF PwdInv
  <2>1. k' # 0 /\ ~fs_ready' /\ early = "no" /\ fs_cwd' = fs_cwd
    BY <1>0, <1>4 DEF ClearField, MakeRoot, fs_ready
  <2>2. PICK i : i = fs_cwd
    OBVIOUS
  <2>3. PathEnds(i)'
    BY <1>0, <1>4, <2>1, <2>2, ClearParents, PathKept DEF PwdInv
  <2> QED BY <2>1, <2>2, <2>3 DEF PwdInv, PathEnds
<1>5. CASE SetCwd
  <2> SUFFICES ASSUME early' = "no" PROVE PwdInv'
    BY DEF PwdInv
  <2>1. early = "no" /\ fs_cwd' = 0
    BY <1>5, FsFacts DEF SetCwd
  <2>2. fs_table' = Fresh
    BY <1>5, <2>1, SetCwdFresh
  <2>3. \A j \in FS!Idx \ {0} : fs_table'[j].type = "none"
    BY <2>2, FsFacts DEF Fresh, Blank
  <2>4. Dirs' = {0}
    BY <1>0, <2>3 DEF Dirs
  <2>5. Trail({0})'
    BY <1>0 DEF Trail
  <2>6. PathEnds(0)'
    BY FsFacts DEF PathEnds
  <2>7. Trail(Dirs)' /\ fs_cwd' \in Dirs'
    BY <2>1, <2>4, <2>5
  <2>8. PathEnds(fs_cwd)'
    BY <2>1, <2>6 DEF PathEnds
  <2> QED BY <2>7, <2>8 DEF PwdInv
<1>6. CASE Command
  <2> SUFFICES ASSUME early' = "no" PROVE PwdInv'
    BY DEF PwdInv
  <2>1. early = "no" /\ (k = 0 \/ fs_ready) /\ FS!Next
    BY <1>6 DEF Command, fs_ready, InterruptsOn, IdtLoaded
  <2>2. Trail(Dirs)' /\ fs_cwd' \in Dirs'
    BY <1>0, <2>1, DirsKept DEF PwdInv
  <2>3. PathEnds(fs_cwd)'
    <3> SUFFICES ASSUME NEW P \in SUBSET FS!Idx, fs_cwd' \in P, 0 \notin P
                 PROVE  \E j \in P : fs_table'[j].parent \notin P
      BY FsFacts DEF PathEnds
    <3>1. PICK S : S = Dirs' /\ fs_cwd' \in S
      BY <2>2
    <3>2. P \cap S \in SUBSET (S \ {0}) /\ P \cap S # {}
      BY <3>1
    <3>3. PICK j \in P \cap S : fs_table'[j].parent \notin P \cap S
      BY <2>2, <3>1, <3>2 DEF Trail
    <3>4. fs_table'[j].parent \in S
      BY <2>2, <3>1, <3>2 DEF Trail
    <3> QED BY <3>3, <3>4
  <2> QED BY <2>2, <2>3 DEF PwdInv
<1> QED BY <1>2, <1>3, <1>4, <1>5, <1>6 DEF Next, kmain

\* For every number of inodes and any names, pwd returns unless a command came
\* inside fs_init; and after fs_init it returns unless one came between the two
\* assignments that make slot 0 a root.
THEOREM PwdAlwaysReturns == Spec => []PwdReturns
<1>1. Init => PwdInv /\ RootInv /\ ClearInv /\ PwdReturns
  <2> SUFFICES ASSUME Init PROVE PwdInv /\ RootInv /\ ClearInv /\ PwdReturns
    OBVIOUS
  <2>1. /\ fs_cwd = 0 /\ k = 0 /\ pc = "status" /\ 0 \in FS!Idx /\ LoopEnd \in Nat
        /\ \A j \in FS!Idx : fs_table[j].type = "none"
    BY FsFacts DEF Init, Blank
  <2>2. Dirs = {0} /\ Trail({0})
    BY <2>1 DEF Dirs, Trail
  <2>3. PathEnds(0)
    BY FsFacts DEF PathEnds
  <2>4. PwdInv
    BY <2>1, <2>2, <2>3 DEF PwdInv
  <2>5. RootInv /\ ClearInv
    BY <2>1 DEF RootInv, ClearInv, fs_ready
  <2>6. ~hung
    BY Zenon DEF Init
  <2> QED BY <2>4, <2>5, <2>6 DEF PwdReturns
<1>2. PwdInv /\ RootInv /\ PwdReturns /\ [Next]_vars => PwdReturns'
  <2> SUFFICES ASSUME PwdInv, RootInv, PwdReturns, [Next]_vars, hung' PROVE PwdReturns'
    BY DEF PwdReturns
  <2>1. CASE hung
    <3>1. UNCHANGED <<pc, early>>
      BY <2>1 DEF Next, kmain, Halt, Hang, Command, fs_pwd, MouseByte, kprint, InterruptsOn, vars
    <3> QED BY <2>1, <3>1 DEF PwdReturns, fs_ready
  <2>2. CASE ~hung
    <3>1. fs_pwd
      <4>1. ~(UNCHANGED vars \/ Halt \/ Hang \/ MouseByte \/ kprint \/ Command)
        BY <2>2 DEF vars, ctrl, Halt, Hang, MouseByte, kprint, Command
      <4>2. ~(ReadStatus \/ mouse_read \/ idt_init \/ ClearField \/ MakeRoot \/ SetCwd)
        BY <2>2 DEF ctrl, ReadStatus, mouse_read, idt_init, ClearField, MakeRoot, SetCwd
      <4>3. ~(net_stack_init \/ LoadY \/ LoadX \/ ReadAttr \/ WriteAttr)
        BY <2>2 DEF ctrl, net_stack_init, LoadY, LoadX, ReadAttr, WriteAttr
      <4> QED BY <4>1, <4>2, <4>3 DEF Next, kmain
    <3>2. ~PathEnds(fs_cwd) /\ UNCHANGED <<pc, early>>
      BY <3>1 DEF fs_pwd
    <3>3. early # "no"
      BY <3>2 DEF PwdInv
    <3>4. fs_ready => early = "root"
      BY <3>2, RootedPathEnds DEF RootInv
    <3> QED BY <3>2, <3>3, <3>4 DEF PwdReturns, fs_ready
  <2> QED BY <2>1, <2>2
<1>3. TypeInv => TypeOK
  BY DEF TypeInv
<1> QED BY <1>1, <1>2, <1>3, TypeInvariant, RootNext, ClearNext, PwdNext, PTL DEF Spec

-------------------------------------------------------------------------------
(* The boot implements FileSystem. *)

LEMMA AbstractFacts ==
    /\ Abstract!FS_ROOT_IDX = FS!FS_ROOT_IDX /\ Abstract!FS_NULL_IDX = FS!FS_NULL_IDX
    /\ Abstract!Idx = FS!Idx /\ Abstract!Empty = FS!Empty
    /\ Abstract!FS_TYPE_NONE = FS!FS_TYPE_NONE /\ Abstract!FS_TYPE_FILE = FS!FS_TYPE_FILE
    /\ Abstract!FS_TYPE_DIR = FS!FS_TYPE_DIR
  BY Zenon DEF Abstract!FS_ROOT_IDX, FS!FS_ROOT_IDX, Abstract!FS_NULL_IDX, FS!FS_NULL_IDX,
       Abstract!Idx, FS!Idx, Abstract!Empty, FS!Empty, Abstract!FS_TYPE_NONE, FS!FS_TYPE_NONE,
       Abstract!FS_TYPE_FILE, FS!FS_TYPE_FILE, Abstract!FS_TYPE_DIR, FS!FS_TYPE_DIR

\* Once the filesystem is looked at, a command of the boot is one of FileSystem.
LEMMA CommandAbstract ==
    ASSUME Seen, Seen', FS!Next
    PROVE  Abstract!Next
<1> DEFINE T == IF Seen THEN fs_table ELSE Fresh
           C == IF Seen THEN fs_cwd ELSE 0
<1>0. T = fs_table /\ T' = fs_table' /\ C = fs_cwd /\ C' = fs_cwd'
  OBVIOUS
<1>1. Abstract!Live = FS!Live
  BY <1>0, AbstractFacts DEF FS!Live, Abstract!Live
<1>2. ASSUME NEW name, NEW parent
      PROVE  Abstract!Matches(name, parent) = FS!Matches(name, parent)
  BY <1>0, <1>1 DEF FS!Matches, Abstract!Matches
<1>3. ASSUME NEW name, NEW i
      PROVE  FS!fs_find_in(name, fs_cwd, i) => Abstract!fs_find_in(name, C, i)
  BY <1>0, <1>2, Zenon DEF FS!fs_find_in, Abstract!fs_find_in, FS!First, Abstract!First
<1>4. ASSUME NEW i
      PROVE  /\ FS!fs_alloc(i) => Abstract!fs_alloc(i)
             /\ FS!fs_dir_empty(i) => Abstract!fs_dir_empty(i)
             /\ FS!Release(i) => Abstract!Release(i)
  <2>1. FS!fs_alloc(i) => Abstract!fs_alloc(i)
    BY <1>1, AbstractFacts, Zenon DEF FS!fs_alloc, Abstract!fs_alloc, FS!First, Abstract!First
  <2>2. FS!fs_dir_empty(i) => Abstract!fs_dir_empty(i)
    BY <1>0, <1>1, Zenon DEF FS!fs_dir_empty, Abstract!fs_dir_empty
  <2>3. FS!Release(i) => Abstract!Release(i)
    BY <1>0, AbstractFacts DEF FS!Release, Abstract!Release
  <2> QED BY <2>1, <2>2, <2>3
<1>5. ASSUME NEW i, NEW type, NEW name
      PROVE  FS!NewEntry(i, type, name) => Abstract!NewEntry(i, type, name)
  BY <1>0 DEF FS!NewEntry, Abstract!NewEntry
<1>6. CASE FS!cmd_mkdir
  <2>1. PICK name \in Names : FS!fs_mkdir(name)
    BY <1>6 DEF FS!cmd_mkdir
  <2>2. Abstract!fs_mkdir(name)
    BY <1>0, <1>2, <1>4, <1>5, <2>1, AbstractFacts, Zenon DEF FS!fs_mkdir, Abstract!fs_mkdir
  <2> QED BY <2>2 DEF Abstract!Next, Abstract!cmd_mkdir
<1>7. CASE FS!cmd_touch
  <2>1. PICK name \in Names : FS!fs_create_file(name)
    BY <1>7 DEF FS!cmd_touch
  <2>2. Abstract!fs_create_file(name)
    BY <1>0, <1>2, <1>4, <1>5, <2>1, AbstractFacts, Zenon DEF FS!fs_create_file, Abstract!fs_create_file
  <2> QED BY <2>2 DEF Abstract!Next, Abstract!cmd_touch
<1>8. CASE FS!cmd_rm
  <2>1. PICK name \in Names : FS!fs_rm(name)
    BY <1>8 DEF FS!cmd_rm
  <2>2. Abstract!fs_rm(name)
    BY <1>0, <1>3, <1>4, <2>1, AbstractFacts DEF FS!fs_rm, Abstract!fs_rm
  <2> QED BY <2>2 DEF Abstract!Next, Abstract!cmd_rm
<1>9. CASE FS!cmd_rmdir
  <2>1. PICK name \in Names : FS!fs_rmdir(name)
    BY <1>9 DEF FS!cmd_rmdir
  <2>2. Abstract!fs_rmdir(name)
    BY <1>0, <1>3, <1>4, <2>1, AbstractFacts DEF FS!fs_rmdir, Abstract!fs_rmdir
  <2> QED BY <2>2 DEF Abstract!Next, Abstract!cmd_rmdir
<1>10. CASE FS!cmd_write
  <2> DEFINE typed == [n \in Names |-> n]
             text == [w \in Names \X Data |-> w[2]]
             length == [d \in Data |-> 1]
  <2>1. PICK name \in Names, d \in Data : FS!fs_write_file(typed[name], text[<<name, d>>])
    BY <1>10 DEF FS!cmd_write
  <2>2. ASSUME NEW n, NEW w, FS!fs_write_file(n, w)
        PROVE  Abstract!fs_write_file(n, w)
    <3>1. PICK i \in FS!Idx : /\ FS!fs_find_in(n, fs_cwd, i) /\ fs_table[i].type = FS!FS_TYPE_FILE
                             /\ fs_table' = [fs_table EXCEPT ![i] = [@ EXCEPT !.content = w, !.size = length[w]]]
                             /\ fs_cwd' = fs_cwd
      BY <2>2 DEF FS!fs_write_file
    <3>2. /\ Abstract!fs_find_in(n, C, i) /\ T[i].type = Abstract!FS_TYPE_FILE
          /\ T' = [T EXCEPT ![i] = [@ EXCEPT !.content = w, !.size = length[w]]] /\ C' = C
      BY <1>0, <1>3, <3>1, AbstractFacts
    <3> QED BY <3>2, AbstractFacts DEF Abstract!fs_write_file
  <2> QED BY <2>1, <2>2 DEF Abstract!Next, Abstract!cmd_write
<1>11. CASE FS!cmd_cd
  BY <1>0, <1>11, AbstractFacts
    DEF FS!cmd_cd, FS!fs_cd, FS!Matches, FS!Live, FS!fs_find_in, FS!First, FS!fs_resolve_dir, Abstract!Next,
        Abstract!cmd_cd, Abstract!fs_cd, Abstract!Matches, Abstract!Live,
        Abstract!fs_find_in, Abstract!First, Abstract!fs_resolve_dir
<1> QED BY <1>6, <1>7, <1>8, <1>9, <1>10, <1>11 DEF FS!Next

\* For every number of inodes and every interleaving in which no command runs
\* inside fs_init, the boot and the commands after it are a behaviour of
\* FileSystem: nothing typed before the loop of fs_init leaves a trace.
THEOREM BootRefinesFileSystem == Spec => BootsFileSystem
<1>1. Init => Abstract!Init
  <2> SUFFICES ASSUME Init PROVE Abstract!Init
    OBVIOUS
  <2>1. ~Seen
    BY DEF Init, Seen, fs_ready
  <2>2. Fresh = [i \in Abstract!Idx |->
                    [type    |-> IF i = Abstract!FS_ROOT_IDX THEN Abstract!FS_TYPE_DIR ELSE Abstract!FS_TYPE_NONE,
                     parent  |-> Abstract!FS_NULL_IDX,
                     name    |-> Abstract!Empty,
                     content |-> Abstract!Empty,
                     size    |-> 0]]
    BY AbstractFacts, FsFacts DEF Fresh, Blank
  <2>3. Abstract!FS_ROOT_IDX = 0
    BY AbstractFacts, FsFacts
  <2> QED BY <2>1, <2>2, <2>3 DEF Abstract!Init, Abstract!fs_init
<1>2. TypeOK /\ ClearInv /\ [Next]_vars => [Abstract!Next]_(Abstract!vars)
  <2> SUFFICES ASSUME TypeOK, ClearInv, [Next]_vars PROVE [Abstract!Next]_(Abstract!vars)
    OBVIOUS
  <2>1. CASE ~Seen /\ ~Seen'
    BY <2>1 DEF Abstract!vars, Fresh
  <2>2. CASE ~Seen /\ Seen'
    <3>1. SetCwd /\ early = "no"
      <4>1. ~Command
        BY <2>2 DEF Command, Seen, fs_ready
      <4>2. ~(UNCHANGED vars \/ Halt \/ Hang \/ fs_pwd \/ MouseByte \/ kprint)
        BY <2>2 DEF vars, Halt, Hang, fs_pwd, MouseByte, kprint, Seen, fs_ready
      <4>3. ~(ReadStatus \/ mouse_read \/ idt_init \/ ClearField \/ MakeRoot)
        BY <2>2 DEF ReadStatus, mouse_read, idt_init, ClearField, MakeRoot, Seen, fs_ready
      <4>4. ~(net_stack_init \/ LoadY \/ LoadX \/ ReadAttr \/ WriteAttr)
        BY <2>2 DEF net_stack_init, LoadY, LoadX, ReadAttr, WriteAttr, Seen, fs_ready
      <4>5. SetCwd
        BY <4>1, <4>2, <4>3, <4>4 DEF Next, kmain
      <4> QED BY <2>2, <4>5 DEF SetCwd, Seen
    <3>2. fs_table' = Fresh /\ fs_cwd' = 0
      BY <3>1, SetCwdFresh, FsFacts DEF SetCwd
    <3> QED BY <2>2, <3>2 DEF Abstract!vars
  <2>3. CASE Seen
    <3>1. Seen' /\ (Command \/ UNCHANGED files)
      <4>1. CASE Command
        BY <2>3, <4>1 DEF Command, Seen, fs_ready
      <4>2. CASE UNCHANGED vars \/ Halt \/ Hang \/ fs_pwd \/ MouseByte \/ kprint
        BY <2>3, <4>2 DEF vars, Halt, Hang, fs_pwd, MouseByte, kprint, Seen, fs_ready
      <4>3. CASE ReadStatus \/ mouse_read \/ idt_init \/ ClearField \/ MakeRoot \/ SetCwd
        BY <2>3, <4>3 DEF ReadStatus, mouse_read, idt_init, ClearField, MakeRoot, SetCwd, Seen, fs_ready
      <4>4. CASE net_stack_init \/ LoadY \/ LoadX \/ ReadAttr \/ WriteAttr
        BY <2>3, <4>4 DEF net_stack_init, LoadY, LoadX, ReadAttr, WriteAttr, Seen, fs_ready
      <4> QED BY <4>1, <4>2, <4>3, <4>4 DEF Next, kmain
    <3>2. CASE Command
      BY <2>3, <3>1, <3>2, CommandAbstract DEF Command
    <3>3. CASE UNCHANGED files
      BY <2>3, <3>1, <3>3 DEF files, Abstract!vars
    <3> QED BY <3>1, <3>2, <3>3
  <2> QED BY <2>1, <2>2, <2>3
<1>3. Init => ClearInv
  BY DEF Init, ClearInv
<1>4. TypeInv => TypeOK
  BY DEF TypeInv
<1> QED BY <1>1, <1>2, <1>3, <1>4, TypeInvariant, ClearNext, PTL DEF Spec, BootsFileSystem, Abstract!Spec
===============================================================================
