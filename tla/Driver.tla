-------------------------------- MODULE Driver --------------------------------
(***************************************************************************)
(* The RTL8139 driver of MOKernel (net.c): net_init, rtl_recv and net_send *)
(* against the card.                                                       *)
(*                                                                         *)
(* Memory is counted in cells of four bytes, the alignment of everything   *)
(* in the receive ring.  A frame is a header cell and len data cells, the  *)
(* last of them the CRC.  The card (RCR_WRAP is set) writes a frame in one *)
(* piece, past the end of its ring if need be, and wraps its own offset at *)
(* RingSize afterwards; it sends the transmit descriptors round-robin.     *)
(*                                                                         *)
(* Commands run in the keyboard interrupt, one at a time, and from         *)
(* load_idt on also between the steps of net_init.  A command polls or     *)
(* sends; a handler called by net_poll may send between two frames.  A     *)
(* nested net_poll does to the driver what the outer one would do next.    *)
(***************************************************************************)
EXTENDS Integers, Sequences

CONSTANTS
    RingSize,         \* cells of the card's ring (8192)
    MaxLen,           \* data cells of the longest frame (380)
    Lens,             \* lengths of the frames that arrive
    RTL_TX_DESC_NUM,  \* transmit descriptors (4)
    MaxFrames,        \* bound: frames the card stores
    MaxSends          \* bound: frames sent

ASSUME DriverAssumption ==
    /\ RingSize \in Nat \ {0} /\ MaxLen \in Nat \ {0, 1} /\ MaxLen + 1 < RingSize
    /\ Lens \subseteq 2 .. MaxLen
    /\ RTL_TX_DESC_NUM \in Nat \ {0}
    /\ MaxFrames \in Nat /\ MaxSends \in Nat

VARIABLES
    phase,       \* how far net_init is
    rx_buf, rx_cur,
    stored,      \* the frames the card has stored: their lengths and offsets, unwrapped
    capr,        \* the card's idea of rx_cur, modulo the ring
    tx_cur, tx_buf,
    tsd,         \* per descriptor: "host", "nic" (handed over), "tok"
    chip_tx,     \* the descriptor the card sends next
    polling, sending

\* What has happened, for the properties.
VARIABLES
    want,        \* the frame net_poll should get next
    seen,        \* the latest frame it has got
    garbled,     \* net_poll got something else than the frame it should
    handed,      \* frames handed to net_send
    sent,        \* frames the card has sent
    misordered,  \* the card sent another frame than the next one handed over
    timeouts,    \* sends in a row that timed out
    blocked,     \* RTL_TX_DESC_NUM sends in a row timed out once
    early,       \* a frame was handed to net_send before the card was reset
    spilled      \* the parts of frames the card wrote to the memory behind rx_buf

rx  == <<rx_buf, rx_cur, stored, capr, want, seen, garbled, spilled>>
tx  == <<tx_cur, tx_buf, tsd, chip_tx, handed, sent, misordered, timeouts, blocked, early>>
cpu == <<polling, sending>>
vars == <<phase, rx, tx, cpu>>

-------------------------------------------------------------------------------
(* The receive ring. *)

\* 32 KB + 16 + 1500 bytes: from the last cell of the ring a longest frame reaches
\* one cell, the end of its CRC, further than the buffer.
RTL_RX_BUF_SIZE == RingSize + MaxLen - 1

Cells == 0 .. RTL_RX_BUF_SIZE - 1
Descs == 0 .. RTL_TX_DESC_NUM - 1

\* A cell holds part k of frame f; part 0 is the header. Memory starts as zeros.
Cell == [f : 0 .. MaxFrames, k : 0 .. MaxLen]
Zero == [f |-> 0, k |-> 0]

\* Where the card stores the next frame, unwrapped and in the ring.
NextStart == IF stored = <<>> THEN 0
             ELSE stored[Len(stored)].start + 1 + stored[Len(stored)].len
CBR == NextStart % RingSize

\* The card stores a frame if it fits in front of what the driver has read; a
\* frame that does not is lost. It does not know where rx_buf ends.
CardStores(len) ==
    /\ phase \in {"enabled", "ready"}
    /\ Len(stored) < MaxFrames
    /\ LET free == (capr - CBR) % RingSize IN free = 0 \/ len + 1 < free
    /\ LET f == Len(stored) + 1 IN
         /\ rx_buf' = [c \in Cells |-> IF c \in CBR .. CBR + len
                                         THEN [f |-> f, k |-> c - CBR] ELSE rx_buf[c]]
         /\ spilled' = spilled \cup {[f |-> f, k |-> c - CBR] : c \in (CBR .. CBR + len) \ Cells}
    /\ stored' = Append(stored, [start |-> NextStart, len |-> len])
    /\ UNCHANGED <<phase, rx_cur, capr, want, seen, garbled, tx, cpu>>

\* RTL_CR_RXBUFEMPTY, which also a card that is missing, or not reset, shows.
Empty == phase \notin {"enabled", "ready"} \/ capr = CBR

\* The lengths, in cells, that the header at rx_cur can give; 0 stands for one
\* that rtl_recv rejects. Bytes of a frame's data, read as a header, give any.
HeaderLens ==
    LET c == rx_buf[rx_cur] IN
      CASE c = Zero -> {0}
        [] c.f > 0 /\ c.k = 0 -> {stored[c.f].len}
        [] OTHER -> {0} \cup 2 .. MaxLen

\* What rtl_recv copies is frame f, without its CRC.
Copied(f, len) ==
    /\ f \in DOMAIN stored /\ stored[f].len = len
    /\ \A k \in 0 .. len - 1 : rx_buf[(rx_cur + k) % RTL_RX_BUF_SIZE] = [f |-> f, k |-> k]

\* Is what rtl_recv returns the frame it should return? Nothing is counted after
\* the first that is not.
Returned(len) ==
    IF ~garbled /\ Copied(want, len)
      THEN /\ want' = want + 1
           /\ seen' = IF want > seen THEN want ELSE seen
           /\ UNCHANGED garbled
      ELSE garbled' = TRUE /\ UNCHANGED <<want, seen>>

\* Variant of Advance that writes rx_cur to CAPR without the 16 bytes (four cells)
\* that the card keeps between the two.
Advance_No16(n) ==
    /\ rx_cur' = (rx_cur + n) % RTL_RX_BUF_SIZE
    /\ capr' = (rx_cur' + 4) % RingSize

\* rx_cur and CAPR move past n cells.
Advance(n) ==
    /\ rx_cur' = (rx_cur + n) % RTL_RX_BUF_SIZE
    /\ capr' = rx_cur' % RingSize

-------------------------------------------------------------------------------
(* Commands. *)

net_poll ==
    /\ ~polling /\ ~sending
    /\ polling' = TRUE
    /\ UNCHANGED <<phase, rx, tx, sending>>

\* Variant of rtl_recv that moves past the data only.
rtl_recv_NoHeader ==
    /\ polling /\ ~sending /\ ~Empty
    /\ \E len \in HeaderLens \ {0} :
         /\ Advance(len)
         /\ Returned(len)
    /\ UNCHANGED <<phase, rx_buf, stored, spilled, tx, cpu>>

\* rtl_recv returns a frame, and net_poll goes on.
rtl_recv ==
    /\ polling /\ ~sending /\ ~Empty
    /\ \E len \in HeaderLens \ {0} :
         /\ Advance(1 + len)
         /\ Returned(len)
    /\ UNCHANGED <<phase, rx_buf, stored, spilled, tx, cpu>>

\* rtl_recv returns 0, and net_poll ends: the ring is empty, or the header bad.
PollEnds ==
    /\ polling /\ ~sending
    /\ polling' = FALSE
    /\ \/ Empty /\ UNCHANGED rx
       \/ /\ ~Empty /\ 0 \in HeaderLens
          /\ Advance(1)
          /\ garbled' = TRUE
          /\ UNCHANGED <<rx_buf, stored, want, seen, spilled>>
    /\ UNCHANGED <<phase, tx, sending>>

\* net_send up to its wait. Without a card (net_iobase = 0) it does nothing.
net_send ==
    /\ ~sending /\ handed < MaxSends
    /\ phase \notin {"start", "absent"}
    /\ handed' = handed + 1
    /\ tx_buf' = [tx_buf EXCEPT ![tx_cur] = handed + 1]
    /\ tsd' = [tsd EXCEPT ![tx_cur] = "nic"]
    /\ early' = (early \/ phase = "found")
    /\ sending' = TRUE
    /\ UNCHANGED <<phase, rx, tx_cur, chip_tx, sent, misordered, timeouts, blocked, polling>>

\* Variant of SendTimeout that keeps the descriptor.
SendTimeout_Keep ==
    /\ sending /\ tsd[tx_cur] # "tok"
    /\ sending' = FALSE
    /\ timeouts' = IF timeouts < RTL_TX_DESC_NUM THEN timeouts + 1 ELSE timeouts
    /\ blocked' = (blocked \/ timeouts' = RTL_TX_DESC_NUM)
    /\ UNCHANGED <<phase, rx, tx_cur, tx_buf, tsd, chip_tx, handed, sent, misordered, early, polling>>

\* Variant of SendTimeout that waits on.
SendTimeout_Forever == sending /\ tsd[tx_cur] # "tok" /\ UNCHANGED vars

\* Variant of SendDone whose descriptor index does not wrap.
SendDone_NoWrap ==
    /\ sending /\ tsd[tx_cur] = "tok"
    /\ sending' = FALSE
    /\ tx_cur' = tx_cur + 1
    /\ timeouts' = 0
    /\ UNCHANGED <<phase, rx, tx_buf, tsd, chip_tx, handed, sent, misordered, blocked, early, polling>>

\* The wait for TOK ends with it or without it; the next descriptor is next.
SendDone ==
    /\ sending /\ tsd[tx_cur] = "tok"
    /\ sending' = FALSE
    /\ tx_cur' = (tx_cur + 1) % RTL_TX_DESC_NUM
    /\ timeouts' = 0
    /\ UNCHANGED <<phase, rx, tx_buf, tsd, chip_tx, handed, sent, misordered, blocked, early, polling>>

SendTimeout ==
    /\ sending /\ tsd[tx_cur] # "tok"
    /\ sending' = FALSE
    /\ tx_cur' = (tx_cur + 1) % RTL_TX_DESC_NUM
    /\ timeouts' = IF timeouts < RTL_TX_DESC_NUM THEN timeouts + 1 ELSE timeouts
    /\ blocked' = (blocked \/ timeouts' = RTL_TX_DESC_NUM)
    /\ UNCHANGED <<phase, rx, tx_buf, tsd, chip_tx, handed, sent, misordered, early, polling>>

\* The card sends its next descriptor once that is handed over.
CardSends ==
    /\ phase \in {"enabled", "ready"}
    /\ tsd[chip_tx] = "nic"
    /\ tsd' = [tsd EXCEPT ![chip_tx] = "tok"]
    /\ chip_tx' = (chip_tx + 1) % RTL_TX_DESC_NUM
    /\ sent' = tx_buf[chip_tx]
    /\ misordered' = (misordered \/ tx_buf[chip_tx] # sent + 1)
    /\ UNCHANGED <<phase, rx, tx_cur, tx_buf, handed, timeouts, blocked, early, cpu>>

-------------------------------------------------------------------------------
(* net_init, in kmain: no step while a command runs. *)

\* The card is found and net_iobase set, or net_init gives up.
pci_find_device ==
    /\ phase = "start" /\ ~polling /\ ~sending
    /\ phase' \in {"found", "absent"}
    /\ UNCHANGED <<rx, tx, cpu>>

\* The reset: an empty ring, and descriptor 0 is the next to send.
ResetCard ==
    /\ phase = "found" /\ ~polling /\ ~sending
    /\ phase' = "reset"
    /\ capr' = 0 /\ chip_tx' = 0
    /\ tsd' = [d \in Descs |-> "host"]
    /\ UNCHANGED <<rx_buf, rx_cur, stored, want, seen, garbled, spilled, tx_cur, tx_buf, handed, sent,
                   misordered, timeouts, blocked, early, cpu>>

\* The ring, RCR, TCR and the buffer addresses are set, and RE and TE with them.
EnableCard ==
    /\ phase = "reset" /\ ~polling /\ ~sending
    /\ phase' = "enabled"
    /\ UNCHANGED <<rx, tx, cpu>>

\* "rx_cur = 0" after that: a frame read in between is read again.
InitRing ==
    /\ phase = "enabled" /\ ~polling /\ ~sending
    /\ phase' = "ready"
    /\ rx_cur' = 0
    /\ want' = 1
    /\ UNCHANGED <<rx_buf, stored, capr, seen, garbled, spilled, tx, cpu>>

net_init == pci_find_device \/ ResetCard \/ EnableCard \/ InitRing

-------------------------------------------------------------------------------
Init ==
    /\ phase = "start"
    /\ rx_buf = [c \in Cells |-> Zero] /\ rx_cur = 0 /\ stored = <<>> /\ capr = 0
    /\ tx_cur = 0 /\ tx_buf = [d \in Descs |-> 0]
    /\ tsd = [d \in Descs |-> "host"] /\ chip_tx = 0
    /\ polling = FALSE /\ sending = FALSE
    /\ want = 1 /\ seen = 0 /\ garbled = FALSE /\ spilled = {}
    /\ handed = 0 /\ sent = 0 /\ misordered = FALSE
    /\ timeouts = 0 /\ blocked = FALSE /\ early = FALSE

\* A command in progress.
Kernel == rtl_recv \/ PollEnds \/ SendDone \/ SendTimeout

Next ==
    \/ net_init
    \/ net_poll \/ net_send
    \/ Kernel
    \/ (\E len \in Lens : CardStores(len)) \/ CardSends

\* The CPU goes on with a command it has begun.
Spec == Init /\ [][Next]_vars /\ WF_vars(Kernel)

-------------------------------------------------------------------------------
(* Properties. *)

\* The driver's offsets stay inside rx_buf and among the transmit descriptors, for
\* whatever length rtl_recv reads as a header, and the card's stay in its ring.
TypeOK ==
    /\ phase \in {"start", "absent", "found", "reset", "enabled", "ready"}
    /\ rx_buf \in [Cells -> Cell] /\ rx_cur \in Cells
    /\ stored \in Seq([start : Nat, len : 2 .. MaxLen]) /\ capr \in 0 .. RingSize - 1
    /\ tx_cur \in Descs /\ chip_tx \in Descs
    /\ tx_buf \in [Descs -> 0 .. MaxSends] /\ tsd \in [Descs -> {"host", "nic", "tok"}]
    /\ polling \in BOOLEAN /\ sending \in BOOLEAN
    /\ want \in Nat /\ seen \in Nat /\ garbled \in BOOLEAN /\ spilled \subseteq Cell
    /\ handed \in 0 .. MaxSends /\ sent \in 0 .. MaxSends /\ misordered \in BOOLEAN
    /\ timeouts \in 0 .. RTL_TX_DESC_NUM /\ blocked \in BOOLEAN /\ early \in BOOLEAN

\* No frame has yet been stored from the start of the ring again, or has filled
\* the buffer to its end.
FirstLap ==
    /\ NextStart < RTL_RX_BUF_SIZE
    /\ \A i \in DOMAIN stored : stored[i].start < RingSize

\* On the card's first lap of the ring the driver garbles and reorders nothing,
\* not even a frame that ends past the ring or one that a command took from the
\* card before "rx_cur = 0": what rtl_recv returns is the next frame. And when the
\* ring looks empty every stored frame has been returned, with one exception:
\* while such frames are read again, the card may be behind the end of the ring
\* already, and the driver's old offset meet the card's new one.
FirstLapInOrder ==
    FirstLap =>
      /\ ~garbled
      /\ capr = CBR => seen = Len(stored) \/ (want <= seen /\ NextStart >= RingSize)

\* A frame of the first lap that waits for rtl_recv is whole: neither does the card
\* write over it on its next lap, though it knows only what CAPR tells it, nor does
\* it lie outside rx_buf, but for the end of its CRC, which rtl_recv does not copy
\* and the card may have written to the memory behind rx_buf. While frames are
\* read again CAPR moves back, and the card may write over frames that wait.
WaitingIntact ==
    ~garbled /\ want > seen =>
      \A f \in want .. Len(stored) : stored[f].start < RingSize =>
        \A k \in 0 .. stored[f].len :
          LET part == [f |-> f, k |-> k]
              c    == stored[f].start + k IN
            \/ c \in Cells /\ rx_buf[c] = part
            \/ k = stored[f].len /\ part \in spilled

\* Frames leave in the order net_send got them, and none is overwritten in its
\* buffer before it has left, though net_send reuses descriptors without looking
\* at who owns them: unless RTL_TX_DESC_NUM sends in a row time out, or a command
\* sent before the reset, after which tx_cur and the card never agree again.
SentInOrder == misordered => blocked \/ early

\* A command that polls or sends ends, on the first lap: net_poll gets to the end
\* of what the card holds.
CommandEnds == (polling \/ sending) ~> ((~polling /\ ~sending) \/ ~FirstLap)

\* "The chip wraps automatically; rx_cur tracks our read offset" (rtl_recv): what
\* rtl_recv returns is always the next frame.
ReadsTrackCard == ~garbled
===============================================================================
