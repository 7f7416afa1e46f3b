----------------------------- MODULE DriverProofs -----------------------------
(***************************************************************************)
(* What the RTL8139 driver guarantees for every size of the ring, every    *)
(* number of descriptors and any traffic: its offsets stay in its arrays,  *)
(* the transmit descriptors keep the order of net_send, and the first lap  *)
(* of the receive ring is read in order.                                   *)
(***************************************************************************)
EXTENDS Driver, SequenceTheorems, TLAPS

USE DriverAssumption

\* What % gives within one turn of n.
LEMMA ModFacts ==
    ASSUME NEW n \in Nat \ {0}, NEW x \in Int
    PROVE  /\ x % n \in 0 .. n - 1
           /\ 0 <= x /\ x < n => x % n = x
           /\ n <= x /\ x < 2 * n => x % n = x - n
           /\ -n <= x /\ x < 0 => x % n = x + n
  OBVIOUS

\* The buffer is longer than the ring, and less than twice as long.
LEMMA Sizes ==
    /\ RTL_RX_BUF_SIZE \in Nat \ {0} /\ RingSize \in Nat \ {0}
    /\ RingSize < RTL_RX_BUF_SIZE /\ RTL_RX_BUF_SIZE < 2 * RingSize
    /\ 0 \in Cells /\ 0 \in Descs /\ Cells \subseteq Nat /\ Descs \subseteq Nat
  BY DEF RTL_RX_BUF_SIZE, Cells, Descs

LEMMA RingMod == \A x \in Nat : x < RingSize => x % RingSize = x
  BY Sizes, ModFacts

LEMMA BufferMod == \A x \in Nat : x < RTL_RX_BUF_SIZE => x % RTL_RX_BUF_SIZE = x
  BY Sizes, ModFacts

-------------------------------------------------------------------------------
(* Types. *)

Frame == [start : Nat, len : 2 .. MaxLen]

\* A cell is of a frame the card has stored: what rtl_recv reads as a header is
\* the length of one, or any.
TypeInv == TypeOK /\ \A c \in Cells : rx_buf[c].f <= Len(stored)

LEMMA NextStartType ==
    ASSUME TypeOK
    PROVE  NextStart \in Nat /\ CBR \in 0 .. RingSize - 1
<1>1. NextStart \in Nat
  <2>1. CASE stored = <<>>
    BY <2>1 DEF NextStart
  <2>2. CASE stored # <<>>
    <3>1. Len(stored) \in 1 .. Len(stored) /\ stored \in Seq(Frame)
      BY <2>2, EmptySeq, LenProperties DEF TypeOK, Frame
    <3>2. stored[Len(stored)] \in Frame
      BY <3>1, ElementOfSeq
    <3> QED BY <2>2, <3>2 DEF NextStart, Frame
  <2> QED BY <2>1, <2>2
<1> QED BY <1>1, ModFacts DEF CBR

LEMMA HeaderLensType ==
    ASSUME TypeInv
    PROVE  HeaderLens \subseteq 0 .. MaxLen
<1>1. rx_buf[rx_cur] \in Cell /\ rx_buf[rx_cur].f <= Len(stored) /\ stored \in Seq(Frame)
  BY DEF TypeInv, TypeOK, Frame
<1>2. ASSUME rx_buf[rx_cur].f > 0
      PROVE  stored[rx_buf[rx_cur].f] \in Frame
  BY <1>1, <1>2, ElementOfSeq, LenProperties DEF Cell
<1>3. ASSUME rx_buf[rx_cur].f > 0
      PROVE  stored[rx_buf[rx_cur].f].len \in 0 .. MaxLen
  BY <1>2, <1>3 DEF Frame
<1> QED BY <1>3 DEF HeaderLens

LEMMA AdvanceType ==
    ASSUME TypeInv, NEW n \in Nat, Advance(n)
    PROVE  rx_cur' \in Cells /\ capr' \in 0 .. RingSize - 1
<1>1. rx_cur + n \in Int
  BY Sizes DEF TypeInv, TypeOK
<1>2. rx_cur' \in Cells
  BY <1>1, Sizes, ModFacts DEF Advance, Cells
<1>3. rx_cur' \in Int /\ capr' = rx_cur' % RingSize
  BY <1>2, Sizes DEF Advance
<1>4. \A x \in Int : x % RingSize \in 0 .. RingSize - 1
  BY ModFacts
<1> QED BY <1>2, <1>3, <1>4

LEMMA CardStoresType ==
    ASSUME TypeInv, NEW len \in Lens, CardStores(len)
    PROVE  TypeInv'
<1> DEFINE f == Len(stored) + 1
<1>1. stored \in Seq(Frame) /\ Len(stored) \in Nat /\ NextStart \in Nat /\ CBR \in Nat
  BY NextStartType, LenProperties, Sizes DEF TypeInv, TypeOK, Frame
<1>2. stored' \in Seq(Frame) /\ Len(stored') = f
  <2>1. stored' = Append(stored, [start |-> NextStart, len |-> len])
    BY DEF CardStores
  <2>2. [start |-> NextStart, len |-> len] \in Frame
    BY <1>1 DEF Frame
  <2> QED BY <1>1, <2>1, <2>2, AppendProperties
<1>3. ASSUME NEW c \in Cells
      PROVE  rx_buf'[c] \in Cell /\ rx_buf'[c].f <= f
  <2>1. rx_buf'[c] = IF c \in CBR .. CBR + len THEN [f |-> f, k |-> c - CBR] ELSE rx_buf[c]
    BY DEF CardStores
  <2>2. CASE c \in CBR .. CBR + len
    <3>1. f \in 0 .. MaxFrames /\ c - CBR \in 0 .. MaxLen
      BY <1>1, <2>2 DEF CardStores
    <3> QED BY <2>1, <2>2, <3>1 DEF Cell
  <2>3. CASE c \notin CBR .. CBR + len
    <3>1. rx_buf[c] \in Cell /\ rx_buf[c].f <= Len(stored)
      BY DEF TypeInv, TypeOK
    <3> QED BY <1>1, <2>1, <2>3, <3>1 DEF Cell
  <2> QED BY <2>2, <2>3
<1>4. rx_buf' = [c \in Cells |-> rx_buf'[c]]
  BY DEF CardStores
<1>5. rx_buf' \in [Cells -> Cell]
  BY <1>3, <1>4
<1>6. spilled' \subseteq Cell
  <2>1. ASSUME NEW c \in (CBR .. CBR + len) \ Cells
        PROVE  [f |-> f, k |-> c - CBR] \in Cell
    <3>1. f \in 0 .. MaxFrames /\ c - CBR \in 0 .. MaxLen
      BY <1>1 DEF CardStores
    <3> QED BY <3>1 DEF Cell
  <2>2. spilled' = spilled \cup {[f |-> f, k |-> c - CBR] : c \in (CBR .. CBR + len) \ Cells}
    BY DEF CardStores
  <2> QED BY <2>1, <2>2 DEF TypeInv, TypeOK
<1> QED BY <1>2, <1>3, <1>5, <1>6 DEF TypeInv, TypeOK, CardStores, tx, cpu, Frame

LEMMA TypeInvNext ==
    ASSUME TypeInv, [Next]_vars
    PROVE  TypeInv'
<1> USE DEF TypeInv, TypeOK
<1>1. CASE UNCHANGED vars
  BY <1>1 DEF vars, rx, tx, cpu
<1>2. CASE pci_find_device \/ EnableCard
  BY <1>2 DEF pci_find_device, EnableCard, rx, tx, cpu
<1>3. CASE ResetCard
  BY <1>3, Sizes DEF ResetCard, cpu
<1>4. CASE InitRing
  BY <1>4, Sizes DEF InitRing, tx, cpu
<1>5. CASE net_poll
  BY <1>5 DEF net_poll, rx, tx
<1>6. CASE net_send
  BY <1>6 DEF net_send, rx
<1>7. CASE rtl_recv
  <2>1. PICK len \in HeaderLens \ {0} : Advance(1 + len) /\ Returned(len)
    BY <1>7 DEF rtl_recv
  <2>2. 1 + len \in Nat
    BY HeaderLensType
  <2>3. rx_cur' \in Cells /\ capr' \in 0 .. RingSize - 1
    BY <2>1, <2>2, AdvanceType
  <2>4. want' \in Nat /\ seen' \in Nat /\ garbled' \in BOOLEAN
    <3>1. CASE garbled' = TRUE /\ UNCHANGED <<want, seen>>
      BY <3>1
    <3>2. CASE want' = want + 1 /\ seen' = (IF want > seen THEN want ELSE seen) /\ UNCHANGED garbled
      BY <3>2
    <3> QED BY <2>1, <3>1, <3>2 DEF Returned
  <2> QED BY <1>7, <2>3, <2>4 DEF rtl_recv, tx, cpu
<1>8. CASE PollEnds
  <2>1. CASE UNCHANGED rx
    BY <1>8, <2>1 DEF PollEnds, rx, tx
  <2>2. CASE ~UNCHANGED rx
    <3>1. Advance(1) /\ garbled' = TRUE
      BY <1>8, <2>2 DEF PollEnds
    <3>2. rx_cur' \in Cells /\ capr' \in 0 .. RingSize - 1
      BY <3>1, AdvanceType
    <3> QED BY <1>8, <2>2, <3>1, <3>2 DEF PollEnds, tx
  <2> QED BY <2>1, <2>2
<1>9. CASE SendDone \/ SendTimeout
  <2>1. (tx_cur + 1) % RTL_TX_DESC_NUM \in Descs
    BY ModFacts, Sizes DEF Descs
  <2>2. timeouts' \in 0 .. RTL_TX_DESC_NUM
    BY <1>9 DEF SendDone, SendTimeout
  <2>3. blocked' \in BOOLEAN
    BY <1>9, Zenon DEF SendDone, SendTimeout
  <2>4. tx_cur' \in Descs
    BY <1>9, <2>1 DEF SendDone, SendTimeout
  <2>5. /\ UNCHANGED <<phase, rx_buf, rx_cur, stored, capr, want, seen, garbled, spilled>>
        /\ UNCHANGED <<tx_buf, tsd, chip_tx, handed, sent, misordered, early, polling>>
        /\ sending' = FALSE
    BY <1>9 DEF SendDone, SendTimeout, rx
  <2> QED BY <2>2, <2>3, <2>4, <2>5
<1>10. CASE \E len \in Lens : CardStores(len)
  BY <1>10, CardStoresType
<1>11. CASE CardSends
  <2>1. (chip_tx + 1) % RTL_TX_DESC_NUM \in Descs
    BY ModFacts, Sizes DEF Descs
  <2> QED BY <1>11, <2>1 DEF CardSends, rx, cpu
<1> QED BY <1>1, <1>2, <1>3, <1>4, <1>5, <1>6, <1>7, <1>8, <1>9, <1>10, <1>11
        DEF Next, net_init, Kernel

LEMMA TypeInvInit == Init => TypeInv
<1> SUFFICES ASSUME Init PROVE TypeInv
  OBVIOUS
<1>1. Zero \in Cell /\ Zero.f = 0
  BY DEF Zero, Cell
<1>2. stored \in Seq(Frame) /\ Len(stored) = 0
  BY EmptySeq DEF Init
<1> QED BY <1>1, <1>2, Sizes DEF Init, TypeInv, TypeOK, Frame

\* The offsets of rtl_recv and net_send stay in rx_buf and among the descriptors,
\* whatever rtl_recv reads as a header, for every size of the ring.
THEOREM TypesCorrect == Spec => []TypeOK
<1>1. Spec => []TypeInv
  BY TypeInvInit, TypeInvNext, PTL DEF Spec
<1>2. TypeInv => TypeOK
  BY DEF TypeInv
<1> QED BY <1>1, <1>2, PTL

-------------------------------------------------------------------------------
(* The transmit descriptors.  Frame n has, or will have, the descriptor that *)
(* is as far behind tx_cur as n is behind the frame tx_cur is for.           *)

Back(d, n) == IF d - n < 0 THEN d - n + RTL_TX_DESC_NUM
              ELSE IF d - n >= RTL_TX_DESC_NUM THEN d - n - RTL_TX_DESC_NUM ELSE d - n

Latest == IF sending THEN handed ELSE handed + 1
DescOf(n) == Back(tx_cur, Latest - n)

\* The frames handed over and not sent are the ones whose sends timed out in a row
\* and the one being sent: fewer than would reach round to a descriptor in use.
\* Their descriptors, and only theirs, belong to the card, hold them, and the card
\* is at the first.
InOrder ==
    /\ sent <= handed
    /\ handed <= sent + timeouts + (IF sending THEN 1 ELSE 0)
    /\ chip_tx = DescOf(sent + 1)
    /\ \A n \in sent + 1 .. handed : tsd[DescOf(n)] = "nic" /\ tx_buf[DescOf(n)] = n
    /\ \A d \in Descs : tsd[d] = "nic" => \E n \in sent + 1 .. handed : DescOf(n) = d

NotReset == phase \in {"start", "absent", "found"}

TxInv ==
    /\ timeouts = RTL_TX_DESC_NUM => blocked
    /\ NotReset /\ ~early => handed = 0 /\ sent = 0 /\ tx_cur = 0 /\ ~sending
    /\ ~blocked /\ ~early => InOrder /\ ~misordered

LEMMA BackFacts ==
    ASSUME NEW d \in Descs
    PROVE  /\ Back(d, 0) = d
           /\ \A k \in -1 .. RTL_TX_DESC_NUM - 1 : Back(d, k) \in Descs
           /\ \A j, k \in 0 .. RTL_TX_DESC_NUM - 1 : j # k => Back(d, j) # Back(d, k)
  BY DEF Back, Descs

LEMMA StepFacts ==
    ASSUME NEW d \in Descs
    PROVE  /\ (d + 1) % RTL_TX_DESC_NUM = IF d + 1 = RTL_TX_DESC_NUM THEN 0 ELSE d + 1
           /\ (d + 1) % RTL_TX_DESC_NUM \in Descs
  BY DEF Descs

\* After one step of tx_cur the descriptors are one further behind it; after one of
\* chip_tx it is at the descriptor of the next frame.
LEMMA BackStep ==
    ASSUME NEW d \in Descs
    PROVE  /\ \A k \in -1 .. RTL_TX_DESC_NUM - 2 : Back((d + 1) % RTL_TX_DESC_NUM, k + 1) = Back(d, k)
           /\ \A k \in 0 .. RTL_TX_DESC_NUM - 1 : (Back(d, k) + 1) % RTL_TX_DESC_NUM = Back(d, k - 1)
<1>1. \A k \in -1 .. RTL_TX_DESC_NUM - 2 : Back((d + 1) % RTL_TX_DESC_NUM, k + 1) = Back(d, k)
  BY StepFacts DEF Back, Descs
<1>2. ASSUME NEW k \in 0 .. RTL_TX_DESC_NUM - 1
      PROVE  (Back(d, k) + 1) % RTL_TX_DESC_NUM = Back(d, k - 1)
  <2>1. Back(d, k) \in Descs
    BY BackFacts
  <2>2. (Back(d, k) + 1) % RTL_TX_DESC_NUM
          = IF Back(d, k) + 1 = RTL_TX_DESC_NUM THEN 0 ELSE Back(d, k) + 1
    BY <2>1, StepFacts
  <2> QED BY <2>2 DEF Back, Descs
<1> QED BY <1>1, <1>2

\* Frames not sent are fewer than the descriptors, so theirs are distinct.
LEMMA Distances ==
    ASSUME TypeOK, TxInv, ~blocked, InOrder
    PROVE  /\ Latest - (sent + 1) \in -1 .. RTL_TX_DESC_NUM - 1
           /\ \A n \in sent + 1 .. handed : Latest - n \in 0 .. RTL_TX_DESC_NUM - 1
           /\ sending => \A n \in sent + 1 .. handed : handed - n \in 0 .. RTL_TX_DESC_NUM - 1
           /\ ~sending => \A n \in sent + 1 .. handed : handed + 1 - n \in 1 .. RTL_TX_DESC_NUM - 1
<1>1. timeouts \in 0 .. RTL_TX_DESC_NUM - 1
  BY DEF TypeOK, TxInv
<1>2. handed \in Nat /\ sent \in Nat /\ sending \in BOOLEAN
  BY DEF TypeOK
<1> QED BY <1>1, <1>2 DEF InOrder, Latest

LEMMA SendInOrder ==
    ASSUME TypeOK, TxInv, net_send, ~blocked', ~early'
    PROVE  InOrder'
<1>1. ~blocked /\ ~early /\ InOrder /\ ~sending /\ ~NotReset
  BY DEF net_send, TxInv, NotReset
<1>2. /\ tx_cur \in Descs /\ handed \in Nat /\ sent \in Nat /\ timeouts \in Nat
      /\ tsd \in [Descs -> {"host", "nic", "tok"}] /\ tx_buf \in [Descs -> 0 .. MaxSends]
  BY DEF TypeOK
<1>3. /\ handed' = handed + 1 /\ sent' = sent /\ timeouts' = timeouts /\ sending' = TRUE
      /\ chip_tx' = chip_tx /\ tx_cur' = tx_cur
      /\ tx_buf' = [tx_buf EXCEPT ![tx_cur] = handed + 1]
      /\ tsd' = [tsd EXCEPT ![tx_cur] = "nic"]
  BY DEF net_send
<1>4. Latest = handed + 1 /\ Latest' = handed + 1
  BY <1>1, <1>3 DEF Latest
<1>5. \A n : DescOf(n)' = DescOf(n)
  BY <1>3, <1>4 DEF DescOf
<1>6. DescOf(handed + 1) = tx_cur
  BY <1>2, <1>4, BackFacts DEF DescOf
<1>7. ASSUME NEW n \in sent + 1 .. handed
      PROVE  DescOf(n) \in Descs /\ DescOf(n) # tx_cur
  <2>1. handed + 1 - n \in 1 .. RTL_TX_DESC_NUM - 1
    BY <1>1, Distances
  <2>2. 0 \in 0 .. RTL_TX_DESC_NUM - 1
    OBVIOUS
  <2> QED BY <1>2, <1>4, <2>1, <2>2, BackFacts DEF DescOf
<1>8. \A n \in sent + 1 .. handed + 1 : tsd'[DescOf(n)] = "nic" /\ tx_buf'[DescOf(n)] = n
  <2> TAKE n \in sent + 1 .. handed + 1
  <2>1. CASE n = handed + 1
    BY <1>2, <1>3, <1>6, <2>1
  <2>2. CASE n # handed + 1
    <3>1. n \in sent + 1 .. handed
      BY <1>2, <2>2
    <3> QED BY <1>1, <1>2, <1>3, <1>7, <3>1 DEF InOrder
  <2> QED BY <2>1, <2>2
<1>9. ASSUME NEW d \in Descs, tsd'[d] = "nic"
      PROVE  \E n \in sent + 1 .. handed + 1 : DescOf(n) = d
  <2>1. CASE d = tx_cur
    <3>1. handed + 1 \in sent + 1 .. handed + 1
      BY <1>1, <1>2 DEF InOrder
    <3> QED BY <1>6, <2>1, <3>1
  <2>2. CASE d # tx_cur
    <3>1. tsd[d] = "nic"
      BY <1>2, <1>3, <1>9, <2>2
    <3>2. PICK n \in sent + 1 .. handed : DescOf(n) = d
      BY <1>1, <3>1 DEF InOrder
    <3>3. n \in sent + 1 .. handed + 1
      BY <1>2
    <3> QED BY <3>2, <3>3
  <2> QED BY <2>1, <2>2
<1>10. sent <= handed + 1 /\ handed + 1 <= sent + timeouts + 1 /\ chip_tx = DescOf(sent + 1)
  BY <1>1, <1>2 DEF InOrder
<1> QED BY <1>3, <1>5, <1>8, <1>9, <1>10 DEF InOrder

LEMMA WaitEndsInOrder ==
    ASSUME TypeOK, TxInv, SendDone \/ SendTimeout, ~blocked', ~early'
    PROVE  InOrder'
<1>1. ~blocked /\ ~early /\ InOrder /\ sending
  BY DEF SendDone, SendTimeout, TxInv
<1>2. /\ tx_cur \in Descs /\ handed \in Nat /\ sent \in Nat /\ timeouts \in Nat
      /\ timeouts < RTL_TX_DESC_NUM
  BY <1>1 DEF TypeOK, TxInv
<1>3. /\ handed' = handed /\ sent' = sent /\ sending' = FALSE /\ chip_tx' = chip_tx
      /\ tx_buf' = tx_buf /\ tsd' = tsd
      /\ tx_cur' = (tx_cur + 1) % RTL_TX_DESC_NUM
  BY DEF SendDone, SendTimeout
<1>4. Latest = handed /\ Latest' = handed + 1
  BY <1>1, <1>3 DEF Latest
<1>5. handed <= sent + timeouts'
  <2>1. CASE SendTimeout
    BY <1>1, <1>2, <2>1 DEF SendTimeout, InOrder
  <2>2. CASE SendDone
    <3>1. tsd[tx_cur] = "tok" /\ timeouts' = 0
      BY <2>2 DEF SendDone
    <3>2. DescOf(handed) = tx_cur
      BY <1>2, <1>4, BackFacts DEF DescOf
    <3>3. handed \notin sent + 1 .. handed
      BY <1>1, <3>1, <3>2 DEF InOrder
    <3> QED BY <1>2, <3>1, <3>3
  <2> QED BY <2>1, <2>2
<1>6. timeouts' \in Nat /\ timeouts' < RTL_TX_DESC_NUM
  BY <1>2 DEF SendDone, SendTimeout, TypeOK
<1>7. ASSUME NEW n \in sent + 1 .. handed + 1
      PROVE  DescOf(n)' = DescOf(n)
  <2>1. handed - n \in -1 .. RTL_TX_DESC_NUM - 2
    <3>1. PICK t \in 0 .. RTL_TX_DESC_NUM - 1 : t = timeouts'
      BY <1>6
    <3>2. handed <= sent + t
      BY <1>5, <3>1
    <3> QED BY <1>2, <3>2
  <2>2. Back((tx_cur + 1) % RTL_TX_DESC_NUM, (handed - n) + 1) = Back(tx_cur, handed - n)
    BY <1>2, <2>1, BackStep
  <2>3. (handed + 1) - n = (handed - n) + 1
    BY <1>2
  <2> QED BY <1>3, <1>4, <2>2, <2>3 DEF DescOf
<1>8. sent + 1 \in sent + 1 .. handed + 1
  BY <1>1, <1>2 DEF InOrder
<1>9. \A n \in sent + 1 .. handed : n \in sent + 1 .. handed + 1
  BY <1>2
<1>10. handed' <= sent' + timeouts' + (IF sending' THEN 1 ELSE 0)
  <2>1. handed <= sent + timeouts' + 0
    <3>1. PICK t \in Nat : t = timeouts'
      BY <1>6
    <3>2. handed <= sent + t
      BY <1>5, <3>1
    <3>3. handed <= sent + t + 0
      BY <1>2, <3>2
    <3> QED BY <3>1, <3>3
  <2>2. (IF sending' THEN 1 ELSE 0) = 0
    BY <1>3
  <2> QED BY <1>3, <2>1, <2>2
<1>11. chip_tx' = DescOf(sent + 1)'
  BY <1>1, <1>3, <1>7, <1>8 DEF InOrder
<1>12. \A n \in sent + 1 .. handed : tsd'[DescOf(n)'] = "nic" /\ tx_buf'[DescOf(n)'] = n
  BY <1>1, <1>3, <1>7, <1>9 DEF InOrder
<1>13. \A d \in Descs : tsd'[d] = "nic" => \E n \in sent + 1 .. handed : DescOf(n)' = d
  BY <1>1, <1>3, <1>7, <1>9 DEF InOrder
<1> QED BY <1>1, <1>3, <1>10, <1>11, <1>12, <1>13 DEF InOrder

LEMMA CardSendsInOrder ==
    ASSUME TypeOK, TxInv, CardSends, ~blocked', ~early'
    PROVE  InOrder' /\ ~misordered'
<1>1. ~blocked /\ ~early /\ InOrder /\ ~misordered
  BY DEF CardSends, TxInv
<1>2. /\ tx_cur \in Descs /\ handed \in Nat /\ sent \in Nat /\ timeouts \in Nat /\ chip_tx \in Descs
      /\ tsd \in [Descs -> {"host", "nic", "tok"}] /\ tx_buf \in [Descs -> 0 .. MaxSends]
  BY DEF TypeOK
<1>3. PICK m \in sent + 1 .. handed : DescOf(m) = chip_tx
  BY <1>1, <1>2 DEF CardSends, InOrder
<1>4. sent + 1 \in sent + 1 .. handed
  BY <1>2, <1>3
<1>5. tx_buf[chip_tx] = sent + 1
  BY <1>1, <1>4 DEF InOrder
<1>6. /\ sent' = sent + 1 /\ ~misordered'
      /\ tsd' = [tsd EXCEPT ![chip_tx] = "tok"]
      /\ chip_tx' = (chip_tx + 1) % RTL_TX_DESC_NUM
      /\ tx_cur' = tx_cur /\ tx_buf' = tx_buf /\ handed' = handed /\ timeouts' = timeouts
      /\ sending' = sending
  BY <1>1, <1>5 DEF CardSends, cpu
<1>7. Latest \in Nat /\ Latest' = Latest /\ \A n : DescOf(n)' = DescOf(n)
  BY <1>2, <1>6 DEF Latest, DescOf
<1>8. \A n \in sent + 1 .. handed : Latest - n \in 0 .. RTL_TX_DESC_NUM - 1
  BY <1>1, Distances
<1>9. chip_tx' = DescOf(sent + 2)
  <2>1. chip_tx = Back(tx_cur, Latest - (sent + 1))
    BY <1>1 DEF InOrder, DescOf
  <2>2. (Latest - (sent + 1)) - 1 = Latest - (sent + 2)
    BY <1>2, <1>7
  <2> QED BY <1>2, <1>4, <1>6, <1>8, <2>1, <2>2, BackStep DEF DescOf
<1>10. ASSUME NEW n \in sent + 2 .. handed
       PROVE  DescOf(n) \in Descs /\ DescOf(n) # chip_tx /\ n \in sent + 1 .. handed
  <2>1. n \in sent + 1 .. handed /\ n # sent + 1
    BY <1>2
  <2>2. Latest - n # Latest - (sent + 1)
    BY <1>2, <1>7, <2>1
  <2>3. chip_tx = Back(tx_cur, Latest - (sent + 1))
    BY <1>1 DEF InOrder, DescOf
  <2>4. /\ Latest - n \in 0 .. RTL_TX_DESC_NUM - 1
        /\ Latest - (sent + 1) \in 0 .. RTL_TX_DESC_NUM - 1
        /\ Latest - n \in -1 .. RTL_TX_DESC_NUM - 1
    BY <1>4, <1>8, <2>1
  <2> QED BY <1>2, <2>1, <2>2, <2>3, <2>4, BackFacts DEF DescOf
<1>11. \A n \in sent + 2 .. handed : tsd'[DescOf(n)] = "nic" /\ tx_buf'[DescOf(n)] = n
  BY <1>1, <1>2, <1>6, <1>10 DEF InOrder
<1>12. ASSUME NEW d \in Descs, tsd'[d] = "nic"
       PROVE  \E n \in sent + 2 .. handed : DescOf(n) = d
  <2>1. d # chip_tx /\ tsd[d] = "nic"
    BY <1>2, <1>6, <1>12
  <2>2. PICK n \in sent + 1 .. handed : DescOf(n) = d
    BY <1>1, <2>1 DEF InOrder
  <2>3. n # sent + 1
    BY <1>1, <2>1, <2>2 DEF InOrder
  <2>4. n \in sent + 2 .. handed
    BY <1>2, <2>3
  <2> QED BY <2>2, <2>4
<1>13. sent + 1 <= handed /\ handed <= (sent + 1) + timeouts + (IF sending THEN 1 ELSE 0)
  BY <1>1, <1>2, <1>4 DEF InOrder
<1>14. (sent + 1) + 1 = sent + 2
  BY <1>2
<1> QED BY <1>6, <1>7, <1>9, <1>11, <1>12, <1>13, <1>14 DEF InOrder

\* Between the reset and the first send.
LEMMA ResetInOrder ==
    ASSUME TypeOK, TxInv, ResetCard, ~early
    PROVE  InOrder'
<1>1. handed = 0 /\ sent = 0 /\ tx_cur = 0 /\ ~sending
  BY DEF TxInv, ResetCard, NotReset
<1>2. /\ handed' = 0 /\ sent' = 0 /\ tx_cur' = 0 /\ ~sending' /\ chip_tx' = 0
      /\ timeouts' \in Nat /\ tsd' = [d \in Descs |-> "host"]
  BY <1>1 DEF ResetCard, cpu, TypeOK
<1>3. DescOf(sent + 1)' = 0
  BY <1>2, Sizes, BackFacts DEF DescOf, Latest
<1>4. \A d \in Descs : tsd'[d] # "nic"
  BY <1>2
<1>5. handed' <= sent' + timeouts' + (IF sending' THEN 1 ELSE 0)
  <2>1. (IF sending' THEN 1 ELSE 0) = 0
    BY <1>2
  <2>2. 0 <= 0 + timeouts' + 0
    <3>1. PICK t \in Nat : t = timeouts'
      BY <1>2
    <3>2. 0 <= 0 + t + 0
      OBVIOUS
    <3> QED BY <3>1, <3>2
  <2> QED BY <1>2, <2>1, <2>2
<1>6. (sent + 1 .. handed)' = {}
  BY <1>2
<1>7. sent' <= handed' /\ chip_tx' = DescOf(sent + 1)'
  BY <1>2, <1>3
<1> QED BY <1>4, <1>5, <1>6, <1>7, Zenon DEF InOrder

LEMMA TxInvNext ==
    ASSUME TypeOK, TxInv, [Next]_vars
    PROVE  TxInv'
<1>1. ASSUME UNCHANGED <<tx, sending>>, NotReset' => NotReset
      PROVE  TxInv'
  BY <1>1 DEF TxInv, InOrder, DescOf, Latest, tx
<1>2. CASE UNCHANGED vars
  BY <1>1, <1>2 DEF vars, cpu, NotReset
<1>3. CASE pci_find_device \/ EnableCard \/ InitRing
  BY <1>1, <1>3 DEF pci_find_device, EnableCard, InitRing, cpu, NotReset
<1>4. CASE net_poll \/ rtl_recv \/ PollEnds \/ \E len \in Lens : CardStores(len)
  BY <1>1, <1>4 DEF net_poll, rtl_recv, PollEnds, CardStores, cpu, NotReset
<1>5. CASE ResetCard
  <2>1. timeouts' = timeouts /\ blocked' = blocked /\ early' = early /\ misordered' = misordered /\ ~NotReset'
    BY <1>5 DEF ResetCard, NotReset
  <2> QED BY <1>5, <2>1, ResetInOrder DEF TxInv
<1>6. CASE net_send
  <2>1. /\ timeouts' = timeouts /\ blocked' = blocked /\ misordered' = misordered
        /\ early => early'
        /\ NotReset' => early'
    BY <1>6 DEF net_send, NotReset
  <2> QED BY <1>6, <2>1, SendInOrder DEF TxInv
<1>7. CASE SendDone \/ SendTimeout
  <2>1. /\ misordered' = misordered /\ early' = early /\ sending
        /\ NotReset' => NotReset
    BY <1>7 DEF SendDone, SendTimeout, NotReset
  <2>2. blocked \/ timeouts' = RTL_TX_DESC_NUM => blocked'
    <3>1. CASE SendTimeout
      BY <3>1 DEF SendTimeout
    <3>2. CASE SendDone
      BY <3>2 DEF SendDone
    <3> QED BY <1>7, <3>1, <3>2
  <2> QED BY <1>7, <2>1, <2>2, WaitEndsInOrder DEF TxInv
<1>8. CASE CardSends
  <2>1. /\ timeouts' = timeouts /\ blocked' = blocked /\ early' = early /\ ~NotReset'
    BY <1>8 DEF CardSends, NotReset
  <2> QED BY <1>8, <2>1, CardSendsInOrder DEF TxInv
<1> QED BY <1>2, <1>3, <1>4, <1>5, <1>6, <1>7, <1>8 DEF Next, net_init, Kernel

\* Frames leave in the order net_send got them, unless RTL_TX_DESC_NUM sends in a
\* row timed out or one was made before the reset, for every number of descriptors.
THEOREM FramesSentInOrder == Spec => []SentInOrder
<1>1. Init => TxInv
  <2> SUFFICES ASSUME Init PROVE TxInv
    OBVIOUS
  <2>1. /\ handed = 0 /\ sent = 0 /\ tx_cur = 0 /\ sending = FALSE /\ chip_tx = 0 /\ timeouts = 0
        /\ misordered = FALSE /\ tsd = [d \in Descs |-> "host"]
    BY DEF Init
  <2>2. DescOf(1) = 0
    BY <2>1, Sizes, BackFacts DEF DescOf, Latest
  <2>3. \A d \in Descs : tsd[d] # "nic"
    BY <2>1
  <2> QED BY <2>1, <2>2, <2>3 DEF TxInv, InOrder
<1>2. TxInv => SentInOrder
  BY DEF TxInv, SentInOrder
<1> QED BY <1>1, <1>2, TxInvNext, TypesCorrect, PTL DEF Spec

-------------------------------------------------------------------------------
(* The first lap of the receive ring. *)

Running == phase \in {"enabled", "ready"}

\* Where frame i starts, or will start if it is the next one stored.
StartOf(i) == IF i <= Len(stored) THEN stored[i].start ELSE NextStart
EndOf(i) == stored[i].start + 1 + stored[i].len

\* The card stores frames one behind the other.
Layout ==
    /\ StartOf(1) = 0
    /\ \A i \in 1 .. Len(stored) : StartOf(i + 1) = EndOf(i)
    /\ \A i, j \in 1 .. Len(stored) + 1 : i < j => EndOf(i) <= StartOf(j)

\* On the first lap a frame stays where it was stored; rx_cur is at the frame that
\* rtl_recv should return; CAPR says so too, but for the time between "rx_cur = 0"
\* and the next read, when it is behind the last frame read; and less than a
\* ring lies between the last frame read and the end of what is stored.
OnLap ==
    /\ \A i \in 1 .. Len(stored) : \A c \in 0 .. stored[i].len :
         rx_buf[stored[i].start + c] = [f |-> i, k |-> c]
    /\ ~garbled
    /\ want \in 1 .. Len(stored) + 1 /\ seen \in 0 .. Len(stored) /\ want <= seen + 1
    /\ rx_cur = StartOf(want)
    /\ \/ capr = StartOf(want) % RingSize
       \/ want = 1 /\ capr = StartOf(seen + 1) % RingSize
    /\ NextStart - StartOf(seen + 1) < RingSize
    /\ phase = "enabled" => want = seen + 1

RxInv ==
    /\ ~Running => stored = <<>> /\ capr = 0 /\ rx_cur = 0 /\ want = 1 /\ seen = 0 /\ ~garbled
    /\ Layout
    /\ FirstLap => OnLap

\* The frames and their numbers.
LEMMA StoredFacts ==
    ASSUME TypeOK
    PROVE  /\ Len(stored) \in Nat /\ NextStart \in Nat /\ CBR = NextStart % RingSize
           /\ \A i \in 1 .. Len(stored) : stored[i].start \in Nat /\ stored[i].len \in 2 .. MaxLen
           /\ \A i \in 1 .. Len(stored) + 1 : StartOf(i) \in Nat
           /\ StartOf(Len(stored) + 1) = NextStart
           /\ DOMAIN stored = 1 .. Len(stored)
<1>1. stored \in Seq(Frame) /\ Len(stored) \in Nat /\ NextStart \in Nat /\ CBR = NextStart % RingSize
  BY NextStartType, LenProperties DEF TypeOK, Frame, CBR
<1>2. \A i \in 1 .. Len(stored) : stored[i] \in Frame
  BY <1>1, ElementOfSeq
<1>3. \A i \in 1 .. Len(stored) : stored[i].start \in Nat /\ stored[i].len \in 2 .. MaxLen
  BY <1>2 DEF Frame
<1>4. \A i \in 1 .. Len(stored) + 1 : StartOf(i) \in Nat
  BY <1>1, <1>3 DEF StartOf
<1>5. StartOf(Len(stored) + 1) = NextStart
  BY <1>1 DEF StartOf
<1> QED BY <1>1, <1>3, <1>4, <1>5, LenProperties

\* On the first lap every frame lies in the buffer, in front of the next.
LEMMA LapFacts ==
    ASSUME TypeOK, Layout, FirstLap
    PROVE  /\ \A i \in 1 .. Len(stored) + 1 : StartOf(i) <= NextStart
           /\ \A i \in 1 .. Len(stored) : StartOf(i) < NextStart
           /\ \A i, j \in 1 .. Len(stored) + 1 : i <= j => StartOf(i) <= StartOf(j)
           /\ NextStart < RTL_RX_BUF_SIZE /\ NextStart < 2 * RingSize
           /\ \A i \in 1 .. Len(stored) : EndOf(i) <= NextStart
<1> DEFINE N == Len(stored)
<1>1. /\ N \in Nat /\ NextStart \in Nat /\ StartOf(N + 1) = NextStart
      /\ \A i \in 1 .. N : stored[i].start \in Nat /\ stored[i].len \in 2 .. MaxLen
      /\ \A i \in 1 .. N + 1 : StartOf(i) \in Nat
  BY StoredFacts
<1> HIDE DEF N
<1>2. \A i, j \in 1 .. N + 1 : i < j => EndOf(i) <= StartOf(j)
  BY DEF Layout, N
<1>3. ASSUME NEW i \in 1 .. N
      PROVE  StartOf(i) < EndOf(i) /\ EndOf(i) \in Nat /\ EndOf(i) <= NextStart
  <2>1. i \in 1 .. N + 1 /\ N + 1 \in 1 .. N + 1 /\ i < N + 1
    BY <1>1
  <2>2. StartOf(i) = stored[i].start
    BY DEF StartOf, N
  <2>3. EndOf(i) <= NextStart
    BY <1>1, <1>2, <2>1
  <2> QED BY <1>1, <2>2, <2>3 DEF EndOf
<1>4. \A i \in 1 .. N : StartOf(i) < NextStart
  <2> TAKE i \in 1 .. N
  <2>1. StartOf(i) \in Nat /\ EndOf(i) \in Nat
    BY <1>1, <1>3
  <2> QED BY <1>1, <1>3, <2>1
<1>5. \A i \in 1 .. N + 1 : StartOf(i) <= NextStart
  <2> TAKE i \in 1 .. N + 1
  <2>1. CASE i = N + 1
    BY <1>1, <2>1
  <2>2. CASE i # N + 1
    BY <1>1, <1>4, <2>2
  <2> QED BY <2>1, <2>2
<1>6. ASSUME NEW i \in 1 .. N + 1, NEW j \in 1 .. N + 1, i <= j
      PROVE  StartOf(i) <= StartOf(j)
  <2>1. CASE i = j
    BY <1>1, <2>1
  <2>2. CASE i # j
    <3>1. i < j /\ i \in 1 .. N
      BY <1>1, <1>6, <2>2
    <3>2. EndOf(i) <= StartOf(j) /\ StartOf(i) < EndOf(i)
      BY <1>2, <1>3, <3>1
    <3>3. StartOf(i) \in Nat /\ EndOf(i) \in Nat /\ StartOf(j) \in Nat
      BY <1>1, <1>3, <3>1
    <3> QED BY <3>2, <3>3
  <2> QED BY <2>1, <2>2
<1>7. NextStart < RTL_RX_BUF_SIZE /\ NextStart < 2 * RingSize
  <2>1. NextStart < RTL_RX_BUF_SIZE
    BY DEF FirstLap
  <2> QED BY <1>1, <2>1, Sizes
<1> QED BY <1>3, <1>4, <1>5, <1>6, <1>7 DEF N

\* When the driver has got every frame, the ring is empty.
LEMMA AllReadEmpty ==
    ASSUME TypeOK, OnLap, want = Len(stored) + 1
    PROVE  capr = CBR
<1>1. Len(stored) \in Nat /\ CBR = NextStart % RingSize /\ StartOf(Len(stored) + 1) = NextStart
  BY StoredFacts
<1>2. seen + 1 = Len(stored) + 1
  BY <1>1 DEF OnLap
<1> QED BY <1>1, <1>2 DEF OnLap

\* The frame at rx_cur on the first lap: its header gives its length, it is copied
\* whole, and the next one starts behind it.
LEMMA HeaderOnLap ==
    ASSUME TypeInv, Layout, FirstLap, OnLap, ~Empty
    PROVE  /\ want \in 1 .. Len(stored)
           /\ HeaderLens = {stored[want].len}
           /\ stored[want].len \in 2 .. MaxLen
           /\ Copied(want, stored[want].len)
           /\ (rx_cur + (1 + stored[want].len)) % RTL_RX_BUF_SIZE = StartOf(want + 1)
<1> DEFINE N == Len(stored)
           L == stored[want].len
<1>1. TypeOK /\ N \in Nat /\ NextStart \in Nat /\ DOMAIN stored = 1 .. N
  BY StoredFacts DEF TypeInv
<1>2. want \in 1 .. N
  <2>1. want # N + 1
    BY <1>1, AllReadEmpty DEF Empty
  <2> QED BY <1>1, <2>1 DEF OnLap
<1>3. L \in 2 .. MaxLen /\ stored[want].start \in Nat
  BY <1>1, <1>2, StoredFacts
<1>4. rx_cur = stored[want].start
  BY <1>1, <1>2 DEF OnLap, StartOf
<1>5. \A c \in 0 .. L : rx_buf[rx_cur + c] = [f |-> want, k |-> c]
  BY <1>2, <1>4 DEF OnLap
<1>6. rx_cur + 1 + L = StartOf(want + 1) /\ StartOf(want + 1) \in Nat
  <2>1. StartOf(want + 1) = EndOf(want)
    BY <1>2 DEF Layout
  <2> QED BY <1>3, <1>4, <2>1 DEF EndOf
<1>7. rx_cur + 1 + L < RTL_RX_BUF_SIZE
  <2>1. want + 1 \in 1 .. N + 1
    BY <1>1, <1>2
  <2>2. StartOf(want + 1) <= NextStart /\ NextStart < RTL_RX_BUF_SIZE
    BY <1>1, <2>1, LapFacts
  <2> QED BY <1>1, <1>6, <2>2, Sizes
<1>8. rx_cur \in Nat
  BY <1>3, <1>4
<1>9. HeaderLens = {L}
  <2>1. rx_buf[rx_cur] = [f |-> want, k |-> 0]
    <3>1. 0 \in 0 .. L /\ rx_cur + 0 = rx_cur
      BY <1>3, <1>8
    <3> QED BY <1>5, <3>1
  <2>2. rx_buf[rx_cur] # Zero /\ rx_buf[rx_cur].f = want /\ rx_buf[rx_cur].k = 0 /\ want > 0
    BY <1>2, <2>1 DEF Zero
  <2> QED BY <2>2 DEF HeaderLens
<1>10. Copied(want, L)
  <2>1. ASSUME NEW c \in 0 .. L - 1
        PROVE  rx_buf[(rx_cur + c) % RTL_RX_BUF_SIZE] = [f |-> want, k |-> c]
    <3>1. c \in 0 .. L
      BY <1>3
    <3>2. rx_cur + c \in Nat /\ rx_cur + c < RTL_RX_BUF_SIZE
      BY <1>3, <1>7, <1>8, Sizes
    <3>3. (rx_cur + c) % RTL_RX_BUF_SIZE = rx_cur + c
      BY <3>2, BufferMod
    <3> QED BY <1>5, <3>1, <3>3
  <2> QED BY <1>1, <1>2, <2>1 DEF Copied
<1>11. (rx_cur + (1 + L)) % RTL_RX_BUF_SIZE = StartOf(want + 1)
  <2>1. rx_cur + (1 + L) = rx_cur + 1 + L /\ rx_cur + (1 + L) \in Nat
    BY <1>3, <1>8
  <2>2. rx_cur + (1 + L) < RTL_RX_BUF_SIZE
    BY <1>7, <2>1
  <2>3. (rx_cur + (1 + L)) % RTL_RX_BUF_SIZE = rx_cur + (1 + L)
    BY <2>1, <2>2, BufferMod
  <2> QED BY <1>6, <2>1, <2>3
<1> QED BY <1>2, <1>3, <1>9, <1>10, <1>11

\* A step that leaves what the card stored alone leaves the layout alone.
LEMMA SameStored ==
    ASSUME stored' = stored
    PROVE  /\ NextStart' = NextStart /\ CBR' = CBR /\ FirstLap' = FirstLap /\ Layout' = Layout
           /\ \A i : StartOf(i)' = StartOf(i)
  BY DEF NextStart, CBR, FirstLap, Layout, StartOf, EndOf

\* The card stores a frame: the others stay where they are.
LEMMA StoreLayout ==
    ASSUME TypeOK, Layout, NEW len \in Lens, CardStores(len)
    PROVE  /\ Len(stored') = Len(stored) + 1
           /\ NextStart' = NextStart + 1 + len
           /\ \A i \in 1 .. Len(stored) : stored'[i] = stored[i]
           /\ stored'[Len(stored) + 1] = [start |-> NextStart, len |-> len]
           /\ \A i \in 1 .. Len(stored) + 1 : StartOf(i)' = StartOf(i)
           /\ Layout'
<1>0. PICK N \in Nat : N = Len(stored)
  BY StoredFacts
<1> DEFINE e == [start |-> NextStart, len |-> len]
<1>1. /\ N \in Nat /\ NextStart \in Nat /\ StartOf(N + 1) = NextStart /\ stored \in Seq(Frame)
      /\ \A i \in 1 .. N : stored[i].start \in Nat /\ stored[i].len \in 2 .. MaxLen
      /\ \A i \in 1 .. N + 1 : StartOf(i) \in Nat
      /\ len \in 2 .. MaxLen
  BY <1>0, StoredFacts DEF TypeOK, Frame
<1>2. e \in Frame /\ e.start = NextStart /\ e.len = len
  BY <1>1 DEF Frame
<1>3. /\ Len(stored') = N + 1 /\ stored'[N + 1] = e
      /\ \A i \in 1 .. N : stored'[i] = stored[i]
      /\ stored' \in Seq(Frame)
  BY <1>0, <1>1, <1>2, AppendProperties DEF CardStores
<1>4. NextStart' = NextStart + 1 + len
  <2>1. stored' # <<>>
    BY <1>1, <1>3, EmptySeq
  <2> QED BY <1>2, <1>3, <2>1 DEF NextStart
<1>5. ASSUME NEW i \in 1 .. N + 1
      PROVE  StartOf(i)' = StartOf(i)
  <2>1. CASE i = N + 1
    BY <1>1, <1>2, <1>3, <2>1 DEF StartOf
  <2>2. CASE i # N + 1
    <3>1. i \in 1 .. N
      BY <1>1, <2>2
    <3> QED BY <1>0, <1>1, <1>3, <3>1 DEF StartOf
  <2> QED BY <2>1, <2>2
<1>6. StartOf(N + 2)' = NextStart + 1 + len
  BY <1>1, <1>3, <1>4 DEF StartOf
<1>7. /\ \A i \in 1 .. N : EndOf(i)' = EndOf(i)
      /\ EndOf(N + 1)' = NextStart + 1 + len
  BY <1>2, <1>3 DEF EndOf
<1>8. Layout'
  <2>1. StartOf(1)' = 0
    BY <1>0, <1>1, <1>5 DEF Layout
  <2>2. ASSUME NEW i \in 1 .. N + 1
        PROVE  StartOf(i + 1)' = EndOf(i)'
    <3>1. CASE i = N + 1
      <4>1. i + 1 = N + 2
        BY <1>1, <3>1
      <4> QED BY <1>6, <1>7, <3>1, <4>1
    <3>2. CASE i # N + 1
      <4>1. i \in 1 .. N /\ i + 1 \in 1 .. N + 1
        BY <1>1, <3>2
      <4>2. StartOf(i + 1) = EndOf(i)
        BY <1>0, <4>1 DEF Layout
      <4> QED BY <1>5, <1>7, <4>1, <4>2
    <3> QED BY <3>1, <3>2
  <2>3. ASSUME NEW i \in 1 .. N + 2, NEW j \in 1 .. N + 2, i < j
        PROVE  EndOf(i)' <= StartOf(j)'
    <3>1. i \in 1 .. N + 1
      BY <1>1, <2>3
    <3>2. CASE i = N + 1
      <4>1. j = N + 2
        BY <1>1, <2>3, <3>2
      <4>2. NextStart + 1 + len <= NextStart + 1 + len
        BY <1>1
      <4> QED BY <1>6, <1>7, <3>2, <4>1, <4>2
    <3>3. CASE i # N + 1
      <4>1. i \in 1 .. N /\ i \in 1 .. N + 1 /\ N + 1 \in 1 .. N + 1 /\ i < N + 1
        BY <1>1, <3>1, <3>3
      <4>2. CASE j = N + 2
        <5>1. EndOf(i) <= NextStart
          BY <1>1, <1>0, <4>1 DEF Layout
        <5>2. EndOf(i) \in Nat
          <6>1. stored[i].start \in Nat /\ stored[i].len \in Nat
            BY <1>1, <4>1
          <6> QED BY <6>1 DEF EndOf
        <5>3. EndOf(i) <= NextStart + 1 + len
          BY <1>1, <5>1, <5>2
        <5> QED BY <1>6, <1>7, <4>1, <4>2, <5>3
      <4>3. CASE j # N + 2
        <5>1. j \in 1 .. N + 1
          BY <1>1, <4>3
        <5>2. EndOf(i) <= StartOf(j)
          BY <2>3, <4>1, <1>0, <5>1 DEF Layout
        <5> QED BY <1>5, <1>7, <4>1, <5>1, <5>2
      <4> QED BY <4>2, <4>3
    <3> QED BY <3>2, <3>3
  <2>4. N + 1 + 1 = N + 2
    BY <1>1
  <2> QED BY <1>3, <2>1, <2>2, <2>3, <2>4 DEF Layout
<1> QED BY <1>0, <1>3, <1>4, <1>5, <1>8, SMTT(40)

\* A frame the card stores on its first lap leaves less than a ring between the
\* last frame read and the end of what is stored.
LEMMA RoomLeft ==
    ASSUME TypeOK, Layout, FirstLap, OnLap, NEW len \in Lens, CardStores(len), NextStart < RingSize,
           NEW b \in Nat, b = StartOf(seen + 1)
    PROVE  NextStart + 1 + len - b < RingSize
<1>1. PICK w \in {want, seen + 1} : capr = StartOf(w) % RingSize
  BY DEF OnLap
<1>2. /\ Len(stored) \in Nat /\ NextStart \in Nat /\ CBR = NextStart % RingSize /\ len \in 2 .. MaxLen
      /\ seen \in 0 .. Len(stored) /\ want \in 1 .. Len(stored) + 1 /\ want <= seen + 1
  BY StoredFacts DEF OnLap
<1>3. w \in 1 .. Len(stored) + 1 /\ seen + 1 \in 1 .. Len(stored) + 1 /\ w <= seen + 1
  BY <1>2
<1>4. PICK a \in Nat : a = StartOf(w)
  BY <1>3, StoredFacts
<1>5. a <= b /\ b <= NextStart
  BY <1>3, <1>4, LapFacts
<1>6. CBR = NextStart /\ capr = a
  <2>1. a < RingSize
    BY <1>2, <1>5
  <2> QED BY <1>1, <1>2, <1>4, <2>1, RingMod
<1>7. LET free == (a - NextStart) % RingSize IN free = 0 \/ len + 1 < free
  BY <1>6 DEF CardStores
<1>8. CASE a = NextStart
  BY <1>2, <1>4, <1>5, <1>8
<1>9. CASE a # NextStart
  <2>1. (a - NextStart) % RingSize = a - NextStart + RingSize
    <3>1. \A x \in Int : -RingSize <= x /\ x < 0 => x % RingSize = x + RingSize
      BY ModFacts
    <3>2. a - NextStart \in Int /\ -RingSize <= a - NextStart /\ a - NextStart < 0
      BY <1>2, <1>5, <1>9
    <3> QED BY <3>1, <3>2
  <2>2. len + 1 < a - NextStart + RingSize
    BY <1>2, <1>5, <1>7, <1>9, <2>1
  <2> QED BY <1>2, <1>4, <1>5, <2>2, SMTT(40)
<1> QED BY <1>8, <1>9

LEMMA StoreOnLap ==
    ASSUME TypeOK, Layout, FirstLap => OnLap, NEW len \in Lens, CardStores(len), FirstLap'
    PROVE  OnLap'
<1>0. PICK N \in Nat : N = Len(stored)
  BY StoredFacts
<1>1. /\ NextStart \in Nat /\ len \in 2 .. MaxLen /\ CBR = NextStart % RingSize
      /\ DOMAIN stored = 1 .. N
      /\ \A i \in 1 .. N : stored[i].start \in Nat /\ stored[i].len \in 2 .. MaxLen
  BY <1>0, StoredFacts
<1>2. /\ Len(stored') = N + 1 /\ NextStart' = NextStart + 1 + len
      /\ \A i \in 1 .. N : stored'[i] = stored[i]
      /\ stored'[N + 1] = [start |-> NextStart, len |-> len]
      /\ \A i \in 1 .. N + 1 : StartOf(i)' = StartOf(i)
  BY <1>0, StoreLayout
<1>3. DOMAIN stored' = 1 .. N + 1
  <2>1. stored \in Seq(Frame) /\ [start |-> NextStart, len |-> len] \in Frame
    BY <1>1 DEF TypeOK, Frame
  <2>2. stored' \in Seq(Frame)
    BY <2>1, AppendProperties DEF CardStores
  <2> QED BY <1>2, <2>2, LenProperties
<1>4. NextStart < RingSize /\ NextStart + 1 + len < RTL_RX_BUF_SIZE
  <2>1. N + 1 \in 1 .. N + 1
    OBVIOUS
  <2>2. stored'[N + 1].start < RingSize
    BY <1>3, <2>1 DEF FirstLap
  <2> QED BY <1>2, <2>2 DEF FirstLap
<1>5. FirstLap
  <2>1. NextStart < RTL_RX_BUF_SIZE
    BY <1>1, <1>4, Sizes
  <2>2. ASSUME NEW i \in 1 .. N PROVE stored[i].start < RingSize
    <3>1. i \in 1 .. N + 1
      OBVIOUS
    <3>2. stored'[i].start < RingSize
      BY <1>3, <3>1 DEF FirstLap
    <3> QED BY <1>2, <3>2
  <2> QED BY <1>1, <2>1, <2>2 DEF FirstLap
<1>6. CBR = NextStart
  BY <1>1, <1>4, RingMod
<1>7. /\ OnLap /\ want \in 1 .. N + 1 /\ seen \in 0 .. N /\ want <= seen + 1
      /\ rx_cur = StartOf(want)
  BY <1>0, <1>5 DEF OnLap
<1>8. /\ rx_cur' = rx_cur /\ capr' = capr /\ want' = want /\ seen' = seen /\ garbled' = garbled
      /\ phase' = phase
      /\ rx_buf' = [c \in Cells |-> IF c \in NextStart .. NextStart + len
                                     THEN [f |-> N + 1, k |-> c - NextStart] ELSE rx_buf[c]]
  BY <1>0, <1>6 DEF CardStores
<1>9. ASSUME NEW i \in 1 .. N + 1, NEW c \in 0 .. stored'[i].len
      PROVE  rx_buf'[stored'[i].start + c] = [f |-> i, k |-> c]
  <2>1. CASE i = N + 1
    <3>1. stored'[i].start = NextStart /\ c \in 0 .. len
      BY <1>2, <1>9, <2>1
    <3>2. NextStart + c \in Cells /\ NextStart + c \in NextStart .. NextStart + len
      BY <1>1, <1>4, <3>1, Sizes, SMTT(40) DEF Cells
    <3>3. (NextStart + c) - NextStart = c
      BY <1>1, <3>1
    <3> QED BY <1>8, <2>1, <3>1, <3>2, <3>3
  <2>2. CASE i # N + 1
    <3>1. i \in 1 .. N
      BY <2>2
    <3>2. stored'[i] = stored[i] /\ stored[i].start \in Nat /\ stored[i].len \in Nat /\ c \in 0 .. stored[i].len
      BY <1>1, <1>2, <1>9, <3>1
    <3>3. stored[i].start + 1 + stored[i].len <= NextStart
      BY <1>0, <1>5, <3>1, LapFacts DEF EndOf
    <3>4. stored[i].start + c < NextStart /\ stored[i].start + c \in Nat
      <4>1. PICK s \in Nat, l \in Nat : s = stored[i].start /\ l = stored[i].len
        BY <3>2
      <4>2. s + 1 + l <= NextStart /\ c \in 0 .. l
        BY <3>2, <3>3, <4>1
      <4>3. s + c < NextStart /\ s + c \in Nat
        BY <1>1, <4>2
      <4> QED BY <4>1, <4>3
    <3>5. stored[i].start + c \in Cells /\ stored[i].start + c \notin NextStart .. NextStart + len
      <4>0. NextStart \in Nat /\ len \in Nat
        BY <1>1
      <4>1. PICK x \in Nat : x = stored[i].start + c /\ x < NextStart
        BY <3>4
      <4>2. x < RTL_RX_BUF_SIZE
        BY <1>4, <4>0, <4>1, Sizes
      <4>3. x \in Cells /\ x \notin NextStart .. NextStart + len
        BY <4>0, <4>1, <4>2, Sizes DEF Cells
      <4> QED BY <4>1, <4>3
    <3>6. rx_buf[stored[i].start + c] = [f |-> i, k |-> c]
      BY <1>0, <1>7, <3>1, <3>2 DEF OnLap
    <3> QED BY <1>8, <3>2, <3>5, <3>6
  <2> QED BY <2>1, <2>2
<1>10. seen + 1 \in 1 .. N + 1
  BY <1>7
<1>11. StartOf(want)' = StartOf(want) /\ StartOf(seen + 1)' = StartOf(seen + 1)
  BY <1>2, <1>7, <1>8, <1>10
<1>12. NextStart' - StartOf(seen + 1)' < RingSize
  <2>1. PICK b \in Nat : b = StartOf(seen + 1)
    BY <1>0, <1>10, StoredFacts
  <2>2. NextStart + 1 + len - b < RingSize
    BY <1>4, <1>5, <1>7, <2>1, RoomLeft
  <2>3. PICK a \in Nat : a = NextStart + 1 + len /\ a - b < RingSize
    <3>1. PICK n \in Nat, l \in Nat : n = NextStart /\ l = len
      BY <1>1
    <3>2. n + 1 + l - b < RingSize
      BY <2>2, <3>1
    <3>3. n + 1 + l \in Nat
      OBVIOUS
    <3> QED BY <3>1, <3>2, <3>3
  <2>4. NextStart' = a /\ StartOf(seen + 1)' = b
    BY <1>2, <1>11, <2>1, <2>3, Zenon
  <2> QED BY <2>3, <2>4
<1>13. \/ capr = StartOf(want) % RingSize
       \/ want = 1 /\ capr = StartOf(seen + 1) % RingSize
  BY <1>7 DEF OnLap
<1>14. ~garbled /\ (phase = "enabled" => want = seen + 1)
  BY <1>7 DEF OnLap
<1>15. want \in 1 .. (N + 1) + 1 /\ seen \in 0 .. N + 1
  BY <1>7
<1> QED BY <1>2, <1>7, <1>8, <1>9, <1>11, <1>12, <1>13, <1>14, <1>15 DEF OnLap

\* rtl_recv returns the frame it should, and moves to the next.
LEMMA RecvOnLap ==
    ASSUME TypeInv, Layout, FirstLap, OnLap, rtl_recv
    PROVE  OnLap'
<1>0. PICK N \in Nat : N = Len(stored)
  BY StoredFacts DEF TypeInv
<1>1. ~Empty /\ stored' = stored /\ rx_buf' = rx_buf /\ phase' = phase
  BY DEF rtl_recv
<1>2. /\ want \in 1 .. N /\ HeaderLens = {stored[want].len} /\ stored[want].len \in 2 .. MaxLen
      /\ Copied(want, stored[want].len)
      /\ (rx_cur + (1 + stored[want].len)) % RTL_RX_BUF_SIZE = StartOf(want + 1)
  BY <1>0, <1>1, HeaderOnLap
<1>3. Advance(1 + stored[want].len) /\ Returned(stored[want].len)
  BY <1>2 DEF rtl_recv
<1>4. ~garbled /\ want <= seen + 1 /\ seen \in 0 .. N /\ (phase = "enabled" => want = seen + 1)
  BY <1>0 DEF OnLap
<1>5. want' = want + 1 /\ seen' = (IF want > seen THEN want ELSE seen) /\ garbled' = garbled
  BY <1>2, <1>3, <1>4 DEF Returned
<1>6. rx_cur' = StartOf(want + 1) /\ capr' = StartOf(want + 1) % RingSize
  BY <1>2, <1>3 DEF Advance
<1>7. \A i : StartOf(i)' = StartOf(i)
  BY <1>1, SameStored
<1>8. NextStart' = NextStart
  BY <1>1, SameStored
<1>9. rx_cur' = StartOf(want)' /\ capr' = StartOf(want)' % RingSize
  BY <1>5, <1>6, <1>7
<1>10. PICK s \in 0 .. N : s = seen' /\ seen <= s /\ want + 1 <= s + 1 /\ (want = seen + 1 => want + 1 = s + 1)
  BY <1>2, <1>4, <1>5
<1>11. NextStart' - StartOf(seen + 1)' < RingSize
  <2>1. TypeOK
    BY DEF TypeInv
  <2>2. seen + 1 \in 1 .. N + 1 /\ s + 1 \in 1 .. N + 1 /\ seen + 1 <= s + 1
    <3>1. seen <= s
      BY <1>10
    <3> QED BY <1>4, <3>1
  <2>3. PICK a \in Nat, b \in Nat, n \in Nat : a = StartOf(seen + 1) /\ b = StartOf(s + 1) /\ n = NextStart
    BY <1>0, <2>1, <2>2, StoredFacts
  <2>4. n - a < RingSize
    BY <2>3 DEF OnLap
  <2>5. a <= b
    BY <1>0, <2>1, <2>2, <2>3, LapFacts
  <2>6. n - b < RingSize
    BY <2>4, <2>5
  <2>7. StartOf(seen + 1)' = b /\ NextStart' = n
    BY <1>7, <1>8, <1>10, <2>3
  <2> QED BY <2>6, <2>7
<1>12. want + 1 \in 1 .. N + 1
  BY <1>2
<1>13. \A i \in 1 .. N : \A c \in 0 .. stored[i].len : rx_buf[stored[i].start + c] = [f |-> i, k |-> c]
  BY <1>0 DEF OnLap
<1>14. /\ want' \in 1 .. N + 1 /\ seen' \in 0 .. N /\ want' <= seen' + 1
       /\ phase' = "enabled" => want' = seen' + 1
  BY <1>1, <1>4, <1>5, <1>10, <1>12
<1> QED BY <1>0, <1>1, <1>4, <1>5, <1>9, <1>11, <1>13, <1>14, SMTT(40) DEF OnLap

\* rtl_recv meets no bad header.
LEMMA NoBadHeader ==
    ASSUME TypeInv, Layout, FirstLap, OnLap, PollEnds
    PROVE  UNCHANGED rx
<1>1. CASE UNCHANGED rx
  BY <1>1
<1>2. CASE ~Empty /\ 0 \in HeaderLens
  BY <1>2, HeaderOnLap
<1> QED BY <1>1, <1>2 DEF PollEnds

LEMMA RxInvNext ==
    ASSUME TypeInv, RxInv, [Next]_vars
    PROVE  RxInv'
<1>0. TypeOK /\ Layout
  BY DEF TypeInv, RxInv
<1>1. ASSUME UNCHANGED <<rx, phase>>
      PROVE  RxInv'
  <2>1. stored' = stored /\ UNCHANGED <<rx_buf, rx_cur, capr, want, seen, garbled>>
    BY <1>1 DEF rx
  <2>2. OnLap' = OnLap
    BY <1>1, <2>1, SameStored DEF OnLap, StartOf, NextStart
  <2> QED BY <1>1, <2>1, <2>2, SameStored DEF RxInv, Running
<1>2. CASE UNCHANGED vars
  BY <1>1, <1>2 DEF vars
<1>3. CASE net_poll \/ net_send \/ SendDone \/ SendTimeout \/ CardSends
  BY <1>1, <1>3 DEF net_poll, net_send, SendDone, SendTimeout, CardSends
<1>4. CASE pci_find_device \/ ResetCard \/ EnableCard
  <2>1. ~Running /\ UNCHANGED <<rx_buf, rx_cur, stored, want, seen, garbled>> /\ capr' = 0 
    BY <1>4 DEF pci_find_device, ResetCard, EnableCard, Running, rx, RxInv
  <2>2. stored = <<>> /\ capr = 0 /\ rx_cur = 0 /\ want = 1 /\ seen = 0 /\ ~garbled
    BY <2>1 DEF RxInv
  <2>3. /\ stored' = <<>> /\ capr' = 0 /\ rx_cur' = 0 /\ want' = 1 /\ seen' = 0 /\ ~garbled'
    BY <2>1, <2>2
  <2>4. Len(stored') = 0 /\ NextStart' = 0 /\ \A i : StartOf(i)' = IF i <= 0 THEN stored'[i].start ELSE 0
    BY <2>3 DEF StartOf, NextStart
  <2>5. StartOf(want)' = 0 /\ StartOf(seen + 1)' = 0
    BY <2>3, <2>4
  <2>6. 0 % RingSize = 0
    BY RingMod
  <2>7. OnLap'
    BY <2>3, <2>4, <2>5, <2>6 DEF OnLap
  <2> QED BY <1>0, <2>1, <2>3, <2>7, SameStored DEF RxInv
<1>5. CASE InitRing
  <2>1. Running /\ Running' /\ stored' = stored
    BY <1>5 DEF InitRing, Running
  <2>2. ASSUME FirstLap' PROVE OnLap'
    <3>1. FirstLap /\ OnLap
      BY <2>1, <2>2, SameStored DEF RxInv
    <3>2. want = seen + 1 /\ capr = StartOf(seen + 1) % RingSize
      BY <1>5, <3>1 DEF InitRing, OnLap
    <3>3. /\ rx_cur' = 0 /\ want' = 1 /\ UNCHANGED <<rx_buf, stored, capr, seen, garbled>>
          /\ phase' = "ready"
      BY <1>5 DEF InitRing
    <3>4. StartOf(want)' = 0 /\ NextStart' = NextStart /\ StartOf(seen + 1)' = StartOf(seen + 1)
      BY <1>0, <3>3, SameStored DEF Layout
    <3>5. 1 \in 1 .. Len(stored) + 1 /\ 1 <= seen + 1
      BY <1>0, <3>1, StoredFacts DEF OnLap
    <3> QED BY <3>1, <3>2, <3>3, <3>4, <3>5 DEF OnLap
  <2> QED BY <1>0, <2>1, <2>2, SameStored DEF RxInv
<1>6. CASE rtl_recv
  <2>1. Running /\ Running' /\ stored' = stored
    BY <1>6 DEF rtl_recv, Empty, Running
  <2>2. ASSUME FirstLap' PROVE OnLap'
    BY <1>0, <1>6, <2>1, <2>2, SameStored, RecvOnLap DEF RxInv
  <2> QED BY <1>0, <2>1, <2>2, SameStored DEF RxInv
<1>7. CASE PollEnds
  <2>1. CASE UNCHANGED rx
    BY <1>1, <1>7, <2>1 DEF PollEnds
  <2>2. CASE ~UNCHANGED rx
    <3>1. Running /\ Running' /\ stored' = stored
      BY <1>7, <2>2 DEF PollEnds, Empty, Running
    <3>2. ~FirstLap
      BY <1>0, <1>7, <2>2, NoBadHeader DEF RxInv
    <3> QED BY <1>0, <3>1, <3>2, SameStored DEF RxInv
  <2> QED BY <2>1, <2>2
<1>8. CASE \E len \in Lens : CardStores(len)
  <2>1. PICK len \in Lens : CardStores(len)
    BY <1>8
  <2>2. Running'
    BY <2>1 DEF CardStores, Running
  <2>3. Layout'
    BY <1>0, <2>1, StoreLayout
  <2>4. FirstLap' => OnLap'
    BY <1>0, <2>1, StoreOnLap DEF RxInv
  <2> QED BY <2>2, <2>3, <2>4 DEF RxInv
<1> QED BY <1>2, <1>3, <1>4, <1>5, <1>6, <1>7, <1>8 DEF Next, net_init, Kernel

\* When the ring looks empty on the first lap, every frame has been read, but for
\* the frames read again behind the card.
LEMMA EmptyOnLap ==
    ASSUME TypeOK, Layout, FirstLap, OnLap, capr = CBR
    PROVE  seen = Len(stored) \/ (want <= seen /\ NextStart >= RingSize)
<1>0. PICK N \in Nat : N = Len(stored)
  BY StoredFacts
<1>1. /\ NextStart \in Nat /\ CBR = NextStart % RingSize /\ NextStart < 2 * RingSize
      /\ seen \in 0 .. N /\ want \in 1 .. N + 1 /\ want <= seen + 1
  BY <1>0, StoredFacts, LapFacts DEF OnLap
<1>2. seen + 1 \in 1 .. N + 1
  BY <1>1
<1>3. PICK a \in Nat, b \in Nat, n \in Nat : a = StartOf(want) /\ b = StartOf(seen + 1) /\ n = NextStart
  BY <1>0, <1>1, <1>2, StoredFacts
<1>4. a <= n /\ b <= n /\ n - b < RingSize /\ n < 2 * RingSize
  <2>1. a <= n /\ b <= n
    BY <1>0, <1>1, <1>2, <1>3, LapFacts
  <2>2. n - b < RingSize
    BY <1>3 DEF OnLap
  <2> QED BY <1>1, <1>3, <2>1, <2>2
<1>5. \A i \in 1 .. N : StartOf(i) # n
  <2> TAKE i \in 1 .. N
  <2>1. StartOf(i) \in Nat /\ StartOf(i) < n
    <3>1. i \in 1 .. N + 1
      OBVIOUS
    <3> QED BY <1>0, <1>3, <3>1, StoredFacts, LapFacts
  <2> QED BY <2>1
<1>6. CASE b % RingSize = n % RingSize
  <2>1. b = n
    BY <1>4, <1>6
  <2>2. seen + 1 \notin 1 .. N
    BY <1>3, <1>5, <2>1
  <2> QED BY <1>0, <1>1, <2>2
<1>7. CASE want = seen + 1
  BY <1>1, <1>3, <1>6, <1>7 DEF OnLap
<1>8. CASE a % RingSize = n % RingSize /\ want # seen + 1
  <2>1. CASE n < RingSize
    <3>1. a < RingSize
      BY <1>4, <2>1
    <3>2. a = n
      BY <1>8, <2>1, <3>1, RingMod
    <3>3. want \notin 1 .. N
      BY <1>3, <1>5, <3>2
    <3> QED BY <1>1, <1>8, <3>3
  <2>2. CASE n >= RingSize
    BY <1>1, <1>3, <1>8, <2>2
  <2> QED BY <2>1, <2>2
<1> QED BY <1>1, <1>3, <1>6, <1>7, <1>8 DEF OnLap

\* On the card's first lap rtl_recv returns every frame in order, for every size of
\* the ring and any lengths; what it may miss is named in FirstLapInOrder.
THEOREM FirstLapReadInOrder == Spec => []FirstLapInOrder
<1>1. Init => RxInv
  <2> SUFFICES ASSUME Init PROVE RxInv
    OBVIOUS
  <2>1. stored = <<>> /\ capr = 0 /\ rx_cur = 0 /\ want = 1 /\ seen = 0 /\ ~garbled /\ phase = "start"
    BY DEF Init
  <2>2. Len(stored) = 0 /\ NextStart = 0 /\ StartOf(1) = 0
    BY <2>1 DEF StartOf, NextStart
  <2>3. StartOf(want) = 0 /\ StartOf(seen + 1) = 0 /\ 0 % RingSize = 0
    BY <2>1, <2>2, RingMod
  <2>4. Layout
    BY <2>2 DEF Layout
  <2>5. OnLap
    BY <2>1, <2>2, <2>3 DEF OnLap
  <2> QED BY <2>1, <2>4, <2>5 DEF RxInv
<1>2. TypeInv /\ RxInv => FirstLapInOrder
  <2> SUFFICES ASSUME TypeInv, RxInv, FirstLap
               PROVE  ~garbled /\ (capr = CBR => seen = Len(stored) \/ (want <= seen /\ NextStart >= RingSize))
    BY DEF FirstLapInOrder
  <2>1. TypeOK /\ Layout /\ OnLap
    BY DEF TypeInv, RxInv
  <2> QED BY <2>1, EmptyOnLap DEF OnLap
<1> QED BY <1>1, <1>2, RxInvNext, TypeInvInit, TypeInvNext, PTL DEF Spec
===============================================================================
