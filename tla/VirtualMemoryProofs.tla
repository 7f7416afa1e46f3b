-------------------------- MODULE VirtualMemoryProofs -------------------------
(***************************************************************************)
(* What VirtualMemory guarantees for every size of memory, page table and  *)
(* swap.  The inductive invariant adds to TypeOK where the frames in the   *)
(* page table come from, that a handler only ever copies into frames above *)
(* the page table, and how the stack of activities is built.               *)
(***************************************************************************)
EXTENDS VirtualMemory, SequenceTheorems, TLAPS

\* A mapped page has its own frame of the identity map or one pmm_alloc_page gave out.
FramesOwned ==
    \A p \in Low : Mapped(p) =>
       \/ first_page_table[p] = p
       \/ first_page_table[p] >= FreeStart /\ first_page_table[p] < free_mem_start

\* Handlers are nested above one activity of the kernel, and load into high frames.
HandlersNested ==
    /\ stack # <<>> => stack[1].op \in {"access", "swap_write"}
    /\ \A k \in 2 .. Len(stack) : stack[k].op \in {"fault", "swap_read"}
    /\ \A k \in 1 .. Len(stack) : stack[k].op = "swap_read" => stack[k].page >= FreeStart

\* Every handler but one that has just been entered holds a frame.
LevelsHoldFrames ==
    stack # <<>> =>
       Len(stack) <= (IF Top.op = "fault" THEN 2 ELSE 1) + (free_mem_start - FreeStart)

IInv == TypeOK /\ FramesOwned /\ NoAlias /\ HandlersNested /\ LevelsHoldFrames

-------------------------------------------------------------------------------
\* What remains of a sequence without its last element.
LEMMA FrontFacts ==
    ASSUME NEW S, NEW s \in Seq(S), Len(s) # 0
    PROVE  /\ SubSeq(s, 1, Len(s) - 1) \in Seq(S)
           /\ Len(SubSeq(s, 1, Len(s) - 1)) = Len(s) - 1
           /\ \A k \in 1 .. Len(s) - 1 : SubSeq(s, 1, Len(s) - 1)[k] = s[k]
<1>0. Len(s) \in Nat
  BY LenProperties
<1>1. PICK n \in Nat : n = Len(s) - 1
  <2>1. Len(s) - 1 \in Nat
    BY <1>0
  <2> QED BY <2>1
<1>2. \A i \in 1 .. n : s[i] \in S
  BY <1>1, LenProperties
<1>3. /\ SubSeq(s, 1, n) \in Seq(S)
      /\ Len(SubSeq(s, 1, n)) = IF 1 <= n THEN n - 1 + 1 ELSE 0
      /\ \A k \in 1 .. n - 1 + 1 : SubSeq(s, 1, n)[k] = s[1 + k - 1]
  <2>1. 1 \in Int /\ n \in Int
    OBVIOUS
  <2> QED BY <1>2, <2>1, SubSeqProperties
<1>4. Len(SubSeq(s, 1, n)) = n
  <2>1. (IF 1 <= n THEN n - 1 + 1 ELSE 0) = n
    OBVIOUS
  <2> QED BY <1>3, <2>1, Zenon
<1>5. \A k \in 1 .. n : SubSeq(s, 1, n)[k] = s[k]
  BY <1>3
<1> QED BY <1>1, <1>3, <1>4, <1>5

\* The start: identity map, no activity.
LEMMA InitInv == Init => IInv
<1> SUFFICES ASSUME Init PROVE IInv
  OBVIOUS
<1> USE MemoryAssumption DEF Init, paging_init, Low, Frames, Pages, Slots, NotPresent
<1>1. TypeOK
  <2>1. swap_storage \in [Slots -> [used : BOOLEAN, virt_addr : Pages, data : Data]]
    OBVIOUS
  <2>2. first_page_table \in [Low -> Frames \cup {NotPresent}]
    OBVIOUS
  <2>3. free_mem_start \in FreeStart .. MemPages /\ stack \in Seq(Activity)
    OBVIOUS
  <2>4. panicked \in BOOLEAN
    OBVIOUS
  <2> QED BY <2>1, <2>2, <2>3, <2>4, Zenon DEF TypeOK
<1>2. FramesOwned /\ NoAlias
  BY DEF FramesOwned, NoAlias, Mapped
<1>3. HandlersNested /\ LevelsHoldFrames
  BY DEF HandlersNested, LevelsHoldFrames
<1> QED BY <1>1, <1>2, <1>3 DEF IInv

\* A call of the running kernel keeps the invariant: a new mapping uses the frame at
\* the watermark, which no page has.
LEMMA CallInv == IInv /\ Call => IInv'
<1> SUFFICES ASSUME IInv, Call PROVE IInv'
  OBVIOUS
<1> USE MemoryAssumption DEF Low, Frames, Pages, Slots, NotPresent
<1>0. TypeOK /\ FramesOwned /\ NoAlias /\ HandlersNested /\ LevelsHoldFrames
  BY DEF IInv
<1>1. CASE \E virt \in Pages : MapNewPage(virt)
  <2> PICK virt \in Pages : MapNewPage(virt)
    BY <1>1
  <2>1. /\ free_mem_start < MemPages /\ free_mem_start' = free_mem_start + 1
        /\ map_page(free_mem_start, virt)
        /\ stack = <<>> /\ UNCHANGED <<swap_storage, stored, stack, panicked>>
    BY DEF MapNewPage, pmm_alloc_page, Running
  <2>2. TypeOK'
    BY <1>0, <2>1 DEF TypeOK, map_page
  <2>3. FramesOwned'
    BY <1>0, <2>1 DEF TypeOK, FramesOwned, Mapped, map_page
  <2>4. NoAlias'
    <3> SUFFICES ASSUME NEW p \in Low, NEW q \in Low, Mapped(p)',
                        first_page_table'[p] = first_page_table'[q]
                 PROVE  p = q
      BY DEF NoAlias
    <3>1. \A v \in Low : first_page_table'[v] =
              IF v = virt THEN free_mem_start ELSE first_page_table[v]
      BY <1>0, <2>1 DEF TypeOK, map_page
    <3>2. \A v \in Low : first_page_table[v] # free_mem_start
      <4> SUFFICES ASSUME NEW v \in Low PROVE first_page_table[v] # free_mem_start
        OBVIOUS
      <4>1. free_mem_start \in Nat /\ free_mem_start >= FreeStart
        BY <1>0 DEF TypeOK
      <4>2. CASE Mapped(v)
        BY <1>0, <4>1, <4>2 DEF FramesOwned
      <4>3. CASE ~Mapped(v)
        BY <4>1, <4>3 DEF Mapped
      <4> QED BY <4>2, <4>3
    <3> QED BY <1>0, <3>1, <3>2 DEF NoAlias, Mapped
  <2>5. HandlersNested' /\ LevelsHoldFrames'
    BY <2>1 DEF HandlersNested, LevelsHoldFrames
  <2> QED BY <2>2, <2>3, <2>4, <2>5 DEF IInv
<1>2. CASE \E virt \in Pages : UnmapPage(virt)
  BY <1>0, <1>2 DEF IInv, UnmapPage, unmap_page, Running, TypeOK, FramesOwned, NoAlias,
       HandlersNested, LevelsHoldFrames, Mapped
<1>3. CASE \E virt \in Pages, d \in Data : swap_test_store(virt, d)
  <2>1. TypeOK'
    BY <1>0, <1>3 DEF swap_test_store, TakeSlot, Least, TypeOK
  <2>2. UNCHANGED <<first_page_table, free_mem_start, stack>>
    BY <1>3 DEF swap_test_store
  <2> QED BY <1>0, <2>1, <2>2 DEF IInv, FramesOwned, NoAlias, HandlersNested,
            LevelsHoldFrames, Mapped, Top
<1>4. CASE \E virt, src \in Pages : swap_write(virt, src)
  <2> PICK virt \in Pages, src \in Pages : swap_write(virt, src)
    BY <1>4
  <2>1. swap_storage' \in [Slots -> [used : BOOLEAN, virt_addr : Pages, data : Data]]
    <3>1. CASE UNCHANGED swap_storage
      BY <1>0, <3>1 DEF TypeOK
    <3>2. CASE \E i \in Slots : TakeSlot(i, virt, swap_storage[i].data)
      <4> PICK i \in Slots : TakeSlot(i, virt, swap_storage[i].data)
        BY <3>2
      <4>1. swap_storage[i].data \in Data
        BY <1>0 DEF TypeOK
      <4> QED BY <1>0, <4>1 DEF TakeSlot, TypeOK
    <3> QED BY <3>1, <3>2 DEF swap_write
  <2>2. /\ stack' = <<[op |-> "swap_write", page |-> src, virt |-> virt]>>
        /\ UNCHANGED <<first_page_table, free_mem_start, stored, panicked>>
    BY DEF swap_write
  <2>3. TypeOK'
    BY <1>0, <2>1, <2>2 DEF TypeOK, Activity
  <2>4. HandlersNested' /\ LevelsHoldFrames'
    BY <1>0, <2>2 DEF TypeOK, HandlersNested, LevelsHoldFrames, Top, Last
  <2> QED BY <1>0, <2>2, <2>3, <2>4 DEF IInv, FramesOwned, NoAlias, Mapped
<1>5. CASE \E virt \in Pages : Access(virt)
  <2> PICK virt \in Pages : Access(virt)
    BY <1>5
  <2>1. /\ stack' = <<[op |-> "access", page |-> virt, virt |-> virt]>>
        /\ UNCHANGED <<first_page_table, free_mem_start, swap_storage, stored, panicked>>
    BY DEF Access
  <2>2. TypeOK'
    BY <1>0, <2>1 DEF TypeOK, Activity
  <2>3. HandlersNested' /\ LevelsHoldFrames'
    BY <1>0, <2>1 DEF TypeOK, HandlersNested, LevelsHoldFrames, Top, Last
  <2> QED BY <1>0, <2>1, <2>2, <2>3 DEF IInv, FramesOwned, NoAlias, Mapped
<1> QED BY <1>1, <1>2, <1>3, <1>4, <1>5 DEF Call

\* The current activity is the last of the stack; nothing but an access or a
\* swap_write ever finds its page mapped.
LEMMA TopFacts ==
    ASSUME IInv, stack # <<>>
    PROVE  /\ Len(stack) \in Nat \ {0} /\ Top = stack[Len(stack)] /\ Top \in Activity
           /\ Front(stack) = SubSeq(stack, 1, Len(stack) - 1)
           /\ Mapped(Top.page) => Top.op # "swap_read"
<1>1. stack \in Seq(Activity)
  BY DEF IInv, TypeOK
<1>2. Len(stack) \in Nat \ {0} /\ Top = stack[Len(stack)] /\ Top \in Activity
  BY <1>1 DEF Top, Last
<1>3. Front(stack) = SubSeq(stack, 1, Len(stack) - 1)
  BY DEF Front
<1>4. Top.op = "swap_read" => Top.page >= FreeStart
  BY <1>2 DEF IInv, HandlersNested
<1>5. Mapped(Top.page) => Top.op # "swap_read"
  BY <1>2, <1>4, MemoryAssumption DEF Mapped, Low, Activity, Pages
<1> QED BY <1>2, <1>3, <1>5

\* Below a page fault there is the activity of the kernel that caused the first one.
LEMMA HandlerAbove ==
    ASSUME IInv, stack # <<>>, Top.op = "fault"
    PROVE  1 \in 1 .. Len(stack) - 1 /\ stack[1].op \in {"access", "swap_write"}
<1>1. stack[1].op \in {"access", "swap_write"}
  BY DEF IInv, HandlersNested
<1>2. Len(stack) \in Nat \ {0} /\ Top = stack[Len(stack)]
  BY TopFacts
<1>3. Len(stack) # 1
  BY <1>1, <1>2
<1> QED BY <1>1, <1>2, <1>3

\* An access that finds its page, or enters the handler, keeps the invariant.
LEMMA TouchInv == IInv /\ Touch => IInv'
<1> SUFFICES ASSUME IInv, Touch PROVE IInv'
  OBVIOUS
<1> USE MemoryAssumption DEF Pages
<1>0. TypeOK /\ FramesOwned /\ NoAlias /\ HandlersNested /\ LevelsHoldFrames
  BY DEF IInv
<1>1. /\ Len(stack) \in Nat \ {0} /\ Top = stack[Len(stack)] /\ Top \in Activity
      /\ Front(stack) = SubSeq(stack, 1, Len(stack) - 1)
      /\ Mapped(Top.page) => Top.op # "swap_read"
  BY TopFacts DEF Touch
<1>2. /\ UNCHANGED <<first_page_table, free_mem_start, panicked>>
      /\ Top.op # "fault"
  BY <1>1 DEF Touch
<1>3. FramesOwned' /\ NoAlias'
  BY <1>0, <1>2 DEF FramesOwned, NoAlias, Mapped
<1>4. /\ swap_storage' \in [Slots -> [used : BOOLEAN, virt_addr : Pages, data : Data]]
      /\ stored' \in [Pages -> SUBSET Data]
  <2>1. CASE UNCHANGED <<swap_storage, stored>>
    BY <1>0, <2>1 DEF TypeOK
  <2>2. CASE StorePage(Top.virt)
    <3>1. PICK i \in Slots, d \in Data :
             /\ swap_storage' = [swap_storage EXCEPT ![i].data = d]
             /\ stored' = [stored EXCEPT ![Top.virt] = {d}]
      BY <2>2 DEF StorePage
    <3>2. swap_storage' \in [Slots -> [used : BOOLEAN, virt_addr : Pages, data : Data]]
      BY <1>0, <3>1 DEF TypeOK
    <3>3. stored \in [Pages -> SUBSET Data] /\ {d} \in SUBSET Data
      BY <1>0 DEF TypeOK
    <3>4. stored' \in [Pages -> SUBSET Data]
      BY <3>1, <3>3
    <3> QED BY <3>2, <3>4
  <2> QED BY <2>1, <2>2 DEF Touch
<1>5. CASE Mapped(Top.page)
  <2>1. stack' = SubSeq(stack, 1, Len(stack) - 1)
    BY <1>1, <1>5 DEF Touch
  <2>2. /\ stack' \in Seq(Activity)
        /\ Len(stack') = Len(stack) - 1
        /\ \A k \in 1 .. Len(stack) - 1 : stack'[k] = stack[k]
    BY <1>0, <1>1, <2>1, FrontFacts DEF TypeOK
  <2>3. TypeOK'
    BY <1>0, <1>2, <1>4, <2>2 DEF TypeOK
  <2>4. HandlersNested'
    BY <1>0, <1>1, <2>2, SMTT(40) DEF HandlersNested
  <2>5. LevelsHoldFrames'
    BY <1>0, <1>1, <1>2, <2>2 DEF LevelsHoldFrames, TypeOK
  <2> QED BY <1>3, <2>3, <2>4, <2>5 DEF IInv
<1>6. CASE ~Mapped(Top.page)
  <2> DEFINE f == [op |-> "fault", page |-> Top.page, virt |-> Top.page]
  <2>1. stack' = Append(stack, f)
    BY <1>6 DEF Touch
  <2>2. f \in Activity
    BY <1>1 DEF Activity
  <2>3. /\ stack' \in Seq(Activity)
        /\ Len(stack') = Len(stack) + 1
        /\ stack'[Len(stack) + 1] = f
        /\ \A k \in 1 .. Len(stack) : stack'[k] = stack[k]
    BY <1>0, <1>1, <2>1, <2>2 DEF TypeOK
  <2>4. f.op = "fault"
    OBVIOUS
  <2> HIDE DEF f
  <2>5. TypeOK'
    BY <1>0, <1>2, <1>4, <2>3 DEF TypeOK
  <2>6. HandlersNested'
    <3>1. ASSUME NEW k \in 1 .. Len(stack')
          PROVE  k \in 1 .. Len(stack) \/ (k = Len(stack) + 1 /\ stack'[k].op = "fault")
      BY <1>1, <2>3, <2>4
    <3>2. \A k \in 2 .. Len(stack') : stack'[k].op \in {"fault", "swap_read"}
      <4> TAKE k \in 2 .. Len(stack')
      <4>1. CASE k \in 1 .. Len(stack)
        BY <1>0, <2>3, <4>1 DEF HandlersNested
      <4> QED BY <1>1, <2>3, <3>1, <4>1
    <3>3. \A k \in 1 .. Len(stack') : stack'[k].op = "swap_read" => stack'[k].page >= FreeStart
      <4> TAKE k \in 1 .. Len(stack')
      <4>1. CASE k \in 1 .. Len(stack)
        BY <1>0, <2>3, <4>1 DEF HandlersNested
      <4> QED BY <3>1, <4>1
    <3>4. stack'[1].op \in {"access", "swap_write"}
      <4>1. 1 \in 1 .. Len(stack) /\ stack # <<>>
        BY <1>1
      <4>2. stack[1].op \in {"access", "swap_write"}
        BY <1>0, <4>1 DEF HandlersNested
      <4> QED BY <2>3, <4>1, <4>2
    <3> QED BY <3>2, <3>3, <3>4, Zenon DEF HandlersNested
  <2>7. LevelsHoldFrames'
    BY <1>0, <1>1, <1>2, <2>3, <2>4 DEF LevelsHoldFrames, TypeOK, Top, Last
  <2> QED BY <1>3, <2>5, <2>6, <2>7 DEF IInv
<1> QED BY <1>5, <1>6

\* The handler keeps the invariant: a level gets a frame, or the machine stops.
LEMMA HandlerInv == IInv /\ page_fault_handler => IInv'
<1> SUFFICES ASSUME IInv, page_fault_handler PROVE IInv'
  OBVIOUS
<1> USE MemoryAssumption DEF Pages
<1>0. TypeOK /\ FramesOwned /\ NoAlias /\ HandlersNested /\ LevelsHoldFrames
  BY DEF IInv
<1>1. /\ Len(stack) \in Nat \ {0} /\ Top = stack[Len(stack)] /\ Top \in Activity
      /\ Front(stack) = SubSeq(stack, 1, Len(stack) - 1)
      /\ Top.op = "fault"
      /\ UNCHANGED <<first_page_table, swap_storage, stored>>
  BY TopFacts DEF page_fault_handler
<1>2. CASE swap_exists(Top.virt) /\ free_mem_start < MemPages
  <2> DEFINE r == [op |-> "swap_read", page |-> free_mem_start, virt |-> Top.virt]
  <2>1. /\ free_mem_start' = free_mem_start + 1
        /\ stack' = Append(SubSeq(stack, 1, Len(stack) - 1), r)
        /\ UNCHANGED panicked
    BY <1>1, <1>2 DEF page_fault_handler, pmm_alloc_page
  <2>2. r \in Activity /\ r.op = "swap_read" /\ r.page >= FreeStart
    BY <1>0, <1>1, <1>2 DEF Activity, TypeOK
  <2> HIDE DEF r
  <2>3. /\ stack' \in Seq(Activity)
        /\ Len(stack') = Len(stack)
        /\ stack'[Len(stack)] = r
        /\ \A k \in 1 .. Len(stack) - 1 : stack'[k] = stack[k]
    <3> DEFINE below == SubSeq(stack, 1, Len(stack) - 1)
    <3>1. /\ below \in Seq(Activity) /\ Len(below) = Len(stack) - 1
          /\ \A k \in 1 .. Len(stack) - 1 : below[k] = stack[k]
      BY <1>0, <1>1, FrontFacts DEF TypeOK
    <3> HIDE DEF below
    <3>2. stack' = Append(below, r)
      BY <2>1 DEF below
    <3> QED BY <1>1, <2>2, <3>1, <3>2
  <2>4. TypeOK'
    BY <1>0, <1>1, <1>2, <2>1, <2>3 DEF TypeOK
  <2>5. FramesOwned' /\ NoAlias'
    BY <1>0, <1>1, <2>1 DEF FramesOwned, NoAlias, Mapped, TypeOK, Frames, NotPresent
  <2>6. HandlersNested'
    <3>1. \A k \in 2 .. Len(stack') : stack'[k].op \in {"fault", "swap_read"}
      <4> TAKE k \in 2 .. Len(stack')
      <4>1. CASE k \in 1 .. Len(stack) - 1
        BY <1>0, <1>1, <2>3, <4>1 DEF HandlersNested
      <4>2. CASE k = Len(stack)
        BY <2>2, <2>3, <4>2
      <4> QED BY <1>1, <2>3, <4>1, <4>2
    <3>2. \A k \in 1 .. Len(stack') : stack'[k].op = "swap_read" => stack'[k].page >= FreeStart
      <4> TAKE k \in 1 .. Len(stack')
      <4>1. CASE k \in 1 .. Len(stack) - 1
        BY <1>0, <1>1, <2>3, <4>1 DEF HandlersNested
      <4>2. CASE k = Len(stack)
        BY <2>2, <2>3, <4>2
      <4> QED BY <1>1, <2>3, <4>1, <4>2
    <3>3. stack'[1].op \in {"access", "swap_write"}
      BY <1>0, <1>1, <2>3, HandlerAbove DEF page_fault_handler
    <3> QED BY <3>1, <3>2, <3>3, Zenon DEF HandlersNested
  <2>7. LevelsHoldFrames'
    BY <1>0, <1>1, <2>1, <2>2, <2>3 DEF LevelsHoldFrames, TypeOK, Top, Last
  <2> QED BY <2>4, <2>5, <2>6, <2>7 DEF IInv
<1>3. CASE ~(swap_exists(Top.virt) /\ free_mem_start < MemPages)
  <2>1. panicked' = TRUE /\ UNCHANGED <<free_mem_start, stack>>
    BY <1>3 DEF page_fault_handler
  <2> QED BY <1>0, <1>1, <2>1 DEF IInv, TypeOK, FramesOwned, NoAlias, Mapped,
            HandlersNested, LevelsHoldFrames, Top
<1> QED BY <1>2, <1>3

\* Every step keeps the invariant.
LEMMA StepInv == IInv /\ [Next]_vars => IInv'
<1> SUFFICES ASSUME IInv, [Next]_vars PROVE IInv'
  OBVIOUS
<1>1. CASE UNCHANGED vars
  BY <1>1 DEF vars, IInv, TypeOK, FramesOwned, NoAlias, Mapped, HandlersNested,
       LevelsHoldFrames, Top
<1> QED BY <1>1, CallInv, TouchInv, HandlerInv DEF Next

\* The invariant holds in every behaviour of the memory system.
THEOREM Invariance == Spec => []IInv
  BY InitInv, StepInv, PTL DEF Spec

\* Type correctness, for every machine.
THEOREM MemoryTyping == Spec => []TypeOK
<1>1. IInv => TypeOK
  BY DEF IInv
<1> QED BY Invariance, <1>1, PTL

\* No two pages share a frame, for every size of memory, page table and swap.
THEOREM NoAliasing == Spec => []NoAlias
<1>1. IInv => NoAlias
  BY DEF IInv
<1> QED BY Invariance, <1>1, PTL

\* The handler's nesting is bounded by the frames given out.
THEOREM BoundedNesting == Spec => []NestingBounded
<1>1. IInv => NestingBounded
  <2> SUFFICES ASSUME IInv PROVE NestingBounded
    OBVIOUS
  <2>1. free_mem_start \in Int /\ FreeStart \in Int /\ free_mem_start >= FreeStart
    BY MemoryAssumption DEF IInv, TypeOK
  <2>2. CASE stack = <<>>
    BY <2>1, <2>2 DEF NestingBounded
  <2>3. CASE stack # <<>>
    BY <2>1, <2>3, TopFacts DEF NestingBounded, IInv, LevelsHoldFrames
  <2> QED BY <2>2, <2>3
<1> QED BY Invariance, <1>1, PTL

\* On no machine does page_fault_handler return: demand paging never completes,
\* because the allocator starts above the pages paging_init maps.
THEOREM NeverServed == Spec => HandlerNeverReturns
<1>1. IInv /\ [Next]_vars => [Len(stack') < Len(stack) => Len(stack) = 1]_vars
  <2> SUFFICES ASSUME IInv, Next, Len(stack') < Len(stack) PROVE Len(stack) = 1
    BY DEF vars
  <2>0. stack \in Seq(Activity)
    BY DEF IInv, TypeOK
  <2>1. ~Call
    BY <2>0 DEF Call, MapNewPage, UnmapPage, swap_test_store, swap_write, Access, Running
  <2>2. stack # <<>>
    BY <2>1 DEF Next, Touch, page_fault_handler
  <2>3. /\ Len(stack) \in Nat \ {0} /\ Top = stack[Len(stack)] /\ Top \in Activity
        /\ Front(stack) = SubSeq(stack, 1, Len(stack) - 1)
        /\ Mapped(Top.page) => Top.op # "swap_read"
    BY <2>2, TopFacts
  <2>4. ~page_fault_handler
    <3> SUFFICES ASSUME page_fault_handler PROVE FALSE
      OBVIOUS
    <3>1. \/ UNCHANGED stack
          \/ \E r \in Activity : stack' = Append(SubSeq(stack, 1, Len(stack) - 1), r)
      <4>1. CASE swap_exists(Top.virt) /\ free_mem_start < MemPages
        BY <2>3, <4>1 DEF page_fault_handler, Activity
      <4>2. CASE ~(swap_exists(Top.virt) /\ free_mem_start < MemPages)
        BY <4>2 DEF page_fault_handler
      <4> QED BY <4>1, <4>2
    <3> QED BY <2>0, <2>3, <3>1
  <2>5. Touch
    BY <2>1, <2>4 DEF Next
  <2>6. Mapped(Top.page)
    <3> SUFFICES ASSUME ~Mapped(Top.page) PROVE FALSE
      OBVIOUS
    <3>1. stack' = Append(stack, [op |-> "fault", page |-> Top.page, virt |-> Top.page])
      BY <2>5 DEF Touch
    <3> QED BY <2>0, <2>3, <3>1
  <2>7. Top.op \notin {"fault", "swap_read"}
    BY <2>3, <2>5, <2>6 DEF Touch
  <2>8. \A k \in 2 .. Len(stack) : stack[k].op \in {"fault", "swap_read"}
    BY DEF IInv, HandlersNested
  <2>9. Len(stack) \notin 2 .. Len(stack)
    BY <2>3, <2>7, <2>8, Zenon
  <2>10. Len(stack) \in Nat /\ Len(stack) # 0
    BY <2>3
  <2> DEFINE n == Len(stack)
  <2>11. n \in Nat /\ n # 0 /\ n \notin 2 .. n
    BY <2>9, <2>10
  <2> HIDE DEF n
  <2>12. n = 1
    BY <2>11
  <2> QED BY <2>12 DEF n
<1> QED BY Invariance, <1>1, PTL DEF Spec, HandlerNeverReturns

-------------------------------------------------------------------------------
(* The swap. *)

SwapType == swap_storage \in [Slots -> [used : BOOLEAN, virt_addr : Pages, data : Data]]

\* Slot i, which was free, now holds data for virt.
Taken(i, virt, data) == virt \in Pages /\ data \in Data /\ TakeSlot(i, virt, data)

\* The four things a step can do to the swap and to the activity that writes to it.
SwapLeft ==
    /\ UNCHANGED <<swap_storage, stored>>
    /\ \A virt \in Pages : BeingWritten(virt) => BeingWritten(virt)'

TestStored(i, virt, data) ==
    /\ stack = <<>> /\ Taken(i, virt, data)
    /\ stored' = [stored EXCEPT ![virt] = {data}]

WriteBegun(i, virt, data) ==
    /\ stack = <<>> /\ Taken(i, virt, data) /\ ~swap_exists(virt)
    /\ UNCHANGED stored
    /\ BeingWritten(virt)'

WriteDone(i, virt, data) ==
    /\ virt \in Pages /\ BeingWritten(virt) /\ swap_find_index(virt, i)
    /\ swap_storage' = [swap_storage EXCEPT ![i].data = data]
    /\ stored' = [stored EXCEPT ![virt] = {data}]

LEMMA SwapSteps ==
    ASSUME IInv, [Next]_vars
    PROVE  \/ SwapLeft
           \/ \E i \in Slots : \E virt, data : \/ TestStored(i, virt, data)
                                              \/ WriteBegun(i, virt, data)
                                              \/ WriteDone(i, virt, data)
<1>0. SwapType /\ stack \in Seq(Activity)
  BY DEF IInv, TypeOK, SwapType
<1>1. CASE UNCHANGED vars
  BY <1>1 DEF vars, SwapLeft, BeingWritten
<1>2. CASE \E virt \in Pages : MapNewPage(virt) \/ UnmapPage(virt)
  BY <1>2 DEF MapNewPage, UnmapPage, SwapLeft, BeingWritten
<1>3. CASE \E virt \in Pages : Access(virt)
  BY <1>3 DEF Access, Running, SwapLeft, BeingWritten
<1>4. CASE \E virt \in Pages, d \in Data : swap_test_store(virt, d)
  <2>1. PICK virt \in Pages, d \in Data : swap_test_store(virt, d)
    BY <1>4
  <2>2. PICK i \in Slots : TakeSlot(i, virt, d)
    BY <2>1 DEF swap_test_store
  <2>3. TestStored(i, virt, d)
    BY <2>1, <2>2 DEF swap_test_store, Running, TestStored, Taken
  <2> QED BY <2>3
<1>5. CASE \E virt, src \in Pages : swap_write(virt, src)
  <2>1. PICK virt \in Pages, src \in Pages : swap_write(virt, src)
    BY <1>5
  <2>2. /\ stack = <<>> /\ stack' = <<[op |-> "swap_write", page |-> src, virt |-> virt]>>
        /\ UNCHANGED stored
    BY <2>1 DEF swap_write, Running
  <2>3. CASE UNCHANGED swap_storage
    BY <2>2, <2>3 DEF SwapLeft, BeingWritten
  <2>4. CASE ~swap_exists(virt) /\ \E i \in Slots : TakeSlot(i, virt, swap_storage[i].data)
    <3>1. PICK i \in Slots : TakeSlot(i, virt, swap_storage[i].data)
      BY <2>4
    <3>2. swap_storage[i].data \in Data
      BY <1>0 DEF SwapType
    <3>3. BeingWritten(virt)'
      BY <2>2 DEF BeingWritten
    <3>4. WriteBegun(i, virt, swap_storage[i].data)
      BY <2>2, <2>4, <3>1, <3>2, <3>3 DEF WriteBegun, Taken
    <3> QED BY <3>4
  <2> QED BY <2>1, <2>3, <2>4 DEF swap_write
<1>6. CASE Touch
  <2>1. /\ Len(stack) \in Nat \ {0} /\ Top = stack[Len(stack)] /\ Top \in Activity
        /\ Front(stack) = SubSeq(stack, 1, Len(stack) - 1)
        /\ Mapped(Top.page) => Top.op # "swap_read"
        /\ Top.op # "fault" /\ stack # <<>>
    BY <1>6, TopFacts DEF Touch
  <2>2. CASE ~Mapped(Top.page)
    <3>1. /\ UNCHANGED <<swap_storage, stored>>
          /\ stack' = Append(stack, [op |-> "fault", page |-> Top.page, virt |-> Top.page])
      BY <1>6, <2>2 DEF Touch
    <3>2. stack' # <<>> /\ stack'[1] = stack[1]
      BY <1>0, <2>1, <3>1
    <3> QED BY <3>1, <3>2 DEF SwapLeft, BeingWritten
  <2>3. CASE Mapped(Top.page)
    <3>1. Top.op \in {"access", "swap_write"}
      BY <2>1, <2>3 DEF Activity
    <3>2. Top = stack[1]
      <4>1. Len(stack) \notin 2 .. Len(stack)
        <5>1. \A k \in 2 .. Len(stack) : stack[k].op \in {"fault", "swap_read"}
          BY DEF IInv, HandlersNested
        <5> QED BY <2>1, <3>1, <5>1
      <4>2. Len(stack) = 1
        <5> DEFINE n == Len(stack)
        <5>1. n \in Nat \ {0} /\ n \notin 2 .. n
          BY <2>1, <4>1
        <5> HIDE DEF n
        <5>2. n = 1
          BY <5>1
        <5> QED BY <5>2 DEF n
      <4> QED BY <2>1, <4>2
    <3>3. CASE Top.op = "access"
      BY <1>6, <2>3, <3>2, <3>3 DEF Touch, SwapLeft, BeingWritten
    <3>4. CASE Top.op = "swap_write"
      <4>1. StorePage(Top.virt) /\ BeingWritten(Top.virt) /\ Top.virt \in Pages
        BY <1>6, <2>1, <2>3, <3>2, <3>4 DEF Touch, BeingWritten, Activity
      <4>2. PICK i \in Slots, d \in Data :
               /\ swap_find_index(Top.virt, i)
               /\ swap_storage' = [swap_storage EXCEPT ![i].data = d]
               /\ stored' = [stored EXCEPT ![Top.virt] = {d}]
        BY <4>1 DEF StorePage
      <4>3. WriteDone(i, Top.virt, d)
        BY <4>1, <4>2 DEF WriteDone
      <4> QED BY <4>3
    <3> QED BY <3>1, <3>3, <3>4
  <2> QED BY <2>2, <2>3
<1>7. CASE page_fault_handler
  <2>1. UNCHANGED <<swap_storage, stored>> /\ stack # <<>> /\ Top.op = "fault"
    BY <1>7 DEF page_fault_handler
  <2>2. stack' # <<>> /\ stack'[1] = stack[1]
    <3>1. CASE UNCHANGED stack
      BY <2>1, <3>1
    <3>2. CASE \E r \in Activity : stack' = Append(SubSeq(stack, 1, Len(stack) - 1), r)
      <4> DEFINE below == SubSeq(stack, 1, Len(stack) - 1)
      <4>1. PICK r \in Activity : stack' = Append(below, r)
        BY <3>2
      <4>2. 1 \in 1 .. Len(stack) - 1 /\ Len(stack) # 0 /\ Len(stack) \in Nat
        BY <2>1, HandlerAbove, TopFacts
      <4>3. /\ below \in Seq(Activity) /\ Len(below) = Len(stack) - 1
            /\ below[1] = stack[1]
        BY <1>0, <4>2, FrontFacts
      <4> HIDE DEF below
      <4> QED BY <4>1, <4>2, <4>3
    <3>3. \/ UNCHANGED stack
          \/ \E r \in Activity : stack' = Append(SubSeq(stack, 1, Len(stack) - 1), r)
      <4>0. Top \in Activity /\ Front(stack) = SubSeq(stack, 1, Len(stack) - 1)
        BY <2>1, TopFacts
      <4>1. CASE swap_exists(Top.virt) /\ free_mem_start < MemPages
        BY <1>7, <4>0, <4>1 DEF page_fault_handler, Activity
      <4>2. CASE ~(swap_exists(Top.virt) /\ free_mem_start < MemPages)
        BY <1>7, <4>2 DEF page_fault_handler
      <4> QED BY <4>1, <4>2
    <3> QED BY <3>1, <3>2, <3>3
  <2> QED BY <2>1, <2>2 DEF SwapLeft, BeingWritten
<1> QED BY <1>1, <1>2, <1>3, <1>4, <1>5, <1>6, <1>7 DEF Next, Call

\* Taking a slot for a page leaves the slots of the other pages alone.
LEMMA TakenFacts ==
    ASSUME SwapType, NEW i \in Slots, NEW virt, NEW data, Taken(i, virt, data)
    PROVE  /\ \A v \in Pages : i \notin SlotsOf(v)
           /\ \A v \in Pages \ {virt} : SlotsOf(v)' = SlotsOf(v)
           /\ SlotsOf(virt)' = SlotsOf(virt) \cup {i}
           /\ swap_storage'[i].data = data
           /\ \A j \in Slots : j # i => swap_storage'[j] = swap_storage[j]
<1>1. ~swap_storage[i].used
  BY DEF Taken, TakeSlot, Least, FreeSlots
<1>2. /\ swap_storage'[i] = [used |-> TRUE, virt_addr |-> virt, data |-> data]
      /\ \A j \in Slots : j # i => swap_storage'[j] = swap_storage[j]
  BY DEF Taken, TakeSlot, SwapType
<1>3. swap_storage'[i].used /\ swap_storage'[i].virt_addr = virt /\ swap_storage'[i].data = data
  BY <1>2
<1>4. \A v \in Pages : i \notin SlotsOf(v)
  BY <1>1 DEF SlotsOf
<1>5. \A v \in Pages \ {virt} : SlotsOf(v)' = SlotsOf(v)
  BY <1>1, <1>2, <1>3 DEF SlotsOf
<1>6. SlotsOf(virt)' = SlotsOf(virt) \cup {i}
  BY <1>1, <1>2, <1>3 DEF SlotsOf
<1> QED BY <1>2, <1>3, <1>4, <1>5, <1>6

\* SwapHoldsLast for one page.
Holds(virt) ==
    /\ stored[virt] # {} => SlotsOf(virt) # {}
    /\ \A i \in Slots : swap_find_index(virt, i) =>
         \/ stored[virt] = {swap_storage[i].data}
         \/ SlotsOf(virt) # {i}
         \/ BeingWritten(virt)

LEMMA HoldsAll == SwapHoldsLast <=> \A virt \in Pages : Holds(virt)
  BY DEF SwapHoldsLast, Holds, swap_exists

LEMMA HoldsAllNext == (\A virt \in Pages : Holds(virt)') => SwapHoldsLast'
  BY DEF SwapHoldsLast, Holds, swap_exists

\* Same slots, same contents, same record: the page is as well off as before.
LEMMA HoldsStays ==
    ASSUME NEW v \in Pages, Holds(v), SlotsOf(v)' = SlotsOf(v), stored'[v] = stored[v],
           \A j \in SlotsOf(v) : swap_storage'[j].data = swap_storage[j].data,
           BeingWritten(v) => BeingWritten(v)'
    PROVE  Holds(v)'
<1>1. stored'[v] # {} => SlotsOf(v)' # {}
  BY DEF Holds
<1>2. ASSUME NEW i \in Slots, swap_find_index(v, i)'
      PROVE  \/ stored'[v] = {swap_storage'[i].data}
             \/ SlotsOf(v)' # {i}
             \/ BeingWritten(v)'
  <2>1. i \in SlotsOf(v)' /\ \A j \in SlotsOf(v)' : i <= j
    BY <1>2 DEF swap_find_index, Least
  <2>2. swap_find_index(v, i) /\ swap_storage'[i].data = swap_storage[i].data
    BY <2>1 DEF swap_find_index, Least
  <2> QED BY <2>2 DEF Holds
<1> QED BY <1>1, <1>2 DEF Holds

LEMMA HoldsNext ==
    ASSUME IInv, SwapHoldsLast, [Next]_vars
    PROVE  SwapHoldsLast'
<1>0. SwapType /\ stored \in [Pages -> SUBSET Data]
  BY DEF IInv, TypeOK, SwapType
<1> SUFFICES ASSUME NEW v \in Pages PROVE Holds(v)'
  BY HoldsAllNext
<1>1. Holds(v)
  BY HoldsAll
<1>2. CASE SwapLeft
  <2>1. SlotsOf(v)' = SlotsOf(v)
    BY <1>2 DEF SwapLeft, SlotsOf
  <2> QED BY <1>1, <1>2, <2>1, HoldsStays DEF SwapLeft
<1>3. ASSUME NEW i \in Slots, NEW virt, NEW data, TestStored(i, virt, data)
      PROVE  Holds(v)'
  <2>1. Taken(i, virt, data) /\ virt \in Pages /\ ~BeingWritten(v)
        /\ stored' = [stored EXCEPT ![virt] = {data}]
    BY <1>3 DEF TestStored, Taken, BeingWritten
  <2>2. /\ i \notin SlotsOf(v) /\ (v # virt => SlotsOf(v)' = SlotsOf(v))
        /\ SlotsOf(virt)' = SlotsOf(virt) \cup {i}
        /\ swap_storage'[i].data = data
        /\ \A j \in Slots : j # i => swap_storage'[j] = swap_storage[j]
    BY <1>0, <2>1, TakenFacts
  <2>3. CASE v # virt
    <3>1. \A j \in SlotsOf(v) : swap_storage'[j].data = swap_storage[j].data
      BY <2>2 DEF SlotsOf
    <3>2. stored'[v] = stored[v]
      BY <1>0, <2>1, <2>3
    <3> QED BY <1>1, <2>1, <2>2, <2>3, <3>1, <3>2, HoldsStays
  <2>4. CASE v = virt
    <3>1. stored'[v] = {data} /\ SlotsOf(v)' # {}
      BY <1>0, <2>1, <2>2, <2>4
    <3>2. ASSUME NEW k \in Slots, swap_find_index(v, k)'
          PROVE  stored'[v] = {swap_storage'[k].data} \/ SlotsOf(v)' # {k}
      <4>1. CASE k = i
        BY <2>2, <3>1, <4>1
      <4>2. CASE k # i
        BY <2>2, <2>4, <4>2
      <4> QED BY <4>1, <4>2
    <3> QED BY <3>1, <3>2 DEF Holds
  <2> QED BY <2>3, <2>4
<1>4. ASSUME NEW i \in Slots, NEW virt, NEW data, WriteBegun(i, virt, data)
      PROVE  Holds(v)'
  <2>1. Taken(i, virt, data) /\ virt \in Pages /\ ~BeingWritten(v) /\ BeingWritten(virt)'
        /\ UNCHANGED stored
    BY <1>4 DEF WriteBegun, Taken, BeingWritten
  <2>2. /\ i \notin SlotsOf(v) /\ (v # virt => SlotsOf(v)' = SlotsOf(v))
        /\ SlotsOf(virt)' = SlotsOf(virt) \cup {i}
        /\ \A j \in Slots : j # i => swap_storage'[j] = swap_storage[j]
    BY <1>0, <2>1, TakenFacts
  <2>3. CASE v # virt
    <3>1. \A j \in SlotsOf(v) : swap_storage'[j].data = swap_storage[j].data
      BY <2>2 DEF SlotsOf
    <3> QED BY <1>1, <2>1, <2>2, <2>3, <3>1, HoldsStays
  <2>4. CASE v = virt
    BY <2>1, <2>2, <2>4 DEF Holds
  <2> QED BY <2>3, <2>4
<1>5. ASSUME NEW i \in Slots, NEW virt, NEW data, WriteDone(i, virt, data)
      PROVE  Holds(v)'
  <2>1. /\ virt \in Pages /\ BeingWritten(virt) /\ swap_find_index(virt, i)
        /\ swap_storage' = [swap_storage EXCEPT ![i].data = data]
        /\ stored' = [stored EXCEPT ![virt] = {data}]
    BY <1>5 DEF WriteDone
  <2>2. /\ \A j \in Slots : swap_storage'[j].used = swap_storage[j].used
        /\ \A j \in Slots : swap_storage'[j].virt_addr = swap_storage[j].virt_addr
        /\ \A j \in Slots : j # i => swap_storage'[j] = swap_storage[j]
        /\ swap_storage'[i].data = data
    BY <1>0, <2>1 DEF SwapType
  <2>3. SlotsOf(v)' = SlotsOf(v)
    BY <2>2 DEF SlotsOf
  <2>4. CASE v # virt
    <3>1. i \notin SlotsOf(v)
      BY <2>1, <2>4 DEF swap_find_index, Least, SlotsOf
    <3>2. \A j \in SlotsOf(v) : swap_storage'[j].data = swap_storage[j].data
      BY <2>2, <3>1 DEF SlotsOf
    <3>3. stored'[v] = stored[v] /\ ~BeingWritten(v)
      BY <1>0, <2>1, <2>4 DEF BeingWritten
    <3> QED BY <1>1, <2>3, <3>2, <3>3, HoldsStays
  <2>5. CASE v = virt
    <3>1. stored'[v] = {data} /\ i \in SlotsOf(v)
      BY <1>0, <2>1, <2>5 DEF swap_find_index, Least
    <3>2. ASSUME NEW k \in Slots, swap_find_index(v, k)'
          PROVE  k = i
      <4>1. k \in SlotsOf(v) /\ \A j \in SlotsOf(v) : k <= j
        BY <2>3, <3>2 DEF swap_find_index, Least
      <4>2. i \in SlotsOf(v) /\ \A j \in SlotsOf(v) : i <= j
        BY <2>1, <2>5 DEF swap_find_index, Least
      <4>3. k <= i /\ i <= k /\ k \in Int /\ i \in Int
        BY <4>1, <4>2, MemoryAssumption DEF Slots
      <4> QED BY <4>3
    <3> QED BY <2>2, <2>3, <3>1, <3>2 DEF Holds
  <2> QED BY <2>4, <2>5
<1> QED BY <1>2, <1>3, <1>4, <1>5, SwapSteps

\* For every size of the swap, of the memory and of the page table: what the swap
\* gives back for a page is what was stored for it last, but for a page that
\* swap_test_store stored twice and one that a swap_write has not copied yet.
THEOREM SwapKeepsLast == Spec => []SwapHoldsLast
<1>1. Init => SwapHoldsLast
  BY DEF Init, paging_init, SwapHoldsLast, swap_find_index, Least, SlotsOf, swap_exists
<1>2. IInv /\ SwapHoldsLast /\ [Next]_vars => SwapHoldsLast'
  BY HoldsNext
<1> QED BY <1>1, <1>2, Invariance, PTL DEF Spec
===============================================================================
