---------------------------- MODULE VirtualMemory -----------------------------
(***************************************************************************)
(* Demand paging in MOKernel: the page table (paging.c), the watermark     *)
(* allocator of physical frames (pmm.c), the simulated swap (swap.c) and   *)
(* the page fault handler that ties them together.                         *)
(*                                                                         *)
(* Addresses are page numbers; the code clears the offset everywhere.      *)
(* Only page directory entry 0 is ever present, so a page is mapped if it  *)
(* is below PAGE_ENTRIES and its entry in first_page_table is present.     *)
(* With paging on every pointer is a virtual address: the loops in         *)
(* swap_read and swap_write that copy to or from a "physical" address      *)
(* fault like any other access when the page of that number is unmapped.   *)
(*                                                                         *)
(* The CPU's activities form a stack: an access of the running kernel or   *)
(* a swap_write, and the page fault handlers nested on top of it.  The     *)
(* kernel calls unmap_page, swap_write and swap_test_store through their   *)
(* headers, in any order, and map_page the way page_fault_handler does,    *)
(* with a frame it just got from pmm_alloc_page: a caller that maps a      *)
(* frame of its own choice is not modelled.  Pages that hold the kernel's  *)
(* own code and tables, which no caller may unmap, are left out of the     *)
(* numbering.  Page contents are opaque.                                   *)
(***************************************************************************)
EXTENDS Integers, Sequences, SequencesExt

CONSTANTS
    PAGE_ENTRIES,    \* pages of the first page table (1024)
    FreeStart,       \* first frame pmm_alloc_page hands out (0x00400000, frame 1024)
    MemPages,        \* frames of the machine (0x1000000, 4096)
    LastPage,        \* the last virtual page (2^20 - 1)
    SWAP_MAX_PAGES,  \* slots of the swap (256)
    Data,            \* contents of a page
    Zero             \* a page of zeros: a slot of the swap never written to

ASSUME MemoryAssumption ==
    /\ PAGE_ENTRIES \in Nat /\ FreeStart \in Nat /\ MemPages \in Nat
    /\ LastPage \in Nat /\ SWAP_MAX_PAGES \in Nat
    /\ PAGE_ENTRIES <= FreeStart    \* allocation starts above the identity-mapped 4 MB
    /\ FreeStart <= MemPages
    /\ MemPages <= LastPage + 1
    /\ Zero \in Data

VARIABLES
    first_page_table,  \* page -> frame, or NotPresent
    free_mem_start,    \* the watermark of the allocator
    swap_storage,      \* slot -> [used, virt_addr, data]
    stored,            \* history: what the last call that stored a page gave, {} if none
    stack,             \* activities of the CPU, the current one last
    panicked           \* the handler has stopped the machine

vars == <<first_page_table, free_mem_start, swap_storage, stored, stack, panicked>>

Pages  == 0 .. LastPage
Low    == 0 .. PAGE_ENTRIES - 1
Frames == 0 .. MemPages - 1
Slots  == 0 .. SWAP_MAX_PAGES - 1
NotPresent == -1

\* The page directory has one present entry, the first.
Mapped(page) == page \in Low /\ first_page_table[page] # NotPresent

\* An activity touches one page at a time: the page accessed ("access"), the
\* source of a swap_write, the destination of a swap_read, or the page a handler
\* was entered for ("fault"). virt is the page swapped out or loaded.
Activity == [op : {"access", "swap_write", "fault", "swap_read"}, page : Pages, virt : Pages]

Running == stack = <<>> /\ ~panicked

-------------------------------------------------------------------------------
(* Frames and mappings. *)

\* Variant of pmm_alloc_page that forgets to move the watermark.
pmm_alloc_page_Stuck(frame) ==
    /\ free_mem_start < MemPages
    /\ frame = free_mem_start
    /\ UNCHANGED free_mem_start

\* Variant of pmm_alloc_page without the test against the end of the memory.
pmm_alloc_page_NoLimit(frame) ==
    /\ frame = free_mem_start
    /\ free_mem_start' = free_mem_start + 1

\* pmm_alloc_page() returns frame; it returns 0 when the memory is used up.
\* pmm_free_page does nothing.
pmm_alloc_page(frame) ==
    /\ free_mem_start < MemPages
    /\ frame = free_mem_start
    /\ free_mem_start' = free_mem_start + 1

\* Without a page table for virt, map_page returns silently.
map_page(frame, virt) ==
    first_page_table' = IF virt \in Low THEN [first_page_table EXCEPT ![virt] = frame]
                        ELSE first_page_table

unmap_page(virt) ==
    first_page_table' = IF virt \in Low THEN [first_page_table EXCEPT ![virt] = NotPresent]
                        ELSE first_page_table

-------------------------------------------------------------------------------
(* The swap. *)

SlotsOf(virt) == {i \in Slots : swap_storage[i].used /\ swap_storage[i].virt_addr = virt}

FreeSlots == {i \in Slots : ~swap_storage[i].used}

Least(S, i) == i \in S /\ \A j \in S : i <= j

\* swap_find_index(virt) returns i.
swap_find_index(virt, i) == Least(SlotsOf(virt), i)

swap_exists(virt) == SlotsOf(virt) # {}

\* Variant of TakeSlot that takes the first slot, used or not, when none is free.
TakeSlot_Reuse(i, virt, data) ==
    /\ IF FreeSlots # {} THEN Least(FreeSlots, i) ELSE Least(Slots, i)
    /\ swap_storage' = [swap_storage EXCEPT ![i] =
                          [used |-> TRUE, virt_addr |-> virt, data |-> data]]

\* The first free slot, i, is taken for virt.
TakeSlot(i, virt, data) ==
    /\ Least(FreeSlots, i)
    /\ swap_storage' = [swap_storage EXCEPT ![i] =
                          [used |-> TRUE, virt_addr |-> virt, data |-> data]]

\* The copy loop of swap_write: the page's contents go into the slot found.
StorePage(virt) ==
    \E i \in Slots, d \in Data :
      /\ swap_find_index(virt, i)
      /\ swap_storage' = [swap_storage EXCEPT ![i].data = d]
      /\ stored' = [stored EXCEPT ![virt] = {d}]

-------------------------------------------------------------------------------
(* Calls of the running kernel. *)

MapNewPage(virt) ==
    /\ Running
    /\ \E frame \in Pages : pmm_alloc_page(frame) /\ map_page(frame, virt)
    /\ UNCHANGED <<swap_storage, stored, stack, panicked>>

UnmapPage(virt) ==
    /\ Running
    /\ unmap_page(virt)
    /\ UNCHANGED <<free_mem_start, swap_storage, stored, stack, panicked>>

\* swap_test_store takes a new slot even if virt has one, and drops the data when
\* no slot is free.
swap_test_store(virt, data) ==
    /\ Running
    /\ \E i \in Slots : TakeSlot(i, virt, data)
    /\ stored' = [stored EXCEPT ![virt] = {data}]
    /\ UNCHANGED <<first_page_table, free_mem_start, stack, panicked>>

\* swap_write marks a slot used before it starts to copy. With no slot it returns.
swap_write(virt, src) ==
    /\ Running
    /\ \/ swap_exists(virt) /\ UNCHANGED swap_storage
       \/ ~swap_exists(virt) /\ \E i \in Slots : TakeSlot(i, virt, swap_storage[i].data)
    /\ stack' = <<[op |-> "swap_write", page |-> src, virt |-> virt]>>
    /\ UNCHANGED <<first_page_table, free_mem_start, stored, panicked>>

Access(virt) ==
    /\ Running
    /\ stack' = <<[op |-> "access", page |-> virt, virt |-> virt]>>
    /\ UNCHANGED <<first_page_table, free_mem_start, swap_storage, stored, panicked>>

-------------------------------------------------------------------------------
(* The CPU on the current activity. *)

Top == Last(stack)

\* Access to the page the current activity needs. Mapped, the activity completes:
\* an access is done, swap_write fills its slot, and the handler, with swap_read
\* done, maps the new frame and returns to what it interrupted. Unmapped, the CPU
\* enters page_fault_handler, in the middle of another run of it or not.
Touch ==
    /\ ~panicked /\ stack # <<>> /\ Top.op # "fault"
    /\ IF Mapped(Top.page)
         THEN /\ stack' = Front(stack)
              /\ IF Top.op = "swap_write" THEN StorePage(Top.virt)
                                          ELSE UNCHANGED <<swap_storage, stored>>
              /\ IF Top.op = "swap_read" THEN map_page(Top.page, Top.virt)
                                         ELSE UNCHANGED first_page_table
         ELSE /\ stack' = Append(stack, [op |-> "fault", page |-> Top.page, virt |-> Top.page])
              /\ UNCHANGED <<swap_storage, stored, first_page_table>>
    /\ UNCHANGED <<free_mem_start, panicked>>

\* Variant of page_fault_handler that returns from a fault it cannot serve.
page_fault_handler_Ignore ==
    /\ ~panicked /\ stack # <<>> /\ Top.op = "fault"
    /\ IF swap_exists(Top.virt) /\ free_mem_start < MemPages
         THEN /\ \E frame \in Pages :
                   /\ pmm_alloc_page(frame)
                   /\ stack' = Append(Front(stack),
                                 [op |-> "swap_read", page |-> frame, virt |-> Top.virt])
              /\ UNCHANGED panicked
         ELSE stack' = Front(stack) /\ UNCHANGED <<free_mem_start, panicked>>
    /\ UNCHANGED <<first_page_table, swap_storage, stored>>

\* Variant of page_fault_handler that uses the 0 of a failed allocation as a frame.
page_fault_handler_Frame0 ==
    /\ ~panicked /\ stack # <<>> /\ Top.op = "fault"
    /\ IF swap_exists(Top.virt)
         THEN /\ \E frame \in Pages :
                   /\ \/ pmm_alloc_page(frame)
                      \/ free_mem_start = MemPages /\ frame = 0 /\ UNCHANGED free_mem_start
                   /\ stack' = Append(Front(stack),
                                 [op |-> "swap_read", page |-> frame, virt |-> Top.virt])
              /\ UNCHANGED panicked
         ELSE panicked' = TRUE /\ UNCHANGED <<free_mem_start, stack>>
    /\ UNCHANGED <<first_page_table, swap_storage, stored>>

\* The handler up to swap_read: a page in the swap gets a new frame; without a slot
\* or without a frame the machine stops.
page_fault_handler ==
    /\ ~panicked /\ stack # <<>> /\ Top.op = "fault"
    /\ IF swap_exists(Top.virt) /\ free_mem_start < MemPages
         THEN /\ \E frame \in Pages :
                   /\ pmm_alloc_page(frame)
                   /\ stack' = Append(Front(stack),
                                 [op |-> "swap_read", page |-> frame, virt |-> Top.virt])
              /\ UNCHANGED panicked
         ELSE panicked' = TRUE /\ UNCHANGED <<free_mem_start, stack>>
    /\ UNCHANGED <<first_page_table, swap_storage, stored>>

-------------------------------------------------------------------------------
\* paging_init: the first 4 MB mapped to themselves, no frame given out, an empty
\* swap.
paging_init ==
    /\ first_page_table = [page \in Low |-> page]
    /\ free_mem_start = FreeStart
    /\ swap_storage = [i \in Slots |-> [used |-> FALSE, virt_addr |-> 0, data |-> Zero]]
    /\ stored = [page \in Pages |-> {}]
    /\ stack = <<>>
    /\ panicked = FALSE

Init == paging_init

Call ==
    \/ \E virt \in Pages : MapNewPage(virt)
    \/ \E virt \in Pages : UnmapPage(virt)
    \/ \E virt \in Pages, d \in Data : swap_test_store(virt, d)
    \/ \E virt, src \in Pages : swap_write(virt, src)
    \/ \E virt \in Pages : Access(virt)

Next == Call \/ Touch \/ page_fault_handler

\* The CPU goes on with the activity it has begun.
Spec == Init /\ [][Next]_vars /\ WF_vars(Touch) /\ WF_vars(page_fault_handler)

-------------------------------------------------------------------------------
(* Properties. *)

\* The watermark of pmm.c stays in memory, the page table holds frames that exist,
\* and the stack accesses and faults with a page and a frame.
TypeOK ==
    /\ first_page_table \in [Low -> Frames \cup {NotPresent}]
    /\ free_mem_start \in FreeStart .. MemPages
    /\ swap_storage \in [Slots -> [used : BOOLEAN, virt_addr : Pages, data : Data]]
    /\ stored \in [Pages -> SUBSET Data]
    /\ stack \in Seq(Activity)
    /\ panicked \in BOOLEAN

\* Two pages never share a frame, through the identity map, pmm_alloc_page and the
\* frames a nested or an unfinished page fault took.
NoAlias ==
    \A p, q \in Low : Mapped(p) /\ first_page_table[p] = first_page_table[q] => p = q

\* The nesting of page_fault_handler in its own swap_read is bounded: every level
\* below the innermost has taken a frame of its own.
NestingBounded == Len(stack) <= 2 + (free_mem_start - FreeStart)

\* No page fault is ever served: page_fault_handler returns to nothing it
\* interrupted, because the frame it loads the page into lies above the mapped
\* 4 MB and swap_read faults on it in turn.
HandlerNeverReturns == [][Len(stack') < Len(stack) => Len(stack) = 1]_vars

\* A swap_write of virt has begun and not yet copied the page.
BeingWritten(virt) == stack # <<>> /\ stack[1].op = "swap_write" /\ stack[1].virt = virt

\* A page that was stored is in the swap, and what swap_find_index finds for it, so
\* what a page fault would load, is what the last swap_test_store or swap_write of it
\* gave, whatever was stored, written and faulted on in between. The two exceptions
\* are real: swap_test_store takes a second slot for a page that has one, and the
\* first hides it (swap.c 81-86); and swap_write marks its slot used before it copies,
\* so that a fault in the copy finds a slot with nothing in it (swap.c 59, 68-70).
SwapHoldsLast ==
    \A virt \in Pages :
      /\ stored[virt] # {} => swap_exists(virt)
      /\ \A i \in Slots : swap_find_index(virt, i) =>
           \/ stored[virt] = {swap_storage[i].data}
           \/ SlotsOf(virt) # {i}
           \/ BeingWritten(virt)

\* A page fault does not hang: the handler returns to the kernel or stops the
\* machine, however deep it nests.
FaultEnds == stack # <<>> ~> Running \/ panicked

\* "Demonstrate loading on fault" (pmm.c): when the running kernel accesses a page
\* that is in the swap, and frames are left, the machine does not stop.
LoadedFromSwap ==
    panicked /\ stack[1].op = "access" =>
       \/ ~swap_exists(stack[1].page)
       \/ free_mem_start = MemPages
===============================================================================
