---------------------------- MODULE NetStackProofs ----------------------------
(***************************************************************************)
(* What the ARP cache guarantees for every size of the cache, every set of *)
(* hosts and any traffic.  The inductive invariant is the typing of the    *)
(* cache and of the frames, with ArpUnique.                                *)
(***************************************************************************)
EXTENDS NetStack, WellFoundedInduction, SequenceTheorems, TLAPS

CacheType == arp_cache \in [Idx -> [valid : BOOLEAN, ip : IPs, mac : MACs]]

CacheInv == CacheType /\ rx \in Seq(Frame) /\ ArpUnique

\* The slot arp_cache_insert(ip, ...) writes.
Slots(ip) == {i \in Idx : ~arp_cache[i].valid \/ arp_cache[i].ip = ip}
Slot(ip) == IF Slots(ip) = {} THEN 0 ELSE Least(Slots(ip))

-------------------------------------------------------------------------------
\* A nonempty set of slots has a least element: the loops over the cache that
\* return at the first match return at Least.
LEMMA LeastFacts ==
    ASSUME NEW S \in SUBSET Idx, S # {}
    PROVE  Least(S) \in S /\ \A j \in S : Least(S) <= j
<1>1. S \subseteq Nat
  BY NetAssumption DEF Idx
<1>2. PICK i \in S : \A j \in S : ~(<<j, i>> \in OpToRel(<, Nat))
  BY <1>1, NatLessThanWellFounded, WFMin
<1>3. \A j \in S : ~(j < i)
  BY <1>1, <1>2 DEF OpToRel
<1>4. \A j \in S : i <= j
  BY <1>1, <1>3
<1> QED BY <1>4 DEF Least

\* The slot is in the cache, no slot before it is free or holds ip, and only a full
\* cache without ip loses an entry.
LEMMA SlotFacts ==
    ASSUME CacheType, NEW ip \in IPs
    PROVE  /\ Slot(ip) \in Idx
           /\ \A j \in Idx : j < Slot(ip) => arp_cache[j].valid /\ arp_cache[j].ip # ip
           /\ \/ ~arp_cache[Slot(ip)].valid
              \/ arp_cache[Slot(ip)].ip = ip
              \/ \A j \in Idx : arp_cache[j].valid /\ arp_cache[j].ip # ip
<1>1. Slots(ip) \in SUBSET Idx /\ 0 \in Idx /\ Idx \subseteq Int
  BY NetAssumption DEF Slots, Idx
<1>2. CASE Slots(ip) = {}
  <2>1. Slot(ip) = 0
    BY <1>2 DEF Slot
  <2>2. \A j \in Idx : arp_cache[j].valid /\ arp_cache[j].ip # ip
    BY <1>2 DEF Slots
  <2> QED BY <1>1, <2>1, <2>2
<1>3. CASE Slots(ip) # {}
  <2>1. Slot(ip) \in Slots(ip) /\ \A j \in Slots(ip) : Slot(ip) <= j
    BY <1>1, <1>3, LeastFacts DEF Slot
  <2>2. \A j \in Idx : j < Slot(ip) => j \notin Slots(ip)
    <3>1. PICK k \in Int : k = Slot(ip)
      BY <1>1, <2>1
    <3>2. \A j \in Slots(ip) : k <= j /\ j \in Int
      BY <1>1, <2>1, <3>1
    <3>3. \A j \in Idx : j < k => j \notin Slots(ip)
      BY <1>1, <3>2
    <3> QED BY <3>1, <3>3
  <2> QED BY <1>1, <2>1, <2>2 DEF Slots
<1> QED BY <1>2, <1>3

\* What arp_cache_insert does to the cache.
LEMMA InsertFacts ==
    ASSUME CacheType, NEW ip \in IPs, NEW mac \in MACs, arp_cache_insert(ip, mac)
    PROVE  /\ CacheType'
           /\ arp_cache'[Slot(ip)] = Entry(ip, mac)
           /\ \A j \in Idx : j # Slot(ip) => arp_cache'[j] = arp_cache[j]
<1>1. arp_cache' = [arp_cache EXCEPT ![Slot(ip)] = Entry(ip, mac)]
  BY DEF arp_cache_insert, Slot, Slots
<1>2. Slot(ip) \in Idx
  BY SlotFacts
<1>3. Entry(ip, mac) \in [valid : BOOLEAN, ip : IPs, mac : MACs]
  BY DEF Entry
<1> QED BY <1>1, <1>2, <1>3 DEF CacheType

\* In a cache without duplicates arp_lookup returns the MAC of the entry of ip, and
\* NoMac if there is none.
LEMMA LookupFacts ==
    ASSUME CacheType, ArpUnique, NEW ip \in IPs
    PROVE  /\ \A i \in Idx : arp_cache[i].valid /\ arp_cache[i].ip = ip
                               => arp_lookup(ip) = arp_cache[i].mac
           /\ (\A i \in Idx : ~(arp_cache[i].valid /\ arp_cache[i].ip = ip))
                => arp_lookup(ip) = NoMac
<1>1. ASSUME NEW i \in Idx, arp_cache[i].valid, arp_cache[i].ip = ip
      PROVE  arp_lookup(ip) = arp_cache[i].mac
  <2>1. Hits(ip) = {i}
    BY <1>1 DEF Hits, ArpUnique
  <2>2. Least(Hits(ip)) = i
    BY <2>1, LeastFacts
  <2> QED BY <2>1, <2>2 DEF arp_lookup
<1>2. (\A i \in Idx : ~(arp_cache[i].valid /\ arp_cache[i].ip = ip)) => arp_lookup(ip) = NoMac
  BY DEF arp_lookup, Hits
<1> QED BY <1>1, <1>2

-------------------------------------------------------------------------------
\* The cache changes only where net_poll handles an ARP frame.
LEMMA CacheSteps ==
    ASSUME [Next]_vars, rx \in Seq(Frame)
    PROVE  \/ UNCHANGED arp_cache
           \/ /\ rx # <<>> /\ Head(rx) \in Frame /\ Head(rx).type = "arp"
              /\ arp_cache_insert(Head(rx).ip, Head(rx).mac)
<1>1. CASE PollFrame
  <2>1. rx # <<>> /\ Head(rx) \in Frame
    BY <1>1, HeadTailProperties DEF PollFrame
  <2> QED BY <1>1, <2>1 DEF PollFrame, eth_process, arp_handle, ip_handle, icmp_handle
<1>2. CASE UNCHANGED vars
  BY <1>2 DEF vars
<1>3. CASE \E ip \in IPs \cup {Broadcast} : net_cmd_ping(ip) \/ udp_send(ip)
  BY <1>3 DEF net_cmd_ping, udp_send
<1>4. CASE cmd_arp \/ ResolveWait \/ PingWaits \/ PingReports \/ PollDone
  BY <1>4 DEF cmd_arp, ResolveWait, PingWaits, PingReports, PollDone
<1>5. CASE Arrivals
  BY <1>5 DEF Arrivals, Arrive
<1> QED BY <1>1, <1>2, <1>3, <1>4, <1>5 DEF Next, Kernel

\* The frames the card holds stay frames.
LEMMA FramesTyped ==
    ASSUME [Next]_vars, rx \in Seq(Frame)
    PROVE  rx' \in Seq(Frame)
<1>1. CASE PollFrame
  BY <1>1, HeadTailProperties DEF PollFrame
<1>2. CASE UNCHANGED vars
  BY <1>2 DEF vars
<1>3. CASE \E ip \in IPs \cup {Broadcast} : net_cmd_ping(ip) \/ udp_send(ip)
  BY <1>3 DEF net_cmd_ping, udp_send
<1>4. CASE cmd_arp \/ ResolveWait \/ PingWaits \/ PingReports \/ PollDone
  BY <1>4 DEF cmd_arp, ResolveWait, PingWaits, PingReports, PollDone
<1>5. CASE Arrivals
  <2>1. AnyIp \in IPs /\ AnyMac \in MACs
    BY NetAssumption DEF AnyIp, AnyMac
  <2>2. Seqs \subseteq 0 .. PingCount /\ 0 \in 0 .. PingCount
    BY NetAssumption DEF Seqs
  <2>3. PICK f \in Frame : Arrive(f)
    BY <1>5, <2>1, <2>2 DEF Arrivals, Frame
  <2>4. rx' = Append(rx, f)
    BY <2>3 DEF Arrive
  <2> QED BY <2>4, AppendProperties
<1> QED BY <1>1, <1>2, <1>3, <1>4, <1>5 DEF Next, Kernel

\* The empty cache.
LEMMA CacheInit == Init => CacheInv
<1> SUFFICES ASSUME Init PROVE CacheInv
  OBVIOUS
<1>1. AnyIp \in IPs /\ AnyMac \in MACs
  BY NetAssumption DEF AnyIp, AnyMac
<1>2. CacheType /\ rx \in Seq(Frame)
  BY <1>1 DEF Init, CacheType
<1>3. ArpUnique
  BY DEF Init, ArpUnique
<1> QED BY <1>2, <1>3 DEF CacheInv

\* arp_cache_insert keeps the entries a prefix without duplicates: what lies before
\* its slot is valid and not ip's, and an entry of ip behind the slot would have to
\* lie behind a free slot or a second entry of ip, or be seen by the search.
LEMMA InsertUnique ==
    ASSUME CacheType, ArpUnique, NEW ip \in IPs, NEW mac \in MACs, arp_cache_insert(ip, mac)
    PROVE  ArpUnique'
<1> DEFINE s == Slot(ip)
<1>1. s \in Idx /\ Idx \subseteq Int
  BY SlotFacts, NetAssumption DEF Idx
<1>2. \A j \in Idx : j < s => arp_cache[j].valid /\ arp_cache[j].ip # ip
  BY SlotFacts
<1>3. arp_cache'[s].valid /\ arp_cache'[s].ip = ip
  <2>1. arp_cache'[s] = Entry(ip, mac)
    BY InsertFacts
  <2> QED BY <2>1 DEF Entry
<1>4. \A j \in Idx : j # s => arp_cache'[j] = arp_cache[j]
  BY InsertFacts
<1>5. \A j \in Idx : j # s /\ arp_cache[j].valid => arp_cache[j].ip # ip
  <2> SUFFICES ASSUME NEW j \in Idx, j # s, arp_cache[j].valid, arp_cache[j].ip = ip
               PROVE  FALSE
    OBVIOUS
  <2>1. s < j
    <3>1. ~(j < s)
      BY <1>2
    <3>2. PICK k \in Int : k = s
      BY <1>1
    <3> QED BY <1>1, <3>1, <3>2
  <2>2. arp_cache[s].valid
    BY <1>1, <2>1 DEF ArpUnique
  <2>3. arp_cache[s].ip = ip
    BY <2>2, SlotFacts
  <2> QED BY <1>1, <2>2, <2>3 DEF ArpUnique
<1> HIDE DEF s
<1>6. ASSUME NEW i \in Idx, NEW j \in Idx, arp_cache'[i].valid, j < i
      PROVE  arp_cache'[j].valid
  <2>1. CASE j = s
    BY <1>3, <2>1
  <2>2. CASE j # s /\ i = s
    BY <1>2, <1>4, <1>6, <2>2
  <2>3. CASE j # s /\ i # s
    BY <1>4, <1>6, <2>3 DEF ArpUnique
  <2> QED BY <2>1, <2>2, <2>3
<1>7. ASSUME NEW i \in Idx, NEW j \in Idx, arp_cache'[i].valid, arp_cache'[j].valid,
             arp_cache'[i].ip = arp_cache'[j].ip
      PROVE  i = j
  <2>1. CASE i = s \/ j = s
    BY <1>3, <1>4, <1>5, <1>7, <2>1
  <2>2. CASE i # s /\ j # s
    BY <1>4, <1>7, <2>2 DEF ArpUnique
  <2> QED BY <2>1, <2>2
<1>8. Idx' = Idx
  BY DEF Idx
<1> QED BY <1>6, <1>7, <1>8 DEF ArpUnique

\* Every step preserves the invariant.
LEMMA CacheStep == CacheInv /\ [Next]_vars => CacheInv'
<1> SUFFICES ASSUME CacheInv, [Next]_vars PROVE CacheInv'
  OBVIOUS
<1> USE DEF CacheInv
<1>1. rx' \in Seq(Frame)
  BY FramesTyped
<1>2. CASE UNCHANGED arp_cache
  BY <1>1, <1>2 DEF CacheType, ArpUnique, Idx
<1>3. CASE /\ rx # <<>> /\ Head(rx) \in Frame /\ Head(rx).type = "arp"
           /\ arp_cache_insert(Head(rx).ip, Head(rx).mac)
  <2>1. Head(rx).ip \in IPs /\ Head(rx).mac \in MACs
    BY <1>3 DEF Frame
  <2> QED BY <1>1, <1>3, <2>1, InsertFacts, InsertUnique
<1> QED BY <1>2, <1>3, CacheSteps

\* The typing of the cache and its uniqueness are invariants.
THEOREM CacheSafety == Spec => []CacheInv
BY CacheInit, CacheStep, PTL DEF Spec

\* Whatever frames arrive, the cache has one entry per address, in a prefix of its
\* slots (arp_cache_insert).
THEOREM ArpUniqueness == Spec => []ArpUnique
<1>1. CacheInv => ArpUnique
  BY DEF CacheInv
<1> QED BY <1>1, CacheSafety, PTL

-------------------------------------------------------------------------------
\* What one step does to the answers of arp_lookup.
LEMMA LookupStep ==
    ASSUME CacheInv, CacheInv', [Next]_vars, NEW ip \in IPs, arp_lookup(ip)' # arp_lookup(ip)
    PROVE  /\ rx # <<>> /\ Head(rx).type = "arp"
           /\ \/ Head(rx).ip = ip /\ arp_lookup(ip)' = Head(rx).mac
              \/ /\ Head(rx).ip # ip /\ arp_lookup(ip)' = NoMac
                 /\ \A i \in Idx : arp_cache[i].valid
<1> USE DEF CacheInv
<1> DEFINE f == Head(rx)
<1>1. ~ UNCHANGED arp_cache
  BY DEF arp_lookup, Hits, Idx
<1>2. rx # <<>> /\ f \in Frame /\ f.type = "arp" /\ arp_cache_insert(f.ip, f.mac)
  BY <1>1, CacheSteps
<1> HIDE DEF f
<1>3. f.ip \in IPs /\ f.mac \in MACs
  BY <1>2 DEF Frame
<1> DEFINE s == Slot(f.ip)
<1>4. s \in Idx
  BY <1>3, SlotFacts
<1>5. arp_cache'[s] = Entry(f.ip, f.mac) /\ \A j \in Idx : j # s => arp_cache'[j] = arp_cache[j]
  BY <1>2, <1>3, InsertFacts
<1>6. \/ ~arp_cache[s].valid \/ arp_cache[s].ip = f.ip
      \/ \A j \in Idx : arp_cache[j].valid /\ arp_cache[j].ip # f.ip
  BY <1>3, SlotFacts
<1> HIDE DEF s
<1>7. /\ \A i \in Idx : arp_cache'[i].valid /\ arp_cache'[i].ip = ip
                          => arp_lookup(ip)' = arp_cache'[i].mac
      /\ (\A i \in Idx : ~(arp_cache'[i].valid /\ arp_cache'[i].ip = ip))
           => arp_lookup(ip)' = NoMac
  <2>1. CacheType' /\ ArpUnique'
    OBVIOUS
  <2>2. ASSUME NEW i \in Idx, arp_cache'[i].valid, arp_cache'[i].ip = ip
        PROVE  arp_lookup(ip)' = arp_cache'[i].mac
    <3>1. Hits(ip)' = {i}
      BY <2>1, <2>2 DEF Hits, ArpUnique, Idx
    <3>2. Least(Hits(ip)') = i
      BY <3>1, LeastFacts
    <3> QED BY <3>1, <3>2 DEF arp_lookup
  <2>3. (\A i \in Idx : ~(arp_cache'[i].valid /\ arp_cache'[i].ip = ip)) => arp_lookup(ip)' = NoMac
    BY DEF arp_lookup, Hits, Idx
  <2> QED BY <2>2, <2>3
<1>8. CASE f.ip = ip
  <2>1. arp_lookup(ip)' = f.mac
    BY <1>4, <1>5, <1>7, <1>8 DEF Entry
  <2> QED BY <1>2, <1>8, <2>1 DEF f
<1>9. CASE f.ip # ip
  <2>1. ASSUME NEW i \in Idx, i # s, arp_cache[i].valid, arp_cache[i].ip = ip PROVE FALSE
    <3>1. arp_lookup(ip) = arp_cache[i].mac
      BY <2>1, LookupFacts
    <3>2. arp_lookup(ip)' = arp_cache[i].mac
      BY <1>5, <1>7, <2>1
    <3> QED BY <3>1, <3>2
  <2>2. \A i \in Idx : ~(arp_cache'[i].valid /\ arp_cache'[i].ip = ip)
    BY <1>5, <1>9, <2>1 DEF Entry
  <2>3. arp_lookup(ip)' = NoMac
    BY <1>7, <2>2
  <2>4. arp_cache[s].valid /\ arp_cache[s].ip = ip
    <3>1. SUFFICES ASSUME ~(arp_cache[s].valid /\ arp_cache[s].ip = ip) PROVE FALSE
      OBVIOUS
    <3>2. \A i \in Idx : ~(arp_cache[i].valid /\ arp_cache[i].ip = ip)
      BY <2>1, <3>1
    <3> QED BY <2>3, <3>2, LookupFacts
  <2>5. \A j \in Idx : arp_cache[j].valid
    BY <1>6, <1>9, <2>4
  <2> QED BY <1>2, <1>9, <2>3, <2>5 DEF f
<1> QED BY <1>8, <1>9

\* An answer of arp_lookup changes only to what a frame of the address announces, or
\* to nothing by eviction from a full cache.
THEOREM LookupSafety == Spec => LookupFollowsArp
<1>1. CacheInv /\ CacheInv' /\ [Next]_vars =>
        [\A ip \in IPs : arp_lookup(ip)' # arp_lookup(ip) =>
          /\ rx # <<>> /\ Head(rx).type = "arp"
          /\ \/ Head(rx).ip = ip /\ arp_lookup(ip)' = Head(rx).mac
             \/ /\ Head(rx).ip # ip /\ arp_lookup(ip)' = NoMac
                /\ \A i \in Idx : arp_cache[i].valid]_vars
  BY LookupStep
<1> QED BY <1>1, CacheSafety, PTL DEF Spec, LookupFollowsArp

-------------------------------------------------------------------------------
(* The calls in progress. *)

\* What the calls, the flags and the wire hold; the cache and the frames are CacheInv's.
CallsType ==
    /\ icmp_echo_received \in BOOLEAN /\ icmp_last_seq \in 0 .. PingCount
    /\ stack \in Seq(Call)
    /\ wire \subseteq Seqs
    /\ arrived \in 0 .. MaxFrames

\* A nonempty stack of calls.
LEMMA StackFacts ==
    ASSUME NEW s \in Seq(Call), s # <<>>
    PROVE  Last(s) \in Call /\ Front(s) \in Seq(Call)
<1>1. Len(s) \in Nat \ {0}
  BY EmptySeq, LenProperties
<1>2. Last(s) \in Call
  BY <1>1, LenProperties DEF Last
<1>3. \A i \in 1 .. Len(s) - 1 : s[i] \in Call
  BY <1>1, LenProperties
<1>4. 1 \in Int /\ Len(s) - 1 \in Int
  BY <1>1
<1>5. SubSeq(s, 1, Len(s) - 1) \in Seq(Call)
  BY <1>3, <1>4, SubSeqProperties
<1> QED BY <1>2, <1>5 DEF Front

LEMMA NewCalls ==
    /\ PollCall \in Call
    /\ \A ip \in IPs \cup {Broadcast}, seq \in 0 .. PingCount :
         /\ [op |-> "ping", ip |-> ip, seq |-> seq, wait |-> PingWait] \in Call
         /\ [op |-> "resolve", ip |-> ip, seq |-> seq, wait |-> ArpWait] \in Call
    /\ \A c \in Call : c.wait > 0 => [c EXCEPT !.wait = @ - 1] \in Call
<1>1. PingCount \in Nat /\ ArpWait \in Nat /\ PingWait \in Nat
  BY NetAssumption
<1>2. PollCall \in Call
  BY <1>1 DEF PollCall, Call
<1>3. ASSUME NEW ip \in IPs \cup {Broadcast}, NEW seq \in 0 .. PingCount
      PROVE  /\ [op |-> "ping", ip |-> ip, seq |-> seq, wait |-> PingWait] \in Call
             /\ [op |-> "resolve", ip |-> ip, seq |-> seq, wait |-> ArpWait] \in Call
  BY <1>1 DEF Call
<1>4. ASSUME NEW c \in Call, c.wait > 0
      PROVE  [c EXCEPT !.wait = @ - 1] \in Call
  <2>1. c.wait - 1 \in 0 .. ArpWait + PingWait
    BY <1>1, <1>4 DEF Call
  <2> QED BY <2>1 DEF Call
<1> QED BY <1>2, <1>3, <1>4

\* Only requests with a number go out on the wire.
LEMMA TransmitFacts ==
    ASSUME wire \subseteq Seqs, NEW seq \in 0 .. PingCount, Transmit(seq)
    PROVE  wire' \subseteq Seqs
<1>1. PingCount \in Nat
  BY NetAssumption
<1> QED BY <1>1 DEF Transmit, Seqs

LEMMA SendFacts ==
    ASSUME CallsType, NEW below \in Seq(Call), NEW ip \in IPs \cup {Broadcast},
           NEW seq \in 0 .. PingCount, ip_send(below, ip, seq)
    PROVE  stack' \in Seq(Call) /\ wire' \subseteq Seqs
<1> DEFINE c == [op |-> "resolve", ip |-> ip, seq |-> seq, wait |-> ArpWait]
<1>0. wire \subseteq Seqs
  BY DEF CallsType
<1>1. CASE stack' = below /\ Transmit(seq)
  BY <1>0, <1>1, TransmitFacts
<1>2. CASE stack' = Append(below, c) /\ UNCHANGED wire
  <2>1. c \in Call
    BY NewCalls
  <2> QED BY <1>0, <1>2, <2>1, AppendProperties
<1> QED BY <1>1, <1>2 DEF ip_send

LEMMA EchoFacts ==
    ASSUME CallsType, NEW ip \in IPs \cup {Broadcast}, NEW seq \in 0 .. PingCount, SendEcho(ip, seq)
    PROVE  icmp_echo_received' \in BOOLEAN /\ stack' \in Seq(Call) /\ wire' \subseteq Seqs
<1> DEFINE c == [op |-> "ping", ip |-> ip, seq |-> seq, wait |-> PingWait]
           below == <<c>>
<1>1. below \in Seq(Call)
  <2>1. c \in Call
    BY NewCalls
  <2> HIDE DEF c
  <2> QED BY <2>1
<1>2. ip_send(below, ip, seq) /\ icmp_echo_received' = FALSE
  BY DEF SendEcho
<1> HIDE DEF below
<1>3. stack' \in Seq(Call) /\ wire' \subseteq Seqs
  BY <1>1, <1>2, SendFacts
<1> QED BY <1>2, <1>3

\* A waiting call counts down and polls.
LEMMA WaitFacts ==
    ASSUME stack \in Seq(Call), stack # <<>>, Top.wait > 0
    PROVE  Append(Front(stack), [Top EXCEPT !.wait = @ - 1]) \o <<PollCall>> \in Seq(Call)
<1>1. Top \in Call /\ Front(stack) \in Seq(Call)
  BY StackFacts DEF Top
<1>2. [Top EXCEPT !.wait = @ - 1] \in Call /\ PollCall \in Call
  BY <1>1, NewCalls
<1>3. Append(Front(stack), [Top EXCEPT !.wait = @ - 1]) \in Seq(Call)
  BY <1>1, <1>2, AppendProperties
<1>4. <<PollCall>> \in Seq(Call)
  BY <1>2
<1> QED BY <1>3, <1>4, ConcatProperties

\* The calls nest to any depth and stay well formed, whichever frames are handled
\* in the middle of which wait.
LEMMA CallsStep ==
    ASSUME CallsType, rx \in Seq(Frame), [Next]_vars
    PROVE  CallsType'
<1>0. /\ icmp_echo_received \in BOOLEAN /\ icmp_last_seq \in 0 .. PingCount
      /\ stack \in Seq(Call) /\ wire \subseteq Seqs /\ arrived \in 0 .. MaxFrames
      /\ PingCount \in Nat \ {0} /\ MaxFrames \in Nat
  BY NetAssumption DEF CallsType
<1>1. CASE UNCHANGED vars
  BY <1>1 DEF vars, icmp, CallsType
<1>2. ASSUME NEW ip \in IPs \cup {Broadcast}, net_cmd_ping(ip)
      PROVE  CallsType'
  <2>1. 1 \in 0 .. PingCount
    BY <1>0
  <2>2. icmp_echo_received' \in BOOLEAN /\ stack' \in Seq(Call) /\ wire' \subseteq Seqs
    BY <1>2, <2>1, EchoFacts DEF net_cmd_ping
  <2> QED BY <1>0, <1>2, <2>2 DEF net_cmd_ping, CallsType
<1>3. ASSUME NEW ip \in IPs \cup {Broadcast}, udp_send(ip)
      PROVE  CallsType'
  <2>1. 0 \in 0 .. PingCount /\ <<>> \in Seq(Call)
    BY <1>0
  <2>2. stack' \in Seq(Call) /\ wire' \subseteq Seqs
    BY <1>3, <2>1, SendFacts DEF udp_send
  <2> QED BY <1>0, <1>3, <2>2 DEF udp_send, icmp, CallsType
<1>4. CASE cmd_arp
  <2>1. <<PollCall>> \in Seq(Call)
    BY NewCalls
  <2> QED BY <1>0, <1>4, <2>1 DEF cmd_arp, icmp, CallsType
<1>5. CASE ResolveWait
  <2>1. stack' \in Seq(Call)
    <3>1. CASE Top.wait > 0
      BY <1>0, <1>5, <3>1, WaitFacts DEF ResolveWait
    <3>2. CASE ~(Top.wait > 0)
      BY <1>0, <1>5, <3>2, StackFacts DEF ResolveWait
    <3> QED BY <3>1, <3>2
  <2> QED BY <1>0, <1>5, <2>1 DEF ResolveWait, icmp, CallsType
<1>6. CASE PingWaits
  <2>1. stack' \in Seq(Call)
    BY <1>0, <1>6, WaitFacts DEF PingWaits
  <2> QED BY <1>0, <1>6, <2>1 DEF PingWaits, icmp, CallsType
<1>7. CASE PingReports
  <2>1. Top \in Call /\ Front(stack) \in Seq(Call)
    BY <1>0, <1>7, StackFacts DEF PingReports, Top
  <2>2. CASE Top.seq < PingCount
    <3>1. Top.ip \in IPs \cup {Broadcast} /\ Top.seq + 1 \in 0 .. PingCount
      BY <1>0, <2>1, <2>2 DEF Call
    <3>2. icmp_echo_received' \in BOOLEAN /\ stack' \in Seq(Call) /\ wire' \subseteq Seqs
      BY <1>7, <2>2, <3>1, EchoFacts DEF PingReports
    <3> QED BY <1>0, <1>7, <3>2 DEF PingReports, CallsType
  <2>3. CASE ~(Top.seq < PingCount)
    BY <1>0, <1>7, <2>1, <2>3 DEF PingReports, CallsType
  <2> QED BY <2>2, <2>3
<1>8. CASE PollDone
  <2> DEFINE below == Front(stack)
  <2>1. below \in Seq(Call)
    BY <1>0, <1>8, StackFacts DEF PollDone
  <2>2. UNCHANGED <<icmp_echo_received, icmp_last_seq, arrived>>
    BY <1>8 DEF PollDone, icmp
  <2>3. \/ below # <<>> /\ stack' = Front(below) /\ Transmit(Last(below).seq)
        \/ stack' = below /\ UNCHANGED wire
    BY <1>8 DEF PollDone
  <2> HIDE DEF below
  <2>4. CASE below # <<>> /\ stack' = Front(below) /\ Transmit(Last(below).seq)
    <3>1. Last(below).seq \in 0 .. PingCount /\ Front(below) \in Seq(Call)
      BY <2>1, <2>4, StackFacts DEF Call
    <3>2. wire' \subseteq Seqs
      BY <1>0, <2>4, <3>1, TransmitFacts
    <3> QED BY <1>0, <2>2, <2>4, <3>1, <3>2 DEF CallsType
  <2>5. CASE stack' = below /\ UNCHANGED wire
    BY <1>0, <2>1, <2>2, <2>5 DEF CallsType
  <2> QED BY <2>3, <2>4, <2>5
<1>9. CASE PollFrame
  <2> DEFINE f == Head(rx)
  <2>1. f \in Frame /\ f.ip \in IPs \cup {Broadcast} /\ f.seq \in 0 .. PingCount
    <3>1. f \in Frame
      BY <1>9, HeadTailProperties DEF PollFrame
    <3> HIDE DEF f
    <3> QED BY <3>1 DEF Frame
  <2>2. eth_process(f) /\ arrived' = arrived
    BY <1>9 DEF PollFrame
  <2> HIDE DEF f
  <2>3. CASE UNCHANGED <<icmp, stack, wire>>
    BY <1>0, <2>2, <2>3 DEF icmp, CallsType
  <2>4. CASE ip_send(stack, f.ip, 0) /\ UNCHANGED icmp
    <3>1. 0 \in 0 .. PingCount
      BY <1>0
    <3>2. stack' \in Seq(Call) /\ wire' \subseteq Seqs
      BY <1>0, <2>1, <2>4, <3>1, SendFacts
    <3> QED BY <1>0, <2>2, <2>4, <3>2 DEF icmp, CallsType
  <2>5. CASE icmp_echo_received' = TRUE /\ icmp_last_seq' = f.seq /\ UNCHANGED <<stack, wire>>
    BY <1>0, <2>1, <2>2, <2>5 DEF CallsType
  <2> QED BY <2>2, <2>3, <2>4, <2>5 DEF eth_process, arp_handle, ip_handle, icmp_handle
<1>10. CASE Arrivals
  <2>1. PICK f : Arrive(f)
    BY <1>10 DEF Arrivals
  <2>2. arrived' \in 0 .. MaxFrames
    BY <1>0, <2>1 DEF Arrive
  <2> QED BY <1>0, <2>1, <2>2 DEF Arrive, icmp, CallsType
<1> QED BY <1>1, <1>2, <1>3, <1>4, <1>5, <1>6, <1>7, <1>8, <1>9, <1>10 DEF Next, Kernel

\* Type correctness for any number of hosts and requests and any traffic: every call
\* counts down within its wait, and no request beyond the last is sent, although
\* calls nest in the handling of frames.
THEOREM StackTyping == Spec => []TypeOK
<1>1. Init => CallsType
  <2>1. PingCount \in Nat /\ MaxFrames \in Nat
    BY NetAssumption
  <2>2. Init => icmp_echo_received \in BOOLEAN
    BY Zenon DEF Init
  <2>3. Init => /\ icmp_last_seq \in 0 .. PingCount /\ arrived \in 0 .. MaxFrames
                /\ wire \subseteq Seqs
    BY <2>1 DEF Init
  <2>4. Init => stack \in Seq(Call)
    BY EmptySeq DEF Init
  <2> QED BY <2>2, <2>3, <2>4, Zenon DEF CallsType
<1>2. CacheInv /\ CallsType /\ [Next]_vars => CallsType'
  BY CallsStep DEF CacheInv
<1>3. CacheInv /\ CallsType => TypeOK
  BY DEF CacheInv, CacheType, CallsType, TypeOK
<1> QED BY <1>1, <1>2, <1>3, CacheSafety, PTL DEF Spec
===============================================================================
