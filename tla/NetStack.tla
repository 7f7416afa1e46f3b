------------------------------- MODULE NetStack -------------------------------
(***************************************************************************)
(* The network stack of MOKernel above the card (net.c): the ARP cache,    *)
(* ip_send with its wait for an ARP reply, the handlers of received        *)
(* frames, and the shell commands ping, udp and arp.                       *)
(*                                                                         *)
(* The stack polls.  A command runs in the keyboard interrupt; while it    *)
(* waits it calls net_poll, which handles every frame the card holds, and  *)
(* the answer to an echo request is sent with ip_send from inside that     *)
(* handler and may itself wait and poll.  The calls in progress form a     *)
(* stack; frames arrive between any two steps.  A frame is reduced to what *)
(* its handler looks at.  Frames the handlers ignore, too short, not for   *)
(* this host, of another protocol, UDP, are "junk".  Of what is sent only  *)
(* the echo requests matter: hosts answer them late, twice or never.       *)
(***************************************************************************)
EXTENDS Integers, Sequences, SequencesExt

CONSTANTS
    ARP_CACHE_SIZE,  \* entries of the ARP cache (8)
    IPs, MACs,       \* addresses of the hosts
    NoMac,           \* the result of a lookup that fails
    Broadcast,       \* 255.255.255.255, which needs no lookup
    PingCount,       \* echo requests per ping command (4)
    ArpWait,         \* polls of ip_send for an ARP reply (500000)
    PingWait,        \* polls of net_cmd_ping for an echo reply (2000000)
    MaxRx,           \* bound: frames the card holds
    MaxFrames        \* bound: frames that arrive in all

ASSUME NetAssumption ==
    /\ ARP_CACHE_SIZE \in Nat \ {0}
    /\ IPs # {} /\ MACs # {} /\ NoMac \notin MACs /\ Broadcast \notin IPs
    /\ PingCount \in Nat \ {0} /\ ArpWait \in Nat /\ PingWait \in Nat
    /\ MaxRx \in Nat /\ MaxFrames \in Nat

VARIABLES
    arp_cache,
    icmp_echo_received, icmp_last_seq,
    stack,    \* calls in progress, the current one last
    rx,       \* frames the card holds
    wire,     \* sequence numbers of the echo requests sent
    arrived   \* number of frames that have arrived

icmp == <<icmp_echo_received, icmp_last_seq>>
vars == <<arp_cache, icmp, stack, rx, wire, arrived>>

Idx  == 0 .. ARP_CACHE_SIZE - 1
Seqs == 1 .. PingCount

\* A call: net_cmd_ping waiting for the reply to seq, ip_send waiting for the MAC of
\* ip (with the echo request seq to send, or 0 for anything else), or net_poll.
Call == [op : {"ping", "resolve", "poll"}, ip : IPs \cup {Broadcast},
         seq : 0 .. PingCount, wait : 0 .. ArpWait + PingWait]

Frame == [type : {"arp", "echo_request", "echo_reply", "junk"}, ip : IPs, mac : MACs, seq : 0 .. PingCount]

Top == Last(stack)

-------------------------------------------------------------------------------
(* The ARP cache. *)

Hits(ip) == {i \in Idx : arp_cache[i].valid /\ arp_cache[i].ip = ip}

Least(S) == CHOOSE i \in S : \A j \in S : i <= j

\* The MAC arp_lookup(ip) finds, or NoMac.
arp_lookup(ip) == IF Hits(ip) = {} THEN NoMac ELSE arp_cache[Least(Hits(ip))].mac

Entry(ip, mac) == [valid |-> TRUE, ip |-> ip, mac |-> mac]

\* Variant of arp_cache_insert that takes only free slots.
arp_cache_insert_NoUpdate(ip, mac) ==
    LET S == {i \in Idx : ~arp_cache[i].valid}
    IN  arp_cache' = [arp_cache EXCEPT ![IF S = {} THEN 0 ELSE Least(S)] = Entry(ip, mac)]

\* Variant of arp_cache_insert that forgets the address when it evicts.
arp_cache_insert_KeepMac(ip, mac) ==
    LET S == {i \in Idx : ~arp_cache[i].valid \/ arp_cache[i].ip = ip}
    IN  arp_cache' = IF S = {} THEN [arp_cache EXCEPT ![0].ip = ip]
                     ELSE [arp_cache EXCEPT ![Least(S)] = Entry(ip, mac)]

\* The first slot that is free or already ip's, else slot 0.
arp_cache_insert(ip, mac) ==
    LET S == {i \in Idx : ~arp_cache[i].valid \/ arp_cache[i].ip = ip}
    IN  arp_cache' = [arp_cache EXCEPT ![IF S = {} THEN 0 ELSE Least(S)] = Entry(ip, mac)]

-------------------------------------------------------------------------------
(* Sending. *)

\* net_send of an IP packet: an echo request is on the wire.
Transmit(seq) == wire' = IF seq = 0 THEN wire ELSE wire \cup {seq}

\* ip_send(ip, ...) called with the calls below in progress: it sends at once if the
\* MAC is known, else sends an ARP request and starts to wait.
ip_send(below, ip, seq) ==
    IF ip = Broadcast \/ arp_lookup(ip) # NoMac
      THEN stack' = below /\ Transmit(seq)
      ELSE /\ stack' = Append(below, [op |-> "resolve", ip |-> ip, seq |-> seq, wait |-> ArpWait])
           /\ UNCHANGED wire

\* One round of net_cmd_ping up to its wait.
SendEcho(ip, seq) ==
    /\ icmp_echo_received' = FALSE
    /\ ip_send(<<[op |-> "ping", ip |-> ip, seq |-> seq, wait |-> PingWait]>>, ip, seq)

PollCall == [op |-> "poll", ip |-> Broadcast, seq |-> 0, wait |-> 0]

-------------------------------------------------------------------------------
(* The commands of the shell. *)

net_cmd_ping(ip) ==
    /\ stack = <<>>
    /\ SendEcho(ip, 1)
    /\ UNCHANGED <<arp_cache, icmp_last_seq, rx, arrived>>

udp_send(ip) ==
    /\ stack = <<>>
    /\ ip_send(<<>>, ip, 0)
    /\ UNCHANGED <<arp_cache, icmp, rx, arrived>>

\* "arp" polls before it prints the cache.
cmd_arp ==
    /\ stack = <<>>
    /\ stack' = <<PollCall>>
    /\ UNCHANGED <<arp_cache, icmp, rx, wire, arrived>>

-------------------------------------------------------------------------------
(* Waiting. *)

\* The loop of ip_send: poll while polls are left; when none is, give up.
ResolveWait ==
    /\ stack # <<>> /\ Top.op = "resolve"
    /\ stack' = IF Top.wait > 0
                  THEN Append(Front(stack), [Top EXCEPT !.wait = @ - 1]) \o <<PollCall>>
                  ELSE Front(stack)
    /\ UNCHANGED <<arp_cache, icmp, rx, wire, arrived>>

\* Variant of PingWaits whose loop does not count.
PingWaits_Forever ==
    /\ stack # <<>> /\ Top.op = "ping"
    /\ ~icmp_echo_received
    /\ stack' = Append(stack, PollCall)
    /\ UNCHANGED <<arp_cache, icmp, rx, wire, arrived>>

\* The loop of net_cmd_ping: poll while polls are left and no reply has come.
PingWaits ==
    /\ stack # <<>> /\ Top.op = "ping"
    /\ Top.wait > 0 /\ ~icmp_echo_received
    /\ stack' = Append(Front(stack), [Top EXCEPT !.wait = @ - 1]) \o <<PollCall>>
    /\ UNCHANGED <<arp_cache, icmp, rx, wire, arrived>>

\* Variant of PingReports that sends one request too many.
PingReports_OneMore ==
    /\ stack # <<>> /\ Top.op = "ping"
    /\ Top.wait = 0 \/ icmp_echo_received
    /\ IF Top.seq <= PingCount
         THEN SendEcho(Top.ip, Top.seq + 1)
         ELSE stack' = Front(stack) /\ UNCHANGED <<icmp_echo_received, wire>>
    /\ UNCHANGED <<arp_cache, icmp_last_seq, rx, arrived>>

\* The end of that loop: a reply or a timeout is reported for seq, and the next
\* echo request sent.
PingReports ==
    /\ stack # <<>> /\ Top.op = "ping"
    /\ Top.wait = 0 \/ icmp_echo_received
    /\ IF Top.seq < PingCount
         THEN SendEcho(Top.ip, Top.seq + 1)
         ELSE stack' = Front(stack) /\ UNCHANGED <<icmp_echo_received, wire>>
    /\ UNCHANGED <<arp_cache, icmp_last_seq, rx, arrived>>

\* net_poll finds no frame and returns; a waiting ip_send then looks again, and
\* sends and returns if the MAC is known now.
PollDone ==
    /\ stack # <<>> /\ Top.op = "poll"
    /\ rx = <<>>
    /\ LET below == Front(stack) IN
       IF below # <<>> /\ Last(below).op = "resolve" /\ arp_lookup(Last(below).ip) # NoMac
         THEN stack' = Front(below) /\ Transmit(Last(below).seq)
         ELSE stack' = below /\ UNCHANGED wire
    /\ UNCHANGED <<arp_cache, icmp, rx, arrived>>

\* Every ARP frame teaches its sender. A request for this host is also answered,
\* which changes nothing here.
arp_handle(f) ==
    /\ arp_cache_insert(f.ip, f.mac)
    /\ UNCHANGED <<icmp, stack, wire>>

\* An echo request is answered through ip_send, an echo reply sets the flags of ping.
icmp_handle(f) ==
    \/ /\ f.type = "echo_request"
       /\ ip_send(stack, f.ip, 0)
       /\ UNCHANGED <<arp_cache, icmp>>
    \/ /\ f.type = "echo_reply"
       /\ icmp_echo_received' = TRUE
       /\ icmp_last_seq' = f.seq
       /\ UNCHANGED <<arp_cache, stack, wire>>

\* Packets for other hosts, of other protocols and UDP are dropped.
ip_handle(f) ==
    IF f.type = "junk" THEN UNCHANGED <<arp_cache, icmp, stack, wire>> ELSE icmp_handle(f)

eth_process(f) == IF f.type = "arp" THEN arp_handle(f) ELSE ip_handle(f)

\* net_poll takes a frame from the card and handles it.
PollFrame ==
    /\ stack # <<>> /\ Top.op = "poll"
    /\ rx # <<>>
    /\ rx' = Tail(rx)
    /\ eth_process(Head(rx))
    /\ UNCHANGED arrived

-------------------------------------------------------------------------------
(* The network. An echo reply answers some request sent before. *)

Arrive(f) ==
    /\ Len(rx) < MaxRx /\ arrived < MaxFrames
    /\ f.type = "echo_reply" => f.seq \in wire
    /\ rx' = Append(rx, f)
    /\ arrived' = arrived + 1
    /\ UNCHANGED <<arp_cache, icmp, stack, wire>>

AnyIp == CHOOSE ip \in IPs : TRUE
AnyMac == CHOOSE mac \in MACs : TRUE

Arrivals ==
    \/ \E ip \in IPs, mac \in MACs : Arrive([type |-> "arp", ip |-> ip, mac |-> mac, seq |-> 0])
    \/ \E ip \in IPs : Arrive([type |-> "echo_request", ip |-> ip, mac |-> AnyMac, seq |-> 0])
    \/ \E s \in Seqs : Arrive([type |-> "echo_reply", ip |-> AnyIp, mac |-> AnyMac, seq |-> s])
    \/ Arrive([type |-> "junk", ip |-> AnyIp, mac |-> AnyMac, seq |-> 0])

\* arp_cache_init; the addresses of an invalid entry are never read.
Init ==
    /\ arp_cache = [i \in Idx |-> [valid |-> FALSE, ip |-> AnyIp, mac |-> AnyMac]]
    /\ icmp_echo_received = FALSE /\ icmp_last_seq = 0
    /\ stack = <<>> /\ rx = <<>> /\ wire = {} /\ arrived = 0

Kernel == ResolveWait \/ PingWaits \/ PingReports \/ PollDone \/ PollFrame

Next ==
    \/ \E ip \in IPs \cup {Broadcast} : net_cmd_ping(ip) \/ udp_send(ip)
    \/ cmd_arp
    \/ Kernel
    \/ Arrivals

\* A command, once started, keeps the CPU.
Spec == Init /\ [][Next]_vars /\ WF_vars(Kernel)

-------------------------------------------------------------------------------
(* Properties. *)

\* However ip_send and net_poll nest, what waits on the stack is a ping, an ip_send
\* or a net_poll with its retries and its sequence number in range, and the cache
\* and the frames keep the types of their C structures.
TypeOK ==
    /\ arp_cache \in [Idx -> [valid : BOOLEAN, ip : IPs, mac : MACs]]
    /\ icmp_echo_received \in BOOLEAN /\ icmp_last_seq \in 0 .. PingCount
    /\ stack \in Seq(Call)
    /\ rx \in Seq(Frame)
    /\ wire \subseteq Seqs
    /\ arrived \in 0 .. MaxFrames

\* One entry per address, in a prefix of the cache: arp_cache_insert stops at the
\* first free slot, so an entry behind a free slot would be doubled, and the older
\* copy would win in arp_lookup.
ArpUnique ==
    /\ \A i, j \in Idx : arp_cache[i].valid /\ j < i => arp_cache[j].valid
    /\ \A i, j \in Idx :
         arp_cache[i].valid /\ arp_cache[j].valid /\ arp_cache[i].ip = arp_cache[j].ip => i = j

\* What arp_lookup answers for an address changes only when a frame of that address
\* is handled, to the MAC it announces, or when the address is evicted from a full
\* cache. In particular no packet goes to a MAC its address did not announce last.
LookupFollowsArp ==
    [][\A ip \in IPs : arp_lookup(ip)' # arp_lookup(ip) =>
          /\ rx # <<>> /\ Head(rx).type = "arp"
          /\ \/ Head(rx).ip = ip /\ arp_lookup(ip)' = Head(rx).mac
             \/ /\ Head(rx).ip # ip /\ arp_lookup(ip)' = NoMac
                /\ \A i \in Idx : arp_cache[i].valid]_vars

\* A command ends, whatever frames arrive meanwhile, as long as they stop coming:
\* every wait, those nested in the handling of a frame included, runs out.
CommandEnds == stack # <<>> ~> stack = <<>>

\* "Poll up to ~1 second for the reply" (net_cmd_ping): a reply reported for an echo
\* request is the reply to that request.
ReplyIsOwn ==
    [][stack # <<>> /\ Top.op = "ping" /\ icmp_echo_received /\ stack' # stack
          => icmp_last_seq = Top.seq]_vars
===============================================================================
