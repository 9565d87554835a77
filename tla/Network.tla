------------------------------ MODULE Network ------------------------------
(***************************************************************************)
(* kernel/net: the ARP cache, the one ping and the one datagram that may   *)
(* wait for an address, as network.cpp keeps them.                         *)
(*                                                                         *)
(* The desktop loop calls network::poll in every iteration.  poll takes up *)
(* to kMaxFramesPerPoll frames from the card and then looks at the         *)
(* deadlines; the rest of the iteration is what the users of the network   *)
(* do.  Only the timer interrupt comes in between.                         *)
(*                                                                         *)
(* Nobody on the network is trusted to answer.  What the card has sent     *)
(* stays on the wire: an answer to it may come at any time, any number of  *)
(* times and in any order, or never.  ARP packets come from any neighbour, *)
(* asked or not.  Frames that poll ignores (other addresses, unknown       *)
(* types, bad checksums) are left out.                                     *)
(*                                                                         *)
(* A deadline is kept as the time that is left: "now >= deadline" is       *)
(* left = 0.  Deadlines are whole seconds of uptime, so a deadline of one  *)
(* second falls due at the next change of the second.                      *)
(***************************************************************************)
EXTENDS Integers

CONSTANTS
    Neighbours,          \* addresses in the subnet
    Remotes,             \* addresses outside
    Gateway,
    Destinations,        \* addresses that the users of the network talk to
    Macs,
    kCacheSize,
    kMaxFramesPerPoll,
    TicksPerSecond,      \* pit::ticks_per_second()
    MaxPings,            \* bound: pings started
    MaxDatagrams         \* bound: datagrams sent

None == "none"

ASSUME AddressAssumption ==
    /\ Gateway \in Neighbours
    /\ Neighbours \cap Remotes = {}
    /\ None \notin Neighbours \cup Remotes
    /\ Destinations \subseteq Neighbours \cup Remotes
ASSUME CacheAssumption == kCacheSize \in Nat \ {0}
ASSUME FramesAssumption == kMaxFramesPerPoll \in Nat \ {0}

\* The sequence number is a uint16_t; the pings end before it comes round.
SequenceNumbers == 2^16
ASSUME BoundsAssumption ==
    /\ MaxPings \in Nat /\ MaxDatagrams \in Nat
    /\ SequenceNumbers \in Nat /\ MaxPings + 1 < SequenceNumbers
ASSUME ClockAssumption == TicksPerSecond \in Nat \ {0}

\* Mutant: an address may take longer than an attempt of the resolver.
kArpTimeoutSeconds_long == 3
kArpTimeoutSeconds == 1
kReplyTimeoutSeconds == 2

Hosts == Neighbours \cup Remotes
CacheSlots == 1 .. kCacheSize

VARIABLES
    online,           \* g_status.online
    cache,            \* arp: g_cache
    replace_index,    \* arp: g_replace_index
    ping,             \* g_ping
    ping_left,        \* g_deadline
    next_sequence,    \* g_next_sequence
    pending,          \* g_pending_udp
    phase,            \* ticks since the last full second
    at,               \* where the desktop loop is
    frames,           \* frame_count of poll
    wire,             \* packets the card has sent
    datagrams,        \* datagrams that send_udp was called for
    answered,         \* history: echo requests answered so far
    announced         \* history: the MAC each neighbour announced last

arp == <<cache, replace_index, announced>>
pinging == <<ping, ping_left, next_sequence, answered>>
loop == <<at, frames, phase>>
vars == <<online, arp, pinging, pending, wire, datagrams, loop>>

Entry(ip, mac) == [ip |-> ip, mac |-> mac]
Invalid == Entry(None, None)

PingResult(state, address, sequence) ==
    [state |-> state, address |-> address, sequence |-> sequence]
Idle == PingResult("Idle", None, 0)
in_state(state) == PingResult(state, ping.address, ping.sequence)

Echo(to, sequence) == [kind |-> "echo", to |-> to, id |-> sequence]
Datagram(to, id) == [kind |-> "udp", to |-> to, id |-> id]
Pending(next_hop, packet, left) ==
    [next_hop |-> next_hop, packet |-> packet, left |-> left]
Vacant == Pending(None, Datagram(None, 0), 0)
occupied == pending # Vacant

Init ==
    /\ online \in BOOLEAN
    /\ cache = [i \in CacheSlots |-> Invalid] /\ replace_index = 1
    /\ ping = Idle /\ ping_left = 0 /\ next_sequence = 1
    /\ pending = Vacant
    /\ phase = 0 /\ at = "frames" /\ frames = 0
    /\ wire = {} /\ datagrams = 0 /\ answered = {}
    /\ announced = [h \in Neighbours |-> None]

-----------------------------------------------------------------------------
(* The ARP cache.                                                          *)

slots_of(c, ip) == {i \in CacheSlots : c[i].ip = ip}
cached(c, ip) == slots_of(c, ip) # {}

first(i, S) == i \in S /\ \A j \in S : i <= j

\* Mutant: a known address keeps its MAC.
learn_only_new(ip, mac) ==
    IF cached(cache, ip) THEN UNCHANGED <<cache, replace_index>>
    ELSE \E i \in CacheSlots :
           /\ cache' = [cache EXCEPT ![i] = Entry(ip, mac)]
           /\ IF cached(cache, None)
              THEN first(i, slots_of(cache, None)) /\ UNCHANGED replace_index
              ELSE i = replace_index /\ replace_index' = (replace_index % kCacheSize) + 1

\* An address that is known is updated; a new one takes an invalid slot, or
\* the slot whose turn it is.
learn(ip, mac) ==
    \E i \in CacheSlots :
        /\ cache' = [cache EXCEPT ![i] = Entry(ip, mac)]
        /\ IF cached(cache, ip)
           THEN first(i, slots_of(cache, ip)) /\ UNCHANGED replace_index
           ELSE IF cached(cache, None)
           THEN first(i, slots_of(cache, None)) /\ UNCHANGED replace_index
           ELSE i = replace_index /\ replace_index' = (replace_index % kCacheSize) + 1

next_hop(ip) == IF ip \in Neighbours THEN ip ELSE Gateway

-----------------------------------------------------------------------------
(* Sending.  The card may refuse any frame (rtl8139::transmit).            *)

\* transmit_echo_request for the ping p: the new g_ping, g_deadline and wire.
transmit_echo_request(p, sent) ==
    IF sent
    THEN /\ ping' = PingResult("WaitingReply", p.address, p.sequence)
         /\ ping_left' = kReplyTimeoutSeconds
    ELSE /\ ping' = PingResult("HostUnreachable", p.address, p.sequence)
         /\ UNCHANGED ping_left

start_ping(ip) ==
    LET p == PingResult("ResolvingArp", ip, next_sequence)
    IN /\ online
       /\ ping.state = "Idle"
       /\ next_sequence' = (next_sequence + 1) % SequenceNumbers
       /\ \E sent \in BOOLEAN :
            IF cached(cache, next_hop(ip))
            THEN /\ transmit_echo_request(p, sent)
                 /\ wire' = IF sent THEN wire \cup {Echo(ip, next_sequence)} ELSE wire
            ELSE /\ ping' = IF sent THEN p ELSE PingResult("HostUnreachable", ip, next_sequence)
                 /\ ping_left' = kArpTimeoutSeconds
                 /\ UNCHANGED wire
       /\ UNCHANGED answered

clear_ping_result == ping' = Idle /\ UNCHANGED <<ping_left, next_sequence, answered>>

\* Mutant: a datagram that waits is overwritten.
busy_never == FALSE
\* The slot is taken by a datagram that is not overdue.
busy == occupied /\ pending.left > 0

\* send_udp, which accepts the packet or not.
send_udp(ip, packet, accepted) ==
    LET hop == next_hop(ip)
    IN \/ /\ ~online /\ ~accepted
          /\ UNCHANGED <<pending, wire>>
       \/ /\ online /\ cached(cache, hop)
          /\ wire' = IF accepted THEN wire \cup {packet} ELSE wire
          /\ UNCHANGED pending
       \/ /\ online /\ ~cached(cache, hop) /\ busy /\ ~accepted
          /\ UNCHANGED <<pending, wire>>
       \/ /\ online /\ ~cached(cache, hop) /\ ~busy
          /\ pending' = IF accepted THEN Pending(hop, packet, kArpTimeoutSeconds) ELSE Vacant
          /\ UNCHANGED wire

-----------------------------------------------------------------------------
(* poll.                                                                   *)

take_frame ==
    /\ at = "frames" /\ online
    /\ frames < kMaxFramesPerPoll
    /\ frames' = frames + 1
    /\ UNCHANGED <<at, phase, online, datagrams>>

\* Mutant: the slot is not given up when its datagram leaves.
release_keeps_slot(ip) == UNCHANGED pending

\* The slot after an ARP packet from ip has been looked at.
release(ip) ==
    pending' = IF occupied /\ (pending.left = 0 \/ pending.next_hop = ip)
               THEN Vacant ELSE pending

\* handle_arp.  A reply to a request is sent too, but nothing depends on it.
handle_arp(ip, mac) ==
    /\ take_frame
    /\ learn(ip, mac)
    /\ announced' = [announced EXCEPT ![ip] = mac]
    /\ \E echo, datagram \in BOOLEAN :
         LET resolved == /\ ping.state = "ResolvingArp"
                         /\ cached(cache', next_hop(ping.address))
             due == occupied /\ pending.left > 0 /\ pending.next_hop = ip
         IN /\ IF resolved THEN transmit_echo_request(ping, echo)
                           ELSE UNCHANGED <<ping, ping_left>>
            /\ wire' = wire
                 \cup (IF resolved /\ echo THEN {Echo(ping.address, ping.sequence)} ELSE {})
                 \cup (IF due /\ datagram THEN {pending.packet} ELSE {})
    /\ release(ip)
    /\ UNCHANGED <<next_sequence, answered>>

\* Mutant: any echo reply from the address will do.
accept_any_echo_reply(e) == e.to = ping.address
accept_echo_reply(e) == e.to = ping.address /\ e.id = ping.sequence

\* handle_ipv4 on the reply to the echo request e.
handle_echo_reply(e) ==
    /\ take_frame
    /\ answered' = answered \cup {e}
    /\ ping' = IF ping.state = "WaitingReply" /\ accept_echo_reply(e)
               THEN in_state("ReplyReceived") ELSE ping
    /\ UNCHANGED <<arp, ping_left, next_sequence, pending, wire>>

EchoRequests == {p \in wire : p.kind = "echo"}

Receive ==
    \/ \E ip \in Neighbours, mac \in Macs : handle_arp(ip, mac)
    \/ \E e \in EchoRequests : handle_echo_reply(e)

\* Mutant: a ping is given up only while it waits for a reply.
timed_out_waiting(state) == state = "WaitingReply" /\ ping_left = 0
timed_out(state) == state \in {"ResolvingArp", "WaitingReply"} /\ ping_left = 0

\* The end of poll: no frame is left, or enough have been taken.
advance_timeout(next) ==
    /\ at = "frames"
    /\ pending' = IF online /\ occupied /\ pending.left = 0 THEN Vacant ELSE pending
    /\ ping' = IF ~online \/ ~timed_out(ping.state) THEN ping
               ELSE IF ping.state = "ResolvingArp" THEN in_state("HostUnreachable")
               ELSE in_state("TimedOut")
    /\ at' = next /\ frames' = 0
    /\ UNCHANGED <<online, arp, ping_left, next_sequence, answered, wire, datagrams, phase>>

\* The timer interrupt, at any point.
less(n) == IF n = 0 THEN 0 ELSE n - 1
second_passes ==
    /\ ping_left' = less(ping_left)
    /\ pending' = IF occupied THEN Pending(pending.next_hop, pending.packet, less(pending.left))
                  ELSE pending
Tick ==
    /\ phase' = (phase + 1) % TicksPerSecond
    /\ IF phase' = 0 THEN second_passes ELSE UNCHANGED <<ping_left, pending>>
    /\ UNCHANGED <<online, arp, ping, next_sequence, answered, wire, datagrams, at, frames>>

-----------------------------------------------------------------------------
(* The rest of an iteration: what users of the network may do.             *)

Ping(ip) ==
    /\ next_sequence <= MaxPings
    /\ start_ping(ip)
    /\ UNCHANGED <<pending, datagrams>>

Send(ip) ==
    /\ datagrams < MaxDatagrams
    /\ datagrams' = datagrams + 1
    /\ \E accepted \in BOOLEAN : send_udp(ip, Datagram(ip, datagrams'), accepted)
    /\ UNCHANGED pinging

finished == ping.state \in {"ReplyReceived", "HostUnreachable", "TimedOut"}
ReadPing == finished /\ clear_ping_result /\ UNCHANGED <<pending, wire, datagrams>>

Use ==
    /\ at = "rest"
    /\ \/ \E ip \in Destinations : Ping(ip) \/ Send(ip)
       \/ ReadPing
    /\ UNCHANGED <<online, arp, loop>>

Iterate == at = "rest" /\ at' = "frames"
           /\ UNCHANGED <<online, arp, pinging, pending, wire, datagrams, phase, frames>>

Poll == Receive \/ advance_timeout("rest")

Next == Poll \/ Use \/ Iterate \/ Tick

Spec == Init /\ [][Next]_vars

-----------------------------------------------------------------------------
(* Properties.                                                             *)

States == {"Idle", "ResolvingArp", "WaitingReply", "ReplyReceived",
           "HostUnreachable", "TimedOut"}
Addresses == Hosts \cup {None}
Packets == {Echo(h, n) : h \in Hosts, n \in 1 .. MaxPings}
           \cup {Datagram(h, n) : h \in Hosts, n \in 1 .. MaxDatagrams}

TypeOK ==
    /\ online \in BOOLEAN
    /\ cache \in [CacheSlots -> [ip : Neighbours \cup {None}, mac : Macs \cup {None}]]
    /\ replace_index \in CacheSlots
    /\ ping.state \in States /\ ping.address \in Addresses
    /\ ping.sequence \in 0 .. MaxPings
    /\ ping_left \in 0 .. kReplyTimeoutSeconds
    /\ next_sequence \in 1 .. MaxPings + 1
    /\ occupied => /\ pending.next_hop \in Neighbours
                   /\ pending.packet \in Packets
                   /\ pending.left \in 0 .. kArpTimeoutSeconds
    /\ phase \in 0 .. TicksPerSecond - 1
    /\ at \in {"frames", "rest"} /\ frames \in 0 .. kMaxFramesPerPoll
    /\ wire \subseteq Packets /\ answered \subseteq Packets
    /\ datagrams \in 0 .. MaxDatagrams
    /\ announced \in [Neighbours -> Macs \cup {None}]

\* Whoever waits for an address waits for one that is not in the cache: no
\* ARP packet that brings it, asked or not and however many slots are taken,
\* is missed by handle_arp.
WaitingMeansUnknown ==
    /\ ping.state = "ResolvingArp" => ~cached(cache, next_hop(ping.address))
    /\ occupied => ~cached(cache, pending.next_hop)

\* A frame goes to the MAC that its next hop has announced last: an address
\* has one slot at most, and every announcement reaches it.
CacheIsCurrent ==
    /\ \A i \in CacheSlots : cache[i] # Invalid => cache[i].mac = announced[cache[i].ip]
    /\ \A i, j \in CacheSlots : cache[i].ip = cache[j].ip /\ cache[i] # Invalid => i = j

\* The datagram in the slot has not been sent: it leaves the card once or
\* not at all.
SentOnce == occupied => pending.packet \notin wire

\* Ping and datagram wait for an address only as long as they have to.
WaitingSound == WaitingMeansUnknown /\ SentOnce

\* A datagram that was accepted leaves the slot only on the wire, or because
\* its next hop has not answered in time or the card has refused it; no
\* other datagram takes its place before.
NotOverwritten ==
    [][occupied /\ pending.left > 0 /\ pending' # pending =>
         \/ pending' = Vacant /\ cached(cache', pending.next_hop)
         \/ pending'.packet = pending.packet]_vars

\* A reply is reported only for a ping that was answered, however late
\* replies to earlier pings come.
ReplyIsForThisPing ==
    ping.state = "ReplyReceived" => Echo(ping.address, ping.sequence) \in answered
=============================================================================
