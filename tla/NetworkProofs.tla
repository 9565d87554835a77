--------------------------- MODULE NetworkProofs ---------------------------
(***************************************************************************)
(* The properties of Network for every set of addresses, every size of the *)
(* cache and every bound.                                                  *)
(*                                                                         *)
(* Three facts make them inductive: an entry of the cache that is not      *)
(* invalid belongs to a neighbour, a ping that is under way has an address *)
(* and a sequence number, and datagrams are numbered in the order of       *)
(* send_udp, so that a new one is not on the wire.                         *)
(***************************************************************************)
EXTENDS Network, TLAPS

EntriesOfNeighbours ==
    \A i \in CacheSlots : cache[i] = Invalid \/ cache[i].ip \in Neighbours

PingHasTarget ==
    ping.state # "Idle" => ping.address \in Hosts /\ ping.sequence \in 1 .. MaxPings

Numbered ==
    /\ \A p \in wire : p.kind = "udp" => p.id <= datagrams
    /\ occupied => pending.packet.kind = "udp" /\ pending.packet.id <= datagrams

IInv ==
    /\ TypeOK
    /\ EntriesOfNeighbours
    /\ PingHasTarget
    /\ Numbered
    /\ WaitingMeansUnknown
    /\ CacheIsCurrent
    /\ SentOnce
    /\ ReplyIsForThisPing

\* The turn of the cache and the phase of the clock stay in their ranges.
LEMMA ModRange ==
    ASSUME NEW n \in Nat \ {0}, NEW x \in Nat
    PROVE  x % n \in 0 .. n - 1
BY SMT

\* The initial state satisfies the invariant.
LEMMA InitIInv == Init => IInv
<1> SUFFICES ASSUME Init PROVE IInv
    OBVIOUS
<1> USE AddressAssumption, CacheAssumption, FramesAssumption, ClockAssumption, BoundsAssumption
<1>1. TypeOK
    BY DEF Init, TypeOK, CacheSlots, Invalid, Entry, Idle, PingResult, States, Addresses,
           occupied, kReplyTimeoutSeconds, Packets
<1>2. EntriesOfNeighbours /\ CacheIsCurrent
    BY DEF Init, EntriesOfNeighbours, CacheIsCurrent
<1>3. PingHasTarget /\ ReplyIsForThisPing
    BY DEF Init, PingHasTarget, ReplyIsForThisPing, Idle, PingResult
<1>4. Numbered /\ SentOnce
    BY DEF Init, Numbered, SentOnce, occupied
<1>5. WaitingMeansUnknown
    BY DEF Init, WaitingMeansUnknown, Idle, PingResult, occupied
<1> QED
    BY <1>1, <1>2, <1>3, <1>4, <1>5 DEF IInv

\* What learn does to the cache: the entry of ip is the one announced, other
\* entries stay or make room for it.
LEMMA LearnCache ==
    ASSUME TypeOK, EntriesOfNeighbours, CacheIsCurrent,
           NEW ip \in Neighbours, NEW mac \in Macs,
           learn(ip, mac), announced' = [announced EXCEPT ![ip] = mac]
    PROVE  /\ cache' \in [CacheSlots -> [ip : Neighbours \cup {None}, mac : Macs \cup {None}]]
           /\ replace_index' \in CacheSlots
           /\ EntriesOfNeighbours'
           /\ CacheIsCurrent'
           /\ cached(cache', ip)
           /\ \A h : cached(cache', h) => h = ip \/ cached(cache, h)
<1> USE AddressAssumption, CacheAssumption
<1>1. PICK i \in CacheSlots :
        /\ cache' = [cache EXCEPT ![i] = Entry(ip, mac)]
        /\ \/ cached(cache, ip) /\ i \in slots_of(cache, ip)
           \/ ~cached(cache, ip)
        /\ \/ replace_index' = replace_index
           \/ replace_index' = (replace_index % kCacheSize) + 1
    BY Zenon DEF learn, first
<1>2. cache' \in [CacheSlots -> [ip : Neighbours \cup {None}, mac : Macs \cup {None}]]
    BY <1>1 DEF TypeOK, Entry
<1>3. replace_index' \in CacheSlots
    <2>1. replace_index \in Nat /\ replace_index \in CacheSlots
        BY DEF TypeOK, CacheSlots
    <2>2. replace_index % kCacheSize \in 0 .. kCacheSize - 1
        BY <2>1, ModRange
    <2> QED
        BY <1>1, <2>1, <2>2 DEF CacheSlots
<1>4. /\ cache'[i].ip = ip /\ cache'[i].mac = mac
      /\ \A j \in CacheSlots : j # i => cache'[j] = cache[j]
    BY <1>1 DEF TypeOK, Entry
<1>5. EntriesOfNeighbours'
    BY <1>4 DEF EntriesOfNeighbours
<1>6. \A j \in CacheSlots : j # i => cache[j].ip # ip
    <2> SUFFICES ASSUME NEW j \in CacheSlots, j # i, cache[j].ip = ip PROVE FALSE
        OBVIOUS
    <2>1. cached(cache, ip) /\ cache[i].ip = ip
        BY <1>1 DEF cached, slots_of
    <2>2. cache[j] # Invalid
        BY DEF Invalid, Entry
    <2> QED
        BY <2>1, <2>2 DEF CacheIsCurrent
<1>7. CacheIsCurrent'
    <2>1. \A j \in CacheSlots : cache'[j] # Invalid => cache'[j].mac = announced'[cache'[j].ip]
        <3> SUFFICES ASSUME NEW j \in CacheSlots, cache'[j] # Invalid
                     PROVE  cache'[j].mac = announced'[cache'[j].ip]
            OBVIOUS
        <3>1. CASE j = i
            BY <3>1, <1>4 DEF TypeOK
        <3>2. CASE j # i
            <4>1. cache[j].ip \in Neighbours /\ cache[j].ip # ip
                BY <3>2, <1>4, <1>6 DEF EntriesOfNeighbours
            <4> QED
                BY <3>2, <4>1, <1>4 DEF TypeOK, CacheIsCurrent
        <3> QED
            BY <3>1, <3>2
    <2>2. \A j, k \in CacheSlots :
            cache'[j].ip = cache'[k].ip /\ cache'[j] # Invalid => j = k
        BY <1>4, <1>6 DEF CacheIsCurrent
    <2> QED
        BY <2>1, <2>2 DEF CacheIsCurrent
<1>8. cached(cache', ip)
    BY <1>4 DEF cached, slots_of
<1>9. \A h : cached(cache', h) => h = ip \/ cached(cache, h)
    BY <1>4 DEF cached, slots_of
<1> QED
    BY <1>2, <1>3, <1>5, <1>7, <1>8, <1>9

\* handle_arp preserves the invariant: whoever waited for the address that
\* has come goes on, and nobody else waited for it.
LEMMA ArpIInv ==
    ASSUME IInv, NEW ip \in Neighbours, NEW mac \in Macs, handle_arp(ip, mac)
    PROVE  IInv'
<1> USE AddressAssumption, FramesAssumption, BoundsAssumption DEF IInv
<1>1. PICK echo \in BOOLEAN, datagram \in BOOLEAN :
        LET resolved == /\ ping.state = "ResolvingArp"
                        /\ cached(cache', next_hop(ping.address))
            due == occupied /\ pending.left > 0 /\ pending.next_hop = ip
        IN /\ IF resolved THEN transmit_echo_request(ping, echo)
                          ELSE UNCHANGED <<ping, ping_left>>
           /\ wire' = wire
                \cup (IF resolved /\ echo THEN {Echo(ping.address, ping.sequence)} ELSE {})
                \cup (IF due /\ datagram THEN {pending.packet} ELSE {})
    BY DEF handle_arp
<1>2. /\ cache' \in [CacheSlots -> [ip : Neighbours \cup {None}, mac : Macs \cup {None}]]
      /\ replace_index' \in CacheSlots
      /\ EntriesOfNeighbours' /\ CacheIsCurrent'
      /\ cached(cache', ip)
      /\ \A h : cached(cache', h) => h = ip \/ cached(cache, h)
    BY LearnCache, Zenon DEF handle_arp
<1>3. /\ UNCHANGED <<at, phase, online, datagrams, next_sequence, answered>>
      /\ frames' \in 0 .. kMaxFramesPerPoll
    BY DEF handle_arp, take_frame, TypeOK
<1>4. announced' \in [Neighbours -> Macs \cup {None}]
    BY DEF handle_arp, TypeOK
<1>5. \/ UNCHANGED <<ping, ping_left>>
      \/ /\ ping.state = "ResolvingArp"
         /\ ping'.state \in {"WaitingReply", "HostUnreachable"}
         /\ ping'.address = ping.address /\ ping'.sequence = ping.sequence
         /\ ping_left' \in {ping_left, kReplyTimeoutSeconds}
    BY <1>1 DEF transmit_echo_request, PingResult
<1>6. \/ pending' = Vacant
      \/ pending' = pending /\ (occupied => pending.left # 0 /\ pending.next_hop # ip)
    BY DEF handle_arp, release
<1>7. \A p \in wire' : \/ p \in wire
                       \/ ping.state = "ResolvingArp" /\ p = Echo(ping.address, ping.sequence)
                       \/ occupied /\ pending.next_hop = ip /\ p = pending.packet
    BY <1>1
<1>8. wire' \subseteq Packets
    <2>1. ping.state = "ResolvingArp" => Echo(ping.address, ping.sequence) \in Packets
        BY DEF PingHasTarget, Packets
    <2> QED
        BY <1>7, <2>1 DEF TypeOK
<1>9. TypeOK'
    <2>1. ping'.state \in States /\ ping'.address \in Addresses /\ ping'.sequence \in 0 .. MaxPings
        BY <1>5 DEF TypeOK, States
    <2>2. ping_left' \in 0 .. kReplyTimeoutSeconds
        BY <1>5 DEF TypeOK, kReplyTimeoutSeconds
    <2>3. occupied' => /\ pending'.next_hop \in Neighbours
                       /\ pending'.packet \in Packets
                       /\ pending'.left \in 0 .. kArpTimeoutSeconds
        BY <1>6 DEF TypeOK, occupied
    <2> QED
        BY <1>2, <1>3, <1>4, <1>8, <2>1, <2>2, <2>3 DEF TypeOK
<1>10. PingHasTarget'
    BY <1>5 DEF PingHasTarget
<1>11. Numbered'
    <2>1. \A p \in wire' : p.kind = "udp" => p.id <= datagrams
        BY <1>7 DEF Numbered, Echo
    <2> QED
        BY <2>1, <1>3, <1>6 DEF Numbered, occupied
<1>12. WaitingMeansUnknown'
    <2>1. ping'.state = "ResolvingArp" => ~cached(cache', next_hop(ping'.address))
        BY <1>1, <1>5 DEF transmit_echo_request, PingResult
    <2>2. occupied' => ~cached(cache', pending'.next_hop)
        BY <1>2, <1>6 DEF WaitingMeansUnknown, occupied
    <2> QED
        BY <2>1, <2>2 DEF WaitingMeansUnknown, next_hop
<1>13. SentOnce'
    <2> SUFFICES ASSUME occupied', pending'.packet \in wire' PROVE FALSE
        BY DEF SentOnce
    <2>1. pending' = pending /\ occupied /\ pending.next_hop # ip
        BY <1>6 DEF occupied
    <2>2. pending.packet.kind = "udp" /\ pending.packet \notin wire
        BY <2>1 DEF Numbered, SentOnce
    <2> QED
        BY <1>7, <2>1, <2>2 DEF Echo
<1>14. ReplyIsForThisPing'
    BY <1>3, <1>5 DEF ReplyIsForThisPing
<1> QED
    BY <1>2, <1>9, <1>10, <1>11, <1>12, <1>13, <1>14

\* handle_echo_reply preserves the invariant: a reply that is accepted is
\* the reply to the echo request of this ping.
LEMMA EchoReplyIInv ==
    ASSUME IInv, NEW e \in EchoRequests, handle_echo_reply(e)
    PROVE  IInv'
<1> USE FramesAssumption, BoundsAssumption DEF IInv
<1>1. /\ UNCHANGED <<at, phase, online, datagrams, arp, ping_left, next_sequence, pending, wire>>
      /\ frames' \in 0 .. kMaxFramesPerPoll
      /\ answered' = answered \cup {e}
    BY DEF handle_echo_reply, take_frame, TypeOK
<1>2. e \in Packets /\ e.kind = "echo"
    BY DEF EchoRequests, TypeOK
<1>3. \/ ping' = ping
      \/ /\ ping.state = "WaitingReply" /\ e.to = ping.address /\ e.id = ping.sequence
         /\ ping'.state = "ReplyReceived"
         /\ ping'.address = ping.address /\ ping'.sequence = ping.sequence
    BY DEF handle_echo_reply, accept_echo_reply, in_state, PingResult
<1>4. TypeOK'
    <2>1. ping'.state \in States /\ ping'.address \in Addresses /\ ping'.sequence \in 0 .. MaxPings
        BY <1>3 DEF TypeOK, States
    <2>2. answered' \subseteq Packets
        BY <1>1, <1>2 DEF TypeOK
    <2> QED
        BY <1>1, <2>1, <2>2 DEF TypeOK, occupied, arp
<1>5. EntriesOfNeighbours' /\ CacheIsCurrent'
    BY <1>1 DEF EntriesOfNeighbours, CacheIsCurrent, arp
<1>6. Numbered' /\ SentOnce'
    BY <1>1 DEF Numbered, SentOnce, occupied
<1>7. PingHasTarget'
    BY <1>3 DEF PingHasTarget
<1>8. WaitingMeansUnknown'
    BY <1>1, <1>3 DEF WaitingMeansUnknown, cached, slots_of, next_hop, occupied, arp
<1>9. ReplyIsForThisPing'
    <2>1. e = Echo(e.to, e.id)
        BY <1>2 DEF Packets, Echo, Datagram
    <2> QED
        BY <1>1, <1>3, <2>1 DEF ReplyIsForThisPing
<1> QED
    BY <1>4, <1>5, <1>6, <1>7, <1>8, <1>9

\* The end of poll preserves the invariant.
LEMMA TimeoutIInv ==
    ASSUME IInv, advance_timeout("rest")
    PROVE  IInv'
<1> USE FramesAssumption, BoundsAssumption DEF IInv
<1>1. /\ UNCHANGED <<online, arp, ping_left, next_sequence, answered, wire, datagrams, phase>>
      /\ at' = "rest" /\ frames' = 0
    BY DEF advance_timeout
<1>2. pending' = Vacant \/ pending' = pending
    BY DEF advance_timeout
<1>3. \/ ping' = ping
      \/ /\ ping.state \in {"ResolvingArp", "WaitingReply"}
         /\ ping'.state \in {"HostUnreachable", "TimedOut"}
         /\ ping'.address = ping.address /\ ping'.sequence = ping.sequence
    BY DEF advance_timeout, timed_out, in_state, PingResult
<1>4. TypeOK'
    <2>1. ping'.state \in States /\ ping'.address \in Addresses /\ ping'.sequence \in 0 .. MaxPings
        BY <1>3 DEF TypeOK, States
    <2>2. occupied' => /\ pending'.next_hop \in Neighbours
                       /\ pending'.packet \in Packets
                       /\ pending'.left \in 0 .. kArpTimeoutSeconds
        BY <1>2 DEF TypeOK, occupied
    <2> QED
        BY <1>1, <2>1, <2>2 DEF TypeOK, arp
<1>5. EntriesOfNeighbours' /\ CacheIsCurrent'
    BY <1>1 DEF EntriesOfNeighbours, CacheIsCurrent, arp
<1>6. Numbered' /\ SentOnce'
    BY <1>1, <1>2 DEF Numbered, SentOnce, occupied
<1>7. PingHasTarget' /\ ReplyIsForThisPing'
    BY <1>1, <1>3 DEF PingHasTarget, ReplyIsForThisPing
<1>8. WaitingMeansUnknown'
    BY <1>1, <1>2, <1>3 DEF WaitingMeansUnknown, cached, slots_of, next_hop, occupied, arp
<1> QED
    BY <1>4, <1>5, <1>6, <1>7, <1>8

\* A ping that is started preserves the invariant: it waits for an address
\* only if the cache does not have it.
LEMMA PingIInv ==
    ASSUME IInv, NEW ip \in Destinations, Ping(ip), UNCHANGED <<online, arp, loop>>
    PROVE  IInv'
<1> USE AddressAssumption, BoundsAssumption DEF IInv
<1>1. /\ UNCHANGED <<online, arp, loop, pending, datagrams, answered>>
      /\ next_sequence \in 1 .. MaxPings /\ next_sequence' = next_sequence + 1
      /\ ip \in Hosts
    BY DEF Ping, start_ping, TypeOK, Hosts
<1>2. /\ ping'.address = ip /\ ping'.sequence = next_sequence
      /\ ping'.state \in {"WaitingReply", "ResolvingArp", "HostUnreachable"}
      /\ ping'.state = "ResolvingArp" => ~cached(cache, next_hop(ip))
      /\ ping_left' \in {ping_left, kReplyTimeoutSeconds, kArpTimeoutSeconds}
      /\ wire' = wire \/ wire' = wire \cup {Echo(ip, next_sequence)}
    BY DEF Ping, start_ping, transmit_echo_request, PingResult
<1>3. Echo(ip, next_sequence) \in Packets
    BY <1>1 DEF Packets
<1>4. TypeOK'
    <2>1. ping'.state \in States /\ ping'.address \in Addresses /\ ping'.sequence \in 0 .. MaxPings
        BY <1>1, <1>2 DEF States, Addresses
    <2>2. /\ ping_left' \in 0 .. kReplyTimeoutSeconds
          /\ next_sequence' \in 1 .. MaxPings + 1
        BY <1>1, <1>2 DEF TypeOK, kReplyTimeoutSeconds, kArpTimeoutSeconds
    <2>3. wire' \subseteq Packets
        BY <1>2, <1>3 DEF TypeOK
    <2> QED
        BY <1>1, <2>1, <2>2, <2>3 DEF TypeOK, occupied, arp, loop
<1>5. EntriesOfNeighbours' /\ CacheIsCurrent'
    BY <1>1 DEF EntriesOfNeighbours, CacheIsCurrent, arp
<1>6. Numbered' /\ SentOnce'
    BY <1>1, <1>2 DEF Numbered, SentOnce, occupied, Echo
<1>7. PingHasTarget' /\ ReplyIsForThisPing'
    BY <1>1, <1>2 DEF PingHasTarget, ReplyIsForThisPing
<1>8. WaitingMeansUnknown'
    BY <1>1, <1>2 DEF WaitingMeansUnknown, cached, slots_of, next_hop, occupied, arp
<1> QED
    BY <1>4, <1>5, <1>6, <1>7, <1>8

\* send_udp preserves the invariant: its datagram is a new one, and takes
\* the slot only if the cache does not have its next hop.
LEMMA SendIInv ==
    ASSUME IInv, NEW ip \in Destinations, Send(ip), UNCHANGED <<online, arp, loop>>
    PROVE  IInv'
<1> USE AddressAssumption, BoundsAssumption DEF IInv
<1> DEFINE packet == Datagram(ip, datagrams + 1)
<1>1. /\ UNCHANGED <<online, arp, loop, pinging>>
      /\ datagrams \in Nat /\ datagrams + 1 \in 1 .. MaxDatagrams /\ datagrams' = datagrams + 1
      /\ ip \in Hosts
    BY DEF Send, TypeOK, Hosts
<1>2. \/ UNCHANGED <<pending, wire>>
      \/ pending' = pending /\ wire' = wire \cup {packet}
      \/ /\ ~cached(cache, next_hop(ip)) /\ wire' = wire
         /\ pending' = Pending(next_hop(ip), packet, kArpTimeoutSeconds)
      \/ pending' = Vacant /\ wire' = wire
    BY <1>1 DEF Send, send_udp
<1>3. packet \in Packets /\ packet.kind = "udp" /\ packet.id = datagrams + 1
    <2>1. packet \in Packets
        BY <1>1 DEF Packets
    <2> QED
        BY <2>1 DEF Datagram
<1>4. packet \notin wire
    BY <1>1, <1>3 DEF Numbered
<1>5. next_hop(ip) \in Neighbours
    BY DEF next_hop
<1> HIDE DEF packet
<1>6. TypeOK'
    <2>1. wire' \subseteq Packets
        BY <1>2, <1>3 DEF TypeOK
    <2>2. occupied' => /\ pending'.next_hop \in Neighbours
                       /\ pending'.packet \in Packets
                       /\ pending'.left \in 0 .. kArpTimeoutSeconds
        BY <1>2, <1>3, <1>5 DEF TypeOK, occupied, Pending, kArpTimeoutSeconds
    <2>3. datagrams' \in 0 .. MaxDatagrams
        BY <1>1
    <2> QED
        BY <1>1, <2>1, <2>2, <2>3 DEF TypeOK, arp, loop, pinging
<1>7. EntriesOfNeighbours' /\ CacheIsCurrent'
    BY <1>1 DEF EntriesOfNeighbours, CacheIsCurrent, arp
<1>8. PingHasTarget' /\ ReplyIsForThisPing'
    BY <1>1 DEF PingHasTarget, ReplyIsForThisPing, pinging
<1>9. Numbered'
    <2>1. \A p \in wire' : p.kind = "udp" => p.id <= datagrams + 1
        <3> SUFFICES ASSUME NEW p \in wire, p.kind = "udp" PROVE p.id <= datagrams + 1
            BY <1>1, <1>2, <1>3
        <3>1. p.id \in Nat
            BY DEF TypeOK, Packets, Datagram, Echo
        <3> QED
            BY <1>1, <3>1 DEF Numbered
    <2>2. occupied' => pending'.packet.kind = "udp" /\ pending'.packet.id <= datagrams + 1
        <3>1. occupied => pending.packet.id \in Nat
            BY DEF TypeOK, Packets, Datagram, Echo
        <3> QED
            BY <1>1, <1>2, <1>3, <3>1 DEF Numbered, occupied, Pending
    <2> QED
        BY <1>1, <2>1, <2>2 DEF Numbered
<1>10. WaitingMeansUnknown'
    BY <1>1, <1>2 DEF WaitingMeansUnknown, cached, slots_of, next_hop, occupied, Pending,
                      arp, pinging
<1>11. SentOnce'
    <2>1. occupied => pending.packet # packet
        BY <1>1, <1>3 DEF Numbered
    <2> QED
        BY <1>2, <1>4, <2>1 DEF SentOnce, occupied, Pending
<1> QED
    BY <1>6, <1>7, <1>8, <1>9, <1>10, <1>11

\* The timer interrupt preserves the invariant: it changes no more than the
\* time that is left.
LEMMA TickIInv ==
    ASSUME IInv, Tick
    PROVE  IInv'
<1> USE ClockAssumption DEF IInv
<1>1. /\ UNCHANGED <<online, arp, ping, next_sequence, answered, wire, datagrams, at, frames>>
      /\ phase' = (phase + 1) % TicksPerSecond
    BY DEF Tick
<1>2. phase' \in 0 .. TicksPerSecond - 1
    <2>1. phase + 1 \in Nat
        BY DEF TypeOK
    <2> QED
        BY <1>1, <2>1, ModRange
<1>3. ping_left' \in 0 .. kReplyTimeoutSeconds
    BY DEF Tick, second_passes, less, TypeOK, kReplyTimeoutSeconds
<1>4. \/ pending' = pending
      \/ occupied /\ pending' = Pending(pending.next_hop, pending.packet, less(pending.left))
    BY DEF Tick, second_passes
<1>5. TypeOK'
    <2>1. occupied' => /\ pending'.next_hop \in Neighbours
                       /\ pending'.packet \in Packets
                       /\ pending'.left \in 0 .. kArpTimeoutSeconds
        BY <1>4 DEF TypeOK, occupied, Pending, less, kArpTimeoutSeconds
    <2> QED
        BY <1>1, <1>2, <1>3, <2>1 DEF TypeOK, arp
<1>6. EntriesOfNeighbours' /\ CacheIsCurrent'
    BY <1>1 DEF EntriesOfNeighbours, CacheIsCurrent, arp
<1>7. PingHasTarget' /\ ReplyIsForThisPing'
    BY <1>1 DEF PingHasTarget, ReplyIsForThisPing
<1>8. Numbered' /\ SentOnce'
    BY <1>1, <1>4 DEF Numbered, SentOnce, occupied, Pending
<1>9. WaitingMeansUnknown'
    BY <1>1, <1>4 DEF WaitingMeansUnknown, cached, slots_of, next_hop, occupied, Pending, arp
<1> QED
    BY <1>5, <1>6, <1>7, <1>8, <1>9

\* The steps that change none of the variables of the cache, the slot and
\* the wire preserve the invariant.
LEMMA QuietIInv ==
    ASSUME IInv,
           UNCHANGED <<online, arp, ping_left, next_sequence, answered, pending, wire, datagrams,
                       phase, frames>>,
           at' \in {"frames", "rest"},
           ping' = ping \/ ping' = Idle
    PROVE  IInv'
<1> USE BoundsAssumption DEF IInv
<1>1. TypeOK'
    BY DEF TypeOK, occupied, arp, Idle, PingResult, States, Addresses
<1>2. EntriesOfNeighbours' /\ CacheIsCurrent'
    BY DEF EntriesOfNeighbours, CacheIsCurrent, arp
<1>3. PingHasTarget' /\ ReplyIsForThisPing'
    BY DEF PingHasTarget, ReplyIsForThisPing, Idle, PingResult
<1>4. Numbered' /\ SentOnce'
    BY DEF Numbered, SentOnce, occupied
<1>5. WaitingMeansUnknown'
    BY DEF WaitingMeansUnknown, cached, slots_of, next_hop, occupied, Idle, PingResult, arp
<1> QED
    BY <1>1, <1>2, <1>3, <1>4, <1>5

\* Every step preserves the invariant.
LEMMA NextIInv == IInv /\ [Next]_vars => IInv'
<1> SUFFICES ASSUME IInv, [Next]_vars PROVE IInv'
    OBVIOUS
<1>1. CASE Receive
    BY <1>1, ArpIInv, EchoReplyIInv DEF Receive
<1>2. CASE advance_timeout("rest")
    BY <1>2, TimeoutIInv
<1>3. CASE Use
    <2>1. UNCHANGED <<online, arp, loop>>
        BY <1>3 DEF Use
    <2>2. CASE \E ip \in Destinations : Ping(ip)
        BY <2>1, <2>2, PingIInv
    <2>3. CASE \E ip \in Destinations : Send(ip)
        BY <2>1, <2>3, SendIInv
    <2>4. CASE ReadPing
        BY <2>1, <2>4, QuietIInv DEF ReadPing, clear_ping_result, loop, IInv, TypeOK
    <2> QED
        BY <1>3, <2>2, <2>3, <2>4 DEF Use
<1>4. CASE Iterate
    BY <1>4, QuietIInv DEF Iterate, pinging
<1>5. CASE Tick
    BY <1>5, TickIInv
<1>6. CASE UNCHANGED vars
    BY <1>6, QuietIInv DEF vars, pinging, loop, IInv, TypeOK
<1> QED
    BY <1>1, <1>2, <1>3, <1>4, <1>5, <1>6 DEF Next, Poll

\* IInv is an invariant of the network.
THEOREM NetworkInvariance == Spec => []IInv
BY InitIInv, NextIInv, PTL DEF Spec

\* Whoever waits for an address waits for one that is not in the cache, for
\* any number of neighbours and any size of the cache: handle_arp wakes the
\* ping and the datagram whenever learn brings their next hop, and a datagram
\* that waits in g_pending_udp has not been sent.
THEOREM NobodyWaitsInVain == Spec => []WaitingSound
BY NetworkInvariance, PTL DEF IInv, WaitingSound

\* The cache has one entry at most for an address, and it is what the
\* address has announced last: learn updates before it inserts.
THEOREM CacheStaysCurrent == Spec => []CacheIsCurrent
BY NetworkInvariance, PTL DEF IInv

\* A ping reports a reply only if its own echo request was answered.
THEOREM RepliesMatch == Spec => []ReplyIsForThisPing
BY NetworkInvariance, PTL DEF IInv

\* The network is type correct.
THEOREM NetworkTypeCorrect == Spec => []TypeOK
BY NetworkInvariance, PTL DEF IInv

\* The slot is not given to another datagram while one waits in time:
\* send_udp refuses, and handle_arp empties it only for the neighbour that
\* has answered.
THEOREM SlotNotOverwritten == Spec => NotOverwritten
<1> DEFINE Step == occupied /\ pending.left > 0 /\ pending' # pending =>
                       \/ pending' = Vacant /\ cached(cache', pending.next_hop)
                       \/ pending'.packet = pending.packet
<1>1. IInv /\ [Next]_vars => [Step]_vars
    <2> SUFFICES ASSUME IInv, Next, occupied, pending.left > 0, pending' # pending
                 PROVE  \/ pending' = Vacant /\ cached(cache', pending.next_hop)
                        \/ pending'.packet = pending.packet
        BY DEF vars
    <2>1. CASE Receive
        <3>1. PICK ip \in Neighbours, mac \in Macs : handle_arp(ip, mac)
            BY <2>1 DEF Receive, handle_echo_reply
        <3>2. cached(cache', ip)
            BY <3>1, LearnCache, Zenon DEF handle_arp, IInv
        <3> QED
            BY <3>1, <3>2 DEF handle_arp, release, IInv, TypeOK
    <2>2. CASE advance_timeout("rest")
        BY <2>2 DEF advance_timeout
    <2>3. CASE Use
        BY <2>3 DEF Use, Ping, Send, send_udp, busy, ReadPing
    <2>4. CASE Iterate
        BY <2>4 DEF Iterate
    <2>5. CASE Tick
        BY <2>5 DEF Tick, second_passes, Pending
    <2> QED
        BY <2>1, <2>2, <2>3, <2>4, <2>5 DEF Next, Poll
<1> QED
    BY <1>1, NetworkInvariance, PTL DEF Spec, NotOverwritten
=============================================================================
