-------------------------------- MODULE Dns --------------------------------
(***************************************************************************)
(* kernel/net/dns.cpp, the resolver, and the part of the terminal's        *)
(* ShellSession that uses it and ping, on top of Network.                  *)
(*                                                                         *)
(* An iteration of the desktop loop is network::poll, which calls on_udp   *)
(* for answers, then dns::poll, then ShellSession::poll, then at most one  *)
(* command that the user has typed.  Only the timer interrupt comes in     *)
(* between.  While the terminal shows the editor, the session is not       *)
(* polled.                                                                 *)
(*                                                                         *)
(* An answer to a query may carry any CNAME and A records.  Bytes and      *)
(* compression are left out: an answer that is refused before its records  *)
(* are looked at (its format, a truncation, an rcode) is one of Failures.  *)
(***************************************************************************)
EXTENDS Network, Sequences, FiniteSets

LOCAL INSTANCE FiniteSetsExt

CONSTANTS
    Hostnames,
    Asked,            \* names that the user looks up
    Servers,          \* addresses that dnsserver may be given
    DefaultServer,
    Failures,         \* statuses of answers whose records are not looked at
    Aliases,          \* the CNAME records of answers, as pairs of owner and target
    MaxRecords,       \* bound: records of an answer
    kVisitedNames,    \* room in Resolver::visited_names, 5 in the code
    MaxCommands       \* bound: lookups begun and pings started

ASSUME ResolverAssumption ==
    /\ DefaultServer \in Servers /\ Servers \subseteq Hosts
    /\ Asked \subseteq Hostnames /\ Aliases \subseteq Hostnames \X Hostnames
    /\ Failures \subseteq {"MalformedResponse", "TruncatedResponse", "NotFound", "ServerFailure"}
    /\ kVisitedNames \in Nat \ {0}

VARIABLES
    server,         \* Resolver::server
    resolver,       \* the other fields of g_resolver
    dns_pending,    \* ShellSession::dns_pending_
    mode,           \* TerminalApp::mode_
    lookups,        \* history: lookups begun so far
    source          \* history: the query whose answer was accepted last

dnsVars == <<server, resolver, dns_pending, mode, lookups, source>>
allVars == <<vars, dnsVars>>

attempt_ticks == 2 * TicksPerSecond

\* visited is visited_names[0 .. visited_count - 1]; question is its last
\* element.  elapsed is the time since sent_at while an answer is awaited.
Resolver(bound) ==
    [bound |-> bound, status |-> "Idle", awaiting |-> FALSE, queued_followup |-> FALSE,
     visited |-> <<>>, addresses |-> {}, next_id |-> 0, active_id |-> 0,
     attempts |-> 0, elapsed |-> 0]

question(r) == r.visited[Len(r.visited)]

Query(to, id, name, lookup) ==
    [kind |-> "udp", to |-> to, id |-> id, name |-> name, lookup |-> lookup]
Queries == {p \in wire : p.kind = "udp"}
NoQuery == Query(None, 0, None, 0)

DnsInit ==
    /\ Init
    /\ server = DefaultServer
    /\ \E bound \in BOOLEAN : resolver = Resolver(bound)    \* initialize
    /\ dns_pending = FALSE /\ mode = "Shell"
    /\ lookups = 0
    /\ source = NoQuery

-----------------------------------------------------------------------------
(* The resolver.                                                           *)

stop_waiting(r) == [r EXCEPT !.awaiting = FALSE, !.elapsed = 0]
unavailable(r) == [stop_waiting(r) EXCEPT !.status = "NetworkUnavailable",
                                          !.queued_followup = FALSE]

\* send_attempt with the state r, in the lookup with the given number.
send_attempt(r, lookup) ==
    LET id == (r.next_id + 1) % 65536
    IN \E accepted \in BOOLEAN :
         /\ send_udp(server, Query(server, id, question(r), lookup), accepted)
         /\ resolver' = IF accepted
                        THEN [r EXCEPT !.next_id = id, !.active_id = id,
                                       !.attempts = @ + 1, !.elapsed = 0, !.awaiting = TRUE]
                        ELSE unavailable(r)

\* The records of an answer: CNAMEs, and the owners of A records.
Answers ==
    [failure : Failures] \cup
    UNION {{[aliases |-> records \ Hostnames, owners |-> records \cap Hostnames] :
              records \in kSubset(n, Aliases \cup Hostnames)} :
           n \in 0 .. MaxRecords}

complete(r, status) == [r EXCEPT !.status = status, !.addresses = {}]

\* An alias has another target or an address as well.
ambiguous(answer) ==
    \E alias \in answer.aliases :
        \/ alias[1] \in answer.owners
        \/ \E other \in answer.aliases : other[1] = alias[1] /\ other[2] # alias[2]

\* Mutant: there is always room for another name.
room_always(visited) == TRUE
room(visited) == Len(visited) < kVisitedNames

\* The names visited when the aliases are followed to their end, none if a
\* name comes back or there is no room for it.
follow(aliases, visited) ==
    LET from[n \in 0 .. Cardinality(aliases)] ==
            IF n = 0 THEN visited
            ELSE LET before == from[n - 1]
                     targets == {a[2] : a \in {x \in aliases : x[1] = before[Len(before)]}}
                     target == CHOOSE t \in targets : TRUE
                 IN IF before = <<>> \/ targets = {} THEN before
                    ELSE IF (\E i \in DOMAIN before : before[i] = target) \/ ~room(before)
                    THEN <<>>
                    ELSE Append(before, target)
    IN from[Cardinality(aliases)]

\* A matching answer: the follow-up question, or the end of the lookup.
found(r, visited, owners) ==
    IF visited = <<>> THEN complete(r, "CnameLoopOrLimit")
    ELSE IF visited[Len(visited)] \in owners
    THEN [r EXCEPT !.status = "Success", !.addresses = {visited[Len(visited)]}]
    ELSE IF visited # r.visited
    THEN [r EXCEPT !.visited = visited, !.attempts = 0, !.queued_followup = TRUE]
    ELSE complete(r, "NotFound")
parse_response(r, answer) ==
    IF "failure" \in DOMAIN answer THEN complete(r, answer.failure)
    ELSE IF ambiguous(answer) THEN complete(r, "MalformedResponse")
    ELSE found(r, follow(answer.aliases, r.visited), answer.owners)

\* Mutant: an answer to any query for the name will do.
matches_name(q) ==
    /\ resolver.status = "Pending" /\ resolver.awaiting
    /\ q.to = server /\ q.name = question(resolver)

\* The answer is for the query under way: on_udp does not ignore it.
matches(q) ==
    /\ resolver.status = "Pending" /\ resolver.awaiting
    /\ q.to = server /\ q.id = resolver.active_id

\* Mutant: an answer to an earlier query ends the waiting.
ignore_stops(q) == stop_waiting(resolver)
ignore(q) == resolver

\* on_udp, called from network::poll for an answer to query q.
on_udp(q) ==
    /\ take_frame
    /\ \/ /\ matches(q)
          /\ resolver' \in {parse_response(stop_waiting(resolver), answer) : answer \in Answers}
          /\ source' = q
       \/ /\ ~matches(q)
          /\ resolver' = ignore(q)
          /\ UNCHANGED source
    /\ UNCHANGED <<arp, pinging, pending, wire, server, dns_pending, mode, lookups>>

\* Mutant: the second attempt is repeated until it is answered.
last_attempt_never(r) == FALSE
last_attempt(r) == r.attempts # 1

dns_poll ==
    /\ at = "dns" /\ at' = "session"
    /\ LET r == resolver
           due == r.status = "Pending" /\ r.awaiting /\ r.elapsed >= attempt_ticks
       IN IF r.status = "Pending" /\ r.queued_followup
          THEN send_attempt([r EXCEPT !.queued_followup = FALSE], lookups)
          ELSE IF due /\ ~last_attempt(r)
          THEN send_attempt(stop_waiting(r), lookups)
          ELSE /\ resolver' = IF due THEN [stop_waiting(r) EXCEPT !.status = "TimedOut"]
                                     ELSE r
               /\ UNCHANGED <<pending, wire>>
    /\ UNCHANGED <<online, arp, pinging, datagrams, phase, frames,
                   server, dns_pending, mode, lookups, source>>

\* begin_lookup of a name that can be encoded.
begin_lookup(name) ==
    LET r == [resolver EXCEPT !.awaiting = FALSE, !.queued_followup = FALSE, !.addresses = {}]
    IN /\ resolver.status # "Pending"
       /\ lookups' = lookups + 1
       /\ IF ~r.bound \/ ~online
          THEN resolver' = unavailable(r) /\ UNCHANGED <<pending, wire>>
          ELSE send_attempt([r EXCEPT !.status = "Pending", !.visited = <<name>>,
                                      !.attempts = 0], lookups')
       /\ UNCHANGED <<server, source>>

\* begin_lookup of a name that cannot.
invalid_name ==
    /\ resolver.status # "Pending"
    /\ resolver' = [resolver EXCEPT !.status = "InvalidName"]
    /\ UNCHANGED <<pending, wire, server, lookups, source>>

set_server(ip) ==
    /\ resolver.status # "Pending"
    /\ server' = ip
    /\ UNCHANGED <<pending, wire, resolver, lookups, source>>

-----------------------------------------------------------------------------
(* The session of the terminal.                                            *)

session_poll ==
    /\ at = "session" /\ at' = "input"
    /\ IF mode = "Shell" /\ finished THEN clear_ping_result ELSE UNCHANGED pinging
    /\ dns_pending' = (dns_pending /\ (mode = "Editor" \/ resolver.status = "Pending"))
    /\ UNCHANGED <<online, arp, pending, wire, datagrams, phase, frames,
                   server, resolver, mode, lookups, source>>

\* The bound on commands that start something.
may_start == lookups + next_sequence <= MaxCommands

\* on_char with the newline of a command; nothing is taken while a lookup is
\* awaited.
on_char ==
    /\ at = "input" /\ at' = "frames"
    /\ mode = "Shell" /\ ~dns_pending
    /\ \/ /\ may_start
          /\ \E ip \in Destinations : Ping(ip)
          /\ UNCHANGED dnsVars
       \/ /\ UNCHANGED <<pinging, datagrams, mode>>
          /\ \/ may_start /\ \E name \in Asked : begin_lookup(name)
             \/ invalid_name
             \/ \E ip \in Servers : set_server(ip)
          /\ dns_pending' = (resolver'.status = "Pending")
       \/ /\ mode' = "Editor"
          /\ UNCHANGED <<pinging, pending, wire, datagrams,
                         server, resolver, dns_pending, lookups, source>>
    /\ UNCHANGED <<online, arp, phase, frames>>

\* on_key with the key that leaves the editor.
quit_editor ==
    /\ at = "input" /\ at' = "frames"
    /\ mode = "Editor" /\ mode' = "Shell"
    /\ UNCHANGED <<online, arp, pinging, pending, wire, datagrams, phase, frames,
                   server, resolver, dns_pending, lookups, source>>

no_command ==
    /\ at = "input" /\ at' = "frames"
    /\ UNCHANGED <<online, arp, pinging, pending, wire, datagrams, phase, frames, dnsVars>>

DnsTick ==
    /\ Tick
    /\ resolver' = [resolver EXCEPT !.elapsed =
                      IF resolver.awaiting /\ @ < attempt_ticks THEN @ + 1 ELSE @]
    /\ UNCHANGED <<server, dns_pending, mode, lookups, source>>

DnsReceive == \/ Receive /\ UNCHANGED dnsVars
              \/ \E q \in Queries : on_udp(q)
LoopStep ==
    \/ DnsReceive
    \/ advance_timeout("dns") /\ UNCHANGED dnsVars
    \/ dns_poll \/ session_poll \/ on_char \/ quit_editor \/ no_command

DnsNext == LoopStep \/ DnsTick

DnsSpec == DnsInit /\ [][DnsNext]_allVars

\* The desktop loop goes round for ever and the timer does not stop.
FairDnsSpec == DnsSpec /\ WF_allVars(LoopStep) /\ WF_allVars(DnsTick)

-----------------------------------------------------------------------------
(* Properties.                                                             *)

\* Addresses are reported for the name that was asked for, at the end of
\* its chain of aliases, and come from an answer to a query of this very
\* lookup: answers to queries that were given up, in this lookup or an
\* earlier one, have no effect.
AnswerIsForThisLookup ==
    resolver.status = "Success" =>
        /\ source.lookup = lookups
        /\ source.name = question(resolver)
        /\ source.id = resolver.active_id

\* A name is asked for at most twice in a lookup, and a lookup asks for at
\* most kVisitedNames names.
TwoAttempts ==
    \A l \in 1 .. lookups :
        LET asked == {q \in Queries : q.lookup = l}
        IN /\ \A n \in Hostnames : Cardinality({q \in asked : q.name = n}) <= 2
           /\ Cardinality({q.name : q \in asked}) <= kVisitedNames

\* The slot for a datagram that waits for an address never makes a lookup
\* fail: it is free again before the resolver's own next attempt.
OnlyCardRefuses ==
    [][resolver.status # "NetworkUnavailable" /\ resolver'.status = "NetworkUnavailable"
          => ~online \/ ~busy]_allVars

\* Every lookup ends and the terminal takes commands again, whoever answers:
\* the editor cannot be opened while one is awaited.
LookupEnds == dns_pending ~> ~dns_pending

\* Every ping ends, and its result is reported and cleared unless the user
\* has gone into the editor, where the session is not polled.
PingIsReported == ping.state # "Idle" ~> ping.state = "Idle" \/ mode = "Editor"
=============================================================================
