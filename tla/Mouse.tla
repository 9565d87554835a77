------------------------------- MODULE Mouse -------------------------------
(***************************************************************************)
(* kernel/arch/mouse_helpers.hpp and mouse.cpp: the decoder of PS/2 mouse  *)
(* packets and the ring of mouse events between the interrupt handler and  *)
(* the desktop's loop.                                                     *)
(*                                                                         *)
(* g_head, g_tail and g_count are volatile, and read_event runs with       *)
(* interrupts enabled: --g_count is a load and a later store.  g_events is *)
(* not volatile, so a build may load the event before or after them; GCC   *)
(* with the Makefile's options loads it last.                              *)
(*                                                                         *)
(* Every event carries the number of its packet, which the code does not   *)
(* have, so that events can be told apart.                                 *)
(***************************************************************************)
EXTENDS Integers, Sequences

CONSTANTS
    kEventCapacity,     \* 64 in the code
    Packets             \* the packets that the mouse sends: header, x and y

ASSUME PacketAssumption ==
    /\ kEventCapacity \in Nat \ {0}
    /\ Packets \subseteq (0..255) \X (0..255) \X (0..255)

VARIABLES
    packet,         \* g_decoder: the bytes of the packet so far
    events, head, tail, count,      \* g_events, g_head, g_tail, g_count
    reading,        \* the locals of read_event
    sending,        \* external: the packet that the mouse is sending, and what is left of it
    accepted,       \* history: number of events queued so far
    pending         \* history: events that were queued and not yet returned, oldest first

mouseVars == <<packet, events, head, tail, count, reading, sending, accepted, pending>>

-----------------------------------------------------------------------------
(* PacketDecoder.                                                          *)

Acknowledgement == 250
bit(byte, n) == (byte \div 2^n) % 2 = 1

\* A first byte that is ignored.
not_a_header(byte) == byte = Acknowledgement \/ ~bit(byte, 3)
overflowed(flags) == bit(flags, 6) \/ bit(flags, 7)

\* A 9-bit number in two's complement; its sign is in the flags.
decode_axis(raw, negative) == IF negative THEN raw - 256 ELSE raw

\* feed: the bytes that are kept, and whether a packet is complete and emitted.
kept_any(bytes, byte) == IF Len(bytes) = 2 THEN <<>> ELSE Append(bytes, byte)

kept(bytes, byte) ==
    IF Len(bytes) = 0 /\ not_a_header(byte) THEN <<>>
    ELSE IF Len(bytes) = 2 THEN <<>>
    ELSE Append(bytes, byte)
emitted(bytes) == Len(bytes) = 2 /\ ~overflowed(bytes[1])

mouse_event(flags, raw_x, raw_y, n) ==
    [dx |-> decode_axis(raw_x, bit(flags, 4)), dy |-> decode_axis(raw_y, bit(flags, 5)),
     left |-> bit(flags, 0), right |-> bit(flags, 1), middle |-> bit(flags, 2), number |-> n]
NoMouseEvent ==
    [dx |-> 0, dy |-> 0, left |-> FALSE, right |-> FALSE, middle |-> FALSE, number |-> 0]

-----------------------------------------------------------------------------
(* The ring.                                                               *)

next_slot(n) == (n + 1) % kEventCapacity

MouseInit ==
    /\ packet = <<>>
    /\ events = [n \in 0..kEventCapacity - 1 |-> NoMouseEvent]
    /\ head = 0 /\ tail = 0 /\ count = 0
    /\ reading = [at |-> "idle", slot |-> 0, early |-> FALSE, count |-> 0,
                  event |-> NoMouseEvent]
    /\ sending = <<>>
    /\ accepted = 0 /\ pending = <<>>

has_mouse_event == count # 0

push_event_counting(event) ==
    /\ count' = count + 1
    /\ IF count = kEventCapacity THEN UNCHANGED <<events, head, accepted, pending>>
       ELSE /\ events' = [events EXCEPT ![head] = event]
            /\ head' = next_slot(head)
            /\ accepted' = accepted + 1
            /\ pending' = Append(pending, event)

push_event(event) ==
    IF count = kEventCapacity THEN UNCHANGED <<events, head, count, accepted, pending>>
    ELSE /\ events' = [events EXCEPT ![head] = event]
         /\ head' = next_slot(head)
         /\ count' = count + 1
         /\ accepted' = accepted + 1
         /\ pending' = Append(pending, event)

\* The interrupt handler: nothing else runs until it returns.
mouse_on_irq(byte) ==
    /\ packet' = kept(packet, byte)
    /\ IF emitted(packet)
       THEN push_event(mouse_event(packet[1], packet[2], byte, accepted + 1))
       ELSE UNCHANGED <<events, head, count, accepted, pending>>
    /\ UNCHANGED <<tail, reading>>

\* The mouse sends a byte of its packet, begins a new packet, or sends a late
\* acknowledgement between two packets.
mouse_sends ==
    \/ /\ sending # <<>>
       /\ mouse_on_irq(Head(sending)) /\ sending' = Tail(sending)
    \/ /\ sending = <<>>
       /\ \E p \in Packets : mouse_on_irq(p[1]) /\ sending' = Tail(p)
    \/ /\ sending = <<>>
       /\ mouse_on_irq(Acknowledgement) /\ UNCHANGED sending

\* read_event, which the handler may interrupt between any two of its accesses.
read_tail ==
    /\ reading.at = "idle" /\ has_mouse_event
    /\ \E early \in BOOLEAN :
        reading' = [reading EXCEPT !.at = "load", !.slot = tail, !.early = early,
                                   !.event = IF early THEN events[tail] ELSE @]
    /\ tail' = next_slot(tail)
    /\ UNCHANGED <<packet, events, head, count, sending, accepted, pending>>

load_count ==
    /\ reading.at = "load"
    /\ reading' = [reading EXCEPT !.at = "store", !.count = count]
    /\ UNCHANGED <<packet, events, head, tail, count, sending, accepted, pending>>

store_count ==
    /\ reading.at = "store"
    /\ count' = reading.count - 1
    /\ reading' = [reading EXCEPT !.at = "return"]
    /\ UNCHANGED <<packet, events, head, tail, sending, accepted, pending>>

\* What read_event returns.
returned == IF reading.early THEN reading.event ELSE events[reading.slot]

return_event ==
    /\ reading.at = "return"
    /\ reading' = [at |-> "idle", slot |-> 0, early |-> FALSE, count |-> 0, event |-> NoMouseEvent]
    /\ pending' = Tail(pending)
    /\ UNCHANGED <<packet, events, head, tail, count, sending, accepted>>
=============================================================================
