----------------------------- MODULE Keyboard -----------------------------
(***************************************************************************)
(* kernel/arch/keyboard_helpers.hpp and keyboard.cpp: the decoder of set 1 *)
(* scancodes and the ring of key events between the interrupt handler and  *)
(* the desktop's loop.                                                     *)
(*                                                                         *)
(* A scancode is its byte.  Which character a code stands for is left out: *)
(* the event carries the code and whether it was extended.  head_ and      *)
(* tail_ are counters of limited width that are never reset but to 0;      *)
(* Width is the number of their values, 2^32 in the code.                  *)
(***************************************************************************)
EXTENDS Integers, Sequences

CONSTANTS
    kKeyCapacity,       \* EventQueue::kCapacity, 128 in the code
    Width

ASSUME RingAssumption ==
    /\ kKeyCapacity \in Nat \ {0} /\ Width \in Nat
    /\ Width >= 2 * kKeyCapacity /\ Width % kKeyCapacity = 0

VARIABLES
    decoder,        \* g_decoder
    ring,           \* g_events: events, head and tail
    pop             \* the locals of EventQueue::pop and read_event's result

keyboardVars == <<decoder, ring, pop>>

-----------------------------------------------------------------------------
(* Set1Decoder.                                                            *)

NewDecoder == [extended |-> FALSE, left_shift |-> FALSE, right_shift |-> FALSE,
               left_ctrl |-> FALSE, right_ctrl |-> FALSE]

KeyEvents == [code : 0..127, extended : BOOLEAN, ctrl : BOOLEAN, shift : BOOLEAN,
              pressed : BOOLEAN]
NoKeyEvent == [code |-> 0, extended |-> FALSE, ctrl |-> FALSE, shift |-> FALSE, pressed |-> FALSE]

code_of(scancode) == scancode % 128
pressed_by(scancode) == scancode < 128

is_prefix(scancode) == scancode = 224
is_shift(d, scancode) == ~d.extended /\ code_of(scancode) \in {42, 54}
is_ctrl(scancode) == code_of(scancode) = 29
emits(d, scancode) == ~is_prefix(scancode) /\ ~is_shift(d, scancode) /\ ~is_ctrl(scancode)

fed(d, scancode) ==
    IF is_prefix(scancode) THEN [d EXCEPT !.extended = TRUE]
    ELSE LET read == [d EXCEPT !.extended = FALSE]
             pressed == pressed_by(scancode)
         IN IF is_shift(d, scancode)
            THEN IF code_of(scancode) = 42 THEN [read EXCEPT !.left_shift = pressed]
                 ELSE [read EXCEPT !.right_shift = pressed]
            ELSE IF is_ctrl(scancode)
            THEN IF d.extended THEN [read EXCEPT !.right_ctrl = pressed]
                 ELSE [read EXCEPT !.left_ctrl = pressed]
            ELSE read

key_event(d, scancode) ==
    [code |-> code_of(scancode), extended |-> d.extended, ctrl |-> d.left_ctrl \/ d.right_ctrl,
     shift |-> d.left_shift \/ d.right_shift, pressed |-> pressed_by(scancode)]

-----------------------------------------------------------------------------
(* EventQueue.                                                             *)

waiting(r) == (r.head - r.tail) % Width
slot(n) == n % kKeyCapacity

pushed_over(r, event) ==
    [r EXCEPT !.events = [@ EXCEPT ![slot(r.head)] = event], !.head = (@ + 1) % Width]

pushed(r, event) ==
    IF waiting(r) = kKeyCapacity THEN r
    ELSE [r EXCEPT !.events = [@ EXCEPT ![slot(r.head)] = event], !.head = (@ + 1) % Width]

has_key(r) == r.head # r.tail

KeyboardInit ==
    /\ decoder = NewDecoder
    /\ ring = [events |-> [n \in 0..kKeyCapacity - 1 |-> NoKeyEvent], head |-> 0, tail |-> 0]
    /\ pop = [at |-> "idle", tail |-> 0, event |-> NoKeyEvent, result |-> NoKeyEvent]

\* The interrupt handler: nothing else runs until it returns.
keyboard_on_irq(scancode) ==
    /\ decoder' = fed(decoder, scancode)
    /\ ring' = IF emits(decoder, scancode) THEN pushed(ring, key_event(decoder, scancode)) ELSE ring
    /\ UNCHANGED pop

\* pop, which the handler may interrupt between any two of its accesses.
pop_load ==
    /\ pop.at = "idle"
    /\ has_key(ring)
    /\ pop' = [pop EXCEPT !.at = "read", !.tail = ring.tail]
    /\ UNCHANGED <<decoder, ring>>

pop_read ==
    /\ pop.at = "read"
    /\ pop' = [pop EXCEPT !.at = "store", !.event = ring.events[slot(pop.tail)]]
    /\ UNCHANGED <<decoder, ring>>

pop_store ==
    /\ pop.at = "store"
    /\ ring' = [ring EXCEPT !.tail = (pop.tail + 1) % Width]
    /\ pop' = [pop EXCEPT !.at = "idle", !.result = pop.event]
    /\ UNCHANGED decoder
=============================================================================
