------------------------------- MODULE Input -------------------------------
(***************************************************************************)
(* The two input queues between their interrupt handlers and the desktop's *)
(* loop (kernel/gui/desktop.cpp, run), with mouse::initialize before it.   *)
(*                                                                         *)
(* The loop drains the mouse events, then the key events, and halts the    *)
(* processor when there were none.  An interrupt may come between any two  *)
(* steps; it is handled at once and ends a halt, but one that comes after  *)
(* the loop last looked and before it halts does not.                      *)
(***************************************************************************)
EXTENDS Keyboard, Mouse, FiniteSets

CONSTANTS
    Keys,               \* the bytes that a key sends when it is pressed
    MaxInputs           \* bound: strokes, packets and acknowledgements sent

\* A key sends bytes, the last of which tells with its top bit whether it is
\* pressed or released.
ASSUME KeysAssumption ==
    \A key \in Keys : key \in Seq(0..255) /\ key # <<>> /\ key[Len(key)] < 128

VARIABLES
    setup,      \* how far mouse::initialize is, and what it has set up
    loop,       \* where the loop is: mouse, keyboard, decide or halt
    had_event,  \* the loop's local variable
    typing,     \* external: what is left of the bytes of a key stroke
    held,       \* external: the keys that are held down
    inputs      \* history: strokes, packets and acknowledgements so far

inputVars == <<setup, loop, had_event, typing, held, inputs>>
vars == <<keyboardVars, mouseVars, inputVars>>

-----------------------------------------------------------------------------
(* mouse::initialize: commands and answers, each of which may time out.    *)

\* Every step waits for the controller; those that read wait for an answer.
SetupSteps ==
    <<"EnableAuxiliary", "ReadConfig", "config", "WriteConfig", "write config",
      "WriteMouse", "SetDefaults", "Ack", "WriteMouse", "EnableStreaming", "Ack">>

Init ==
    /\ KeyboardInit /\ MouseInit
    /\ setup = [step |-> 1, online |-> FALSE, irq12 |-> FALSE, streaming |-> FALSE]
    /\ loop = "start" /\ had_event = FALSE
    /\ typing = <<>> /\ held = {} /\ inputs = 0

\* A step that succeeds; the mouse is online when the last one has.
initialize_step ==
    /\ loop = "start" /\ setup.step <= Len(SetupSteps)
    /\ setup' = [setup EXCEPT !.step = @ + 1,
                    !.irq12 = @ \/ SetupSteps[setup.step] = "write config",
                    !.streaming = @ \/ SetupSteps[setup.step] = "EnableStreaming",
                    !.online = setup.step = Len(SetupSteps)]
    /\ UNCHANGED <<keyboardVars, mouseVars, loop, had_event, typing, held, inputs>>

\* initialize returns: all steps are done, or one has timed out or got an
\* answer other than an acknowledgement.  Interrupts are then enabled.
initialize_return ==
    /\ loop = "start" /\ loop' = "mouse"
    /\ UNCHANGED <<keyboardVars, mouseVars, setup, had_event, typing, held, inputs>>

-----------------------------------------------------------------------------
(* Interrupts.                                                             *)

\* io::halt returns after any interrupt.
still_halted == UNCHANGED loop

woken == loop' = IF loop = "halt" THEN "mouse" ELSE loop

\* The bytes of a key that is pressed or released.
stroke(key, press) ==
    IF press THEN key ELSE [key EXCEPT ![Len(key)] = @ + 128]

keyboard_interrupt ==
    /\ loop # "start" /\ woken
    /\ \/ /\ typing # <<>>
          /\ keyboard_on_irq(Head(typing)) /\ typing' = Tail(typing)
          /\ UNCHANGED <<held, inputs>>
       \/ /\ typing = <<>> /\ inputs < MaxInputs
          /\ \E key \in Keys, press \in BOOLEAN :
              /\ ~press => key \in held
              /\ keyboard_on_irq(Head(stroke(key, press)))
              /\ typing' = Tail(stroke(key, press))
              /\ held' = IF press THEN held \union {key} ELSE held \ {key}
          /\ inputs' = inputs + 1
    /\ UNCHANGED <<mouseVars, setup, had_event>>

mouse_interrupt ==
    /\ loop # "start" /\ setup.online /\ woken
    /\ inputs' = IF sending = <<>> THEN inputs + 1 ELSE inputs
    /\ inputs' <= MaxInputs
    /\ mouse_sends
    /\ UNCHANGED <<keyboardVars, setup, had_event, typing, held>>

timer_interrupt ==
    /\ loop = "halt" /\ woken
    /\ UNCHANGED <<keyboardVars, mouseVars, setup, had_event, typing, held, inputs>>

-----------------------------------------------------------------------------
(* The loop.                                                               *)

drain_mouse ==
    /\ loop = "mouse"
    /\ IF reading.at = "idle" /\ ~(setup.online /\ has_mouse_event)
       THEN loop' = "keyboard" /\ UNCHANGED <<mouseVars, had_event>>
       ELSE /\ read_tail \/ load_count \/ store_count \/ return_event
            /\ had_event' = TRUE /\ UNCHANGED loop
    /\ UNCHANGED <<keyboardVars, setup, typing, held, inputs>>

drain_keyboard ==
    /\ loop = "keyboard"
    /\ IF pop.at = "idle" /\ ~has_key(ring)
       THEN loop' = "decide" /\ UNCHANGED <<keyboardVars, had_event>>
       ELSE /\ pop_load \/ pop_read \/ pop_store
            /\ had_event' = TRUE /\ UNCHANGED loop
    /\ UNCHANGED <<mouseVars, setup, typing, held, inputs>>

\* The loop does not halt either when the clock has advanced, a command has
\* ended or something was painted.
decide ==
    /\ loop = "decide"
    /\ loop' \in IF had_event THEN {"mouse"} ELSE {"mouse", "halt"}
    /\ had_event' = FALSE
    /\ UNCHANGED <<keyboardVars, mouseVars, setup, typing, held, inputs>>

Loop == initialize_return \/ drain_mouse \/ drain_keyboard \/ decide
Next == initialize_step \/ keyboard_interrupt \/ mouse_interrupt \/ timer_interrupt \/ Loop

\* The processor executes the loop, and the timer keeps interrupting a halt.
Spec == Init /\ [][Next]_vars /\ WF_vars(Loop) /\ WF_vars(timer_interrupt)

-----------------------------------------------------------------------------
(* Properties.                                                             *)

KeyQueue == [n \in 1..waiting(ring) |-> ring.events[slot(ring.tail + n - 1)]]

Keyboard_Fifo == INSTANCE EventFifo
    WITH queue <- KeyQueue, last <- pop.result, Events <- KeyEvents, Capacity <- kKeyCapacity

\* The ring of key events is a bounded first-in first-out queue, although
\* pop's accesses and the handler's push interleave and the counters wrap
\* around: no event is lost once queued, read twice, or overwritten while it
\* is being read (EventQueue::push and pop).
KeyboardIsFifo == Keyboard_Fifo!Spec

\* Every key event that is queued is eventually read, also one whose
\* interrupt comes just before io::halt (run and EventQueue).
KeysHandled == has_key(ring) ~> ~has_key(ring)

ShiftKeys == {<<42>>, <<54>>}
CtrlKeys == {<<29>>, <<224, 29>>}

\* Both decoders keep step with their devices.  Between two strokes the
\* modifiers that Set1Decoder notes are those that are held down and no
\* prefix is left over; PacketDecoder takes every byte for what it is in its
\* packet, also after packets with an overflow, which it drops, and after
\* acknowledgements.
DecodersInStep ==
    /\ typing = <<>> =>
        /\ ~decoder.extended
        /\ (decoder.left_shift \/ decoder.right_shift) = (held \intersect ShiftKeys # {})
        /\ (decoder.left_ctrl \/ decoder.right_ctrl) = (held \intersect CtrlKeys # {})
    /\ Len(packet) = IF sending = <<>> THEN 0 ELSE 3 - Len(sending)

\* g_count never promises an event that is not there, so that read_event
\* never returns a slot a second time.
CountNeverAhead ==
    count + (IF reading.at \in {"return"} THEN 1 ELSE 0) <= Len(pending)

\* "Keep all existing queued input when full.  The newest incoming event is
\* discarded." (mouse.cpp:98): an event that waits is still in its slot, and
\* the oldest is the one that read_event returns.
MouseKeepsQueued ==
    \A n \in 1..Len(pending) :
        pending[n] = IF reading.at = "idle" THEN events[(tail + n - 1) % kEventCapacity]
                     ELSE IF n = 1 THEN returned
                     ELSE events[(reading.slot + n - 1) % kEventCapacity]
=============================================================================
