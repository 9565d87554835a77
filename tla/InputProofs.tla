---------------------------- MODULE InputProofs ----------------------------
(***************************************************************************)
(* The key ring implements EventFifo, for every capacity and every width   *)
(* of its counters that the capacity divides, and the count of the mouse's *)
(* ring never promises an event that is not there.                         *)
(***************************************************************************)
EXTENDS Input, SequenceTheorems, TLAPS

-----------------------------------------------------------------------------
(* Remainders.                                                             *)

\* Division with remainder.
LEMMA Division ==
  ASSUME NEW a \in Int, NEW k \in Nat \ {0}
  PROVE  /\ a \div k \in Int /\ a % k \in 0 .. k - 1
         /\ a = k * (a \div k) + (a % k)
  OBVIOUS

\* The only multiple of k between -k and k is 0.
LEMMA SmallMultiple ==
  ASSUME NEW k \in Nat \ {0}, NEW d \in Int, NEW r \in Int, -k < r, r < k, k * d = r
  PROVE  d = 0
<1>1. CASE d >= 1
  <2>1. k * d >= k
    BY <1>1
  <2> QED
    BY <2>1
<1>2. CASE d <= -1
  <2>1. k * d <= -k
    BY <1>2
  <2> QED
    BY <2>1
<1> QED
  BY <1>1, <1>2

\* Adding a multiple of k does not change the remainder.
LEMMA Periodic ==
  ASSUME NEW k \in Nat \ {0}, NEW a \in Int, NEW q \in Int
  PROVE  (a + k * q) % k = a % k
<1> DEFINE x == (a + k * q) \div k
           y == a \div k
           r == (a + k * q) % k
           s == a % k
<1>1. x \in Int /\ y \in Int /\ r \in 0 .. k - 1 /\ s \in 0 .. k - 1
  BY Division
<1>2. a + k * q = k * x + r /\ a = k * y + s
  BY Division
<1> HIDE DEF x, y, r, s
<1>3. k * (x - y - q) = s - r
  BY <1>1, <1>2
<1>4. x - y - q = 0
  BY <1>1, <1>3, SmallMultiple
<1> QED
  BY <1>1, <1>3, <1>4 DEF r, s

\* Numbers that differ by less than k have different remainders.
LEMMA Apart ==
  ASSUME NEW k \in Nat \ {0}, NEW a \in Int, NEW b \in Int, a < b, b < a + k
  PROVE  a % k # b % k
<1> SUFFICES ASSUME a % k = b % k PROVE FALSE
  OBVIOUS
<1> DEFINE x == a \div k
           y == b \div k
           r == a % k
<1>1. x \in Int /\ y \in Int /\ r \in Int /\ a = k * x + r /\ b = k * y + r
  BY Division
<1> HIDE DEF x, y, r
<1>2. k * (y - x) = b - a
  BY <1>1
<1>3. y - x = 0
  BY <1>1, <1>2, SmallMultiple
<1> QED
  BY <1>2, <1>3

\* The remainder of a number between -k and 2k.
LEMMA Wrapped ==
  ASSUME NEW k \in Nat \ {0}, NEW a \in Int
  PROVE  /\ 0 <= a /\ a < k => a % k = a
         /\ -k <= a /\ a < 0 => a % k = a + k
         /\ k <= a /\ a < 2 * k => a % k = a - k
<1> DEFINE x == a \div k
           r == a % k
<1>1. x \in Int /\ r \in 0 .. k - 1 /\ a = k * x + r
  BY Division
<1> HIDE DEF x, r
<1>2. ASSUME 0 <= a, a < k PROVE r = a
  <2>1. k * x = a - r
    BY <1>1
  <2> QED
    BY <1>1, <1>2, <2>1, SmallMultiple
<1>3. ASSUME -k <= a, a < 0 PROVE r = a + k
  <2>1. k * (x + 1) = a + k - r
    BY <1>1
  <2>2. x + 1 = 0
    BY <1>1, <1>3, <2>1, SmallMultiple
  <2> QED
    BY <1>1, <2>1, <2>2
<1>4. ASSUME k <= a, a < 2 * k PROVE r = a - k
  <2>1. k * (x - 1) = a - k - r
    BY <1>1
  <2>2. x - 1 = 0
    BY <1>1, <1>4, <2>1, SmallMultiple
  <2> QED
    BY <1>1, <2>1, <2>2
<1> QED
  BY <1>2, <1>3, <1>4 DEF r

-----------------------------------------------------------------------------
(* The key ring.                                                           *)

Counters == 0 .. Width - 1
KeySlots == 0 .. kKeyCapacity - 1

RingOK(r) ==
    /\ r \in [events : [KeySlots -> KeyEvents], head : Counters, tail : Counters]
    /\ waiting(r) <= kKeyCapacity

Queued(r) == [n \in 1 .. waiting(r) |-> r.events[slot(r.tail + n - 1)]]

LEMMA WaitingValue ==
  ASSUME NEW r, r.head \in Counters, r.tail \in Counters
  PROVE  /\ waiting(r) = IF r.head >= r.tail THEN r.head - r.tail
                         ELSE r.head - r.tail + Width
         /\ waiting(r) \in Counters
<1> DEFINE a == r.head - r.tail
<1>1. a \in Int /\ -Width <= a /\ a < Width /\ Width \in Nat \ {0}
  BY RingAssumption DEF Counters
<1>2. (0 <= a => a % Width = a) /\ (a < 0 => a % Width = a + Width)
  BY <1>1, Wrapped
<1> QED
  BY <1>1, <1>2, RingAssumption DEF waiting, Counters

\* The next value of a counter.
LEMMA Successor ==
  ASSUME NEW c \in Counters
  PROVE  /\ (c + 1) % Width \in Counters
         /\ (c + 1) % Width = IF c + 1 = Width THEN 0 ELSE c + 1
<1> DEFINE n == c + 1
<1>1. Width \in Nat \ {0} /\ n \in Int /\ 0 <= n /\ n < 2 * Width /\ n <= Width
  BY RingAssumption DEF Counters
<1> HIDE DEF n
<1>2. (n < Width => n % Width = n) /\ (n = Width => n % Width = 0)
  BY <1>1, Wrapped
<1> QED
  BY <1>1, <1>2, RingAssumption DEF Counters, n

\* Counters that wrap around do not jump to another slot.
LEMMA SlotPeriodic ==
  ASSUME NEW a \in Int
  PROVE  slot(a) \in KeySlots /\ slot(a + Width) = slot(a)
<1>1. kKeyCapacity \in Nat \ {0} /\ Width \in Int
  BY RingAssumption
<1>2. Width = kKeyCapacity * (Width \div kKeyCapacity) /\ Width \div kKeyCapacity \in Int
  BY <1>1, Division, RingAssumption
<1>3. slot(a + Width) = slot(a)
  BY <1>1, <1>2, Periodic, Zenon DEF slot
<1> QED
  BY <1>1, <1>3, Division DEF slot, KeySlots

\* The slots of events that wait, and the next one, are all different.
LEMMA SlotsApart ==
  ASSUME NEW a \in Int, NEW b \in Int, a < b, b < a + kKeyCapacity
  PROVE  slot(a) # slot(b)
  BY Apart, RingAssumption, Zenon DEF slot

\* The head is waiting(r) slots beyond the tail.
LEMMA HeadSlot ==
  ASSUME NEW r, r.head \in Counters, r.tail \in Counters
  PROVE  slot(r.head) = slot(r.tail + waiting(r))
<1>1. CASE r.head >= r.tail
  <2>1. r.tail + waiting(r) = r.head
    BY <1>1, WaitingValue DEF Counters
  <2> QED
    BY <2>1
<1>2. CASE ~(r.head >= r.tail)
  <2>1. r.tail + waiting(r) = r.head + Width
    BY <1>2, WaitingValue, RingAssumption DEF Counters
  <2> QED
    BY <2>1, SlotPeriodic DEF Counters
<1> QED
  BY <1>1, <1>2

LEMMA QueuedType ==
  ASSUME NEW r, RingOK(r)
  PROVE  /\ Queued(r) \in Seq(KeyEvents)
         /\ Len(Queued(r)) = waiting(r)
         /\ waiting(r) \in Nat
<1>1. waiting(r) \in Nat
  BY WaitingValue, RingAssumption DEF RingOK, Counters
<1>2. \A n \in 1 .. waiting(r) : r.events[slot(r.tail + n - 1)] \in KeyEvents
  <2> TAKE n \in 1 .. waiting(r)
  <2>1. slot(r.tail + n - 1) \in KeySlots
    BY <1>1, SlotPeriodic DEF RingOK, Counters
  <2> QED
    BY <2>1 DEF RingOK
<1>3. Queued(r) \in [1 .. waiting(r) -> KeyEvents]
  BY <1>2 DEF Queued
<1>4. Queued(r) \in Seq(KeyEvents)
  BY <1>1, <1>3, SeqDef, Zenon
<1> QED
  BY <1>1, <1>3, <1>4

\* push appends the event, if there is room.
LEMMA PushPuts ==
  ASSUME NEW r, RingOK(r), NEW e \in KeyEvents, waiting(r) # kKeyCapacity
  PROVE  LET p == pushed(r, e) IN
         /\ RingOK(p)
         /\ has_key(p) /\ p.tail = r.tail
         /\ waiting(p) = waiting(r) + 1
         /\ \A n \in 1 .. waiting(r) : Queued(p)[n] = Queued(r)[n]
         /\ Queued(p)[waiting(p)] = e
<1> DEFINE p == pushed(r, e)
           w == waiting(r)
<1>1. /\ r.events \in [KeySlots -> KeyEvents] /\ r.head \in Counters /\ r.tail \in Counters
      /\ w \in Nat /\ w < kKeyCapacity
  BY QueuedType, RingAssumption DEF RingOK
<1>2. /\ p = [events |-> [r.events EXCEPT ![slot(r.head)] = e],
               head |-> (r.head + 1) % Width, tail |-> r.tail]
  BY Zenon DEF pushed, RingOK
<1>3. p.head \in Counters /\ p.head = IF r.head + 1 = Width THEN 0 ELSE r.head + 1
  BY <1>1, <1>2, Successor
<1>4. slot(r.head) \in KeySlots /\ slot(r.head) = slot(r.tail + w)
  BY <1>1, HeadSlot, SlotPeriodic DEF Counters
<1>5. p \in [events : [KeySlots -> KeyEvents], head : Counters, tail : Counters]
  BY <1>1, <1>2, <1>3, <1>4
<1>6. waiting(p) = w + 1
  <2>1. /\ waiting(p) = IF p.head >= p.tail THEN p.head - p.tail ELSE p.head - p.tail + Width
        /\ w = IF r.head >= r.tail THEN r.head - r.tail ELSE r.head - r.tail + Width
    BY <1>1, <1>5, WaitingValue
  <2>2. p.tail = r.tail
    BY <1>2
  <2>3. Width \in Nat /\ kKeyCapacity \in Nat /\ w < Width - 1
    BY <1>1, RingAssumption
  <2> HIDE DEF p, w
  <2> QED
    BY <1>1, <1>3, <2>1, <2>2, <2>3 DEF Counters
<1>7. RingOK(p)
  BY <1>1, <1>5, <1>6, RingAssumption DEF RingOK
<1>8. has_key(p) /\ p.tail = r.tail
  <2>1. p.tail = r.tail
    BY <1>2
  <2>2. waiting(p) # 0
    BY <1>1, <1>6
  <2> QED
    BY <1>5, <2>1, <2>2, WaitingValue DEF has_key, Counters
<1>9. ASSUME NEW n \in 1 .. w PROVE Queued(p)[n] = Queued(r)[n]
  <2>1. slot(r.tail + n - 1) # slot(r.tail + w) /\ slot(r.tail + n - 1) \in KeySlots
    BY <1>1, SlotsApart, SlotPeriodic, RingAssumption DEF Counters
  <2>2. p.events[slot(r.tail + n - 1)] = r.events[slot(r.tail + n - 1)]
    BY <1>1, <1>2, <1>4, <2>1
  <2>3. n \in 1 .. waiting(p)
    BY <1>1, <1>6
  <2> QED
    BY <1>8, <2>2, <2>3 DEF Queued
<1>10. Queued(p)[waiting(p)] = e
  <2>1. waiting(p) \in 1 .. waiting(p) /\ p.tail + waiting(p) - 1 = r.tail + w
    BY <1>1, <1>6, <1>8 DEF Counters
  <2>2. p.events[slot(r.tail + w)] = e
    BY <1>1, <1>2, <1>4
  <2> QED
    BY <2>1, <2>2 DEF Queued
<1> QED
  BY <1>6, <1>7, <1>8, <1>9, <1>10

\* The ring after pop has stored the tail.
Popped(r) == [r EXCEPT !.tail = (r.tail + 1) % Width]

\* pop takes the first event away.
LEMMA PopTakes ==
  ASSUME NEW r, RingOK(r), has_key(r)
  PROVE  /\ RingOK(Popped(r))
         /\ waiting(r) # 0
         /\ Queued(r)[1] = r.events[slot(r.tail)]
         /\ waiting(Popped(r)) = waiting(r) - 1
         /\ \A n \in 1 .. waiting(r) - 1 : Queued(Popped(r))[n] = Queued(r)[n + 1]
<1> DEFINE p == Popped(r)
           w == waiting(r)
<1>1. /\ r.events \in [KeySlots -> KeyEvents] /\ r.head \in Counters /\ r.tail \in Counters
      /\ w \in Nat /\ w <= kKeyCapacity
  BY QueuedType DEF RingOK
<1>2. w = IF r.head >= r.tail THEN r.head - r.tail ELSE r.head - r.tail + Width
  BY <1>1, WaitingValue
<1>3. w # 0
  BY <1>1, <1>2, RingAssumption DEF has_key, Counters
<1>4. p = [events |-> r.events, head |-> r.head, tail |-> (r.tail + 1) % Width]
  BY DEF Popped, RingOK
<1>5. p.tail \in Counters /\ p.tail = IF r.tail + 1 = Width THEN 0 ELSE r.tail + 1
  BY <1>1, <1>4, Successor
<1>6. p \in [events : [KeySlots -> KeyEvents], head : Counters, tail : Counters]
  BY <1>1, <1>4, <1>5
<1>7. waiting(p) = w - 1
  <2>1. waiting(p) = IF p.head >= p.tail THEN p.head - p.tail ELSE p.head - p.tail + Width
    BY <1>6, WaitingValue
  <2>2. p.head = r.head
    BY <1>4
  <2> QED
    BY <1>1, <1>2, <1>3, <1>5, <2>1, <2>2, RingAssumption DEF Counters
<1>8. RingOK(p)
  BY <1>1, <1>6, <1>7, RingAssumption DEF RingOK
<1>9. Queued(r)[1] = r.events[slot(r.tail)]
  <2>1. 1 \in 1 .. w /\ r.tail + 1 - 1 = r.tail
    BY <1>1, <1>3 DEF Counters
  <2> QED
    BY <2>1 DEF Queued
<1>10. ASSUME NEW n \in 1 .. w - 1 PROVE Queued(p)[n] = Queued(r)[n + 1]
  <2>1. slot(p.tail + n - 1) = slot(r.tail + (n + 1) - 1)
    <3>1. CASE r.tail + 1 = Width
      <4>1. r.tail + (n + 1) - 1 = (p.tail + n - 1) + Width /\ p.tail + n - 1 \in Int
        BY <1>1, <1>5, <3>1, RingAssumption DEF Counters
      <4> QED
        BY <4>1, SlotPeriodic
    <3>2. CASE r.tail + 1 # Width
      <4>1. r.tail + (n + 1) - 1 = p.tail + n - 1
        BY <1>1, <1>5, <3>2, RingAssumption DEF Counters
      <4> QED
        BY <4>1
    <3> QED
      BY <3>1, <3>2
  <2>2. n \in 1 .. waiting(p) /\ n + 1 \in 1 .. w /\ p.events = r.events
    BY <1>1, <1>4, <1>7
  <2> QED
    BY <2>1, <2>2 DEF Queued
<1> QED
  BY <1>3, <1>7, <1>8, <1>9, <1>10

LEMMA PushAppends ==
  ASSUME NEW r, RingOK(r), NEW e \in KeyEvents, waiting(r) # kKeyCapacity
  PROVE  LET p == pushed(r, e) IN
         /\ Len(Queued(r)) < kKeyCapacity
         /\ Len(Queued(p)) = Len(Queued(r)) + 1
         /\ Queued(p)[Len(Queued(p))] \in KeyEvents
         /\ SubSeq(Queued(p), 1, Len(Queued(r))) = Queued(r)
<1> DEFINE p == pushed(r, e)
           q == Queued(r)
           u == Queued(p)
<1>1. RingOK(p) /\ waiting(p) = waiting(r) + 1 /\ u[waiting(p)] = e
      /\ \A n \in 1 .. waiting(r) : u[n] = q[n]
  BY PushPuts, Zenon
<1> HIDE DEF p
<1>2. /\ q \in Seq(KeyEvents) /\ Len(q) = waiting(r) /\ waiting(r) \in Nat
      /\ u \in Seq(KeyEvents) /\ Len(u) = waiting(p)
  BY <1>1, QueuedType
<1> HIDE DEF q, u
<1>3. \A n \in 1 .. Len(q) : u[n] \in KeyEvents
  BY <1>1, <1>2, ElementOfSeq
<1>4. /\ SubSeq(u, 1, Len(q)) \in Seq(KeyEvents)
      /\ Len(SubSeq(u, 1, Len(q))) = Len(q)
      /\ \A n \in 1 .. Len(q) : SubSeq(u, 1, Len(q))[n] = u[n]
  BY <1>2, <1>3, SubSeqProperties
<1>5. SubSeq(u, 1, Len(q)) = q
  BY <1>1, <1>2, <1>4, SeqEqual
<1>6. Len(q) < kKeyCapacity
  BY <1>2, RingAssumption DEF RingOK
<1> QED
  BY <1>1, <1>2, <1>5, <1>6 DEF p, q, u

LEMMA PopIsTail ==
  ASSUME NEW r, RingOK(r), has_key(r)
  PROVE  /\ RingOK(Popped(r))
         /\ Queued(r) # <<>>
         /\ Head(Queued(r)) = r.events[slot(r.tail)]
         /\ Queued(Popped(r)) = Tail(Queued(r))
<1> DEFINE q == Queued(r)
           t == Queued(Popped(r))
<1>1. /\ RingOK(Popped(r)) /\ waiting(r) # 0 /\ q[1] = r.events[slot(r.tail)]
      /\ waiting(Popped(r)) = waiting(r) - 1
      /\ \A n \in 1 .. waiting(r) - 1 : t[n] = q[n + 1]
  BY PopTakes, Zenon
<1>2. /\ q \in Seq(KeyEvents) /\ Len(q) = waiting(r) /\ waiting(r) \in Nat
      /\ t \in Seq(KeyEvents) /\ Len(t) = waiting(Popped(r))
  BY <1>1, QueuedType
<1> HIDE DEF q, t
<1>3. q # <<>>
  BY <1>1, <1>2, EmptySeq
<1>4. /\ Tail(q) \in Seq(KeyEvents) /\ Len(Tail(q)) = Len(q) - 1
      /\ \A n \in 1 .. Len(Tail(q)) : Tail(q)[n] = q[n + 1]
  BY <1>2, <1>3, HeadTailProperties
<1>5. t = Tail(q)
  BY <1>1, <1>2, <1>4, SeqEqual
<1>6. Head(q) = q[1]
  BY <1>2, <1>3
<1> QED
  BY <1>1, <1>3, <1>5, <1>6 DEF q, t

-----------------------------------------------------------------------------
(* The keyboard.                                                           *)

Decoders == [extended : BOOLEAN, left_shift : BOOLEAN, right_shift : BOOLEAN,
             left_ctrl : BOOLEAN, right_ctrl : BOOLEAN]

\* What pop has read so far is still so: nobody but pop moves the tail, and
\* push does not write to a slot whose event waits.
RingInv ==
    /\ decoder \in Decoders
    /\ RingOK(ring)
    /\ pop \in [at : {"idle", "read", "store"}, tail : Counters,
                event : KeyEvents, result : KeyEvents]
    /\ pop.at # "idle" => has_key(ring) /\ pop.tail = ring.tail
    /\ pop.at = "store" => pop.event = ring.events[slot(ring.tail)]

KeyInv == RingInv /\ typing \in Seq(0 .. 255)

FifoStep == [Keyboard_Fifo!Next]_<<KeyQueue, pop.result>>

LEMMA Decoding ==
  ASSUME NEW d \in Decoders, NEW scancode \in 0 .. 255
  PROVE  fed(d, scancode) \in Decoders /\ key_event(d, scancode) \in KeyEvents
<1>1. fed(d, scancode) \in Decoders
  <2> DEFINE pressed == pressed_by(scancode)
  <2>1. pressed \in BOOLEAN
    BY DEF pressed_by
  <2> HIDE DEF pressed
  <2>2. /\ [d EXCEPT !.extended = TRUE] \in Decoders
        /\ [d EXCEPT !.extended = FALSE] \in Decoders
    BY Zenon DEF Decoders
  <2>3. ASSUME NEW f \in Decoders
        PROVE  /\ [f EXCEPT !.left_shift = pressed] \in Decoders
               /\ [f EXCEPT !.right_shift = pressed] \in Decoders
               /\ [f EXCEPT !.left_ctrl = pressed] \in Decoders
               /\ [f EXCEPT !.right_ctrl = pressed] \in Decoders
    BY <2>1 DEF Decoders
  <2> QED
    BY <2>2, <2>3, Zenon DEF fed, pressed
<1>2. code_of(scancode) \in 0 .. 127
  BY DEF code_of
<1> QED
  BY <1>1, <1>2 DEF key_event, KeyEvents, Decoders, pressed_by

\* The interrupt handler puts an event, or none.
LEMMA HandlerPuts ==
  ASSUME RingInv, NEW scancode \in 0 .. 255, keyboard_on_irq(scancode)
  PROVE  RingInv' /\ FifoStep
<1> DEFINE e == key_event(decoder, scancode)
<1>1. decoder' \in Decoders /\ e \in KeyEvents /\ pop' = pop
  BY Decoding DEF RingInv, keyboard_on_irq
<1>2. CASE ring' = ring
  <2>1. RingInv'
    BY <1>1, <1>2 DEF RingInv
  <2>2. UNCHANGED <<KeyQueue, pop.result>>
    BY <1>1, <1>2 DEF KeyQueue
  <2> QED
    BY <2>1, <2>2 DEF FifoStep
<1>3. CASE ring' = pushed(ring, e) /\ waiting(ring) # kKeyCapacity
  <2> HIDE DEF e
  <2>1. /\ RingOK(ring') /\ has_key(ring') /\ ring'.tail = ring.tail
        /\ waiting(ring') = waiting(ring) + 1
        /\ \A n \in 1 .. waiting(ring) : Queued(ring')[n] = Queued(ring)[n]
    <3> DEFINE p == pushed(ring, e)
    <3>1. RingOK(ring) /\ waiting(ring) # kKeyCapacity /\ e \in KeyEvents
      BY <1>1, <1>3 DEF RingInv
    <3>2. /\ RingOK(p) /\ has_key(p) /\ p.tail = ring.tail
          /\ waiting(p) = waiting(ring) + 1
          /\ \A n \in 1 .. waiting(ring) : Queued(p)[n] = Queued(ring)[n]
      BY <3>1, PushPuts, Zenon
    <3>3. ring' = p
      BY <1>3
    <3> HIDE DEF p
    <3> QED
      BY <3>2, <3>3, Zenon
  <2>2. has_key(ring) => ring'.events[slot(ring.tail)] = ring.events[slot(ring.tail)]
    <3> SUFFICES ASSUME has_key(ring)
                 PROVE  ring'.events[slot(ring.tail)] = ring.events[slot(ring.tail)]
      OBVIOUS
    <3>1. waiting(ring) # 0 /\ Queued(ring)[1] = ring.events[slot(ring.tail)]
      BY PopTakes DEF RingInv
    <3>2. Queued(ring')[1] = ring'.events[slot(ring'.tail)]
      BY <2>1, PopTakes
    <3>3. waiting(ring) \in Nat
      BY QueuedType DEF RingInv
    <3> QED
      BY <2>1, <3>1, <3>2, <3>3
  <2>3. RingInv'
    BY <1>1, <2>1, <2>2 DEF RingInv
  <2>4. /\ Len(Queued(ring)) < kKeyCapacity
        /\ Len(Queued(ring')) = Len(Queued(ring)) + 1
        /\ Queued(ring')[Len(Queued(ring'))] \in KeyEvents
        /\ SubSeq(Queued(ring'), 1, Len(Queued(ring))) = Queued(ring)
    BY <1>1, <1>3, PushAppends, Zenon DEF RingInv
  <2>5. KeyQueue = Queued(ring) /\ KeyQueue' = Queued(ring')
    BY DEF KeyQueue, Queued
  <2>6. Keyboard_Fifo!Put
    BY <1>1, <2>4, <2>5 DEF Keyboard_Fifo!Put
  <2> QED
    BY <2>3, <2>6 DEF FifoStep, Keyboard_Fifo!Next
<1> QED
  BY <1>2, <1>3 DEF keyboard_on_irq, pushed

\* pop takes the first event when it stores the tail, and not before.
LEMMA PopTakesFirst ==
  ASSUME RingInv, pop_load \/ pop_read \/ pop_store
  PROVE  RingInv' /\ FifoStep
<1>1. RingOK(ring) /\ ring.tail \in Counters
  BY DEF RingInv, RingOK
<1>2. CASE pop_load
  <2>1. RingInv'
    BY <1>1, <1>2, Zenon DEF RingInv, pop_load
  <2>2. UNCHANGED <<KeyQueue, pop.result>>
    BY <1>2 DEF KeyQueue, RingInv, pop_load
  <2> QED
    BY <2>1, <2>2 DEF FifoStep
<1>3. CASE pop_read
  <2>1. ring.events[slot(ring.tail)] \in KeyEvents
    BY <1>1, SlotPeriodic DEF RingOK, Counters
  <2>2. RingInv'
    BY <1>1, <1>3, <2>1, Zenon DEF RingInv, pop_read
  <2>3. UNCHANGED <<KeyQueue, pop.result>>
    BY <1>3 DEF KeyQueue, RingInv, pop_read
  <2> QED
    BY <2>2, <2>3 DEF FifoStep
<1>4. CASE pop_store
  <2>1. has_key(ring) /\ pop.tail = ring.tail /\ pop.event = ring.events[slot(ring.tail)]
    BY <1>4 DEF pop_store, RingInv
  <2>2. ring' = Popped(ring) /\ decoder' = decoder
        /\ pop' = [pop EXCEPT !.at = "idle", !.result = pop.event]
    BY <1>4, <2>1 DEF pop_store, Popped
  <2>3. /\ RingOK(Popped(ring)) /\ Queued(ring) # <<>>
        /\ Head(Queued(ring)) = ring.events[slot(ring.tail)]
        /\ Queued(Popped(ring)) = Tail(Queued(ring))
    BY <1>1, <2>1, PopIsTail, Zenon
  <2>4. RingInv'
    BY <2>2, <2>3, Zenon DEF RingInv
  <2>5. KeyQueue = Queued(ring) /\ KeyQueue' = Queued(Popped(ring))
    BY <2>2 DEF KeyQueue, Queued
  <2>6. pop'.result = pop.event
    BY <2>2 DEF RingInv
  <2>7. Keyboard_Fifo!Take
    BY <2>1, <2>3, <2>5, <2>6 DEF Keyboard_Fifo!Take
  <2> QED
    BY <2>4, <2>7 DEF FifoStep, Keyboard_Fifo!Next
<1> QED
  BY <1>2, <1>3, <1>4

LEMMA KeyInit == Init => KeyInv /\ Keyboard_Fifo!Init
<1> SUFFICES ASSUME Init PROVE KeyInv /\ Keyboard_Fifo!Init
  OBVIOUS
<1> USE DEF Init, KeyboardInit
<1>1. NoKeyEvent \in KeyEvents
  BY DEF NoKeyEvent, KeyEvents
<1>2. 0 \in Counters
  BY RingAssumption DEF Counters
<1>3. ring \in [events : [KeySlots -> KeyEvents], head : Counters, tail : Counters]
  BY <1>1, <1>2 DEF KeySlots
<1>4. waiting(ring) = 0
  BY <1>2, <1>3, WaitingValue DEF Counters
<1>5. RingInv
  BY <1>1, <1>2, <1>3, <1>4, RingAssumption DEF RingInv, RingOK, NewDecoder, Decoders
<1>6. typing \in Seq(0 .. 255)
  BY EmptySeq
<1>7. KeyQueue = <<>>
  <2>1. RingOK(ring)
    BY <1>5 DEF RingInv
  <2>2. KeyQueue \in Seq(KeyEvents) /\ Len(KeyQueue) = 0
    BY <1>4, <2>1, QueuedType DEF KeyQueue, Queued
  <2> QED
    BY <2>2, EmptySeq
<1>8. pop.result \in KeyEvents
  BY <1>1
<1> QED
  BY <1>5, <1>6, <1>7, <1>8 DEF KeyInv, Keyboard_Fifo!Init

LEMMA StrokeBytes ==
  ASSUME NEW key \in Keys, NEW press \in BOOLEAN
  PROVE  stroke(key, press) \in Seq(0 .. 255) /\ stroke(key, press) # <<>>
<1>1. key \in Seq(0 .. 255) /\ key # <<>> /\ key[Len(key)] < 128
  BY KeysAssumption
<1>2. Len(key) \in 1 .. Len(key)
  BY <1>1, EmptySeq, LenProperties
<1>3. key[Len(key)] + 128 \in 0 .. 255
  <2> DEFINE k == key[Len(key)]
  <2>1. k \in 0 .. 255 /\ k < 128
    BY <1>1, <1>2, ElementOfSeq, Zenon
  <2> HIDE DEF k
  <2>2. k + 128 \in 0 .. 255
    BY <2>1
  <2> QED
    BY <2>2 DEF k
<1>4. /\ [key EXCEPT ![Len(key)] = key[Len(key)] + 128] \in Seq(0 .. 255)
      /\ Len([key EXCEPT ![Len(key)] = key[Len(key)] + 128]) = Len(key)
  BY <1>1, <1>2, <1>3, ExceptSeq
<1>5. [key EXCEPT ![Len(key)] = key[Len(key)] + 128] # <<>>
  BY <1>1, <1>4, EmptySeq
<1> QED
  BY <1>1, <1>4, <1>5, Zenon DEF stroke

LEMMA KeyNext == KeyInv /\ [Next]_vars => KeyInv' /\ FifoStep
<1> SUFFICES ASSUME KeyInv, [Next]_vars PROVE KeyInv' /\ FifoStep
  OBVIOUS
<1>0. RingInv /\ typing \in Seq(0 .. 255)
  BY DEF KeyInv
<1>1. ASSUME UNCHANGED <<keyboardVars, typing>> PROVE KeyInv' /\ FifoStep
  <2>1. decoder' = decoder /\ ring' = ring /\ pop' = pop /\ typing' = typing
    BY <1>1 DEF keyboardVars
  <2>2. KeyInv'
    BY <2>1 DEF KeyInv, RingInv
  <2>3. UNCHANGED <<KeyQueue, pop.result>>
    BY <2>1 DEF KeyQueue
  <2> QED
    BY <2>2, <2>3 DEF FifoStep
<1>2. CASE keyboard_interrupt
  <2>1. CASE typing # <<>> /\ keyboard_on_irq(Head(typing)) /\ typing' = Tail(typing)
    <3>1. Head(typing) \in 0 .. 255 /\ Tail(typing) \in Seq(0 .. 255)
      BY <1>0, <2>1, HeadTailProperties, Zenon
    <3> QED
      BY <1>0, <2>1, <3>1, HandlerPuts, Zenon DEF KeyInv
  <2>2. ASSUME NEW key \in Keys, NEW press \in BOOLEAN,
               keyboard_on_irq(Head(stroke(key, press))), typing' = Tail(stroke(key, press))
        PROVE  KeyInv' /\ FifoStep
    <3>1. Head(stroke(key, press)) \in 0 .. 255 /\ Tail(stroke(key, press)) \in Seq(0 .. 255)
      BY StrokeBytes, HeadTailProperties
    <3> QED
      BY <1>0, <2>2, <3>1, HandlerPuts, Zenon DEF KeyInv
  <2> QED
    BY <1>2, <2>1, <2>2, Zenon DEF keyboard_interrupt
<1>3. CASE drain_keyboard
  <2>1. CASE pop_load \/ pop_read \/ pop_store
    BY <1>0, <1>3, <2>1, PopTakesFirst DEF KeyInv, drain_keyboard
  <2>2. CASE UNCHANGED keyboardVars
    BY <1>1, <1>3, <2>2 DEF drain_keyboard
  <2> QED
    BY <1>3, <2>1, <2>2 DEF drain_keyboard
<1>4. CASE \/ initialize_step \/ mouse_interrupt \/ timer_interrupt
           \/ initialize_return \/ drain_mouse \/ decide
  BY <1>1, <1>4 DEF initialize_step, mouse_interrupt, timer_interrupt, initialize_return,
                    drain_mouse, decide
<1>5. CASE UNCHANGED vars
  BY <1>1, <1>5 DEF vars, inputVars
<1> QED
  BY <1>2, <1>3, <1>4, <1>5 DEF Next, Loop

\* The ring of key events is a bounded first-in first-out queue for every
\* capacity and every width of head_ and tail_ that the capacity divides,
\* although the handler's push comes between any two accesses of pop
\* (EventQueue::push and pop): KeyboardIsFifo.
THEOREM KeyRingImplementsFifo == Spec => KeyboardIsFifo
<1>1. Spec => []KeyInv
  BY KeyInit, KeyNext, PTL DEF Spec
<1> QED
  BY <1>1, KeyInit, KeyNext, PTL DEF Spec, KeyboardIsFifo, Keyboard_Fifo!Spec, FifoStep

-----------------------------------------------------------------------------
(* The mouse.                                                              *)

Bytes == 0 .. 255
MouseSlots == 0 .. kEventCapacity - 1
MouseEvents == [dx : Int, dy : Int, left : BOOLEAN, right : BOOLEAN, middle : BOOLEAN,
                number : Int]

Readings == [at : {"idle", "load", "store", "return"}, slot : MouseSlots,
             early : BOOLEAN, count : Nat, event : MouseEvents]

MouseTyped ==
    /\ packet \in Seq(Bytes) /\ Len(packet) <= 2
    /\ sending \in Seq(Bytes)
    /\ count \in Nat /\ accepted \in Nat
    /\ pending \in Seq(MouseEvents)
    /\ events \in [MouseSlots -> MouseEvents] /\ tail \in MouseSlots
    /\ reading \in Readings

\* Events that are not yet returned cover g_count at every step of
\* read_event, also while the handler's increments are about to be lost.
Covered(at, loaded, c, n) ==
    /\ c <= n
    /\ at = "load" => 1 <= c
    /\ at = "store" => 1 <= loaded /\ loaded <= c
    /\ at = "return" => c + 1 <= n

CountInv == MouseTyped /\ Covered(reading.at, reading.count, count, Len(pending))

LEMMA CountedTypes ==
  ASSUME MouseTyped
  PROVE  count \in Nat /\ Len(pending) \in Nat /\ reading.count \in Nat
<1>1. Len(pending) \in Nat
  BY LenProperties, Zenon DEF MouseTyped
<1> QED
  BY <1>1 DEF MouseTyped, Readings

LEMMA PacketBytes ==
  ASSUME NEW p \in Packets
  PROVE  p[1] \in Bytes /\ Tail(p) \in Seq(Bytes)
<1>1. p \in Bytes \X Bytes \X Bytes
  BY PacketAssumption DEF Bytes
<1>2. PICK a \in Bytes, b \in Bytes, c \in Bytes : p = <<a, b, c>>
  BY <1>1
<1> QED
  BY <1>2

\* The handler keeps the bytes of a packet and counts every event it queues.
LEMMA HandlerCounts ==
  ASSUME CountInv, NEW byte \in Bytes, mouse_on_irq(byte), sending' \in Seq(Bytes)
  PROVE  CountInv'
<1>1. packet \in Seq(Bytes) /\ Len(packet) <= 2 /\ reading' = reading
  BY DEF CountInv, MouseTyped, mouse_on_irq
<1>2. packet' \in Seq(Bytes) /\ Len(packet') <= 2
  <2>1. Append(packet, byte) \in Seq(Bytes) /\ Len(Append(packet, byte)) = Len(packet) + 1
    BY <1>1, AppendProperties
  <2>2. <<>> \in Seq(Bytes) /\ Len(<<>>) = 0 /\ Len(packet) \in Nat
    BY <1>1, EmptySeq, LenProperties
  <2>3. packet' = <<>> \/ (packet' = Append(packet, byte) /\ Len(packet) # 2)
    BY DEF mouse_on_irq, kept
  <2>4. Len(packet') <= 2
    <3>1. Len(packet') = 0 \/ (Len(packet') = Len(packet) + 1 /\ Len(packet) # 2)
      BY <2>1, <2>2, <2>3, Zenon
    <3> DEFINE n == Len(packet)
               m == Len(packet')
    <3>2. n \in Nat /\ n <= 2 /\ (m = 0 \/ (m = n + 1 /\ n # 2))
      BY <1>1, <2>2, <3>1
    <3> HIDE DEF n, m
    <3>3. m <= 2
      BY <3>2
    <3> QED
      BY <3>3 DEF m
  <2>5. packet' \in Seq(Bytes)
    BY <2>1, <2>2, <2>3, Zenon
  <2> QED
    BY <2>4, <2>5
<1>3. CASE UNCHANGED <<events, head, count, accepted, pending>>
  BY <1>1, <1>2, <1>3 DEF CountInv, MouseTyped, mouse_on_irq
<1>4. ASSUME NEW e \in MouseEvents, count' = count + 1, accepted' = accepted + 1,
             events' = [events EXCEPT ![head] = e], pending' = Append(pending, e)
      PROVE  CountInv'
  <2>1. pending' \in Seq(MouseEvents) /\ Len(pending') = Len(pending) + 1
        /\ Len(pending) \in Nat
    BY <1>4, AppendProperties, LenProperties DEF CountInv, MouseTyped
  <2>2. events' \in [MouseSlots -> MouseEvents] /\ tail' = tail
    BY <1>4, Zenon DEF CountInv, MouseTyped, mouse_on_irq
  <2>3. MouseTyped'
    BY <1>1, <1>2, <1>4, <2>1, <2>2 DEF CountInv, MouseTyped
  <2> QED
    BY <1>1, <1>4, <2>1, <2>3, CountedTypes DEF CountInv, Covered
<1>5. ASSUME emitted(packet)
      PROVE  mouse_event(packet[1], packet[2], byte, accepted + 1) \in MouseEvents
  <2>1. packet[2] \in Bytes
    <3>1. 2 \in 1 .. Len(packet)
      BY <1>5 DEF emitted
    <3> QED
      BY <1>1, <3>1, ElementOfSeq
  <2>2. packet[2] \in Int /\ byte \in Int
    <3>1. \A x \in Bytes : x \in Int
      BY DEF Bytes
    <3> QED
      BY <2>1, <3>1, Zenon
  <2>3. accepted + 1 \in Int
    BY DEF CountInv, MouseTyped
  <2> QED
    BY <2>2, <2>3 DEF mouse_event, MouseEvents, decode_axis, bit
<1> QED
  BY <1>3, <1>4, <1>5 DEF mouse_on_irq, push_event

LEMMA CountInit == Init => CountInv
<1> SUFFICES ASSUME Init PROVE CountInv
  OBVIOUS
<1>1. <<>> \in Seq(Bytes) /\ <<>> \in Seq(MouseEvents) /\ Len(<<>>) = 0
  BY EmptySeq
<1>2. NoMouseEvent \in MouseEvents /\ 0 \in MouseSlots
  BY PacketAssumption DEF NoMouseEvent, MouseEvents, MouseSlots
<1> QED
  BY <1>1, <1>2 DEF Init, MouseInit, CountInv, MouseTyped, MouseSlots, Readings, Covered

LEMMA CountNext == CountInv /\ [Next]_vars => CountInv'
<1> SUFFICES ASSUME CountInv, [Next]_vars PROVE CountInv'
  OBVIOUS
<1>1. ASSUME UNCHANGED mouseVars PROVE CountInv'
  BY <1>1 DEF mouseVars, CountInv, MouseTyped
<1>2. CASE mouse_interrupt
  <2>1. CASE sending # <<>> /\ mouse_on_irq(Head(sending)) /\ sending' = Tail(sending)
    <3>1. Head(sending) \in Bytes /\ Tail(sending) \in Seq(Bytes)
      BY <2>1, HeadTailProperties DEF CountInv, MouseTyped
    <3> QED
      BY <2>1, <3>1, HandlerCounts
  <2>2. ASSUME NEW p \in Packets, mouse_on_irq(p[1]), sending' = Tail(p)
        PROVE  CountInv'
    BY <2>2, PacketBytes, HandlerCounts
  <2>3. CASE mouse_on_irq(Acknowledgement) /\ UNCHANGED sending
    <3>1. Acknowledgement \in Bytes /\ sending' \in Seq(Bytes)
      BY <2>3 DEF Acknowledgement, Bytes, CountInv, MouseTyped
    <3> QED
      BY <2>3, <3>1, HandlerCounts
  <2> QED
    BY <1>2, <2>1, <2>2, <2>3, Zenon DEF mouse_interrupt, mouse_sends
<1>3. CASE drain_mouse
  <2> USE DEF CountInv
  <2>1. CASE read_tail
    <3>1. next_slot(tail) \in MouseSlots
      <4>1. tail + 1 \in Int /\ kEventCapacity \in Nat \ {0}
        BY PacketAssumption DEF MouseTyped, MouseSlots
      <4> QED
        BY <4>1, Division, Zenon DEF next_slot, MouseSlots
    <3>2. events[tail] \in MouseEvents
      BY DEF MouseTyped
    <3>3. PICK early \in BOOLEAN :
            reading' = [reading EXCEPT !.at = "load", !.slot = tail, !.early = early,
                          !.event = IF early THEN events[tail] ELSE reading.event]
      BY <2>1, Zenon DEF read_tail
    <3>4. reading' \in Readings /\ reading'.at = "load"
      BY <3>2, <3>3, Zenon DEF MouseTyped, Readings
    <3>5. MouseTyped' /\ count' = count /\ Len(pending') = Len(pending) /\ count # 0
      BY <2>1, <3>1, <3>4 DEF MouseTyped, read_tail, has_mouse_event
    <3> QED
      BY <3>4, <3>5, CountedTypes DEF Covered
  <2>2. CASE load_count
    <3>1. /\ reading.at = "load" /\ reading' \in Readings
          /\ reading'.at = "store" /\ reading'.count = count
      BY <2>2, Zenon DEF load_count, MouseTyped, Readings
    <3>2. MouseTyped' /\ count' = count /\ Len(pending') = Len(pending)
      BY <2>2, <3>1 DEF MouseTyped, load_count
    <3> QED
      BY <3>1, <3>2, CountedTypes DEF Covered
  <2>3. CASE store_count
    <3>1. reading.at = "store" /\ reading' \in Readings /\ reading'.at = "return"
      BY <2>3 DEF store_count, MouseTyped, Readings
    <3>2. count' = reading.count - 1 /\ count' \in Nat
      BY <2>3, <3>1, CountedTypes DEF store_count, Covered
    <3>3. MouseTyped' /\ Len(pending') = Len(pending)
      BY <2>3, <3>1, <3>2 DEF MouseTyped, store_count
    <3> QED
      BY <3>1, <3>2, <3>3, CountedTypes DEF Covered
  <2>4. CASE return_event
    <3>1. reading.at = "return" /\ reading' \in Readings /\ reading'.at = "idle"
      <4>1. NoMouseEvent \in MouseEvents /\ 0 \in MouseSlots
        BY PacketAssumption DEF NoMouseEvent, MouseEvents, MouseSlots
      <4> QED
        BY <2>4, <4>1 DEF return_event, Readings
    <3>2. pending \in Seq(MouseEvents) /\ pending # <<>>
      BY <3>1, EmptySeq, CountedTypes DEF MouseTyped, Covered
    <3>3. pending' \in Seq(MouseEvents) /\ Len(pending') = Len(pending) - 1
      BY <2>4, <3>2, HeadTailProperties DEF return_event
    <3>4. MouseTyped' /\ count' = count
      BY <2>4, <3>1, <3>3 DEF MouseTyped, return_event
    <3> QED
      BY <3>1, <3>3, <3>4, CountedTypes DEF Covered
  <2> QED
    BY <1>1, <1>3, <2>1, <2>2, <2>3, <2>4 DEF drain_mouse
<1>4. CASE \/ initialize_step \/ keyboard_interrupt \/ timer_interrupt
           \/ initialize_return \/ drain_keyboard \/ decide
  BY <1>1, <1>4 DEF initialize_step, keyboard_interrupt, timer_interrupt, initialize_return,
                    drain_keyboard, decide
<1>5. CASE UNCHANGED vars
  BY <1>1, <1>5 DEF vars
<1> QED
  BY <1>2, <1>3, <1>4, <1>5 DEF Next, Loop

\* g_count never promises an event that is not there, for every capacity of
\* the ring and every packet, although read_event's decrement is not atomic
\* and may undo increments of the handler: CountNeverAhead.
THEOREM CountStaysBehind == Spec => []CountNeverAhead
<1>1. CountInv => CountNeverAhead
  BY CountedTypes DEF CountInv, Covered, CountNeverAhead
<1> QED
  BY <1>1, CountInit, CountNext, PTL DEF Spec
=============================================================================
