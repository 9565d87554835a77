-------------------------- MODULE RoundRobinProofs --------------------------
(* The round robin overtakes nobody, for a process table of any size.      *)
EXTENDS RoundRobin, TLAPS

\* The inductive invariant behind NoOvertaking: types, and everyone served
\* during a wait is further round the table than the one who waits.
Inv == TypeOK /\ BehindWaiting

\* Going round the table from t instead of from l shortens the way to
\* whatever lies beyond t by the same amount.
LEMMA DistanceFromNext ==
    ASSUME Capacity \in Nat, NEW l \in Slots \cup {-1},
           NEW t \in Slots, NEW x \in Slots,
           Distance(l, t) < Distance(l, x)
    PROVE  Distance(t, x) = Distance(l, x) - Distance(l, t)
  BY SMT DEF Distance, Slots

\* Two slots at the same distance are the same slot.
LEMMA DistanceInjective ==
    ASSUME Capacity \in Nat, NEW l \in Slots \cup {-1},
           NEW s \in Slots, NEW t \in Slots, Distance(l, s) = Distance(l, t)
    PROVE  s = t
  BY SMT DEF Distance, Slots

\* Nothing is further away than the slot one stands on.
LEMMA DistanceToSelf ==
    ASSUME Capacity \in Nat, NEW t \in Slots, NEW s \in Slots, s # t
    PROVE  Distance(t, s) < Distance(t, t)
  BY SMT DEF Distance, Slots

LEMMA DistanceType ==
    ASSUME Capacity \in Nat, NEW l \in Slots \cup {-1}, NEW s \in Slots
    PROVE  Distance(l, s) \in Nat
  BY SMT DEF Distance, Slots

LEMMA InitInv == Init => Inv
  BY DEF Init, Inv, TypeOK, BehindWaiting, Waiting, Slots

\* A dispatch moves everyone it serves behind those who still wait.
LEMMA DispatchInv ==
    ASSUME Capacity \in Nat, Inv, NEW d \in Slots, Dispatch(d)
    PROVE  Inv'
<1> USE DEF Inv
<1>1. TypeOK'
  BY DEF TypeOK, Dispatch
<1>2. ASSUME NEW s \in Waiting', NEW t \in served'[s]
      PROVE  Distance(d, s) < Distance(d, t)
  <2>1. s \in Waiting /\ s # d /\ s \in Slots /\ d \in Waiting
    BY <1>2 DEF Dispatch, Waiting, TypeOK, FirstInLine
  <2>2. Distance(last, d) <= Distance(last, s)
    BY <2>1 DEF Dispatch, FirstInLine
  <2>3. last \in Slots \cup {-1}
    BY DEF TypeOK
  <2>4. Distance(last, d) < Distance(last, s)
    BY <2>1, <2>2, <2>3, DistanceInjective, DistanceType
  <2>5. CASE t = d
    BY <2>1, <2>5, DistanceToSelf
  <2>6. CASE t # d
    <3>1. t \in served[s] /\ t \in Slots
      BY <1>2, <2>1, <2>6 DEF Dispatch, TypeOK
    <3>2. Distance(last, s) < Distance(last, t)
      BY <2>1, <3>1 DEF BehindWaiting
    <3>3. /\ Distance(last, d) \in Nat /\ Distance(last, s) \in Nat
          /\ Distance(last, t) \in Nat
      BY <2>1, <2>3, <3>1, DistanceType
    <3>4. Distance(last, d) < Distance(last, t)
      BY <2>4, <3>2, <3>3
    <3>5. /\ Distance(d, s) = Distance(last, s) - Distance(last, d)
          /\ Distance(d, t) = Distance(last, t) - Distance(last, d)
      BY <2>1, <2>3, <2>4, <3>1, <3>4, DistanceFromNext
    <3> QED
      BY <3>2, <3>3, <3>5
  <2> QED
    BY <2>5, <2>6
<1>3. last' = d
  BY DEF Dispatch
<1> QED
  BY <1>1, <1>2, <1>3 DEF BehindWaiting, Distance

LEMMA NextInv == ASSUME Capacity \in Nat, Inv, [Next]_vars PROVE Inv'
<1> USE DEF Inv
<1>1. CASE \E s \in Slots : Dispatch(s)
  BY <1>1, DispatchInv
<1>2. CASE \E s \in Slots : Admit(s) \/ Pause(s)
  <2>1. PICK s \in Slots : Admit(s) \/ Pause(s)
    BY <1>2
  <2>2. TypeOK'
    BY <2>1 DEF TypeOK, Admit, Pause
  <2>3. BehindWaiting'
    BY <2>1 DEF BehindWaiting, Waiting, Admit, Pause, TypeOK, Distance
  <2> QED
    BY <2>2, <2>3
<1>3. CASE \E s \in Slots : Finish(s)
  BY <1>3 DEF Finish, TypeOK, BehindWaiting, Waiting, Distance
<1>4. CASE Abandon
  BY <1>4 DEF Abandon, TypeOK, BehindWaiting, Waiting, Distance
<1>5. CASE UNCHANGED vars
  BY <1>5 DEF vars, TypeOK, BehindWaiting, Waiting, Distance
<1> QED
  BY <1>1, <1>2, <1>3, <1>4, <1>5 DEF Next

\* In no step is someone dispatched whom a waiting process has already seen
\* dispatched.
LEMMA StepOvertakesNobody ==
    ASSUME Capacity \in Nat, Inv, [Next]_vars,
           NEW s \in Slots, NEW t \in Slots,
           status[s] = "ready", status[t] = "ready", status'[t] = "running"
    PROVE  t \notin served[s]
<1>1. Dispatch(t)
  BY DEF Next, vars, Inv, TypeOK, Admit, Dispatch, Pause, Finish, Abandon
<1>2. Distance(last, t) <= Distance(last, s)
  BY <1>1 DEF Dispatch, FirstInLine, Waiting
<1>3. last \in Slots \cup {-1}
  BY DEF Inv, TypeOK
<1>4. Distance(last, t) \in Nat /\ Distance(last, s) \in Nat
  BY <1>3, DistanceType
<1> QED
  BY <1>2, <1>4 DEF Inv, BehindWaiting, Waiting

\* Whatever implements this specification gives no process two turns while
\* another one waits.
THEOREM RoundRobinNoOvertaking ==
    ASSUME Capacity \in Nat PROVE Spec => NoOvertaking
<1>1. Spec => []Inv
  BY InitInv, NextInv, PTL DEF Spec
<1>2. Inv /\ [Next]_vars =>
        [\A s, t \in Slots :
          status[s] = "ready" /\ status'[t] = "running" /\ status[t] = "ready"
              => t \notin served[s]]_vars
  BY StepOvertakesNobody
<1> QED
  BY <1>1, <1>2, PTL DEF Spec, NoOvertaking

\* One process at a time.
THEOREM RoundRobinOneAtATime ==
    ASSUME Capacity \in Nat PROVE Spec => []OneAtATime
<1>1. Init => TypeOK /\ OneAtATime
  BY DEF Init, TypeOK, OneAtATime
<1>2. TypeOK /\ OneAtATime /\ [Next]_vars => (TypeOK /\ OneAtATime)'
  BY DEF TypeOK, OneAtATime, Next, vars, Admit, Dispatch, Pause, Finish, Abandon
<1> QED
  BY <1>1, <1>2, PTL DEF Spec
=============================================================================
