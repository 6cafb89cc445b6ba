---------------------------- MODULE MbGateProofs ----------------------------
(***************************************************************************)
(* Theorems of module MbGate, for any finite set of blend callers, any     *)
(* names and any interval and wait budget: the count of blend callers is   *)
(* exact, the permit has one holder who uses it, and a blend caller is     *)
(* overtaken by at most one low-priority call.                             *)
(***************************************************************************)
EXTENDS MbGate, FiniteSetTheorems, SequenceTheorems, TLAPS

Counted == {b \in Blend : Registered(b)}

(* The registered callers are finitely many.                               *)
LEMMA CountedFinite == IsFiniteSet(Counted) /\ Cardinality(Counted) \in Nat
<1>1. IsFiniteSet(Blend) /\ Counted \in SUBSET Blend
  BY MbGateAssumption DEF Counted
<1>2. IsFiniteSet(Counted)
  BY <1>1, FS_Subset
<1> QED
  BY <1>2, FS_CardinalityType

(* A step that registers b and counts it.                                  *)
LEMMA Joins ==
    ASSUME TypeOK, WaitingExact, NEW b \in Blend, ~Registered(b), waiting' = waiting + 1,
           Counted' = Counted \cup {b}
    PROVE  WaitingExact' /\ waiting' \in Nat
<1>1. Cardinality(Counted') = Cardinality(Counted) + 1
  <2>1. b \notin Counted
    BY DEF Counted
  <2> QED
    BY <2>1, CountedFinite, FS_AddElement
<1> QED
  BY <1>1, CountedFinite DEF WaitingExact, Counted

(* A step that ends the registration of b and no longer counts it.         *)
LEMMA Leaves ==
    ASSUME TypeOK, WaitingExact, NEW b \in Blend, Registered(b), waiting' = waiting - 1,
           Counted' = Counted \ {b}
    PROVE  WaitingExact' /\ waiting' \in Nat
<1>1. Cardinality(Counted') = Cardinality(Counted) - 1 /\ IsFiniteSet(Counted')
  <2>1. b \in Counted
    BY DEF Counted
  <2> QED
    BY <2>1, CountedFinite, FS_RemoveElement
<1>2. Cardinality(Counted') \in Nat
  BY <1>1, FS_CardinalityType
<1> QED
  BY <1>1, <1>2 DEF WaitingExact, Counted

(* A step that registers and counts nobody.                                *)
LEMMA Stays ==
    ASSUME TypeOK, WaitingExact, waiting' = waiting, Counted' = Counted
    PROVE  WaitingExact' /\ waiting' \in Nat
  BY CountedFinite DEF WaitingExact, Counted

(* Every step leaves the count exact, also the two of a cancellation.      *)
LEMMA WaitingStep ==
    ASSUME TypeOK, WaitingExact, [Next]_vars
    PROVE  WaitingExact' /\ waiting' \in Nat
<1> USE DEF blend, sem, lowpri
<1>0. pc \in [Blend -> Places]
  BY DEF TypeOK
<1>1. ASSUME NEW b \in Blend, Announce(b)
      PROVE  WaitingExact' /\ waiting' \in Nat
  <2>1. ~Registered(b) /\ waiting' = waiting + 1 /\ Counted' = Counted \cup {b}
    BY <1>0, <1>1 DEF Announce, At, GoTo, Registered, Counted
  <2> QED
    BY <2>1, Joins
<1>2. ASSUME NEW b \in Blend, Granted(b) \/ Dropped(b)
      PROVE  WaitingExact' /\ waiting' \in Nat
  <2>1. Registered(b) /\ waiting' = waiting - 1 /\ Counted' = Counted \ {b}
    BY <1>0, <1>2 DEF Granted, Dropped, At, GoTo, Registered, Counted
  <2> QED
    BY <2>1, Leaves
<1>3. ASSUME NEW b \in Blend,
             \/ \E n \in Names : Ask(b, n)
             \/ \E found, failed \in BOOLEAN : Tier1(b, found, failed)
             \/ Acquire(b) \/ Pace(b) \/ Put(b) \/ Cancel(b)
             \/ \E failed \in BOOLEAN : Answer(b, failed)
      PROVE  WaitingExact' /\ waiting' \in Nat
  <2>1. waiting' = waiting /\ Counted' = Counted
    BY <1>0, <1>3 DEF Ask, Tier1, Acquire, Pace, Put, Cancel, Answer, At, GoTo, Registered, Counted
  <2> QED
    BY <2>1, Stays
<1>4. CASE LowStart \/ LowStep \/ Tick \/ (\E n \in Names : Expire(n)) \/ UNCHANGED vars
  <2>1. waiting' = waiting /\ pc' = pc
    BY <1>4 DEF LowStart, LowStep, LowLoad, LowTry, LowLate, LowWake, LowPace, LowAnswer, Tick,
                Expire, vars
  <2> QED
    BY <2>1, Stays DEF Counted, Registered
<1> QED
  BY <1>1, <1>2, <1>3, <1>4 DEF Next, BlendStep
-----------------------------------------------------------------------------
(* The semaphore: what a release and a caller leaving do to it.            *)
SemTyped == permit \in Blend \cup {Low, Nobody} /\ queue \in Seq(Blend)

(* The permit given up goes to a blend caller, or to nobody.               *)
LEMMA ReleaseTyped ==
    ASSUME SemTyped, release
    PROVE  SemTyped'
  BY DEF SemTyped, release

(* Taking b out of the queue keeps the others, in their order.             *)
LEMMA WithoutTyped ==
    ASSUME SemTyped, NEW b \in Blend, NEW k \in DOMAIN queue, queue[k] = b
    PROVE  /\ Without(queue, b) \in Seq(Blend)
           /\ \E i \in 1..Len(queue) :
                /\ queue[i] = b
                /\ DOMAIN Without(queue, b) = 1..Len(queue) - 1
                /\ \A j \in 1..Len(queue) - 1 :
                      Without(queue, b)[j] = IF j < i THEN queue[j] ELSE queue[j + 1]
<1> DEFINE i == CHOOSE j \in DOMAIN queue : queue[j] = b
           q == [j \in 1..Len(queue) - 1 |-> IF j < i THEN queue[j] ELSE queue[j + 1]]
<1>1. DOMAIN queue = 1..Len(queue) /\ Len(queue) \in Nat
  BY DEF SemTyped
<1>2. i \in 1..Len(queue) /\ queue[i] = b
  BY <1>1
<1> HIDE DEF i
<1>3. Len(queue) - 1 \in Nat
  BY <1>1, <1>2
<1>4. \A j \in 1..Len(queue) - 1 : (IF j < i THEN queue[j] ELSE queue[j + 1]) \in Blend
  BY <1>1, <1>2 DEF SemTyped
<1>5. q \in Seq(Blend)
  BY <1>3, <1>4
<1>6. Without(queue, b) = q
  BY DEF Without, i
<1> QED
  BY <1>2, <1>5, <1>6

(* A cancelled caller leaves the queue, or gives the permit up.            *)
LEMMA DropTyped ==
    ASSUME SemTyped, NEW b \in Blend, Drop(b)
    PROVE  SemTyped'
  BY ReleaseTyped, WithoutTyped DEF Drop, SemTyped

(* The types of everything but the semaphore and the count.                *)
Rest ==
    /\ since \in 0..Interval
    /\ pc \in [Blend -> Places]
    /\ asks \in [Blend -> Names \cup {NoName}]
    /\ answer \in [Blend -> {"id", "none"}]
    /\ low \in LowPlaces
    /\ left \in 0..MaxWait
    /\ cache \in [Names -> {"absent", "id", "none"}]
    /\ overtaken \in [Blend -> Nat]
    /\ faults \in 0..MaxFaults

(* A fault keeps the count within its bound.                               *)
LEMMA FaultTyped ==
    ASSUME NEW bad \in BOOLEAN, faults \in 0..MaxFaults, Fault(bad)
    PROVE  faults' \in 0..MaxFaults
  BY MbGateAssumption DEF Fault

(* A step of a blend caller sends it to a place, with a name and answer.   *)
LEMMA RestStep ==
    ASSUME Rest, [Next]_vars
    PROVE  Rest'
<1> USE DEF blend, sem, lowpri, Places, LowPlaces, Paced
<1>0. Interval \in Nat /\ MaxWait \in Nat
  BY MbGateAssumption
<1>1. ASSUME NEW b \in Blend, NEW n \in Names, Ask(b, n)
      PROVE  Rest'
  BY <1>1 DEF Ask, Rest, GoTo
<1>2. ASSUME NEW b \in Blend, NEW found \in BOOLEAN, NEW failed \in BOOLEAN,
             Tier1(b, found, failed)
      PROVE  Rest'
  BY <1>2, FaultTyped DEF Tier1, Rest, GoTo
<1>3. ASSUME NEW b \in Blend, Announce(b) \/ Acquire(b) \/ Granted(b) \/ Dropped(b)
      PROVE  Rest'
  <2>1. CASE Announce(b)
    BY <2>1 DEF Announce, Rest, GoTo
  <2>2. CASE Acquire(b)
    BY <2>2 DEF Acquire, Rest, GoTo
  <2>3. CASE Granted(b)
    BY <2>3 DEF Granted, Rest, GoTo
  <2>4. CASE Dropped(b)
    BY <2>4 DEF Dropped, Rest, GoTo
  <2> QED
    BY <1>3, <2>1, <2>2, <2>3, <2>4
<1>4. ASSUME NEW b \in Blend, Pace(b)
      PROVE  Rest'
  BY <1>0, <1>4 DEF Pace, Rest, GoTo, wait
<1>5. ASSUME NEW b \in Blend, NEW failed \in BOOLEAN, Answer(b, failed)
      PROVE  Rest'
  BY <1>5, FaultTyped DEF Answer, Rest, GoTo
<1>6. ASSUME NEW b \in Blend, Put(b)
      PROVE  Rest'
  BY <1>6 DEF Put, Rest, GoTo
<1>7. ASSUME NEW b \in Blend, Cancel(b)
      PROVE  Rest'
  BY <1>7 DEF Cancel, Rest, GoTo
<1>8. CASE LowStart \/ LowLoad \/ LowLate \/ LowWake \/ LowPace \/ LowAnswer
  BY <1>0, <1>8 DEF LowStart, LowLoad, LowLate, LowWake, LowPace, LowAnswer, Rest, wait
<1>9. CASE LowTry
  BY <1>9 DEF LowTry, Rest
<1>10. CASE Tick
  BY <1>0, <1>10 DEF Tick, Less, Rest
<1>11. ASSUME NEW n \in Names, Expire(n)
       PROVE  Rest'
  BY <1>11 DEF Expire, Rest
<1>12. CASE UNCHANGED vars
  BY <1>12 DEF vars, Rest
<1> QED
  BY <1>1, <1>2, <1>3, <1>4, <1>5, <1>6, <1>7, <1>8, <1>9, <1>10, <1>11, <1>12
     DEF Next, BlendStep, LowStep

(* The permit and the queue stay what they should be.                      *)
LEMMA SemStep ==
    ASSUME SemTyped, [Next]_vars
    PROVE  SemTyped'
<1> USE DEF blend, sem, lowpri
<1>1. ASSUME NEW b \in Blend, Acquire(b)
      PROVE  SemTyped'
  BY <1>1 DEF Acquire, SemTyped
<1>2. ASSUME NEW b \in Blend, \E failed \in BOOLEAN : Answer(b, failed)
      PROVE  SemTyped'
  BY <1>2, ReleaseTyped DEF Answer
<1>3. ASSUME NEW b \in Blend, Cancel(b)
      PROVE  SemTyped'
  BY <1>3, DropTyped DEF Cancel
<1>4. CASE LowTry \/ LowAnswer
  BY <1>4, ReleaseTyped DEF LowTry, LowAnswer, SemTyped
<1>5. ASSUME NEW b \in Blend,
             \/ \E n \in Names : Ask(b, n)
             \/ \E found, failed \in BOOLEAN : Tier1(b, found, failed)
             \/ Announce(b) \/ Granted(b) \/ Pace(b) \/ Put(b) \/ Dropped(b)
      PROVE  SemTyped'
  BY <1>5 DEF Ask, Tier1, Announce, Granted, Pace, Put, Dropped, SemTyped
<1>6. CASE LowStart \/ LowLoad \/ LowLate \/ LowWake \/ LowPace \/ Tick
           \/ (\E n \in Names : Expire(n)) \/ UNCHANGED vars
  BY <1>6 DEF LowStart, LowLoad, LowLate, LowWake, LowPace, Tick, Expire, vars, SemTyped
<1> QED
  BY <1>1, <1>2, <1>3, <1>4, <1>5, <1>6 DEF Next, BlendStep, LowStep

(* The count's type rests on the count being exact: a decrement follows an *)
(* increment.                                                              *)
LEMMA TypedInit == Init => TypeOK /\ WaitingExact
<1> SUFFICES ASSUME Init PROVE TypeOK /\ WaitingExact
  OBVIOUS
<1>1. TypeOK
  BY MbGateAssumption DEF Init, TypeOK, Places, LowPlaces, Paced
<1>2. {b \in Blend : Registered(b)} = {}
  BY DEF Init, Registered
<1>3. WaitingExact
  BY <1>2, FS_EmptySet DEF Init, WaitingExact
<1> QED
  BY <1>1, <1>3

(* Every step keeps the types, given that the count is exact before it.    *)
LEMMA TypedStep == TypeOK /\ WaitingExact /\ [Next]_vars => TypeOK' /\ WaitingExact'
<1> SUFFICES ASSUME TypeOK, WaitingExact, [Next]_vars
             PROVE  TypeOK' /\ WaitingExact'
  OBVIOUS
<1>1. SemTyped' /\ Rest'
  BY SemStep, RestStep DEF TypeOK, SemTyped, Rest
<1>2. WaitingExact' /\ waiting' \in Nat
  BY WaitingStep
<1> QED
  BY <1>1, <1>2 DEF TypeOK, SemTyped, Rest

(* Every variable of the gate keeps its type; mb_blend_waiting in          *)
(* particular never falls below zero.                                      *)
THEOREM TypeCorrect == Spec => []TypeOK
  BY TypedInit, TypedStep, PTL DEF Spec

(* mb_blend_waiting is the number of registered blend callers.             *)
THEOREM CountExact == Spec => []WaitingExact
  BY TypedInit, TypedStep, PTL DEF Spec
-----------------------------------------------------------------------------
(* One permit.  A step of the holder that gives the permit up hands it to  *)
(* the first in the queue, who was waiting for it.                         *)
LEMMA ReleaseExact ==
    ASSUME TypeOK, TypeOK', PermitExact, permit # Nobody, release,
           \A b \in Blend : permit # b => pc'[b] = pc[b],
           \A b \in Blend : permit = b => pc'[b] \notin Paced \cup {"queued"},
           low' \in Paced <=> low \in Paced /\ permit # Low
    PROVE  PermitExact'
<1>0. Low \notin Blend /\ Nobody \notin Blend /\ Low # Nobody
  BY MbGateAssumption
<1>1. CASE queue = <<>>
  <2>1. permit' = Nobody /\ queue' = <<>>
    BY <1>1 DEF release
  <2>2. \A b \in Blend : ~(pc[b] = "queued" /\ permit # b)
    BY <1>1 DEF PermitExact
  <2>3. \A b \in Blend : pc'[b] \notin Paced
    BY DEF PermitExact
  <2>4. DOMAIN queue' = {}
    BY <2>1
  <2>5. \A b \in Blend : pc'[b] # "queued"
    BY <2>2
  <2> QED
    BY <1>0, <2>1, <2>3, <2>4, <2>5 DEF PermitExact
<1>2. CASE queue # <<>>
  <2> DEFINE h == Head(queue)
  <2>1. permit' = h /\ queue' = Tail(queue)
    BY <1>2 DEF release
  <2>2. /\ queue \in Seq(Blend) /\ h \in Blend /\ Len(queue) \in Nat \ {0}
        /\ DOMAIN queue = 1..Len(queue) /\ h = queue[1]
        /\ DOMAIN Tail(queue) = 1..Len(queue) - 1
        /\ \A i \in 1..Len(queue) - 1 : Tail(queue)[i] = queue[i + 1]
    BY <1>2 DEF TypeOK
  <2> HIDE DEF h
  <2>3. pc[h] = "queued" /\ permit # h
    BY <2>2 DEF PermitExact
  <2>4. \A b \in Blend : pc'[b] \notin Paced
    BY DEF PermitExact
  <2>5. pc'[h] = "queued"
    BY <2>2, <2>3
  <2>6. \A i, j \in DOMAIN queue' : queue'[i] = queue'[j] => i = j
    BY <2>1, <2>2 DEF PermitExact
  <2>7. ASSUME NEW b \in Blend
        PROVE  (\E i \in DOMAIN queue' : queue'[i] = b) <=> pc'[b] = "queued" /\ h # b
    <3>1. CASE b = h
      BY <2>1, <2>2, <3>1 DEF PermitExact
    <3>2. CASE b # h
      <4>1. (\E i \in DOMAIN queue' : queue'[i] = b) <=> (\E i \in DOMAIN queue : queue[i] = b)
        <5>1. ASSUME NEW i \in DOMAIN queue', queue'[i] = b
              PROVE  \E j \in DOMAIN queue : queue[j] = b
          <6>1. i + 1 \in DOMAIN queue /\ queue[i + 1] = b
            BY <2>1, <2>2, <5>1
          <6> QED
            BY <6>1
        <5>2. ASSUME NEW j \in DOMAIN queue, queue[j] = b
              PROVE  \E i \in DOMAIN queue' : queue'[i] = b
          <6>1. j # 1
            BY <2>2, <3>2, <5>2
          <6>2. j - 1 \in 1..Len(queue) - 1 /\ (j - 1) + 1 = j
            BY <2>2, <6>1
          <6>3. j - 1 \in DOMAIN queue' /\ queue'[j - 1] = b
            BY <2>1, <2>2, <5>2, <6>2
          <6> QED
            BY <6>3
        <5> QED
          BY <5>1, <5>2
      <4>2. (\E i \in DOMAIN queue : queue[i] = b) <=> pc[b] = "queued" /\ permit # b
        BY DEF PermitExact
      <4>3. pc'[b] = "queued" <=> pc[b] = "queued" /\ permit # b
        OBVIOUS
      <4> QED
        BY <3>2, <4>1, <4>2, <4>3
    <3> QED
      BY <3>1, <3>2
  <2>8. low' \notin Paced
    BY <1>0 DEF PermitExact
  <2> QED
    BY <1>0, <2>1, <2>2, <2>4, <2>5, <2>6, <2>7, <2>8 DEF PermitExact
<1> QED
  BY <1>1, <1>2

(* Without keeps the others apart, and only b leaves.                      *)
LEMMA WithoutExact ==
    ASSUME TypeOK, PermitExact, NEW b \in Blend, NEW k \in DOMAIN queue, queue[k] = b
    PROVE  LET q == Without(queue, b)
           IN  /\ \A i, j \in DOMAIN q : q[i] = q[j] => i = j
               /\ \A c \in Blend : (\E i \in DOMAIN q : q[i] = c)
                                   <=> c # b /\ \E i \in DOMAIN queue : queue[i] = c
<1> DEFINE q == Without(queue, b)
<1>1. PICK n \in 1..Len(queue) :
        /\ queue[n] = b
        /\ DOMAIN q = 1..Len(queue) - 1
        /\ \A j \in 1..Len(queue) - 1 : q[j] = IF j < n THEN queue[j] ELSE queue[j + 1]
  BY WithoutTyped DEF TypeOK, SemTyped
<1> HIDE DEF q
<1>2. DOMAIN queue = 1..Len(queue) /\ Len(queue) \in Nat
  BY DEF TypeOK
<1>3. \A i, j \in 1..Len(queue) : queue[i] = queue[j] => i = j
  BY <1>2 DEF PermitExact
<1>4. \A i, j \in DOMAIN q : q[i] = q[j] => i = j
  BY <1>1, <1>2, <1>3
<1>5. ASSUME NEW c \in Blend, NEW i \in DOMAIN q, q[i] = c
      PROVE  c # b /\ \E j \in 1..Len(queue) : queue[j] = c
  <2>1. CASE i < n
    BY <1>1, <1>2, <1>3, <1>5, <2>1
  <2>2. CASE ~(i < n)
    <3>1. i + 1 \in 1..Len(queue) /\ i + 1 # n /\ queue[i + 1] = c
      BY <1>1, <1>2, <1>5, <2>2
    <3> QED
      BY <1>1, <1>3, <3>1
  <2> QED
    BY <2>1, <2>2
<1>6. ASSUME NEW c \in Blend, c # b, NEW j \in 1..Len(queue), queue[j] = c
      PROVE  \E i \in DOMAIN q : q[i] = c
  <2>1. CASE j < n
    BY <1>1, <1>2, <1>6, <2>1
  <2>2. CASE ~(j < n)
    <3>1. j - 1 \in DOMAIN q /\ q[j - 1] = queue[j]
      <4>1. j # n
        BY <1>1, <1>6
      <4>2. j - 1 \in 1..Len(queue) - 1 /\ ~(j - 1 < n)
        BY <1>2, <2>2, <4>1
      <4> QED
        BY <1>1, <4>2
    <3> QED
      BY <1>6, <3>1
  <2> QED
    BY <2>1, <2>2
<1> QED
  BY <1>2, <1>4, <1>5, <1>6 DEF q

(* Caller b, which does not hold the permit, leaves the queue if it is in  *)
(* it.                                                                     *)
LEMMA LeaveExact ==
    ASSUME TypeOK, TypeOK', PermitExact, NEW b \in Blend, permit # b, Drop(b),
           pc'[b] \notin Paced \cup {"queued"},
           \A c \in Blend \ {b} : pc'[c] = pc[c],
           low' = low
    PROVE  PermitExact'
<1>1. permit' = permit
  BY DEF Drop
<1>2. pc[b] \notin Paced
  BY DEF PermitExact
<1>3. /\ \A i, j \in DOMAIN queue' : queue'[i] = queue'[j] => i = j
      /\ \A c \in Blend : (\E i \in DOMAIN queue' : queue'[i] = c)
                          <=> c # b /\ \E i \in DOMAIN queue : queue[i] = c
  <2>1. CASE \E k \in DOMAIN queue : queue[k] = b
    <3>1. queue' = Without(queue, b)
      BY <2>1 DEF Drop
    <3> QED
      BY <2>1, <3>1, WithoutExact
  <2>2. CASE ~\E k \in DOMAIN queue : queue[k] = b
    <3>1. queue' = queue
      BY <2>2 DEF Drop
    <3> QED
      BY <2>2, <3>1 DEF PermitExact
  <2> QED
    BY <2>1, <2>2
<1>4. permit = Nobody => queue' = <<>>
  <2> SUFFICES ASSUME permit = Nobody PROVE queue' = <<>>
    OBVIOUS
  <2>1. queue = <<>> /\ DOMAIN queue = {}
    BY DEF PermitExact
  <2> QED
    BY <2>1 DEF Drop
<1>5. ASSUME NEW c \in Blend
      PROVE  /\ pc'[c] \in Paced => permit' = c
             /\ permit' = c => pc'[c] \in Paced \cup {"queued"}
             /\ (\E i \in DOMAIN queue' : queue'[i] = c) <=> pc'[c] = "queued" /\ permit' # c
  <2>1. CASE c = b
    BY <1>1, <1>3, <2>1
  <2>2. CASE c # b
    BY <1>1, <1>3, <2>2 DEF PermitExact
  <2> QED
    BY <2>1, <2>2
<1> QED
  BY <1>1, <1>3, <1>4, <1>5 DEF PermitExact

(* A step that moves b, not registered for the permit before or after.     *)
LEMMA AsideExact ==
    ASSUME TypeOK, PermitExact, NEW b \in Blend, UNCHANGED <<permit, queue, low>>,
           pc[b] \notin Paced \cup {"queued"}, pc'[b] \notin Paced \cup {"queued"},
           \A c \in Blend \ {b} : pc'[c] = pc[c]
    PROVE  PermitExact'
  BY DEF PermitExact

(* A step of the holder b on its way from the grant to the call.           *)
LEMMA OnwardExact ==
    ASSUME TypeOK, PermitExact, NEW b \in Blend, UNCHANGED <<permit, queue, low>>,
           permit = b, pc'[b] \in Paced,
           \A c \in Blend \ {b} : pc'[c] = pc[c]
    PROVE  PermitExact'
  BY DEF PermitExact, Paced

(* A blend caller takes the free permit, or joins the queue.               *)
LEMMA AcquireExact ==
    ASSUME TypeOK, PermitExact, NEW b \in Blend, Acquire(b)
    PROVE  PermitExact'
<1>0. /\ pc[b] = "announced" /\ pc'[b] = "queued" /\ low' = low
      /\ \A c \in Blend \ {b} : pc'[c] = pc[c]
      /\ permit # b /\ ~\E i \in DOMAIN queue : queue[i] = b
      /\ Nobody \notin Blend /\ Low \notin Blend /\ Low # Nobody
  BY MbGateAssumption DEF Acquire, At, GoTo, TypeOK, PermitExact, Paced, lowpri
<1>1. CASE permit = Nobody
  <2>1. permit' = b /\ queue' = queue /\ queue = <<>> /\ DOMAIN queue = {}
    BY <1>1 DEF Acquire, PermitExact
  <2> QED
    BY <1>0, <1>1, <2>1 DEF PermitExact, Paced
<1>2. CASE permit # Nobody
  <2>1. /\ permit' = permit /\ queue' = Append(queue, b)
        /\ DOMAIN queue = 1..Len(queue) /\ Len(queue) \in Nat
        /\ DOMAIN queue' = 1..Len(queue) + 1
        /\ \A i \in 1..Len(queue) : queue'[i] = queue[i]
        /\ queue'[Len(queue) + 1] = b
    BY <1>2 DEF Acquire, TypeOK
  <2>2. \A i, j \in DOMAIN queue' : queue'[i] = queue'[j] => i = j
    BY <1>0, <2>1 DEF PermitExact
  <2>3. ASSUME NEW c \in Blend
        PROVE  (\E i \in DOMAIN queue' : queue'[i] = c) <=> pc'[c] = "queued" /\ permit' # c
    <3>1. CASE c = b
      <4>1. Len(queue) + 1 \in DOMAIN queue'
        BY <2>1
      <4> QED
        BY <1>0, <2>1, <3>1, <4>1
    <3>2. CASE c # b
      <4>1. (\E i \in DOMAIN queue' : queue'[i] = c) <=> (\E i \in DOMAIN queue : queue[i] = c)
        BY <2>1, <3>2
      <4> QED
        BY <1>0, <2>1, <3>2, <4>1 DEF PermitExact
    <3> QED
      BY <3>1, <3>2
  <2> QED
    BY <1>0, <1>2, <2>1, <2>2, <2>3 DEF PermitExact, Paced
<1> QED
  BY <1>1, <1>2

(* At the start the permit is free and nobody waits for it.                *)
LEMMA PermitInit == Init => PermitExact
<1> SUFFICES ASSUME Init PROVE PermitExact
  OBVIOUS
<1>1. DOMAIN queue = {} /\ permit = Nobody /\ Nobody \notin Blend /\ Low # Nobody
  BY MbGateAssumption DEF Init
<1> QED
  BY <1>1 DEF Init, PermitExact, Paced

(* Every step, a cancellation among them, keeps the permit exact.          *)
LEMMA PermitStep ==
    ASSUME TypeOK, TypeOK', PermitExact, [Next]_vars
    PROVE  PermitExact'
<1> USE DEF blend, sem, lowpri
<1>0. /\ pc \in [Blend -> Places]
      /\ Low \notin Blend /\ Nobody \notin Blend /\ Low # Nobody
  BY MbGateAssumption DEF TypeOK
<1>1. ASSUME NEW b \in Blend,
             \/ \E n \in Names : Ask(b, n)
             \/ \E found, failed \in BOOLEAN : Tier1(b, found, failed)
             \/ Announce(b) \/ Put(b) \/ Dropped(b)
      PROVE  PermitExact'
  <2>1. /\ UNCHANGED <<permit, queue, low>>
        /\ pc[b] \notin Paced \cup {"queued"} /\ pc'[b] \notin Paced \cup {"queued"}
        /\ \A c \in Blend \ {b} : pc'[c] = pc[c]
    BY <1>0, <1>1 DEF Ask, Tier1, Announce, Put, Dropped, At, GoTo, Paced
  <2> QED
    BY <2>1, AsideExact
<1>2. ASSUME NEW b \in Blend, Granted(b) \/ Pace(b)
      PROVE  PermitExact'
  <2>1. /\ UNCHANGED <<permit, queue, low>>
        /\ permit = b /\ pc'[b] \in Paced
        /\ \A c \in Blend \ {b} : pc'[c] = pc[c]
    BY <1>0, <1>2 DEF Granted, Pace, At, GoTo, Paced, PermitExact
  <2> QED
    BY <2>1, OnwardExact
<1>3. ASSUME NEW b \in Blend, Acquire(b)
      PROVE  PermitExact'
  BY <1>3, AcquireExact
<1>4. ASSUME NEW b \in Blend, NEW failed \in BOOLEAN, Answer(b, failed)
      PROVE  PermitExact'
  <2>1. permit = b /\ release /\ low' = low
    BY <1>4 DEF Answer, At, PermitExact, Paced
  <2>2. pc'[b] = "put" /\ \A c \in Blend \ {b} : pc'[c] = pc[c]
    BY <1>0, <1>4 DEF Answer, GoTo
  <2> QED
    BY <1>0, <2>1, <2>2, ReleaseExact DEF Paced
<1>5. ASSUME NEW b \in Blend, Cancel(b)
      PROVE  PermitExact'
  <2>1. /\ Drop(b) /\ low' = low /\ pc'[b] \notin Paced \cup {"queued"}
        /\ \A c \in Blend \ {b} : pc'[c] = pc[c]
    BY <1>0, <1>5 DEF Cancel, GoTo, Paced
  <2>2. CASE permit = b
    <3>1. release
      BY <2>1, <2>2 DEF Drop
    <3> QED
      BY <1>0, <2>1, <2>2, <3>1, ReleaseExact
  <2>3. CASE permit # b
    BY <2>1, <2>3, LeaveExact
  <2> QED
    BY <2>2, <2>3
<1>6. CASE LowTry
  <2>1. CASE permit = Nobody
    <3>1. permit' = Low /\ low' = "pacing" /\ queue' = queue /\ pc' = pc
      BY <1>6, <2>1 DEF LowTry
    <3> QED
      BY <1>0, <2>1, <3>1 DEF PermitExact, Paced
  <2>2. CASE permit # Nobody
    <3>1. low = "try" /\ low' = "late" /\ UNCHANGED <<permit, queue, pc>>
      BY <1>6, <2>2 DEF LowTry
    <3> QED
      BY <3>1 DEF PermitExact, Paced
  <2> QED
    BY <2>1, <2>2
<1>7. CASE LowAnswer
  <2>1. low = "calling" /\ low' = "idle" /\ release /\ pc' = pc /\ permit = Low
    BY <1>7 DEF LowAnswer, PermitExact, Paced
  <2> QED
    BY <1>0, <2>1, ReleaseExact DEF Paced
<1>8. CASE LowStart \/ LowLoad \/ LowLate \/ LowWake \/ LowPace \/ Tick
           \/ (\E n \in Names : Expire(n)) \/ UNCHANGED vars
  <2>1. UNCHANGED <<permit, queue, pc>> /\ (low' \in Paced <=> low \in Paced)
    BY <1>8 DEF LowStart, LowLoad, LowLate, LowWake, LowPace, Tick, Expire, vars, Paced
  <2> QED
    BY <2>1 DEF PermitExact
<1> QED
  BY <1>1, <1>2, <1>3, <1>4, <1>5, <1>6, <1>7, <1>8 DEF Next, BlendStep, LowStep

(* The permit has one holder at a time, who is on the way to its call and  *)
(* no other, and exactly the callers without it are queued, once each.     *)
THEOREM OnePermit == Spec => []PermitExact
  BY TypedInit, TypedStep, PermitInit, PermitStep, PTL DEF Spec
-----------------------------------------------------------------------------
(* A blend caller that a low-priority call has got ahead of keeps the next *)
(* one out: the low-priority caller is not between reading a zero count    *)
(* and trying for the permit.                                              *)
Yields ==
    \A b \in Blend :
        /\ overtaken[b] <= 1
        /\ pc[b] \in {"announced", "queued"} /\ overtaken[b] = 1 => low # "try"

(* At the start nobody has been overtaken.                                 *)
LEMMA YieldsInit == Init => Yields
  BY DEF Init, Yields

(* Every step keeps Yields: the low-priority caller looks at the count     *)
(* again before it tries again.                                            *)
LEMMA YieldsStep ==
    ASSUME TypeOK, WaitingExact, PermitExact, Yields, [Next]_vars
    PROVE  Yields'
<1> USE DEF blend, sem, lowpri
<1>0. pc \in [Blend -> Places] /\ overtaken \in [Blend -> Nat]
  BY DEF TypeOK
<1>1. ASSUME NEW b \in Blend, Announce(b)
      PROVE  Yields'
  <2>1. low' = low /\ overtaken'[b] = (IF permit = Low THEN 1 ELSE 0)
    BY <1>0, <1>1 DEF Announce
  <2>2. \A c \in Blend \ {b} : pc'[c] = pc[c] /\ overtaken'[c] = overtaken[c]
    BY <1>0, <1>1 DEF Announce, GoTo
  <2>3. permit = Low => low # "try"
    BY DEF PermitExact, Paced
  <2> QED
    BY <2>1, <2>2, <2>3 DEF Yields
<1>2. ASSUME NEW b \in Blend,
             \/ \E n \in Names : Ask(b, n)
             \/ \E found, failed \in BOOLEAN : Tier1(b, found, failed)
             \/ Pace(b) \/ Put(b) \/ Dropped(b) \/ Granted(b) \/ Cancel(b)
             \/ \E failed \in BOOLEAN : Answer(b, failed)
      PROVE  Yields'
  <2>1. /\ low' = low /\ overtaken'[b] \in {0, overtaken[b]}
        /\ pc'[b] \notin {"announced", "queued"}
        /\ \A c \in Blend \ {b} : pc'[c] = pc[c] /\ overtaken'[c] = overtaken[c]
    BY <1>0, <1>2 DEF Ask, Tier1, Pace, Put, Dropped, Granted, Cancel, Answer, GoTo
  <2> QED
    BY <2>1 DEF Yields
<1>3. ASSUME NEW b \in Blend, Acquire(b)
      PROVE  Yields'
  BY <1>0, <1>3 DEF Acquire, At, GoTo, Yields
<1>4. CASE LowLoad
  <2>1. UNCHANGED <<pc, overtaken>> /\ (low' = "try" => waiting = 0)
    BY <1>4 DEF LowLoad
  <2>2. waiting = 0 => Counted = {}
    <3>1. IsFiniteSet(Counted) /\ waiting = Cardinality(Counted)
      BY CountedFinite DEF WaitingExact, Counted
    <3> QED
      BY <3>1, FS_EmptySet
  <2>3. waiting = 0 => \A b \in Blend : pc[b] \notin {"announced", "queued"}
    BY <2>2 DEF Counted, Registered
  <2> QED
    BY <2>1, <2>3 DEF Yields
<1>5. CASE LowTry
  <2>1. low = "try" /\ low' # "try" /\ pc' = pc
    BY <1>5 DEF LowTry
  <2>2. ASSUME NEW b \in Blend
        PROVE  overtaken'[b] <= 1
    BY <1>0, <1>5, <2>1 DEF LowTry, Yields
  <2> QED
    BY <2>1, <2>2 DEF Yields
<1>6. CASE LowStart \/ LowLate \/ LowWake \/ LowPace \/ LowAnswer \/ Tick
           \/ (\E n \in Names : Expire(n)) \/ UNCHANGED vars
  <2>1. UNCHANGED <<pc, overtaken>> /\ (low' = "try" => low = "try")
    BY <1>6 DEF LowStart, LowLate, LowWake, LowPace, LowAnswer, Tick, Expire, vars
  <2> QED
    BY <2>1 DEF Yields
<1> QED
  BY <1>1, <1>2, <1>3, <1>4, <1>5, <1>6 DEF Next, BlendStep, LowStep

(* However the low-priority caller's two steps, reading the count and      *)
(* trying for the permit, interleave with the arrival of blend callers, no *)
(* blend caller waits for a second low-priority call.                      *)
THEOREM OvertakenOnce == Spec => []BlendOvertakenOnce
<1>1. Yields => BlendOvertakenOnce
  BY DEF Yields, BlendOvertakenOnce
<1> QED
  BY <1>1, TypedInit, TypedStep, PermitInit, PermitStep, YieldsInit, YieldsStep, PTL DEF Spec
=============================================================================
