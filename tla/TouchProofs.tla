----------------------------- MODULE TouchProofs ------------------------------
(***************************************************************************)
(* Proofs about the life of a touch: about TouchDriver, for any slots and  *)
(* any number of touches, movements and changes of the device's state, and *)
(* about TouchDelivery, for any clients, any trace of listeners and any    *)
(* history.                                                                *)
(***************************************************************************)
EXTENDS TouchDriver, TouchDelivery, SequenceTheorems, FiniteSetTheorems, TLAPS

-----------------------------------------------------------------------------
\* The invariant

\* The events in the queue
Begins(i) == i \in DOMAIN queue /\ queue[i].type = "begin"
Ends(i, id) == i \in DOMAIN queue /\ queue[i].type = "end" /\ queue[i].id = id
EndsBefore(i, id) == \E j \in DOMAIN queue : j < i /\ Ends(j, id)
EndsLater(i) == \E j \in DOMAIN queue : j > i /\ Ends(j, queue[i].id)
EndsBetween(i, k) == \E j \in DOMAIN queue : i < j /\ j < k /\ Ends(j, queue[i].id)
IsActive(id) == \E s \in Active(touch) : touch[s].id = id

\* Touch points have ids of their own, and at most one drives the pointer.
PointInv ==
    /\ \A s, r \in Active(touch) : touch[s].id = touch[r].id => s = r
    /\ \A s, r \in Active(touch) : touch[s].pointer /\ touch[r].pointer => s = r

\* Ids are used once.
FreshInv ==
    /\ \A s \in Active(touch) : touch[s].id < nextId
    /\ \A t \in begun : t.id < nextId
    /\ \A i \in DOMAIN queue : queue[i].id < nextId

\* What the server knows of an active touch point is what the driver knows.
AgreeInv ==
    \A s \in Active(touch) :
        /\ \A t \in begun : t.id = touch[s].id => t.pointer = touch[s].pointer
        /\ \A i \in DOMAIN queue :
              Begins(i) /\ queue[i].id = touch[s].id => queue[i].pointer = touch[s].pointer

\* A touch that has begun is active, or its end is on its way.
EndInv ==
    /\ \A t \in begun : IsActive(t.id) \/ \E j \in DOMAIN queue : Ends(j, t.id)
    /\ \A i \in DOMAIN queue :
          Begins(i) => IsActive(queue[i].id) \/ EndsLater(i)

\* Before another touch begins to drive the pointer the end of the last one is processed.
OrderInv ==
    /\ \A t \in begun, i \in DOMAIN queue :
          Begins(i) /\ t.pointer /\ queue[i].pointer /\ t.id # queue[i].id
              => EndsBefore(i, t.id)
    /\ \A i, k \in DOMAIN queue :
          i < k /\ Begins(i) /\ Begins(k) /\ queue[i].pointer /\ queue[k].pointer
             /\ queue[i].id # queue[k].id
              => EndsBetween(i, k)

\* What the state of the device tells
OffInv ==
    /\ ~enabled \/ main = "turning off" => begun = {}
    /\ main \in {"flush", "turning off"} => enabled
    /\ ~enabled \/ main = "turning off" => Active(touch) \subseteq late
    /\ ~enabled /\ main = "request" => queue = <<>>

\* The release of a finger follows its touch through the socket.
Lifts(i, s) == i \in DOMAIN socket /\ socket[i].slot = s /\ socket[i].state = "up"
ReleaseInv ==
    /\ enabled => \A s \in Active(touch) \ late :
                     s \in finger \/ \E i \in DOMAIN socket : Lifts(i, s)
    /\ \A i \in DOMAIN socket : socket[i].state = "down" =>
          socket[i].slot \in finger \/ \E j \in DOMAIN socket : j > i /\ Lifts(j, socket[i].slot)

IInv ==
    /\ TypeOK /\ PointInv /\ FreshInv /\ AgreeInv /\ EndInv /\ OrderInv
    /\ OffInv /\ ReleaseInv /\ OnePointer

-----------------------------------------------------------------------------
\* Lemmas about queues

LEMMA Appended ==
    ASSUME NEW S, NEW q \in Seq(S), NEW e \in S, NEW r, r = Append(q, e)
    PROVE  /\ r \in Seq(S)
           /\ Len(q) \in Nat
           /\ DOMAIN r = DOMAIN q \cup {Len(q) + 1}
           /\ \A i \in DOMAIN q : r[i] = q[i] /\ i \in Nat /\ i < Len(q) + 1
           /\ r[Len(q) + 1] = e
BY SMT

LEMMA Taken ==
    ASSUME NEW S, NEW q \in Seq(S), q # <<>>, NEW r, r = Tail(q)
    PROVE  /\ r \in Seq(S)
           /\ Head(q) \in S /\ Head(q) = q[1] /\ 1 \in DOMAIN q
           /\ \A i \in DOMAIN r : i \in Nat /\ i + 1 \in DOMAIN q /\ r[i] = q[i + 1]
           /\ \A i \in DOMAIN q : i \in Nat /\ i >= 1
           /\ \A i \in DOMAIN q : i # 1 => i - 1 \in DOMAIN r /\ r[i - 1] = q[i]
BY SMT

-----------------------------------------------------------------------------
\* What the input thread does with a message

NewTouch(s) ==
    /\ s \notin Active(touch)
    /\ touch' = [touch EXCEPT ![s] =
                    [active |-> TRUE, id |-> nextId, pointer |-> Emulates(s)]]
    /\ nextId' = nextId + 1
    /\ queue' = Append(queue, [type |-> "begin", id |-> nextId, pointer |-> Emulates(s)])

\* An event of an active touch point
Again(type, s) ==
    /\ s \in Active(touch)
    /\ touch' = touch /\ nextId' = nextId
    /\ queue' = Append(queue, [type |-> type, id |-> touch[s].id, pointer |-> touch[s].pointer])

EndPosted(s) ==
    /\ s \in Active(touch)
    /\ touch' = [touch EXCEPT ![s].active = FALSE] /\ nextId' = nextId
    /\ queue' = Append(queue, [type |-> "end", id |-> touch[s].id, pointer |-> touch[s].pointer])

Ignored == UNCHANGED <<touch, nextId, queue>>

LEMMA HandleCases ==
    ASSUME TypeOK, NEW m \in Message, Handle(m)
    PROVE  /\ m.slot \in Slots
           /\ slotState' \subseteq Slots
           /\ m.state = "down" => NewTouch(m.slot) \/ Again("begin", m.slot)
           /\ m.state = "motion" => Again("update", m.slot) \/ Ignored
           /\ m.state = "up" => EndPosted(m.slot) \/ (m.slot \notin Active(touch) /\ Ignored)
<1> DEFINE s == m.slot
<1>0. s \in Slots /\ m.state \in Kinds /\ touch \in [Slots -> Point] /\ slotState \subseteq Slots
  BY DEF Message, TypeOK
<1>1. CASE m.state = "down"
  <2>1. PostBegin(s) /\ slotState' = slotState \cup {s}
    BY <1>1 DEF Handle
  <2>2. CASE s \in Active(touch)
    BY <1>0, <1>1, <2>1, <2>2 DEF PostBegin, Post, Again
  <2>3. CASE s \notin Active(touch)
    <3>1. touch'[s] = [active |-> TRUE, id |-> nextId, pointer |-> Emulates(s)]
      BY <1>0, <2>1, <2>3 DEF PostBegin, TouchBeginDDXTouch
    <3> QED BY <1>0, <1>1, <2>1, <2>3, <3>1 DEF PostBegin, Post, TouchBeginDDXTouch, NewTouch
  <2> QED BY <2>2, <2>3
<1>2. CASE m.state = "motion"
  <2>1. /\ IF s \in slotState THEN PostUpdate(s) ELSE UNCHANGED <<touch, queue>>
        /\ UNCHANGED <<nextId, slotState>>
    BY <1>2 DEF Handle
  <2> QED BY <1>0, <1>2, <2>1 DEF PostUpdate, Post, Again, Ignored
<1>3. CASE m.state = "up"
  <2>1. PostEnd(s) /\ nextId' = nextId /\ slotState' = slotState \ {s}
    BY <1>3 DEF Handle
  <2>2. CASE s \in Active(touch)
    <3>1. touch'[s].id = touch[s].id /\ touch'[s].pointer = touch[s].pointer
      BY <1>0, <2>1, <2>2 DEF PostEnd, Point
    <3> QED BY <1>0, <1>3, <2>1, <2>2, <3>1 DEF PostEnd, Post, EndPosted
  <2>3. CASE s \notin Active(touch)
    BY <1>0, <1>3, <2>1, <2>3 DEF PostEnd, Ignored
  <2> QED BY <2>2, <2>3
<1> QED BY <1>0, <1>1, <1>2, <1>3 DEF Kinds

\* Reading, with its message
LEMMA ReadCases ==
    ASSUME TypeOK, EvdevReadInput
    PROVE  \E m \in Message :
              /\ socket # <<>> /\ m = Head(socket) /\ socket' = Tail(socket)
              /\ slotState' \subseteq Slots
              /\ m.slot \in Slots
              /\ m.state = "down" => NewTouch(m.slot) \/ Again("begin", m.slot)
              /\ m.state = "motion" => Again("update", m.slot) \/ Ignored
              /\ m.state = "up" => EndPosted(m.slot) \/ (m.slot \notin Active(touch) /\ Ignored)
<1>1. socket \in Seq(Message) /\ socket # <<>> /\ Handle(Head(socket)) /\ socket' = Tail(socket)
  BY DEF TypeOK, EvdevReadInput
<1>2. Head(socket) \in Message
  BY <1>1, Taken
<1> QED BY <1>1, <1>2, HandleCases

-----------------------------------------------------------------------------
\* The queue and the touch points

QueueInv == PointInv /\ FreshInv /\ AgreeInv /\ EndInv /\ OrderInv /\ OnePointer

QueueTypes == touch \in [Slots -> Point] /\ nextId \in Nat /\ queue \in Seq(Event)

LEMMA QueueKept ==
    ASSUME QueueInv, UNCHANGED <<touch, nextId, queue, begun>>
    PROVE  QueueInv'
BY DEF QueueInv, PointInv, FreshInv, AgreeInv, EndInv, OrderInv, OnePointer, Active,
       IsActive, Begins, Ends, EndsLater, EndsBefore, EndsBetween

\* What the growth of the queue by one event means for the properties of its events
LEMMA QueueGrows ==
    ASSUME TypeOK, NEW e \in Event, queue' = Append(queue, e)
    PROVE  \E n \in Nat :
              /\ queue' \in Seq(Event)
              /\ n \notin DOMAIN queue
              /\ DOMAIN queue' = DOMAIN queue \cup {n}
              /\ \A i \in DOMAIN queue : queue'[i] = queue[i] /\ i \in Nat /\ i < n
              /\ queue'[n] = e
              /\ \A i \in DOMAIN queue : \A id : Ends(i, id) => Ends(i, id)'
<1>1. queue \in Seq(Event)
  BY DEF TypeOK
<1>2. /\ queue' \in Seq(Event)
      /\ Len(queue) \in Nat
      /\ DOMAIN queue' = DOMAIN queue \cup {Len(queue) + 1}
      /\ \A i \in DOMAIN queue : queue'[i] = queue[i] /\ i \in Nat /\ i < Len(queue) + 1
      /\ queue'[Len(queue) + 1] = e
  BY <1>1, Appended
<1>3. Len(queue) + 1 \in Nat /\ Len(queue) + 1 \notin DOMAIN queue
  BY <1>2
<1>4. \A i \in DOMAIN queue : \A id : Ends(i, id) => Ends(i, id)'
  BY <1>2 DEF Ends
<1> QED BY <1>2, <1>3, <1>4

LEMMA NewTouchKeeps ==
    ASSUME TypeOK, QueueInv, NEW s \in Slots, NewTouch(s), begun' = begun
    PROVE  QueueTypes' /\ QueueInv'
<1> DEFINE e == [type |-> "begin", id |-> nextId, pointer |-> Emulates(s)]
<1>1. /\ e \in Event /\ e.type = "begin" /\ e.id = nextId /\ e.pointer = Emulates(s)
      /\ queue' = Append(queue, e)
      /\ nextId \in Nat /\ nextId' = nextId + 1
      /\ s \notin Active(touch)
  BY DEF Event, Emulates, NewTouch, TypeOK
<1> HIDE DEF e
<1>2. /\ touch' \in [Slots -> Point]
      /\ Active(touch') = Active(touch) \cup {s}
      /\ touch'[s].id = nextId /\ touch'[s].pointer = Emulates(s)
      /\ \A r \in Active(touch) : r # s /\ touch'[r] = touch[r]
  <2>1. [active |-> TRUE, id |-> nextId, pointer |-> Emulates(s)] \in Point
    BY <1>1 DEF Point, Emulates
  <2>2. touch' = [touch EXCEPT ![s] = [active |-> TRUE, id |-> nextId, pointer |-> Emulates(s)]]
        /\ touch \in [Slots -> Point]
    BY DEF NewTouch, TypeOK
  <2>3. touch' \in [Slots -> Point]
    BY <2>1, <2>2
  <2>4. /\ touch'[s].active /\ touch'[s].id = nextId /\ touch'[s].pointer = Emulates(s)
        /\ \A r \in Slots : r # s => touch'[r] = touch[r]
    BY <2>2
  <2>5. Active(touch') = Active(touch) \cup {s}
    BY <2>4 DEF Active
  <2>6. \A r \in Active(touch) : r \in Slots
    BY DEF Active
  <2> QED BY <1>1, <2>3, <2>4, <2>5, <2>6
<1>3. PICK n \in Nat :
      /\ queue' \in Seq(Event)
      /\ n \notin DOMAIN queue
      /\ DOMAIN queue' = DOMAIN queue \cup {n}
      /\ \A i \in DOMAIN queue : queue'[i] = queue[i] /\ i \in Nat /\ i < n
      /\ queue'[n] = e
      /\ \A i \in DOMAIN queue : \A id : Ends(i, id) => Ends(i, id)'
  BY <1>1, QueueGrows
\* The pointer is driven only by the only active touch.
<1>4. Emulates(s) => Active(touch) = {}
  BY DEF Emulates
<1>5. \A id : IsActive(id) => IsActive(id)'
  BY <1>2 DEF IsActive
<1>6. PointInv'
  BY <1>1, <1>2, <1>4 DEF QueueInv, PointInv, FreshInv
<1>7. FreshInv'
  <2>1. \A r \in Active(touch) : touch[r].id \in Nat
    BY DEF TypeOK, Active, Point
  <2>2. \A t \in begun : t.id \in Nat
    BY DEF TypeOK, Touch
  <2>3. \A i \in DOMAIN queue : queue[i].id \in Nat
    <3>1. queue \in Seq(Event)
      BY DEF TypeOK
    <3>2. \A i \in DOMAIN queue : queue[i] \in Event
      BY <3>1, ElementOfSeq
    <3> QED BY <3>2 DEF Event
  <2> QED BY <1>1, <1>2, <1>3, <2>1, <2>2, <2>3 DEF QueueInv, FreshInv
<1>8. AgreeInv'
  <2>1. \A t \in begun : t.id # nextId
    BY <1>1 DEF QueueInv, FreshInv
  <2>2. \A i \in DOMAIN queue : queue[i].id # nextId
    BY <1>1 DEF QueueInv, FreshInv
  <2>3. \A r \in Active(touch) : touch[r].id # nextId
    BY <1>1 DEF QueueInv, FreshInv
  <2> QED BY <1>1, <1>2, <1>3, <2>1, <2>2, <2>3 DEF QueueInv, AgreeInv, Begins
<1>9. EndInv'
  <2>1. \A t \in begun' : IsActive(t.id)' \/ \E j \in DOMAIN queue' : Ends(j, t.id)'
    BY <1>3, <1>5 DEF QueueInv, EndInv, EndsLater, EndsBefore, EndsBetween
  <2>2. ASSUME NEW i \in DOMAIN queue', Begins(i)'
        PROVE  IsActive(queue[i].id)' \/ EndsLater(i)'
    <3>1. CASE i = n
      BY <1>1, <1>2, <1>3, <3>1 DEF IsActive
    <3>2. CASE i \in DOMAIN queue
      <4>1. Begins(i)
        BY <1>3, <2>2, <3>2 DEF Begins
      <4> QED BY <1>3, <1>5, <3>2, <4>1 DEF QueueInv, EndInv, EndsLater, EndsBefore, EndsBetween
    <3> QED BY <1>3, <3>1, <3>2
  <2> QED BY <2>1, <2>2 DEF EndInv
<1>10. OrderInv'
  <2>1. ASSUME Emulates(s) PROVE \A id : ~IsActive(id)
    BY <1>4, <2>1 DEF IsActive
  <2>2. \A i \in DOMAIN queue : Begins(i) = Begins(i)'
    BY <1>3 DEF Begins
  <2>3. ASSUME NEW t \in begun, NEW i \in DOMAIN queue', Begins(i)', t.pointer,
               queue'[i].pointer, t.id # queue'[i].id
        PROVE  EndsBefore(i, t.id)'
    <3>1. CASE i = n
      BY <1>1, <1>3, <2>1, <2>3, <3>1 DEF QueueInv, EndInv, EndsLater, EndsBefore, EndsBetween
    <3>2. CASE i \in DOMAIN queue
      BY <1>3, <2>2, <2>3, <3>2 DEF QueueInv, OrderInv, EndsBefore, EndsBetween
    <3> QED BY <1>3, <3>1, <3>2
  <2>4. ASSUME NEW i \in DOMAIN queue', NEW k \in DOMAIN queue', i < k, Begins(i)', Begins(k)',
               queue'[i].pointer, queue'[k].pointer, queue'[i].id # queue'[k].id
        PROVE  EndsBetween(i, k)'
    <3>1. i \in DOMAIN queue
      BY <1>3, <2>4
    <3>2. CASE k = n
      BY <1>1, <1>3, <2>1, <2>2, <2>4, <3>1, <3>2 DEF QueueInv, EndInv, EndsLater, EndsBefore, EndsBetween
    <3>3. CASE k \in DOMAIN queue
      BY <1>3, <2>2, <2>4, <3>1, <3>3 DEF QueueInv, OrderInv, EndsBefore, EndsBetween
    <3> QED BY <1>3, <3>2, <3>3
  <2> QED BY <2>3, <2>4 DEF OrderInv
<1>11. OnePointer'
  BY DEF QueueInv, OnePointer
<1>12. QueueTypes'
  BY <1>1, <1>2, <1>3 DEF QueueTypes
<1> QED BY <1>6, <1>7, <1>8, <1>9, <1>10, <1>11, <1>12 DEF QueueInv

LEMMA AgainKeeps ==
    ASSUME TypeOK, QueueInv, NEW type \in {"begin", "update"}, NEW s \in Slots, Again(type, s),
           begun' = begun
    PROVE  QueueTypes' /\ QueueInv'
<1> DEFINE e == [type |-> type, id |-> touch[s].id, pointer |-> touch[s].pointer]
<1>1. /\ e \in Event /\ e.id = touch[s].id /\ e.pointer = touch[s].pointer
      /\ queue' = Append(queue, e)
      /\ nextId \in Nat /\ nextId' = nextId /\ touch' = touch
      /\ s \in Active(touch)
      /\ IsActive(e.id)
  <2>1. touch[s] \in Point
    BY DEF TypeOK
  <2> QED BY <2>1 DEF Event, Point, Again, TypeOK, IsActive
<1> HIDE DEF e
<1>2. PICK n \in Nat :
      /\ queue' \in Seq(Event)
      /\ n \notin DOMAIN queue
      /\ DOMAIN queue' = DOMAIN queue \cup {n}
      /\ \A i \in DOMAIN queue : queue'[i] = queue[i] /\ i \in Nat /\ i < n
      /\ queue'[n] = e
      /\ \A i \in DOMAIN queue : \A id : Ends(i, id) => Ends(i, id)'
  BY <1>1, QueueGrows
<1>3. \A id : IsActive(id) = IsActive(id)'
  BY <1>1 DEF IsActive, Active
<1>4. \A i \in DOMAIN queue : Begins(i) = Begins(i)'
  BY <1>2 DEF Begins
<1>5. Active(touch') = Active(touch)
  BY <1>1
<1>6. PointInv' /\ FreshInv'
  BY <1>1, <1>2, <1>5 DEF QueueInv, PointInv, FreshInv
<1>7. AgreeInv'
  <2>1. \A r \in Active(touch) : touch[r].id = e.id => r = s
    BY <1>1 DEF QueueInv, PointInv
  <2> QED BY <1>1, <1>2, <1>4, <1>5, <2>1 DEF QueueInv, AgreeInv
<1>8. EndInv'
  <2>1. \A t \in begun' : IsActive(t.id)' \/ \E j \in DOMAIN queue' : Ends(j, t.id)'
    BY <1>2, <1>3 DEF QueueInv, EndInv, EndsLater, EndsBefore, EndsBetween
  <2>2. ASSUME NEW i \in DOMAIN queue', Begins(i)'
        PROVE  IsActive(queue[i].id)' \/ EndsLater(i)'
    <3>1. CASE i = n
      BY <1>1, <1>2, <1>3, <3>1
    <3>2. CASE i \in DOMAIN queue
      BY <1>2, <1>3, <1>4, <2>2, <3>2 DEF QueueInv, EndInv, EndsLater, EndsBefore, EndsBetween
    <3> QED BY <1>2, <3>1, <3>2
  <2> QED BY <2>1, <2>2 DEF EndInv
<1>9. OrderInv'
  \* If this touch drives the pointer, no other that does is active.
  <2>1. \A t \in begun : t.pointer /\ e.pointer /\ t.id # e.id => ~IsActive(t.id)
    BY <1>1 DEF QueueInv, PointInv, AgreeInv, IsActive
  <2>2. \A i \in DOMAIN queue :
            Begins(i) /\ queue[i].pointer /\ e.pointer /\ queue[i].id # e.id
                => ~IsActive(queue[i].id)
    BY <1>1 DEF QueueInv, PointInv, AgreeInv, IsActive
  <2>3. ASSUME NEW t \in begun, NEW i \in DOMAIN queue', Begins(i)', t.pointer,
               queue'[i].pointer, t.id # queue'[i].id
        PROVE  EndsBefore(i, t.id)'
    <3>1. CASE i = n
      BY <1>2, <2>1, <2>3, <3>1 DEF QueueInv, EndInv, EndsLater, EndsBefore, EndsBetween
    <3>2. CASE i \in DOMAIN queue
      BY <1>2, <1>4, <2>3, <3>2 DEF QueueInv, OrderInv, EndsBefore, EndsBetween
    <3> QED BY <1>2, <3>1, <3>2
  <2>4. ASSUME NEW i \in DOMAIN queue', NEW k \in DOMAIN queue', i < k, Begins(i)', Begins(k)',
               queue'[i].pointer, queue'[k].pointer, queue'[i].id # queue'[k].id
        PROVE  EndsBetween(i, k)'
    <3>1. i \in DOMAIN queue
      BY <1>2, <2>4
    <3>2. CASE k = n
      BY <1>2, <1>4, <2>2, <2>4, <3>1, <3>2 DEF QueueInv, EndInv, EndsLater, EndsBefore, EndsBetween
    <3>3. CASE k \in DOMAIN queue
      BY <1>2, <1>4, <2>4, <3>1, <3>3 DEF QueueInv, OrderInv, EndsBefore, EndsBetween
    <3> QED BY <1>2, <3>2, <3>3
  <2> QED BY <2>3, <2>4 DEF OrderInv
<1>10. OnePointer'
  BY DEF QueueInv, OnePointer
<1>11. QueueTypes'
  BY <1>1, <1>2 DEF QueueTypes, TypeOK
<1> QED BY <1>6, <1>7, <1>8, <1>9, <1>10, <1>11 DEF QueueInv

LEMMA EndedKeeps ==
    ASSUME TypeOK, QueueInv, NEW s \in Slots, EndPosted(s), begun' = begun
    PROVE  QueueTypes' /\ QueueInv'
<1> DEFINE e == [type |-> "end", id |-> touch[s].id, pointer |-> touch[s].pointer]
<1>1. /\ e \in Event /\ e.type = "end" /\ e.id = touch[s].id
      /\ queue' = Append(queue, e)
      /\ nextId \in Nat /\ nextId' = nextId
      /\ touch' = [touch EXCEPT ![s].active = FALSE] /\ touch \in [Slots -> Point]
      /\ s \in Active(touch)
  <2>1. touch[s] \in Point
    BY DEF TypeOK
  <2> QED BY <2>1 DEF Event, Point, EndPosted, TypeOK
<1> HIDE DEF e
<1>2. /\ touch' \in [Slots -> Point]
      /\ Active(touch') = Active(touch) \ {s}
      /\ \A r \in Active(touch') : touch'[r] = touch[r]
  <2>1. /\ touch' \in [Slots -> Point] /\ touch'[s].active = FALSE
        /\ \A r \in Slots : r # s => touch'[r] = touch[r]
    BY <1>1 DEF Point
  <2>2. Active(touch') = Active(touch) \ {s}
    BY <2>1 DEF Active
  <2> QED BY <2>1, <2>2 DEF Active
<1>3. PICK n \in Nat :
      /\ queue' \in Seq(Event)
      /\ n \notin DOMAIN queue
      /\ DOMAIN queue' = DOMAIN queue \cup {n}
      /\ \A i \in DOMAIN queue : queue'[i] = queue[i] /\ i \in Nat /\ i < n
      /\ queue'[n] = e
      /\ \A i \in DOMAIN queue : \A id : Ends(i, id) => Ends(i, id)'
  BY <1>1, QueueGrows
<1>4. \A i \in DOMAIN queue' : Begins(i)' => i \in DOMAIN queue /\ Begins(i)
  BY <1>1, <1>3 DEF Begins
\* Either another point has the id, or it is the one whose end was posted.
<1>5. \A id : IsActive(id) => IsActive(id)' \/ Ends(n, id)'
  BY <1>1, <1>2, <1>3 DEF IsActive, Ends
<1>6. PointInv' /\ FreshInv'
  <2>1. PointInv'
    BY <1>2 DEF QueueInv, PointInv
  <2>2. FreshInv'
    BY <1>1, <1>2, <1>3 DEF QueueInv, FreshInv
  <2> QED BY <2>1, <2>2
<1>7. AgreeInv'
  BY <1>2, <1>3, <1>4 DEF QueueInv, AgreeInv
<1>8. EndInv'
  <2>1. \A t \in begun' : IsActive(t.id)' \/ \E j \in DOMAIN queue' : Ends(j, t.id)'
    BY <1>3, <1>5 DEF QueueInv, EndInv
  <2>2. ASSUME NEW i \in DOMAIN queue', Begins(i)'
        PROVE  IsActive(queue[i].id)' \/ EndsLater(i)'
    <3>1. i \in DOMAIN queue /\ Begins(i) /\ queue'[i].id = queue[i].id
      BY <1>3, <1>4, <2>2
    <3>2. CASE IsActive(queue[i].id)
      BY <1>3, <1>5, <3>1, <3>2 DEF EndsLater
    <3>3. CASE EndsLater(i)
      BY <1>3, <3>1, <3>3 DEF EndsLater
    <3> QED BY <3>1, <3>2, <3>3 DEF QueueInv, EndInv
  <2> QED BY <2>1, <2>2 DEF EndInv
<1>9. OrderInv'
  BY <1>3, <1>4 DEF QueueInv, OrderInv, EndsBefore, EndsBetween
<1>10. OnePointer'
  BY DEF QueueInv, OnePointer
<1>11. QueueTypes'
  BY <1>1, <1>2, <1>3 DEF QueueTypes
<1> QED BY <1>6, <1>7, <1>8, <1>9, <1>10, <1>11 DEF QueueInv

LEMMA TakeKeeps ==
    ASSUME TypeOK, QueueInv, OffInv, mieqProcessInputEvents
    PROVE  QueueTypes' /\ QueueInv'
<1> DEFINE h == queue[1]
           new == [id |-> h.id, pointer |-> h.pointer]
<1>1. /\ queue' \in Seq(Event)
      /\ h \in Event /\ 1 \in DOMAIN queue
      /\ \A i \in DOMAIN queue' : i \in Nat /\ i + 1 \in DOMAIN queue /\ queue'[i] = queue[i + 1]
      /\ \A i \in DOMAIN queue : i \in Nat /\ i >= 1
      /\ \A i \in DOMAIN queue : i # 1 => i - 1 \in DOMAIN queue' /\ queue'[i - 1] = queue[i]
  <2>1. queue \in Seq(Event) /\ queue # <<>> /\ queue' = Tail(queue)
    BY DEF TypeOK, mieqProcessInputEvents
  <2>2. Head(queue) = h
    BY <2>1, Taken
  <2> QED BY <2>1, <2>2, Taken
<1>2. UNCHANGED <<touch, nextId>> /\ begun' = IF enabled THEN Processed(begun, h) ELSE begun
  <2>1. queue \in Seq(Event) /\ queue # <<>>
    BY DEF TypeOK, mieqProcessInputEvents
  <2> QED BY <2>1, Taken DEF mieqProcessInputEvents, deviceVars
<1>3. /\ new.id = h.id /\ new.pointer = h.pointer
      /\ h.type \in {"begin", "update", "end"}
  BY <1>1 DEF Event
<1> HIDE DEF h, new
\* What is new has begun, and what is left has not ended.
<1>4. /\ \A t \in begun' : t \in begun \/ (t = new /\ Begins(1))
      /\ \A t \in begun' : t \in begun => ~Ends(1, t.id)
      /\ new \in begun' /\ new \notin begun => \A t \in begun : t.id # new.id
  <2>1. CASE ~enabled
    BY <1>2, <2>1 DEF OffInv
  <2>2. CASE enabled /\ h.type = "begin"
    BY <1>1, <1>2, <1>3, <2>2 DEF Processed, Begins, Ends, new, h
  <2>3. CASE enabled /\ h.type = "update"
    BY <1>1, <1>2, <1>3, <2>3 DEF Processed, Ends, h
  <2>4. CASE enabled /\ h.type = "end"
    BY <1>1, <1>2, <1>3, <2>4 DEF Processed, Ends, h
  <2> QED BY <1>3, <2>1, <2>2, <2>3, <2>4
<1>5. /\ \A i \in DOMAIN queue' : Begins(i)' => Begins(i + 1)
      /\ \A j \in DOMAIN queue : \A id : j # 1 /\ Ends(j, id) => Ends(j - 1, id)'
  BY <1>1 DEF Begins, Ends
<1>6. \A id : IsActive(id) = IsActive(id)'
  BY <1>2 DEF IsActive, Active
<1>7. Active(touch') = Active(touch)
  BY <1>2
<1>8. PointInv'
  BY <1>2, <1>7 DEF QueueInv, PointInv
<1>9. FreshInv'
  BY <1>1, <1>2, <1>3, <1>4, <1>7 DEF QueueInv, FreshInv, h
<1>10. AgreeInv'
  <2> SUFFICES ASSUME NEW s \in Active(touch')
               PROVE  /\ \A t \in begun' : t.id = touch'[s].id => t.pointer = touch'[s].pointer
                      /\ \A i \in DOMAIN queue' : Begins(i)' /\ queue'[i].id = touch'[s].id
                                                    => queue'[i].pointer = touch'[s].pointer
    BY DEF AgreeInv
  <2>1. s \in Active(touch) /\ touch'[s] = touch[s]
    BY <1>2, <1>7
  <2>2. Begins(1) /\ new.id = touch[s].id => new.pointer = touch[s].pointer
    BY <1>1, <1>3, <2>1 DEF QueueInv, AgreeInv, h
  <2>3. \A t \in begun' : t.id = touch'[s].id => t.pointer = touch'[s].pointer
    BY <1>4, <2>1, <2>2 DEF QueueInv, AgreeInv
  <2>4. \A i \in DOMAIN queue' : Begins(i)' /\ queue'[i].id = touch'[s].id
                                  => queue'[i].pointer = touch'[s].pointer
    BY <1>1, <1>5, <2>1 DEF QueueInv, AgreeInv
  <2> QED BY <2>3, <2>4
<1>11. EndInv'
  <2>1. ASSUME NEW t \in begun'
        PROVE  IsActive(t.id)' \/ \E j \in DOMAIN queue' : Ends(j, t.id)'
    <3>1. CASE t \in begun
      BY <1>1, <1>4, <1>5, <1>6, <2>1, <3>1 DEF QueueInv, EndInv
    <3>2. CASE t = new /\ Begins(1)
      <4>1. IsActive(t.id) \/ \E j \in DOMAIN queue : j > 1 /\ Ends(j, t.id)
        BY <1>1, <1>3, <3>2 DEF QueueInv, EndInv, EndsLater, h
      <4> QED BY <1>1, <1>5, <1>6, <4>1
    <3> QED BY <1>4, <3>1, <3>2
  <2>2. ASSUME NEW i \in DOMAIN queue', Begins(i)'
        PROVE  IsActive(queue[i].id)' \/ EndsLater(i)'
    <3>1. IsActive(queue[i + 1].id) \/ EndsLater(i + 1)
      BY <1>1, <1>5, <2>2 DEF QueueInv, EndInv
    <3>2. i \in Nat /\ queue'[i] = queue[i + 1]
      BY <1>1
    <3>3. CASE EndsLater(i + 1)
      <4>1. PICK j \in DOMAIN queue : j > i + 1 /\ Ends(j, queue[i + 1].id)
        BY <3>3 DEF EndsLater
      <4>2. j \in Nat /\ j # 1 /\ j - 1 > i /\ j - 1 \in DOMAIN queue'
        BY <1>1, <3>2, <4>1
      <4> QED BY <1>5, <3>2, <4>1, <4>2 DEF EndsLater
    <3> QED BY <1>6, <3>1, <3>2, <3>3
  <2> QED BY <2>1, <2>2 DEF EndInv
<1>12. OrderInv'
  <2>1. ASSUME NEW t \in begun', NEW i \in DOMAIN queue', Begins(i)', t.pointer,
               queue'[i].pointer, t.id # queue'[i].id
        PROVE  EndsBefore(i, t.id)'
    <3>1. i \in Nat /\ i + 1 \in DOMAIN queue /\ queue'[i] = queue[i + 1] /\ Begins(i + 1)
      BY <1>1, <1>5, <2>1
    <3>2. \E j \in DOMAIN queue : 1 < j /\ j < i + 1 /\ Ends(j, t.id)
      <4>1. CASE t \in begun
        <5>1. EndsBefore(i + 1, t.id)
          BY <2>1, <3>1, <4>1 DEF QueueInv, OrderInv
        <5> QED BY <1>1, <1>4, <4>1, <5>1 DEF EndsBefore
      <4>2. CASE t = new /\ Begins(1)
        <5>1. 1 < i + 1
          BY <1>1, <1>3, <2>1, <3>1, <4>2 DEF h
        <5>2. EndsBetween(1, i + 1)
          BY <1>1, <1>3, <2>1, <3>1, <4>2, <5>1 DEF QueueInv, OrderInv, h
        <5> QED BY <1>3, <4>2, <5>2 DEF EndsBetween, h
      <4> QED BY <1>4, <4>1, <4>2
    <3>3. PICK j \in DOMAIN queue : 1 < j /\ j < i + 1 /\ Ends(j, t.id)
      BY <3>2
    <3>4. j \in Nat /\ j - 1 < i /\ j - 1 \in DOMAIN queue' /\ Ends(j - 1, t.id)'
      BY <1>1, <1>5, <3>1, <3>3
    <3> QED BY <3>4 DEF EndsBefore
  <2>2. ASSUME NEW i \in DOMAIN queue', NEW k \in DOMAIN queue', i < k, Begins(i)', Begins(k)',
               queue'[i].pointer, queue'[k].pointer, queue'[i].id # queue'[k].id
        PROVE  EndsBetween(i, k)'
    <3>1. /\ i \in Nat /\ i + 1 \in DOMAIN queue /\ queue'[i] = queue[i + 1] /\ Begins(i + 1)
          /\ k \in Nat /\ k + 1 \in DOMAIN queue /\ queue'[k] = queue[k + 1] /\ Begins(k + 1)
          /\ i + 1 < k + 1
      BY <1>1, <1>5, <2>2
    <3>2. EndsBetween(i + 1, k + 1)
      BY <2>2, <3>1 DEF QueueInv, OrderInv
    <3>3. PICK j \in DOMAIN queue : i + 1 < j /\ j < k + 1 /\ Ends(j, queue[i + 1].id)
      BY <3>2 DEF EndsBetween
    <3>4. /\ j - 1 \in DOMAIN queue' /\ i < j - 1 /\ j - 1 < k
          /\ Ends(j - 1, queue[i].id)'
      <4>1. j \in Nat /\ j # 1
        BY <1>1, <3>1, <3>3
      <4>2. j - 1 \in DOMAIN queue' /\ queue'[j - 1] = queue[j]
        BY <1>1, <4>1
      <4>3. queue'[j - 1].type = "end" /\ queue'[j - 1].id = queue'[i].id
        BY <3>1, <3>3, <4>2 DEF Ends
      <4> QED BY <3>1, <3>3, <4>1, <4>2, <4>3 DEF Ends
    <3> QED BY <3>4 DEF EndsBetween
  <2> QED BY <2>1, <2>2 DEF OrderInv
<1>13. OnePointer'
  <2>1. ASSUME NEW t \in begun, t.pointer, new.pointer, new \in begun', new \notin begun
        PROVE  FALSE
    <3>1. Begins(1) /\ t.id # new.id
      BY <1>4, <2>1
    <3>2. EndsBefore(1, t.id)
      BY <1>1, <1>3, <2>1, <3>1 DEF QueueInv, OrderInv, h
    <3> QED BY <1>1, <3>2 DEF EndsBefore
  <2> QED BY <1>4, <2>1 DEF QueueInv, OnePointer
<1>14. QueueTypes'
  BY <1>1, <1>2 DEF QueueTypes, TypeOK
<1> QED BY <1>8, <1>9, <1>10, <1>11, <1>12, <1>13, <1>14 DEF QueueInv

\* Reading a message, in one piece
LEMMA ReadKeeps ==
    ASSUME TypeOK, QueueInv, EvdevReadInput
    PROVE  QueueTypes' /\ QueueInv'
<1>1. PICK m \in Message :
          /\ m.slot \in Slots
          /\ m.state = "down" => NewTouch(m.slot) \/ Again("begin", m.slot)
          /\ m.state = "motion" => Again("update", m.slot) \/ Ignored
          /\ m.state = "up" => EndPosted(m.slot) \/ (m.slot \notin Active(touch) /\ Ignored)
  BY ReadCases
<1>2. begun' = begun /\ m.state \in {"down", "motion", "up"}
  BY <1>1 DEF EvdevReadInput, Message, Kinds
<1>3. ASSUME Ignored PROVE QueueTypes' /\ QueueInv'
  <2>1. QueueInv'
    BY <1>2, <1>3, QueueKept DEF Ignored
  <2> QED BY <1>3, <2>1 DEF Ignored, QueueTypes, TypeOK
<1>4. ASSUME NEW type \in {"begin", "update"}, Again(type, m.slot) PROVE QueueTypes' /\ QueueInv'
  BY <1>1, <1>2, <1>4, AgainKeeps
<1>5. ASSUME NewTouch(m.slot) PROVE QueueTypes' /\ QueueInv'
  BY <1>1, <1>2, <1>5, NewTouchKeeps
<1>6. ASSUME EndPosted(m.slot) PROVE QueueTypes' /\ QueueInv'
  BY <1>1, <1>2, <1>6, EndedKeeps
<1> QED BY <1>1, <1>2, <1>3, <1>4, <1>5, <1>6

\* With an empty queue, the touches that are active are all there are.
LEMMA EndAllKeeps ==
    ASSUME TypeOK, QueueInv, TouchEndPhysicallyActiveTouches
    PROVE  QueueTypes' /\ QueueInv' /\ begun' = {} /\ Active(touch') = {}
<1>1. /\ queue = <<>> /\ queue' = <<>> /\ nextId' = nextId
      /\ touch' = [s \in Slots |-> [touch[s] EXCEPT !.active = FALSE]]
      /\ touch \in [Slots -> Point] /\ nextId \in Nat
      /\ begun' = {t \in begun : \A s \in Active(touch) : touch[s].id # t.id}
  BY DEF TouchEndPhysicallyActiveTouches, TypeOK
<1>2. touch' \in [Slots -> Point] /\ Active(touch') = {}
  BY <1>1 DEF Active, Point
<1>3. DOMAIN queue = {} /\ DOMAIN queue' = {} /\ queue' \in Seq(Event)
  BY <1>1
<1>4. begun' = {}
  BY <1>1, <1>3 DEF QueueInv, EndInv, IsActive
<1>5. PointInv' /\ FreshInv' /\ AgreeInv'
  BY <1>2, <1>3, <1>4 DEF PointInv, FreshInv, AgreeInv
<1>6. EndInv' /\ OrderInv' /\ OnePointer'
  BY <1>3, <1>4 DEF EndInv, OrderInv, OnePointer
<1> QED BY <1>1, <1>2, <1>3, <1>4, <1>5, <1>6 DEF QueueInv, QueueTypes

LEMMA StepQueue == IInv /\ [Next]_vars => QueueTypes' /\ QueueInv'
<1> SUFFICES ASSUME IInv, [Next]_vars PROVE QueueTypes' /\ QueueInv'
  OBVIOUS
<1>0. TypeOK /\ QueueInv /\ OffInv
  BY DEF IInv, QueueInv
<1>1. CASE EvdevReadInput
  BY <1>0, <1>1, ReadKeeps
<1>2. CASE mieqProcessInputEvents
  BY <1>0, <1>2, TakeKeeps
<1>3. CASE TouchEndPhysicallyActiveTouches
  BY <1>0, <1>3, EndAllKeeps
<1>4. ASSUME UNCHANGED <<touch, nextId, queue, begun>> PROVE QueueTypes' /\ QueueInv'
  <2>1. QueueInv'
    BY <1>0, <1>4, QueueKept
  <2> QED BY <1>0, <1>4, <2>1 DEF QueueTypes, TypeOK
<1>5. CASE InputIsProcessed \/ OtherRequest \/ DisableDevice \/ DeviceOff \/ EnableDevice
  BY <1>4, <1>5
     DEF InputIsProcessed, OtherRequest, DisableDevice, DeviceOff, EnableDevice, deviceVars
<1>6. ASSUME NEW s \in Slots, FingerDown(s) \/ FingerMoves(s) \/ FingerUp(s)
      PROVE  QueueTypes' /\ QueueInv'
  BY <1>4, <1>6 DEF FingerDown, FingerMoves, FingerUp, deviceVars
<1>7. CASE UNCHANGED vars
  BY <1>4, <1>7 DEF vars, deviceVars
<1> QED BY <1>1, <1>2, <1>3, <1>5, <1>6, <1>7 DEF Next, MainThread

-----------------------------------------------------------------------------
\* Types

LEMMA SentType ==
    ASSUME TypeOK, NEW s \in Slots, NEW state \in Kinds, dlInputSendTouch(s, state)
    PROVE  socket' \in Seq(Message)
<1>1. [slot |-> s, state |-> state] \in Message
  BY DEF Message
<1>2. socket \in Seq(Message) /\ socket' = Append(socket, [slot |-> s, state |-> state])
  BY DEF TypeOK, dlInputSendTouch
<1> QED BY <1>1, <1>2, Appended

LEMMA StepType == IInv /\ [Next]_vars => TypeOK'
<1> SUFFICES ASSUME IInv, [Next]_vars PROVE TypeOK'
  OBVIOUS
<1>0. /\ TypeOK
      /\ touch' \in [Slots -> Point] /\ nextId' \in Nat /\ queue' \in Seq(Event)
      /\ \A s, r \in Active(touch') : touch'[s].id = touch'[r].id => s = r
  BY StepQueue DEF IInv, QueueTypes, QueueInv, PointInv
<1> USE <1>0, DriverBoundsAssumption DEF deviceVars
<1>1. ASSUME NEW s \in Slots, FingerDown(s) PROVE TypeOK'
  <2>1. socket' \in Seq(Message)
    BY <1>1, SentType DEF FingerDown, Kinds
  <2>2. downs' \in 0 .. MaxDowns /\ finger' \subseteq Slots
    <3>1. downs \in 0 .. MaxDowns /\ downs < MaxDowns /\ downs' = downs + 1
      BY <1>1 DEF FingerDown, TypeOK
    <3>2. finger \subseteq Slots /\ finger' = finger \cup {s}
      BY <1>1 DEF FingerDown, TypeOK
    <3>3. finger' \subseteq Slots
      BY <3>2
    <3>4. downs' \in 0 .. MaxDowns
      BY <3>1
    <3> QED BY <3>3, <3>4
  <2> QED BY <1>1, <2>1, <2>2 DEF FingerDown, TypeOK
<1>2. ASSUME NEW s \in Slots, FingerMoves(s) PROVE TypeOK'
  <2>1. socket' \in Seq(Message)
    BY <1>2, SentType DEF FingerMoves, Kinds
  <2>2. moves' \in 0 .. MaxMoves
    <3>1. moves \in 0 .. MaxMoves /\ moves < MaxMoves /\ moves' = moves + 1
      BY <1>2 DEF FingerMoves, TypeOK
    <3> QED BY <3>1
  <2> QED BY <1>2, <2>1, <2>2 DEF FingerMoves, TypeOK
<1>3. ASSUME NEW s \in Slots, FingerUp(s) PROVE TypeOK'
  <2>1. socket' \in Seq(Message)
    BY <1>3, SentType DEF FingerUp, Kinds
  <2>2. finger' \subseteq Slots
    BY <1>3 DEF FingerUp, TypeOK
  <2> QED BY <1>3, <2>1, <2>2 DEF FingerUp, TypeOK
<1>4. CASE EvdevReadInput
  <2>1. slotState' \subseteq Slots
    BY <1>4, ReadCases
  <2>2. socket' \in Seq(Message)
    BY <1>4, Taken DEF EvdevReadInput, TypeOK
  <2>3. late' \subseteq Slots
    BY <1>4 DEF EvdevReadInput, Active, TypeOK
  <2> QED BY <1>4, <2>1, <2>2, <2>3 DEF EvdevReadInput, TypeOK
<1>5. CASE mieqProcessInputEvents
  <2>1. queue \in Seq(Event) /\ queue # <<>>
    BY <1>5 DEF mieqProcessInputEvents, TypeOK
  <2>2. Head(queue) \in Event
    BY <2>1, Taken
  <2>3. [id |-> Head(queue).id, pointer |-> Head(queue).pointer] \in Touch
    BY <2>2 DEF Event, Touch
  <2>4. begun \subseteq Touch
    BY DEF TypeOK
  <2>5. Head(queue).type \in {"begin", "update", "end"}
    BY <2>2 DEF Event
  <2>6. begun' \subseteq Touch
    BY <1>5, <2>3, <2>4, <2>5 DEF mieqProcessInputEvents, Processed
  <2> QED BY <1>5, <2>6 DEF mieqProcessInputEvents, TypeOK
<1>6. CASE InputIsProcessed
  BY <1>6 DEF InputIsProcessed, TypeOK
<1>7. CASE OtherRequest
  BY <1>7 DEF OtherRequest, TypeOK
<1>8. CASE DisableDevice
  <2>1. toggles' \in 0 .. MaxToggles
    BY <1>8 DEF DisableDevice, TypeOK
  <2> QED BY <1>8, <2>1 DEF DisableDevice, TypeOK
<1>9. CASE TouchEndPhysicallyActiveTouches
  <2>1. begun' \subseteq Touch
    BY <1>9 DEF TouchEndPhysicallyActiveTouches, TypeOK
  <2> QED BY <1>9, <2>1 DEF TouchEndPhysicallyActiveTouches, TypeOK
<1>10. CASE DeviceOff
  BY <1>10 DEF DeviceOff, TypeOK
<1>11. CASE EnableDevice
  <2>1. toggles' \in 0 .. MaxToggles /\ socket' \in Seq(Message)
    BY <1>11 DEF EnableDevice, TypeOK
  <2> QED BY <1>11, <2>1 DEF EnableDevice, TypeOK
<1>12. CASE UNCHANGED vars
  BY <1>12 DEF vars, TypeOK
<1> QED
  BY <1>1, <1>2, <1>3, <1>4, <1>5, <1>6, <1>7, <1>8, <1>9, <1>10, <1>11, <1>12
     DEF Next, MainThread

-----------------------------------------------------------------------------
\* The device off, and fingers on their way

LEMMA StepOff == IInv /\ [Next]_vars => OffInv'
<1> SUFFICES ASSUME IInv, [Next]_vars PROVE OffInv'
  OBVIOUS
<1>0. OffInv /\ TypeOK /\ QueueInv
  BY DEF IInv, QueueInv
<1> USE <1>0 DEF OffInv, deviceVars
<1>1. CASE EvdevReadInput
  BY <1>1 DEF EvdevReadInput
<1>2. CASE mieqProcessInputEvents
  BY <1>2 DEF mieqProcessInputEvents, Active
<1>3. CASE InputIsProcessed \/ OtherRequest
  BY <1>3 DEF InputIsProcessed, OtherRequest, Active
<1>4. CASE DisableDevice
  BY <1>4 DEF DisableDevice
<1>5. CASE TouchEndPhysicallyActiveTouches
  <2>1. begun' = {} /\ Active(touch') = {}
    BY <1>5, EndAllKeeps
  <2>2. enabled' /\ main' = "turning off"
    BY <1>5 DEF TouchEndPhysicallyActiveTouches
  <2> QED BY <2>1, <2>2
<1>6. CASE DeviceOff
  BY <1>6 DEF DeviceOff, Active
<1>7. CASE EnableDevice
  BY <1>7 DEF EnableDevice
<1>8. ASSUME NEW s \in Slots, FingerDown(s) \/ FingerMoves(s) \/ FingerUp(s) PROVE OffInv'
  BY <1>8 DEF FingerDown, FingerMoves, FingerUp, Active
<1>9. CASE UNCHANGED vars
  BY <1>9 DEF vars, Active
<1> QED BY <1>1, <1>2, <1>3, <1>4, <1>5, <1>6, <1>7, <1>8, <1>9 DEF Next, MainThread

\* What a message more in the socket does
LEMMA SentLater ==
    ASSUME TypeOK, NEW s \in Slots, NEW state \in Kinds, dlInputSendTouch(s, state)
    PROVE  \E n \in Nat :
              /\ DOMAIN socket' = DOMAIN socket \cup {n}
              /\ \A i \in DOMAIN socket : socket'[i] = socket[i] /\ i \in Nat /\ i < n
              /\ socket'[n].slot = s /\ socket'[n].state = state
<1> DEFINE m == [slot |-> s, state |-> state]
<1>1. m \in Message /\ m.slot = s /\ m.state = state
  BY DEF Message
<1>2. socket \in Seq(Message) /\ socket' = Append(socket, m)
  BY DEF TypeOK, dlInputSendTouch
<1> HIDE DEF m
<1>3. /\ Len(socket) + 1 \in Nat
      /\ DOMAIN socket' = DOMAIN socket \cup {Len(socket) + 1}
      /\ \A i \in DOMAIN socket : socket'[i] = socket[i] /\ i \in Nat /\ i < Len(socket) + 1
      /\ socket'[Len(socket) + 1] = m
  BY <1>1, <1>2, Appended
<1> QED BY <1>1, <1>3

\* One of the messages was read, and others are where they were, one place further on.
LEMMA ReleaseRead ==
    ASSUME TypeOK, ReleaseInv, OffInv, QueueInv, EvdevReadInput
    PROVE  ReleaseInv'
<1>1. PICK m \in Message :
          /\ socket # <<>> /\ m = Head(socket) /\ socket' = Tail(socket)
          /\ m.slot \in Slots
          /\ m.state = "down" => NewTouch(m.slot) \/ Again("begin", m.slot)
          /\ m.state = "motion" => Again("update", m.slot) \/ Ignored
          /\ m.state = "up" => EndPosted(m.slot) \/ (m.slot \notin Active(touch) /\ Ignored)
  BY ReadCases
<1>2. socket \in Seq(Message) /\ touch \in [Slots -> Point] /\ m.state \in {"down", "motion", "up"}
  BY DEF TypeOK, Message, Kinds
<1>3. /\ m = socket[1] /\ 1 \in DOMAIN socket
      /\ \A i \in DOMAIN socket' : i \in Nat /\ i + 1 \in DOMAIN socket
                                   /\ socket'[i] = socket[i + 1]
      /\ \A i \in DOMAIN socket : i \in Nat /\ i >= 1
      /\ \A i \in DOMAIN socket :
            i # 1 => i - 1 \in DOMAIN socket' /\ socket'[i - 1] = socket[i]
  BY <1>1, <1>2, Taken
<1>4. \A i \in DOMAIN socket : \A s : i # 1 /\ Lifts(i, s) => Lifts(i - 1, s)'
  BY <1>3 DEF Lifts
<1>5. finger' = finger /\ enabled /\ enabled' = enabled
      /\ late' = IF main = "turning off" THEN Active(touch') ELSE late \cap Active(touch')
  BY DEF EvdevReadInput
\* An active point was active before, or its finger just came down; a point whose
\* release was read is not active.
<1>6. /\ \A s \in Active(touch') : s \in Active(touch) \/ (s = m.slot /\ m.state = "down")
      /\ m.state = "up" => m.slot \notin Active(touch')
  <2>1. CASE NewTouch(m.slot) /\ m.state = "down"
    BY <1>1, <1>2, <2>1 DEF NewTouch, Active
  <2>2. CASE Again("begin", m.slot) \/ Again("update", m.slot) \/ Ignored
    <3>1. touch' = touch
      BY <2>2 DEF Again, Ignored
    <3>2. m.state = "up" => m.slot \notin Active(touch)
      <4>1. EndPosted(m.slot) => touch'[m.slot].active = FALSE /\ m.slot \in Active(touch)
        BY <1>1, <1>2 DEF EndPosted, Point
      <4>2. m.slot \in Active(touch) => touch[m.slot].active = TRUE
        BY <1>2 DEF Active, Point
      <4> QED BY <1>1, <3>1, <4>1, <4>2
    <3> QED BY <3>1, <3>2 DEF Active
  <2>3. CASE EndPosted(m.slot)
    BY <1>1, <1>2, <2>3 DEF EndPosted, Active, Point
  <2> QED BY <1>1, <1>2, <2>1, <2>2, <2>3
<1>7. ASSUME NEW s \in Active(touch') \ late'
      PROVE  s \in finger' \/ \E i \in DOMAIN socket' : Lifts(i, s)'
  <2>1. s \in Active(touch') /\ s \notin late
    BY <1>5, <1>7
  <2>2. s \in finger \/ \E i \in DOMAIN socket : i # 1 /\ Lifts(i, s)
    <3>1. CASE s \in Active(touch) /\ ~(s = m.slot /\ m.state = "up")
      <4>1. s \in finger \/ \E i \in DOMAIN socket : Lifts(i, s)
        BY <1>5, <2>1, <3>1 DEF ReleaseInv
      <4>2. ~Lifts(1, s)
        BY <1>3, <3>1 DEF Lifts
      <4> QED BY <4>1, <4>2
    <3>2. CASE s = m.slot /\ m.state = "down"
      BY <1>3, <3>2 DEF ReleaseInv
    <3> QED BY <1>6, <2>1, <3>1, <3>2
  <2> QED BY <1>3, <1>4, <1>5, <2>2
<1>8. ASSUME NEW i \in DOMAIN socket', socket'[i].state = "down"
      PROVE  socket'[i].slot \in finger' \/ \E j \in DOMAIN socket' : j > i /\ Lifts(j, socket[i].slot)'
  <2>1. /\ i \in Nat /\ i + 1 \in DOMAIN socket /\ socket'[i] = socket[i + 1]
    BY <1>3
  <2>2. CASE socket[i + 1].slot \in finger
    BY <1>5, <2>1, <2>2
  <2>3. CASE \E j \in DOMAIN socket : j > i + 1 /\ Lifts(j, socket[i + 1].slot)
    <3>1. PICK j \in DOMAIN socket : j > i + 1 /\ Lifts(j, socket[i + 1].slot)
      BY <2>3
    <3>2. j \in Nat /\ j - 1 > i /\ j - 1 \in DOMAIN socket' /\ socket'[j - 1] = socket[j]
      BY <1>3, <2>1, <3>1
    <3> QED BY <2>1, <3>1, <3>2 DEF Lifts
  <2> QED BY <1>8, <2>1, <2>2, <2>3 DEF ReleaseInv
<1> QED BY <1>7, <1>8 DEF ReleaseInv

LEMMA StepRelease == IInv /\ [Next]_vars => ReleaseInv'
<1> SUFFICES ASSUME IInv, [Next]_vars PROVE ReleaseInv'
  OBVIOUS
<1>0. ReleaseInv /\ OffInv /\ TypeOK /\ QueueInv
  BY DEF IInv, QueueInv
<1> USE DEF deviceVars
<1>1. CASE EvdevReadInput
  BY <1>0, <1>1, ReleaseRead
<1>2. CASE TouchEndPhysicallyActiveTouches
  <2>1. Active(touch') = {}
    BY <1>0, <1>2, EndAllKeeps
  <2> QED BY <1>0, <1>2, <2>1 DEF TouchEndPhysicallyActiveTouches, ReleaseInv, Lifts
<1>3. CASE EnableDevice
  <2>1. Active(touch') \subseteq late' /\ DOMAIN socket' = {}
    BY <1>0, <1>3 DEF EnableDevice, OffInv
  <2> QED BY <2>1 DEF ReleaseInv
<1>4. CASE DeviceOff
  BY <1>0, <1>4 DEF DeviceOff, ReleaseInv, Lifts
<1>5. CASE mieqProcessInputEvents \/ InputIsProcessed \/ OtherRequest \/ DisableDevice
  BY <1>0, <1>5 DEF mieqProcessInputEvents, InputIsProcessed, OtherRequest, DisableDevice,
                    ReleaseInv, Lifts, Active
<1>6. ASSUME NEW s \in Slots, FingerDown(s) \/ FingerMoves(s) \/ FingerUp(s)
      PROVE  ReleaseInv'
  <2>1. PICK state \in Kinds :
            /\ dlInputSendTouch(s, state)
            /\ state = "down" => s \in finger'
            /\ finger \subseteq finger' \cup (IF state = "up" THEN {s} ELSE {})
    BY <1>6 DEF FingerDown, FingerMoves, FingerUp, Kinds
  <2>2. PICK n \in Nat :
            /\ DOMAIN socket' = DOMAIN socket \cup {n}
            /\ \A i \in DOMAIN socket : socket'[i] = socket[i] /\ i \in Nat /\ i < n
            /\ socket'[n].slot = s /\ socket'[n].state = state
    BY <1>0, <2>1, SentLater
  <2>3. /\ \A i \in DOMAIN socket : \A r : Lifts(i, r) => Lifts(i, r)'
        /\ \A r \in finger : r \in finger' \/ Lifts(n, r)'
    BY <2>1, <2>2 DEF Lifts
  <2>4. UNCHANGED <<touch, late, enabled>> /\ Active(touch') = Active(touch)
    BY <1>6 DEF FingerDown, FingerMoves, FingerUp
  <2>5. enabled' => \A r \in Active(touch') \ late' :
            r \in finger' \/ \E i \in DOMAIN socket' : Lifts(i, r)'
    BY <1>0, <2>2, <2>3, <2>4 DEF ReleaseInv
  <2>6. ASSUME NEW i \in DOMAIN socket', socket'[i].state = "down"
        PROVE  socket'[i].slot \in finger'
                  \/ \E j \in DOMAIN socket' : j > i /\ Lifts(j, socket[i].slot)'
    <3>1. CASE i = n
      BY <2>1, <2>2, <2>6, <3>1
    <3>2. CASE i \in DOMAIN socket
      <4>1. socket'[i] = socket[i] /\ i < n
        BY <2>2, <3>2
      <4>2. CASE socket[i].slot \in finger
        <5>1. socket'[i].slot \in finger' \/ Lifts(n, socket[i].slot)'
          BY <2>1, <2>2, <4>1, <4>2 DEF Lifts
        <5> QED BY <2>2, <4>1, <5>1
      <4>3. CASE \E j \in DOMAIN socket : j > i /\ Lifts(j, socket[i].slot)
        BY <2>2, <4>1, <4>3 DEF Lifts
      <4> QED BY <1>0, <2>6, <3>2, <4>1, <4>2, <4>3 DEF ReleaseInv
    <3> QED BY <2>2, <3>1, <3>2
  <2> QED BY <2>5, <2>6 DEF ReleaseInv
<1>7. CASE UNCHANGED vars
  BY <1>0, <1>7 DEF vars, ReleaseInv, Lifts, Active
<1> QED BY <1>1, <1>2, <1>3, <1>4, <1>5, <1>6, <1>7 DEF Next, MainThread

-----------------------------------------------------------------------------

LEMMA InitIInv == Init => IInv
<1> SUFFICES ASSUME Init PROVE IInv
  OBVIOUS
<1>1. Active(touch) = {} /\ DOMAIN queue = {} /\ DOMAIN socket = {} /\ begun = {}
  BY DEF Init, Active
<1>2. TypeOK
  <2>1. touch \in [Slots -> Point]
    BY DEF Init, Point
  <2>2. /\ downs \in 0 .. MaxDowns /\ moves \in 0 .. MaxMoves /\ toggles \in 0 .. MaxToggles
        /\ nextId \in Nat
    BY DriverBoundsAssumption DEF Init
  <2>3. socket \in Seq(Message) /\ queue \in Seq(Event)
    BY DEF Init
  <2> QED BY <1>1, <2>1, <2>2, <2>3 DEF Init, TypeOK
<1>3. PointInv /\ FreshInv /\ AgreeInv /\ EndInv /\ OrderInv /\ OnePointer
  BY <1>1 DEF PointInv, FreshInv, AgreeInv, EndInv, OrderInv, OnePointer
<1>4. OffInv /\ ReleaseInv
  BY <1>1 DEF OffInv, ReleaseInv, Init
<1> QED BY <1>2, <1>3, <1>4 DEF IInv

LEMMA Invariant == Spec => []IInv
<1>1. IInv /\ [Next]_vars => IInv'
  BY StepType, StepQueue, StepOff, StepRelease DEF IInv, QueueInv
<1> QED BY InitIInv, <1>1, PTL DEF Spec

\* The socket, the queue and the touch points keep their types, and no two active touch
\* points share the id the server knows a touch by.
THEOREM TypeCorrect == Spec => []TypeOK
<1>1. IInv => TypeOK
  BY DEF IInv
<1> QED BY Invariant, <1>1, PTL

\* However many fingers go down and up, and however they are interleaved with turning
\* the device off and on: the server never has two touches that drive the pointer.
THEOREM PointerIsDrivenOnce == Spec => []OnePointer
<1>1. IInv => OnePointer
  BY DEF IInv
<1> QED BY Invariant, <1>1, PTL

\* No touch survives the device that is turned off, in the server; in the driver only
\* those that began while it was being turned off.
THEOREM OffEndsTouches == Spec => []OffMeansEnded
<1>1. IInv => OffMeansEnded
  BY DEF IInv, OffInv, OffMeansEnded
<1> QED BY Invariant, <1>1, PTL

\* When all fingers are lifted and their messages read, the next touch drives the
\* pointer again, unless a finger came down while the device was being turned off.
THEOREM PointerReturns == Spec => []PointerComesBack
<1>1. socket = <<>> => DOMAIN socket = {}
  OBVIOUS
<1>2. IInv => PointerComesBack
  BY <1>1 DEF IInv, ReleaseInv, PointerComesBack
<1> QED BY Invariant, <1>2, PTL

-----------------------------------------------------------------------------
\* The vocabulary: deliveries, and what a listener in each state has been sent

\* What a client is sent, what it may have got, the record, and both together
Word == {"begin", "ownership", "end"}
Got == [events : Seq(Word), updates : Nat, pending : BOOLEAN]
Record == [active : BOOLEAN, listeners : Seq(Listener), pending : BOOLEAN,
           kept : BOOLEAN, history : Nat]
Delivery == [ti : Record, got : [Clients -> Got]]

\* The listeners of s, by their position
Listeners(s) == DOMAIN s.ti.listeners
IsListener(s, c) == \E i \in Listeners(s) : s.ti.listeners[i].client = c
\* What the listener at position i has been sent
GotBy(s, i) == s.got[s.ti.listeners[i].client]

\* A listener that does not own the touch yet, one that owns it, and what each has been
\* sent: the states are the memory of the events.
Waiting(l) == IF l.wants THEN l.state \in {"AWAITING_OWNER", "EARLY_ACCEPT"}
              ELSE l.state = "AWAITING_BEGIN"
Owning(l) == l.state \in {"IS_OWNER", "HAS_ACCEPTED", "HAS_END"}
Shown(l) ==
    CASE l.state = "AWAITING_BEGIN" -> <<>>
      [] l.state \in {"AWAITING_OWNER", "EARLY_ACCEPT"} -> <<"begin">>
      [] l.state \in {"IS_OWNER", "HAS_ACCEPTED"} ->
            IF l.wants THEN <<"begin", "ownership">> ELSE <<"begin">>
      [] l.state = "HAS_END" ->
            IF l.wants THEN <<"begin", "ownership", "end">> ELSE <<"begin", "end">>

\* All that a client sees of a touch that is over for it
Whole == {<<>>, <<"begin", "end">>, <<"begin", "ownership", "end">>}

\* Each client listens once and is alive, and the grabs come first.
Placed(s, who) ==
    /\ \A i, j \in Listeners(s) : s.ti.listeners[i].client = s.ti.listeners[j].client => i = j
    /\ \A i \in Listeners(s) : s.ti.listeners[i].client \in who
    /\ \A i \in Listeners(s) : s.ti.listeners[i].grab \/ i = Len(s.ti.listeners)

\* Only the first listener owns the touch; the others wait for their turn.
Ranked(s) ==
    \A i \in Listeners(s) : \/ Waiting(s.ti.listeners[i])
                            \/ i = 1 /\ Owning(s.ti.listeners[i])

\* Nothing that was sent is taken back.
Continues(log, more) == Len(log) <= Len(more) /\ \A k \in 1 .. Len(log) : more[k] = log[k]

\* r has the listeners of s, in other states perhaps, and has sent to them only.
Same(s, r) ==
    /\ r \in Delivery
    /\ Len(r.ti.listeners) = Len(s.ti.listeners)
    /\ \A i \in Listeners(s) : /\ r.ti.listeners[i].client = s.ti.listeners[i].client
                               /\ r.ti.listeners[i].grab = s.ti.listeners[i].grab
                               /\ r.ti.listeners[i].wants = s.ti.listeners[i].wants
    /\ r.ti.active = s.ti.active /\ r.ti.kept = s.ti.kept /\ r.ti.history = s.ti.history
    /\ \A c \in Clients : ~IsListener(s, c) => r.got[c] = s.got[c]
    /\ \A c \in Clients : Continues(s.got[c].events, r.got[c].events)

\* The words a client may be sent, letter by letter
LEMMA Words ==
    /\ Append(<<>>, "begin") = <<"begin">>
    /\ Append(<<"begin">>, "ownership") = <<"begin", "ownership">>
    /\ Append(<<"begin">>, "end") = <<"begin", "end">>
    /\ Append(<<"begin", "ownership">>, "end") = <<"begin", "ownership", "end">>
<1>1. ASSUME NEW x \in Word, NEW y \in Word
      PROVE  Append(<<x>>, y) = <<x, y>>
  <2>1. /\ Append(<<x>>, y) \in Seq(Word) /\ <<x, y>> \in Seq(Word)
        /\ Len(Append(<<x>>, y)) = 2 /\ Len(<<x, y>>) = 2
    OBVIOUS
  <2>2. \A k \in 1 .. 2 : Append(<<x>>, y)[k] = <<x, y>>[k]
    OBVIOUS
  <2>3. QED
    BY <2>1, <2>2, SeqEqual
<1>2. ASSUME NEW x \in Word, NEW y \in Word, NEW z \in Word
      PROVE  Append(<<x, y>>, z) = <<x, y, z>>
  <2>1. /\ Append(<<x, y>>, z) \in Seq(Word) /\ <<x, y, z>> \in Seq(Word)
        /\ Len(Append(<<x, y>>, z)) = 3 /\ Len(<<x, y, z>>) = 3
    OBVIOUS
  <2>2. \A k \in 1 .. 3 : Append(<<x, y>>, z)[k] = <<x, y, z>>[k]
    OBVIOUS
  <2>3. QED
    BY <2>1, <2>2, SeqEqual
<1>3. Append(<<>>, "begin") = <<"begin">>
  OBVIOUS
<1>4. QED
  BY <1>1, <1>2, <1>3 DEF Word

\* The types of the parts of a delivery
LEMMA ListenersAre ==
    ASSUME NEW s \in Delivery
    PROVE  /\ s.ti \in Record /\ s.got \in [Clients -> Got]
           /\ s.ti.listeners \in Seq(Listener) /\ Len(s.ti.listeners) \in Nat
           /\ Listeners(s) = 1 .. Len(s.ti.listeners)
           /\ \A i \in Listeners(s) : /\ s.ti.listeners[i] \in Listener
                                      /\ s.ti.listeners[i].client \in Clients
                                      /\ s.ti.listeners[i].state \in States
                                      /\ s.ti.listeners[i].grab \in BOOLEAN
                                      /\ s.ti.listeners[i].wants \in BOOLEAN
           /\ \A c \in Clients : /\ s.got[c] \in Got /\ s.got[c].events \in Seq(Word)
                                 /\ s.got[c].updates \in Nat /\ s.got[c].pending \in BOOLEAN
<1>1. s.ti \in Record /\ s.got \in [Clients -> Got]
  BY DEF Delivery
<1>2. s.ti.listeners \in Seq(Listener)
  BY <1>1 DEF Record
<1>3. /\ Len(s.ti.listeners) \in Nat /\ Listeners(s) = 1 .. Len(s.ti.listeners)
      /\ \A i \in Listeners(s) : s.ti.listeners[i] \in Listener
  BY <1>2 DEF Listeners
<1>4. \A l \in Listener : /\ l.client \in Clients /\ l.state \in States
                          /\ l.grab \in BOOLEAN /\ l.wants \in BOOLEAN
  BY DEF Listener
<1>5. \A g \in Got : g.events \in Seq(Word) /\ g.updates \in Nat /\ g.pending \in BOOLEAN
  BY DEF Got
<1>6. \A c \in Clients : s.got[c] \in Got
  BY <1>1
<1>7. QED
  BY <1>1, <1>2, <1>3, <1>4, <1>5, <1>6

\* The owner, a grab, and who asked for the ownership events are sent what is sent to them.
LEMMA HearsWhen ==
    ASSUME NEW s \in Delivery, Placed(s, alive), NEW i \in Listeners(s),
           i = 1 \/ s.ti.listeners[i].wants \/ s.ti.listeners[i].grab
    PROVE  Hears(s, i)
<1>1. CASE i = 1 /\ ~s.ti.listeners[i].grab
  <2>1. Len(s.ti.listeners) = 1
    BY <1>1 DEF Placed
  <2>2. \A j \in Listeners(s) : j = 1
    BY <2>1, ListenersAre
  <2>3. QED
    BY <1>1, <2>2 DEF Hears, Grabs, Listeners
<1>2. QED
  BY <1>1 DEF Hears, Wants, Listeners

\* Who is told: the clients of these listeners, and nobody else
LEMMA ToldWho ==
    ASSUME NEW s \in Delivery, Placed(s, alive), NEW I \in SUBSET Listeners(s),
           \A i \in I : Hears(s, i)
    PROVE  /\ \A i \in Listeners(s) : Told(s, I, s.ti.listeners[i].client) <=> i \in I
           /\ \A c \in Clients : ~IsListener(s, c) => ~Told(s, I, c)
BY DEF Told, Placed, IsListener, Listeners

\* A word continues itself, and goes on by an event.
LEMMA AppendIs ==
    ASSUME NEW S, NEW log \in Seq(S), NEW e \in S
    PROVE  /\ Append(log, e) \in Seq(S)
           /\ Continues(log, Append(log, e)) /\ Continues(log, log)
BY DEF Continues

\* The effect of Send, where the listeners at I hear it
LEMMA Sending ==
    ASSUME NEW s \in Delivery, Placed(s, alive), NEW I \in SUBSET Listeners(s),
           \A i \in I : Hears(s, i), NEW e \in Word, NEW r, r = Send(s, I, e)
    PROVE  /\ Same(s, r) /\ r.ti = s.ti
           /\ \A i \in Listeners(s) :
                /\ GotBy(r, i).events = IF i \in I THEN Append(GotBy(s, i).events, e)
                                        ELSE GotBy(s, i).events
                /\ GotBy(r, i).updates = GotBy(s, i).updates
                /\ GotBy(r, i).pending = GotBy(s, i).pending
<1>1. /\ r.ti = s.ti
      /\ r = [ti |-> s.ti, got |-> [c \in Clients |->
                 IF Told(s, I, c) THEN [s.got[c] EXCEPT !.events = Append(@, e)] ELSE s.got[c]]]
  BY DEF Send, Delivery
<1>2. \A c \in Clients : Append(s.got[c].events, e) \in Seq(Word)
  BY ListenersAre, AppendIs
<1>3. \A c \in Clients :
        r.got[c] = IF Told(s, I, c) THEN [s.got[c] EXCEPT !.events = Append(@, e)] ELSE s.got[c]
  BY <1>1
<1>4. \A c \in Clients :
        /\ r.got[c] \in Got
        /\ r.got[c].events = IF Told(s, I, c) THEN Append(s.got[c].events, e) ELSE s.got[c].events
        /\ r.got[c].updates = s.got[c].updates /\ r.got[c].pending = s.got[c].pending
  <2>1. TAKE c \in Clients
  <2>2. s.got[c] \in Got
    BY ListenersAre
  <2>3. CASE Told(s, I, c)
    <3>1. PICK log \in Seq(Word) : log = Append(s.got[c].events, e)
      BY <1>2
    <3>2. r.got[c] = [s.got[c] EXCEPT !.events = log]
      BY <1>3, <2>3, <3>1
    <3>3. r.got[c] \in Got /\ r.got[c].events = log
          /\ r.got[c].updates = s.got[c].updates /\ r.got[c].pending = s.got[c].pending
      BY <2>2, <3>2 DEF Got
    <3>4. QED
      BY <2>3, <3>1, <3>3
  <2>4. CASE ~Told(s, I, c)
    BY <1>3, <2>2, <2>4
  <2>5. QED
    BY <2>3, <2>4
<1>5. r \in Delivery
  <2>1. r.got = [c \in Clients |-> r.got[c]]
    BY <1>1
  <2>2. r.got \in [Clients -> Got]
    BY <1>4, <2>1
  <2>3. QED
    BY <1>1, <2>2, ListenersAre DEF Delivery
<1>6. \A c \in Clients : Continues(s.got[c].events, r.got[c].events)
  BY <1>4, AppendIs, ListenersAre
<1>7. Same(s, r)
  BY <1>1, <1>3, <1>5, <1>6, ToldWho DEF Same
<1>8. QED
  BY <1>1, <1>4, <1>7, ToldWho, ListenersAre DEF GotBy

\* The effect of SendUpdates
LEMMA SendingUpdates ==
    ASSUME NEW s \in Delivery, Placed(s, alive), NEW I \in SUBSET Listeners(s),
           \A i \in I : Hears(s, i), NEW n \in Nat, NEW r, r = SendUpdates(s, I, n)
    PROVE  /\ Same(s, r) /\ r.ti = s.ti
           /\ \A i \in Listeners(s) :
                /\ GotBy(r, i).events = GotBy(s, i).events
                /\ GotBy(r, i).updates = IF i \in I THEN GotBy(s, i).updates + n
                                         ELSE GotBy(s, i).updates
                /\ GotBy(r, i).pending = GotBy(s, i).pending
<1>1. /\ r.ti = s.ti
      /\ r = [ti |-> s.ti, got |-> [c \in Clients |->
                 IF Told(s, I, c) THEN [s.got[c] EXCEPT !.updates = @ + n] ELSE s.got[c]]]
  BY DEF SendUpdates, Delivery
<1>2. \A c \in Clients :
        r.got[c] = IF Told(s, I, c) THEN [s.got[c] EXCEPT !.updates = @ + n] ELSE s.got[c]
  BY <1>1
<1>3. \A c \in Clients :
        /\ r.got[c] \in Got
        /\ r.got[c].updates = IF Told(s, I, c) THEN s.got[c].updates + n
                               ELSE s.got[c].updates
        /\ r.got[c].events = s.got[c].events /\ r.got[c].pending = s.got[c].pending
  <2>1. TAKE c \in Clients
  <2>2. s.got[c] \in Got /\ s.got[c].updates \in Nat
    BY ListenersAre
  <2>3. CASE Told(s, I, c)
    <3>1. PICK u \in Nat : u = s.got[c].updates + n
      BY <2>2
    <3>2. r.got[c] = [s.got[c] EXCEPT !.updates = u]
      BY <1>2, <2>3, <3>1
    <3>3. r.got[c] \in Got /\ r.got[c].updates = u
          /\ r.got[c].events = s.got[c].events /\ r.got[c].pending = s.got[c].pending
      BY <2>2, <3>2 DEF Got
    <3>4. QED
      BY <2>3, <3>1, <3>3
  <2>4. CASE ~Told(s, I, c)
    BY <1>2, <2>2, <2>4
  <2>5. QED
    BY <2>3, <2>4
<1>4. r \in Delivery
  <2>1. r.got = [c \in Clients |-> r.got[c]]
    BY <1>1
  <2>2. r.got \in [Clients -> Got]
    BY <1>3, <2>1
  <2>3. QED
    BY <1>1, <2>2, ListenersAre DEF Delivery
<1>5. \A c \in Clients : Continues(s.got[c].events, r.got[c].events)
  BY <1>3, ListenersAre DEF Continues
<1>6. Same(s, r)
  BY <1>1, <1>2, <1>4, <1>5, ToldWho DEF Same
<1>7. QED
  BY <1>1, <1>3, <1>6, ToldWho, ListenersAre DEF GotBy

\* The effect of SendPendingEnd
LEMMA SendingPendingEnd ==
    ASSUME NEW s \in Delivery, Placed(s, alive), NEW I \in SUBSET Listeners(s),
           \A i \in I : Hears(s, i), NEW r, r = SendPendingEnd(s, I)
    PROVE  /\ Same(s, r) /\ r.ti = s.ti
           /\ \A i \in Listeners(s) :
                /\ GotBy(r, i).events = GotBy(s, i).events
                /\ GotBy(r, i).updates = GotBy(s, i).updates
                /\ GotBy(r, i).pending <=> i \in I \/ GotBy(s, i).pending
<1>1. /\ r.ti = s.ti
      /\ r = [ti |-> s.ti, got |-> [c \in Clients |->
                 IF Told(s, I, c) THEN [s.got[c] EXCEPT !.pending = TRUE] ELSE s.got[c]]]
  BY DEF SendPendingEnd, Delivery
<1>2. \A c \in Clients :
        r.got[c] = IF Told(s, I, c) THEN [s.got[c] EXCEPT !.pending = TRUE] ELSE s.got[c]
  BY <1>1
<1>3. \A c \in Clients :
        /\ r.got[c] \in Got
        /\ r.got[c].updates = s.got[c].updates
        /\ r.got[c].pending <=> Told(s, I, c) \/ s.got[c].pending
        /\ r.got[c].events = s.got[c].events
  <2>1. TAKE c \in Clients
  <2>2. s.got[c] \in Got
    BY ListenersAre
  <2>3. CASE Told(s, I, c)
    <3>1. r.got[c] = [s.got[c] EXCEPT !.pending = TRUE]
      BY <1>2, <2>3
    <3>2. QED
      BY <2>2, <2>3, <3>1 DEF Got
  <2>4. CASE ~Told(s, I, c)
    BY <1>2, <2>2, <2>4
  <2>5. QED
    BY <2>3, <2>4
<1>4. r \in Delivery
  <2>1. r.got = [c \in Clients |-> r.got[c]]
    BY <1>1
  <2>2. r.got \in [Clients -> Got]
    BY <1>3, <2>1
  <2>3. QED
    BY <1>1, <2>2, ListenersAre DEF Delivery
<1>5. \A c \in Clients : Continues(s.got[c].events, r.got[c].events)
  BY <1>3, ListenersAre DEF Continues
<1>6. Same(s, r)
  BY <1>1, <1>2, <1>4, <1>5, ToldWho DEF Same
<1>7. ASSUME NEW i \in Listeners(s)
      PROVE  /\ GotBy(r, i).events = GotBy(s, i).events
             /\ GotBy(r, i).updates = GotBy(s, i).updates
             /\ GotBy(r, i).pending <=> i \in I \/ GotBy(s, i).pending
  <2>1. PICK c \in Clients : c = s.ti.listeners[i].client
    BY ListenersAre
  <2>2. /\ r.got[c].events = s.got[c].events /\ r.got[c].updates = s.got[c].updates
        /\ r.got[c].pending <=> Told(s, I, c) \/ s.got[c].pending
    BY <1>3
  <2>3. Told(s, I, c) <=> i \in I
    BY <2>1, ToldWho
  <2>4. GotBy(r, i) = r.got[c] /\ GotBy(s, i) = s.got[c]
    BY <1>1, <2>1 DEF GotBy
  <2>5. QED
    BY <2>2, <2>3, <2>4, Zenon
<1>8. QED
  BY <1>1, <1>6, <1>7

\* The effect of SetState
LEMMA SettingState ==
    ASSUME NEW s \in Delivery, NEW of, \A i \in DOMAIN of : of[i] \in States,
           NEW r, r = SetState(s, of)
    PROVE  /\ Same(s, r) /\ r.got = s.got /\ r.ti.pending = s.ti.pending
           /\ \A i \in Listeners(s) :
                r.ti.listeners[i].state = IF i \in DOMAIN of THEN of[i]
                                          ELSE s.ti.listeners[i].state
<1> DEFINE L == s.ti.listeners
           new == [i \in 1 .. Len(L) |->
                     IF i \in DOMAIN of THEN [L[i] EXCEPT !.state = of[i]] ELSE L[i]]
<1>0. Len(L) \in Nat /\ DOMAIN L = 1 .. Len(L) /\ Listeners(s) = 1 .. Len(L)
      /\ \A i \in 1 .. Len(L) : L[i] \in Listener
  BY ListenersAre DEF Listeners
<1>1. r = [s EXCEPT !.ti.listeners = new]
  BY <1>0 DEF SetState
<1>2. \A i \in 1 .. Len(L) :
        /\ new[i] \in Listener
        /\ new[i].client = L[i].client /\ new[i].grab = L[i].grab /\ new[i].wants = L[i].wants
        /\ new[i].state = IF i \in DOMAIN of THEN of[i] ELSE L[i].state
  BY <1>0 DEF Listener
<1>3. DOMAIN new = 1 .. Len(L)
  OBVIOUS
<1>4. new = [i \in 1 .. Len(L) |-> new[i]]
  OBVIOUS
<1> HIDE DEF new
<1>5. new \in Seq(Listener) /\ Len(new) = Len(L)
  <2>1. new \in [1 .. Len(L) -> Listener]
    BY <1>2, <1>3, <1>4
  <2>2. QED
    BY <1>0, <2>1
<1>6. /\ r.ti = [s.ti EXCEPT !.listeners = new] /\ r.got = s.got
      /\ r = [ti |-> [s.ti EXCEPT !.listeners = new], got |-> s.got]
  BY <1>1 DEF Delivery
<1>7. /\ r.ti \in Record /\ r.ti.listeners = new /\ r.ti.pending = s.ti.pending
      /\ r.ti.active = s.ti.active /\ r.ti.kept = s.ti.kept /\ r.ti.history = s.ti.history
  <2>1. s.ti \in Record
    BY ListenersAre
  <2>2. QED
    BY <1>5, <1>6, <2>1 DEF Record
<1>8. r \in Delivery
  BY <1>6, <1>7, ListenersAre DEF Delivery
<1>9. \A c \in Clients : Continues(s.got[c].events, r.got[c].events)
  BY <1>6, ListenersAre DEF Continues
<1>10. QED
  BY <1>0, <1>2, <1>5, <1>6, <1>7, <1>8, <1>9 DEF Same

-----------------------------------------------------------------------------
\* Cutting listeners off

\* What depends on the listeners but not on their states stays.
LEMMA SameKeeps ==
    ASSUME NEW s \in Delivery, NEW r, Same(s, r)
    PROVE  /\ r \in Delivery /\ Listeners(r) = Listeners(s)
           /\ Wants(r) = Wants(s) /\ Grabs(r) = Grabs(s)
           /\ \A i \in Listeners(s) : Hears(r, i) <=> Hears(s, i)
           /\ Placed(s, alive) => Placed(r, alive)
           /\ \A c : IsListener(r, c) <=> IsListener(s, c)
<1>1. r \in Delivery /\ Listeners(r) = Listeners(s)
  BY ListenersAre DEF Same
<1>2. Wants(r) = Wants(s) /\ Grabs(r) = Grabs(s)
  BY <1>1 DEF Same, Wants, Grabs, Listeners
<1>3. Placed(s, alive) => Placed(r, alive)
  BY <1>1 DEF Same, Placed
<1>4. \A i \in Listeners(s) : Hears(r, i) <=> Hears(s, i)
  BY <1>2 DEF Hears, Same
<1>5. \A c : IsListener(r, c) <=> IsListener(s, c)
  BY <1>1 DEF Same, IsListener
<1>6. QED
  BY <1>1, <1>2, <1>3, <1>4, <1>5

\* A listener whose state stays is the same listener.
LEMMA SameListener ==
    ASSUME NEW s \in Delivery, NEW r, Same(s, r), NEW i \in Listeners(s),
           r.ti.listeners[i].state = s.ti.listeners[i].state
    PROVE  r.ti.listeners[i] = s.ti.listeners[i]
<1>1. r.ti.listeners[i] \in Listener /\ s.ti.listeners[i] \in Listener
  BY SameKeeps, ListenersAre
<1>2. /\ r.ti.listeners[i].client = s.ti.listeners[i].client
      /\ r.ti.listeners[i].grab = s.ti.listeners[i].grab
      /\ r.ti.listeners[i].wants = s.ti.listeners[i].wants
  BY DEF Same
<1>3. QED
  BY <1>1, <1>2 DEF Listener

\* Continues is transitive, and so is Same.
LEMMA ContinuesOn ==
    ASSUME NEW S, NEW a \in Seq(S), NEW b \in Seq(S), NEW c \in Seq(S),
           Continues(a, b), Continues(b, c)
    PROVE  Continues(a, c)
<1>1. Len(a) \in Nat /\ Len(b) \in Nat /\ Len(c) \in Nat
  OBVIOUS
<1>2. QED
  BY <1>1 DEF Continues

LEMMA SameTwice ==
    ASSUME NEW s \in Delivery, NEW r, NEW q, Same(s, r), Same(r, q)
    PROVE  Same(s, q)
<1>1. r \in Delivery /\ q \in Delivery /\ Listeners(r) = Listeners(s)
      /\ \A c : IsListener(r, c) <=> IsListener(s, c)
  BY SameKeeps DEF Same
<1>2. \A c \in Clients : Continues(s.got[c].events, q.got[c].events)
  BY <1>1, ContinuesOn, ListenersAre DEF Same
<1>3. QED
  BY <1>1, <1>2 DEF Same

-----------------------------------------------------------------------------

\* The listeners at I that DeliverTouchEndEvent cuts off
Cut(I, flag) ==
    {i \in I : \/ flag = "reject"
               \/ flag = "accept" /\ i > 1
               \/ flag = "none" /\ i = 1}

\* The effect of DeliverTouchEndEvent: who is cut off has seen an end, or nothing at all.
LEMMA CuttingOff ==
    ASSUME NEW s \in Delivery, Placed(s, alive), Ranked(s), NEW I \in SUBSET Listeners(s),
           NEW flag, NEW r, r = DeliverTouchEndEvent(s, I, flag)
    PROVE  /\ Same(s, r) /\ r.ti.pending = s.ti.pending
           /\ \A i \in Listeners(s) :
                /\ r.ti.listeners[i].state =
                     IF \/ i \in Cut(I, flag)
                        \/ i \in I /\ s.ti.listeners[i].state = "AWAITING_BEGIN"
                     THEN "HAS_END" ELSE s.ti.listeners[i].state
                /\ GotBy(r, i).events =
                     IF /\ i \in Cut(I, flag)
                        /\ s.ti.listeners[i].state \notin {"AWAITING_BEGIN", "HAS_END"}
                     THEN Append(GotBy(s, i).events, "end") ELSE GotBy(s, i).events
                /\ GotBy(r, i).updates = GotBy(s, i).updates
                /\ GotBy(r, i).pending = GotBy(s, i).pending
<1> DEFINE shown == Cut(I, flag) \ InState(s, {"AWAITING_BEGIN", "HAS_END"})
           q == Send(s, shown, "end")
           of == [i \in Cut(I, flag) \cup (I \cap InState(s, {"AWAITING_BEGIN"})) |-> "HAS_END"]
<1>1. r = SetState(q, of)
  BY DEF DeliverTouchEndEvent, Cut
<1>2. shown \in SUBSET Listeners(s)
  BY DEF Cut
<1>3. \A i \in shown : Hears(s, i)
  <2>1. TAKE i \in shown
  <2>2. i \in Listeners(s) /\ s.ti.listeners[i].state # "AWAITING_BEGIN"
    BY <1>2 DEF InState, Listeners
  <2>3. i = 1 \/ s.ti.listeners[i].wants
    BY <2>2 DEF Ranked, Waiting
  <2>4. QED
    BY <2>2, <2>3, HearsWhen
<1>4. \A i \in Listeners(s) :
        /\ i \in shown <=> /\ i \in Cut(I, flag)
                           /\ s.ti.listeners[i].state \notin {"AWAITING_BEGIN", "HAS_END"}
        /\ i \in DOMAIN of <=> \/ i \in Cut(I, flag)
                               \/ i \in I /\ s.ti.listeners[i].state = "AWAITING_BEGIN"
  BY DEF InState, Listeners
<1>5. \A i \in DOMAIN of : of[i] = "HAS_END" /\ of[i] \in States
  BY DEF States
<1> HIDE DEF shown, q, of
<1>6. /\ Same(s, q) /\ q.ti = s.ti /\ q \in Delivery
      /\ \A i \in Listeners(s) :
            /\ GotBy(q, i).events = IF i \in shown THEN Append(GotBy(s, i).events, "end")
                                    ELSE GotBy(s, i).events
            /\ GotBy(q, i).updates = GotBy(s, i).updates
            /\ GotBy(q, i).pending = GotBy(s, i).pending
  <2>1. "end" \in Word
    BY DEF Word
  <2>2. q = Send(s, shown, "end")
    BY DEF q
  <2>3. QED
    BY <1>2, <1>3, <2>1, <2>2, Sending, SameKeeps
<1>7. /\ Same(q, r) /\ r.got = q.got /\ r.ti.pending = q.ti.pending
      /\ Listeners(q) = Listeners(s)
      /\ \A i \in Listeners(s) :
            r.ti.listeners[i].state = IF i \in DOMAIN of THEN "HAS_END"
                                      ELSE s.ti.listeners[i].state
  BY <1>1, <1>5, <1>6, SettingState, SameKeeps
<1>8. \A i \in Listeners(s) : GotBy(r, i) = GotBy(q, i)
  BY <1>6, <1>7 DEF GotBy, Same
<1>9. QED
  BY <1>4, <1>6, <1>7, <1>8, SameTwice

-----------------------------------------------------------------------------
\* The invariant, and the end of the touch

\* g is what the listener l of a touch with n movements was sent; gone: the finger was lifted
Fits(l, g, gone, n) ==
    /\ g.events = Shown(l)
    /\ l.state = "AWAITING_BEGIN" => g.updates = 0
    /\ l.state # "AWAITING_BEGIN" /\ n <= HistorySize - 2 => g.updates = n
    /\ gone /\ Waiting(l) /\ l.wants => g.pending

\* There is a history if a listener has to wait for the begin, and it holds the movements
\* there is room for.
Recorded(s, n) ==
    /\ \A i \in Listeners(s) : ~s.ti.listeners[i].wants => s.ti.kept
    /\ s.ti.history = IF ~s.ti.kept THEN 0
                      ELSE IF n < HistorySize - 2 THEN n ELSE HistorySize - 2

\* What holds of a delivery to the clients in who, of a touch with n movements, between any
\* two calls: each listener has been sent what its state says, and who listens no more has
\* seen a whole touch or nothing.
Common(s, who, n) ==
    /\ s \in Delivery /\ who \subseteq Clients
    /\ Placed(s, who) /\ Ranked(s) /\ Recorded(s, n)
    /\ \A i \in Listeners(s) : Fits(s.ti.listeners[i], GotBy(s, i), s.ti.pending, n)
    /\ \A c \in who : ~IsListener(s, c) => s.got[c].events \in Whole
    /\ ~s.ti.active => s.ti = NoTouch

\* What holds besides when no call is under way: the first listener owns the touch, and has
\* had its end when the finger is gone.
Owned(s) ==
    /\ s.ti.listeners # <<>> => Owning(s.ti.listeners[1])
    /\ s.ti.pending => /\ s.ti.listeners # <<>>
                       /\ s.ti.listeners[1].state = "HAS_END"

\* Nothing is taken back from s to r.
Grows(s, r) == \A c \in Clients : Continues(s.got[c].events, r.got[c].events)

\* What every answer of a client does
After(s, r, n) ==
    /\ Common(r, alive, n) /\ Owned(r) /\ Grows(s, r)
    /\ \A c : IsListener(r, c) => IsListener(s, c)
    /\ r.ti.active => r.ti.pending = s.ti.pending

\* Shown, state by state
LEMMA ShownIs ==
    ASSUME NEW l \in Listener
    PROVE  /\ l.state \in {"AWAITING_BEGIN", "AWAITING_OWNER", "EARLY_ACCEPT", "IS_OWNER",
                           "HAS_ACCEPTED", "HAS_END"}
           /\ l.state = "AWAITING_BEGIN" => Shown(l) = <<>>
           /\ l.state \in {"AWAITING_OWNER", "EARLY_ACCEPT"} => Shown(l) = <<"begin">>
           /\ l.state \in {"IS_OWNER", "HAS_ACCEPTED"} =>
                 Shown(l) = IF l.wants THEN <<"begin", "ownership">> ELSE <<"begin">>
           /\ l.state = "HAS_END" =>
                 Shown(l) = IF l.wants THEN <<"begin", "ownership", "end">>
                            ELSE <<"begin", "end">>
BY DEF Shown, Listener, States

\* A listener that has seen something and is sent the end has seen a whole touch.
LEMMA EndMakesWhole ==
    ASSUME NEW l \in Listener, Waiting(l) \/ Owning(l)
    PROVE  /\ l.state \notin {"AWAITING_BEGIN", "HAS_END"} => Append(Shown(l), "end") \in Whole
           /\ l.state \in {"AWAITING_BEGIN", "HAS_END"} => Shown(l) \in Whole
BY ShownIs, Words DEF Whole, Waiting, Owning

\* An owner that is sent the end has seen what HAS_END stands for.
LEMMA EndOfOwner ==
    ASSUME NEW l \in Listener, Owning(l), NEW e \in Listener, e.wants = l.wants,
           e.state = "HAS_END"
    PROVE  Shown(e) = IF l.state = "HAS_END" THEN Shown(l) ELSE Append(Shown(l), "end")
BY ShownIs, Words DEF Owning

\* The first listener, and none at all
LEMMA FirstIs ==
    ASSUME NEW s \in Delivery, s.ti.listeners # <<>>
    PROVE  1 \in Listeners(s) /\ s.ti.listeners[1] \in Listener
BY ListenersAre

LEMMA EmptyHas ==
    ASSUME NEW s, s.ti.listeners = <<>>
    PROVE  Listeners(s) = {} /\ \A c : ~IsListener(s, c)
BY DEF Listeners, IsListener

\* The record is given up once everybody has had the end.
LEMMA Closing ==
    ASSUME NEW s \in Delivery, NEW n \in Nat, NEW r, r = TouchEndTouch(s), alive \subseteq Clients,
           \A c \in alive : s.got[c].events \in Whole
    PROVE  /\ Common(r, alive, n) /\ Owned(r)
           /\ r.ti = NoTouch /\ r.got = s.got
<1>1. r.ti = NoTouch /\ r.got = s.got /\ r = [ti |-> NoTouch, got |-> s.got]
  BY DEF TouchEndTouch, Delivery
<1>2. NoTouch \in Record
  BY DEF NoTouch, Record
<1>3. r \in Delivery
  BY <1>1, <1>2, ListenersAre DEF Delivery
<1>4. r.ti.listeners = <<>> /\ ~r.ti.pending /\ ~r.ti.kept /\ r.ti.history = 0
  BY <1>1 DEF NoTouch
<1>5. Listeners(r) = {}
  BY <1>4, EmptyHas
<1>6. QED
  BY <1>1, <1>3, <1>4, <1>5 DEF Common, Owned, Placed, Ranked, Recorded

-----------------------------------------------------------------------------
\* The finger is lifted while somebody may still get the touch after the owner.
LEMMA EndingOwner ==
    ASSUME NEW n \in Nat, NEW s, Common(s, alive, n), s.ti.listeners # <<>>, s.ti.active,
           Owning(s.ti.listeners[1]), LivesOn(s), NEW r, r = DeliverEndToAll(s)
    PROVE  Same(s, r) /\ Common(r, alive, n) /\ Owned(r) /\ r.ti.pending
           /\ \A i \in Listeners(s) \ {1} : r.ti.listeners[i] = s.ti.listeners[i]
<1> DEFINE q == DeliverTouchEndEvent(s, {1}, "none")
           t == SendPendingEnd(q, Wants(s) \ {1})
<1>0. s \in Delivery /\ 1 \in Listeners(s) /\ s.ti.listeners[1] \in Listener
  BY FirstIs DEF Common
<1>1. r = [t EXCEPT !.ti.pending = TRUE]
  BY DEF DeliverEndToAll
<1>2. Cut({1}, "none") = {1} /\ s.ti.listeners[1].state # "AWAITING_BEGIN"
  BY DEF Cut, Owning
<1>3. /\ Same(s, q) /\ q.ti.pending = s.ti.pending
      /\ \A i \in Listeners(s) :
            /\ q.ti.listeners[i].state = IF i = 1 THEN "HAS_END" ELSE s.ti.listeners[i].state
            /\ GotBy(q, i).events = IF i = 1 /\ s.ti.listeners[1].state # "HAS_END"
                                    THEN Append(GotBy(s, i).events, "end")
                                    ELSE GotBy(s, i).events
            /\ GotBy(q, i).updates = GotBy(s, i).updates
            /\ GotBy(q, i).pending = GotBy(s, i).pending
  <2> HIDE DEF q
  <2>1. q = DeliverTouchEndEvent(s, {1}, "none")
    BY DEF q
  <2>2. Placed(s, alive) /\ Ranked(s)
    BY DEF Common
  <2>3. QED
    BY <1>0, <1>2, <2>1, <2>2, CuttingOff
<1> HIDE DEF q
<1>4. /\ q \in Delivery /\ Listeners(q) = Listeners(s) /\ Placed(q, alive) /\ Wants(q) = Wants(s)
  BY <1>0, <1>3, SameKeeps DEF Common
<1>5. Wants(s) \ {1} \in SUBSET Listeners(q)
      /\ \A i \in Wants(s) \ {1} : Hears(q, i)
  BY <1>4, HearsWhen DEF Wants, Listeners
<1>6. /\ Same(q, t) /\ t.ti = q.ti
      /\ \A i \in Listeners(s) :
            /\ GotBy(t, i).events = GotBy(q, i).events
            /\ GotBy(t, i).updates = GotBy(q, i).updates
            /\ GotBy(t, i).pending <=> i \in Wants(s) \ {1} \/ GotBy(q, i).pending
  BY <1>4, <1>5, SendingPendingEnd
<1> HIDE DEF t
<1>7. Same(s, t) /\ t \in Delivery
  <2>1. Same(s, t)
    BY <1>0, <1>3, <1>6, SameTwice
  <2>2. QED
    BY <1>0, <2>1, SameKeeps
<1>8. /\ r.ti = [t.ti EXCEPT !.pending = TRUE] /\ r.got = t.got
      /\ r = [ti |-> [t.ti EXCEPT !.pending = TRUE], got |-> t.got]
  BY <1>1, <1>7 DEF Delivery
<1>9. /\ r.ti \in Record /\ r.ti.pending /\ r.ti.listeners = t.ti.listeners
      /\ r.ti.active = t.ti.active /\ r.ti.kept = t.ti.kept /\ r.ti.history = t.ti.history
  <2>1. t.ti \in Record
    BY <1>7, ListenersAre
  <2>2. QED
    BY <1>8, <2>1 DEF Record
<1>10. r \in Delivery /\ Same(s, r)
  <2>1. r \in Delivery
    BY <1>7, <1>8, <1>9, ListenersAre DEF Delivery
  <2>2. QED
    BY <1>7, <1>8, <1>9, <2>1 DEF Same
<1>11. \A i \in Listeners(s) : GotBy(r, i) = GotBy(t, i) /\ r.ti.listeners[i] = q.ti.listeners[i]
  BY <1>6, <1>8, <1>9 DEF GotBy
<1>12. /\ Listeners(r) = Listeners(s) /\ Placed(r, alive)
       /\ \A c : IsListener(r, c) <=> IsListener(s, c)
  BY <1>0, <1>10, SameKeeps DEF Common
<1>13. \A i \in Listeners(s) \ {1} : r.ti.listeners[i] = s.ti.listeners[i]
  BY <1>0, <1>3, <1>10, <1>11, SameListener
<1>14. r.ti.listeners[1] \in Listener /\ r.ti.listeners[1].state = "HAS_END"
       /\ r.ti.listeners[1].wants = s.ti.listeners[1].wants
  BY <1>0, <1>3, <1>10, <1>11, <1>12, ListenersAre DEF Same
<1>15. Ranked(r)
  BY <1>12, <1>13, <1>14 DEF Ranked, Common, Owning
<1>16. ASSUME NEW i \in Listeners(s)
       PROVE  Fits(r.ti.listeners[i], GotBy(r, i), r.ti.pending, n)
  <2>1. Fits(s.ti.listeners[i], GotBy(s, i), s.ti.pending, n)
    BY DEF Common
  <2>2. CASE i = 1
    <3>0. GotBy(r, i).events = IF s.ti.listeners[1].state # "HAS_END"
                               THEN Append(GotBy(s, i).events, "end")
                               ELSE GotBy(s, i).events
      BY <1>3, <1>6, <1>11, <2>2
    <3>1. GotBy(s, i).events = Shown(s.ti.listeners[1])
      BY <2>1, <2>2 DEF Fits
    <3>2. GotBy(r, i).events = Shown(r.ti.listeners[i])
      BY <1>0, <1>14, <2>2, <3>0, <3>1, EndOfOwner
    <3>3. GotBy(r, i).updates = GotBy(s, i).updates
      BY <1>3, <1>6, <1>11
    <3>4. QED
      BY <1>2, <1>14, <2>1, <2>2, <3>2, <3>3 DEF Fits, Waiting
  <2>3. CASE i # 1
    <3>1. r.ti.listeners[i] = s.ti.listeners[i]
      BY <1>13, <2>3
    <3>2. GotBy(r, i).events = GotBy(s, i).events /\ GotBy(r, i).updates = GotBy(s, i).updates
          /\ (i \in Wants(s) => GotBy(r, i).pending)
      BY <1>3, <1>6, <1>11, <2>3
    <3>3. s.ti.listeners[i].wants => i \in Wants(s)
      BY DEF Wants, Listeners
    <3>4. QED
      BY <2>1, <3>1, <3>2, <3>3 DEF Fits
  <2>4. QED
    BY <2>2, <2>3
<1>17. Recorded(r, n)
  BY <1>10, <1>12 DEF Recorded, Same, Common
<1>18. \A c \in alive : ~IsListener(r, c) => r.got[c].events \in Whole
  BY <1>10, <1>12 DEF Same, Common
<1>19. Common(r, alive, n)
  BY <1>9, <1>10, <1>12, <1>15, <1>16, <1>17, <1>18 DEF Common, Same
<1>20. Owned(r)
  BY <1>0, <1>12, <1>14 DEF Owned, Owning, Listeners
<1>21. QED
  BY <1>9, <1>10, <1>13, <1>19, <1>20

\* A change that leaves each listener with what it should have seen
LEMMA Staying ==
    ASSUME NEW n \in Nat, NEW s, Common(s, alive, n), s.ti.active, NEW r, Same(s, r), Ranked(r),
           \A i \in Listeners(s) : Fits(r.ti.listeners[i], GotBy(r, i), r.ti.pending, n)
    PROVE  Common(r, alive, n)
<1>1. s \in Delivery /\ Placed(s, alive)
  BY DEF Common
<1>2. /\ r \in Delivery /\ Listeners(r) = Listeners(s) /\ Placed(r, alive)
      /\ \A c : IsListener(r, c) <=> IsListener(s, c)
  BY <1>1, SameKeeps
<1>3. Recorded(r, n)
  BY <1>2 DEF Recorded, Same, Common
<1>4. \A c \in alive : ~IsListener(r, c) => r.got[c].events \in Whole
  BY <1>2 DEF Same, Common
<1>5. QED
  BY <1>2, <1>3, <1>4 DEF Common, Same

\* The end of the touch when nobody is left to get it after the owner
LEMMA EndingTouch ==
    ASSUME NEW n \in Nat, NEW s, Common(s, alive, n), ~LivesOn(s),
           s.ti.listeners # <<>> => Owning(s.ti.listeners[1]),
           NEW r, r = TouchEndTouch(DeliverEndToAll(s))
    PROVE  /\ Common(r, alive, n) /\ Owned(r) /\ Grows(s, r) /\ r.ti = NoTouch
           /\ \A c : ~IsListener(r, c)
<1> DEFINE q == DeliverTouchEndEvent(s, Listeners(s), "none")
<1>0. s \in Delivery /\ Placed(s, alive) /\ Ranked(s) /\ alive \subseteq Clients
  BY DEF Common
<1>1. r = TouchEndTouch(q)
  BY DEF DeliverEndToAll, Listeners
<1>2. q = DeliverTouchEndEvent(s, Listeners(s), "none")
  OBVIOUS
<1> HIDE DEF q
<1>3. /\ Same(s, q)
      /\ \A i \in Listeners(s) : GotBy(q, i).events =
            IF /\ i \in Cut(Listeners(s), "none")
               /\ s.ti.listeners[i].state \notin {"AWAITING_BEGIN", "HAS_END"}
            THEN Append(GotBy(s, i).events, "end") ELSE GotBy(s, i).events
  BY <1>0, <1>2, CuttingOff
<1>4. q \in Delivery
  BY <1>0, <1>3, SameKeeps
<1>5. \A i \in Listeners(s) : i = 1
  <2>1. SUFFICES ASSUME NEW i \in Listeners(s), i # 1
                 PROVE  FALSE
    OBVIOUS
  <2>2. Len(s.ti.listeners) > 1 /\ s.ti.listeners # <<>>
    BY <1>0, <2>1, ListenersAre
  <2>3. s.ti.listeners[1].state # "AWAITING_BEGIN"
    BY <2>2 DEF Owning
  <2>4. QED
    BY <2>2, <2>3 DEF LivesOn, InState
<1>6. \A c \in alive : q.got[c].events \in Whole
  <2>1. TAKE c \in alive
  <2>2. CASE ~IsListener(s, c)
    BY <1>0, <1>3, <2>2 DEF Same, Common
  <2>3. CASE IsListener(s, c)
    <3>1. PICK i \in Listeners(s) : s.ti.listeners[i].client = c
      BY <2>3 DEF IsListener
    <3>2. i = 1 /\ s.ti.listeners[i] \in Listener /\ s.ti.listeners # <<>>
      BY <1>0, <1>5, ListenersAre, <3>1
    <3>3. GotBy(s, i).events = Shown(s.ti.listeners[i])
      BY DEF Common, Fits
    <3>4. i \in Cut(Listeners(s), "none")
      BY <3>2 DEF Cut
    <3>5. GotBy(q, i).events \in Whole
      BY <1>3, <3>2, <3>3, <3>4, EndMakesWhole
    <3>6. GotBy(q, i) = q.got[c]
      BY <1>3, <3>1 DEF GotBy, Same
    <3>7. QED
      BY <3>5, <3>6
  <2>4. QED
    BY <2>2, <2>3
<1>7. /\ Common(r, alive, n) /\ Owned(r) /\ r.ti = NoTouch /\ r.got = q.got
  BY <1>0, <1>1, <1>4, <1>6, Closing
<1>8. Grows(s, r)
  BY <1>3, <1>7 DEF Grows, Same
<1>9. \A c : ~IsListener(r, c)
  BY <1>7, EmptyHas DEF NoTouch
<1>10. QED
  BY <1>7, <1>8, <1>9

-----------------------------------------------------------------------------
\* What the listeners at the positions I see of the begin
LEMMA Beginning ==
    ASSUME NEW s \in Delivery, Placed(s, alive), NEW I \in SUBSET Listeners(s),
           NEW r, r = DeliverTouchBeginEvent(s, I)
    PROVE  /\ Same(s, r) /\ r.ti.pending = s.ti.pending
           /\ \A i \in Listeners(s) \ I :
                /\ r.ti.listeners[i].state = s.ti.listeners[i].state
                /\ GotBy(r, i).events = GotBy(s, i).events
           /\ \A i \in I :
                /\ r.ti.listeners[i].state =
                     IF i = 1 THEN IF s.ti.listeners[i].grab THEN "IS_OWNER" ELSE "HAS_ACCEPTED"
                     ELSE IF s.ti.listeners[i].wants THEN "AWAITING_OWNER" ELSE "AWAITING_BEGIN"
                /\ GotBy(r, i).events =
                     IF s.ti.listeners[i].wants
                     THEN IF i = 1 THEN Append(Append(GotBy(s, i).events, "begin"), "ownership")
                          ELSE Append(GotBy(s, i).events, "begin")
                     ELSE IF i = 1 THEN Append(GotBy(s, i).events, "begin")
                          ELSE GotBy(s, i).events
           /\ \A i \in Listeners(s) :
                /\ GotBy(r, i).updates = GotBy(s, i).updates
                /\ GotBy(r, i).pending = GotBy(s, i).pending
<1> DEFINE J == I \cap ({1} \cup Wants(s))
           K == I \cap Wants(s) \cap {1}
           q == Send(s, J, "begin")
           t == Send(q, K, "ownership")
           state(i) == CASE i > 1 /\ i \in Wants(s) -> "AWAITING_OWNER"
                         [] i > 1 /\ i \notin Wants(s) -> "AWAITING_BEGIN"
                         [] i = 1 /\ i \in Grabs(s) -> "IS_OWNER"
                         [] i = 1 /\ i \notin Grabs(s) -> "HAS_ACCEPTED"
           of == [i \in I |-> state(i)]
<1>1. r = SetState(t, of)
  BY DEF DeliverTouchBeginEvent
<1>2. q = Send(s, J, "begin") /\ t = Send(q, K, "ownership")
  OBVIOUS
<1>3. \A i \in Listeners(s) : i \in Nat /\ i >= 1
                              /\ (i \in Wants(s) <=> s.ti.listeners[i].wants)
                              /\ (i \in Grabs(s) <=> s.ti.listeners[i].grab)
  <2>1. \A i \in Listeners(s) : i \in Nat /\ i >= 1
    BY ListenersAre
  <2>2. QED
    BY <2>1 DEF Wants, Grabs, Listeners
<1>4. DOMAIN of = I /\ \A i \in I : of[i] = state(i)
  OBVIOUS
<1>5. \A i \in I : of[i] =
         IF i = 1 THEN IF s.ti.listeners[i].grab THEN "IS_OWNER" ELSE "HAS_ACCEPTED"
         ELSE IF s.ti.listeners[i].wants THEN "AWAITING_OWNER" ELSE "AWAITING_BEGIN"
  <2>1. TAKE i \in I
  <2>2. /\ i \in Nat /\ i >= 1 /\ of[i] = state(i)
        /\ i \in Wants(s) <=> s.ti.listeners[i].wants
        /\ i \in Grabs(s) <=> s.ti.listeners[i].grab
    BY <1>3, <1>4
  <2> HIDE DEF of
  <2>3. CASE i = 1
    <3>1. state(i) = IF i \in Grabs(s) THEN "IS_OWNER" ELSE "HAS_ACCEPTED"
      BY <2>3
    <3>2. QED
      BY <2>2, <2>3, <3>1
  <2>4. CASE i > 1
    <3>1. state(i) = IF i \in Wants(s) THEN "AWAITING_OWNER" ELSE "AWAITING_BEGIN"
      BY <2>4
    <3>2. QED
      BY <2>2, <2>4, <3>1
  <2>5. QED
    BY <2>2, <2>3, <2>4
<1>6. \A i \in DOMAIN of : of[i] \in States
  BY <1>4, <1>5 DEF States
<1> HIDE DEF q, t, state, of
<1>7. J \in SUBSET Listeners(s) /\ \A i \in J : Hears(s, i)
  BY <1>3, HearsWhen
<1>8. K \in SUBSET Listeners(s) /\ \A i \in K : Hears(s, i)
  BY <1>3, HearsWhen
<1>9. "begin" \in Word /\ "ownership" \in Word
  BY DEF Word
<1>10. \A i \in Listeners(s) :
         /\ i \in J <=> i \in I /\ (i = 1 \/ s.ti.listeners[i].wants)
         /\ i \in K <=> i \in I /\ i = 1 /\ s.ti.listeners[i].wants
  BY <1>3
<1> HIDE DEF J, K
<1>11. /\ Same(s, q) /\ q.ti = s.ti
       /\ \A i \in Listeners(s) :
             /\ GotBy(q, i).events = IF i \in J THEN Append(GotBy(s, i).events, "begin")
                                     ELSE GotBy(s, i).events
             /\ GotBy(q, i).updates = GotBy(s, i).updates
             /\ GotBy(q, i).pending = GotBy(s, i).pending
  <2>1. q = Send(s, J, "begin") /\ "begin" \in Word
    BY <1>2, <1>9
  <2>2. QED
    BY <1>7, <2>1, Sending
<1>12. q \in Delivery /\ Placed(q, alive) /\ Listeners(q) = Listeners(s)
       /\ \A i \in K : Hears(q, i)
  BY <1>8, <1>11, SameKeeps
<1>13. /\ Same(q, t) /\ t.ti = q.ti
       /\ \A i \in Listeners(s) :
             /\ GotBy(t, i).events = IF i \in K THEN Append(GotBy(q, i).events, "ownership")
                                     ELSE GotBy(q, i).events
             /\ GotBy(t, i).updates = GotBy(q, i).updates
             /\ GotBy(t, i).pending = GotBy(q, i).pending
  BY <1>2, <1>8, <1>9, <1>12, Sending
<1>14. t \in Delivery /\ Same(s, t) /\ Listeners(t) = Listeners(s)
  BY <1>11, <1>12, <1>13, SameKeeps, SameTwice
<1>15. /\ Same(t, r) /\ r.got = t.got /\ r.ti.pending = t.ti.pending
       /\ \A i \in Listeners(s) :
             r.ti.listeners[i].state = IF i \in I THEN of[i] ELSE s.ti.listeners[i].state
  BY <1>1, <1>4, <1>6, <1>11, <1>13, <1>14, SettingState
<1>16. Same(s, r)
  BY <1>14, <1>15, SameTwice
<1>17. \A i \in Listeners(s) : GotBy(r, i) = GotBy(t, i)
  BY <1>14, <1>15 DEF GotBy, Same
<1>18. r.ti.pending = s.ti.pending
  BY <1>11, <1>13, <1>15
<1>19. ASSUME NEW i \in Listeners(s)
       PROVE  /\ GotBy(r, i).events = IF i \in K
                 THEN Append(IF i \in J THEN Append(GotBy(s, i).events, "begin")
                             ELSE GotBy(s, i).events, "ownership")
                 ELSE IF i \in J THEN Append(GotBy(s, i).events, "begin")
                      ELSE GotBy(s, i).events
              /\ GotBy(r, i).updates = GotBy(s, i).updates
              /\ GotBy(r, i).pending = GotBy(s, i).pending
  BY <1>11, <1>13, <1>17
<1>20. QED
  BY <1>5, <1>10, <1>15, <1>16, <1>18, <1>19

-----------------------------------------------------------------------------
\* Ownership

\* What the next owner is told, or shown
Informed(s) ==
    IF 1 \in InState(s, {"EARLY_ACCEPT"}) \/ 1 \in InState(s, {"AWAITING_OWNER"})
    THEN DeliverOwnership(s)
    ELSE IF 1 \in InState(s, {"AWAITING_BEGIN"}) THEN TouchEventHistoryReplay(s)
    ELSE s

\* The effect of DeliverOwnership
LEMMA OwnershipIs ==
    ASSUME NEW s \in Delivery, Placed(s, alive), 1 \in Listeners(s),
           NEW r, r = DeliverOwnership(s)
    PROVE  /\ Same(s, r) /\ r.ti.pending = s.ti.pending
           /\ \A i \in Listeners(s) :
                /\ r.ti.listeners[i].state = IF i = 1 THEN "IS_OWNER"
                                             ELSE s.ti.listeners[i].state
                /\ GotBy(r, i).events = IF i = 1 THEN Append(GotBy(s, i).events, "ownership")
                                        ELSE GotBy(s, i).events
                /\ GotBy(r, i).updates = GotBy(s, i).updates
                /\ GotBy(r, i).pending = GotBy(s, i).pending
<1> DEFINE q == Send(s, {1}, "ownership")
           of == [i \in {1} |-> "IS_OWNER"]
<1>1. r = SetState(q, of) /\ q = Send(s, {1}, "ownership")
  BY DEF DeliverOwnership
<1>2. {1} \in SUBSET Listeners(s) /\ \A i \in {1} : Hears(s, i)
  BY HearsWhen
<1>3. "ownership" \in Word
  BY DEF Word
<1>4. DOMAIN of = {1} /\ \A i \in DOMAIN of : of[i] = "IS_OWNER" /\ of[i] \in States
  BY DEF States
<1> HIDE DEF q, of
<1>5. /\ Same(s, q) /\ q.ti = s.ti
      /\ \A i \in Listeners(s) :
            /\ GotBy(q, i).events = IF i = 1 THEN Append(GotBy(s, i).events, "ownership")
                                    ELSE GotBy(s, i).events
            /\ GotBy(q, i).updates = GotBy(s, i).updates
            /\ GotBy(q, i).pending = GotBy(s, i).pending
  BY <1>1, <1>2, <1>3, Sending
<1>6. q \in Delivery /\ Listeners(q) = Listeners(s)
  BY <1>5, SameKeeps
<1>7. /\ Same(q, r) /\ r.got = q.got /\ r.ti.pending = q.ti.pending
      /\ \A i \in Listeners(s) :
            r.ti.listeners[i].state = IF i = 1 THEN "IS_OWNER" ELSE s.ti.listeners[i].state
  BY <1>1, <1>4, <1>5, <1>6, SettingState
<1>8. \A i \in Listeners(s) : GotBy(r, i) = GotBy(q, i)
  BY <1>6, <1>7 DEF GotBy, Same
<1>9. QED
  BY <1>5, <1>7, <1>8, SameTwice

\* The effect of TouchEventHistoryReplay: the begin, and the movements in the history
LEMMA ReplayIs ==
    ASSUME NEW s \in Delivery, Placed(s, alive), 1 \in Listeners(s), s.ti.kept,
           ~s.ti.listeners[1].wants, GotBy(s, 1).updates = 0,
           NEW r, r = TouchEventHistoryReplay(s)
    PROVE  /\ Same(s, r) /\ r.ti.pending = s.ti.pending
           /\ \A i \in Listeners(s) :
                /\ r.ti.listeners[i].state =
                     IF i = 1 THEN IF s.ti.listeners[i].grab THEN "IS_OWNER" ELSE "HAS_ACCEPTED"
                     ELSE s.ti.listeners[i].state
                /\ GotBy(r, i).events = IF i = 1 THEN Append(GotBy(s, i).events, "begin")
                                        ELSE GotBy(s, i).events
                /\ GotBy(r, i).updates = IF i = 1 THEN s.ti.history ELSE GotBy(s, i).updates
                /\ GotBy(r, i).pending = GotBy(s, i).pending
<1> DEFINE q == DeliverTouchBeginEvent(s, {1})
<1>1. r = SendUpdates(q, {1}, s.ti.history) /\ q = DeliverTouchBeginEvent(s, {1})
  BY DEF TouchEventHistoryReplay
<1> HIDE DEF q
<1>2. {1} \in SUBSET Listeners(s)
  OBVIOUS
<1>3. /\ Same(s, q) /\ q.ti.pending = s.ti.pending
      /\ \A i \in Listeners(s) :
                /\ q.ti.listeners[i].state =
                     IF i = 1 THEN IF s.ti.listeners[i].grab THEN "IS_OWNER" ELSE "HAS_ACCEPTED"
                     ELSE s.ti.listeners[i].state
                /\ GotBy(q, i).events = IF i = 1 THEN Append(GotBy(s, i).events, "begin")
                                        ELSE GotBy(s, i).events
                /\ GotBy(q, i).updates = GotBy(s, i).updates
                /\ GotBy(q, i).pending = GotBy(s, i).pending
  BY <1>1, <1>2, Beginning
<1>4. q \in Delivery /\ Listeners(q) = Listeners(s) /\ Placed(q, alive)
  BY <1>3, SameKeeps
<1>5. \A i \in {1} : Hears(q, i)
  BY <1>4, HearsWhen
<1>6. s.ti.history \in Nat
  BY ListenersAre DEF Record
<1>7. /\ Same(q, r) /\ r.ti = q.ti
      /\ \A i \in Listeners(s) :
            /\ GotBy(r, i).events = GotBy(q, i).events
            /\ GotBy(r, i).updates = IF i \in {1} THEN GotBy(q, i).updates + s.ti.history
                                     ELSE GotBy(q, i).updates
            /\ GotBy(r, i).pending = GotBy(q, i).pending
  <2>1. PICK h \in Nat : h = s.ti.history
    BY <1>6
  <2>2. PICK I \in SUBSET Listeners(q) : I = {1}
    BY <1>2, <1>4
  <2>3. r = SendUpdates(q, I, h) /\ \A i \in I : Hears(q, i)
    BY <1>1, <1>5, <2>1, <2>2
  <2>4. /\ Same(q, r) /\ r.ti = q.ti
        /\ \A i \in Listeners(q) :
              /\ GotBy(r, i).events = GotBy(q, i).events
              /\ GotBy(r, i).updates = IF i \in I THEN GotBy(q, i).updates + h
                                       ELSE GotBy(q, i).updates
              /\ GotBy(r, i).pending = GotBy(q, i).pending
    BY <1>4, <2>3, SendingUpdates
  <2>5. QED
    BY <1>4, <2>1, <2>2, <2>4
<1>8. \A i \in Listeners(s) :
         GotBy(r, i).updates = IF i = 1 THEN s.ti.history ELSE GotBy(s, i).updates
  BY <1>3, <1>6, <1>7
<1>9. Same(s, r)
  BY <1>3, <1>7, SameTwice
<1>10. QED
  BY <1>3, <1>7, <1>8, <1>9

\* A listener whose turn has come has seen the touch so far, whichever way it waited for it.
LEMMA TakingOver ==
    ASSUME NEW n \in Nat, NEW s, Common(s, alive, n), s.ti.active, s.ti.listeners # <<>>,
           Waiting(s.ti.listeners[1]), NEW r, r = Informed(s)
    PROVE  /\ Same(s, r) /\ Common(r, alive, n) /\ r.ti.pending = s.ti.pending
           /\ r.ti.listeners[1].state =
                IF s.ti.listeners[1].wants \/ s.ti.listeners[1].grab THEN "IS_OWNER"
                ELSE "HAS_ACCEPTED"
<1> DEFINE l == s.ti.listeners[1]
<1>0. s \in Delivery /\ Placed(s, alive) /\ 1 \in Listeners(s) /\ l \in Listener
  BY FirstIs DEF Common
<1>1. Fits(l, GotBy(s, 1), s.ti.pending, n)
  BY <1>0 DEF Common
<1>2. /\ Same(s, r) /\ r.ti.pending = s.ti.pending
      /\ \A i \in Listeners(s) \ {1} :
            /\ r.ti.listeners[i].state = s.ti.listeners[i].state
            /\ GotBy(r, i).events = GotBy(s, i).events
            /\ GotBy(r, i).updates = GotBy(s, i).updates
            /\ GotBy(r, i).pending = GotBy(s, i).pending
      /\ r.ti.listeners[1].state = IF l.wants \/ l.grab THEN "IS_OWNER" ELSE "HAS_ACCEPTED"
      /\ GotBy(r, 1).events = Append(Shown(l), IF l.wants THEN "ownership" ELSE "begin")
      /\ n <= HistorySize - 2 => GotBy(r, 1).updates = n
  <2>1. CASE l.wants
    <3>1. l.state \in {"AWAITING_OWNER", "EARLY_ACCEPT"}
      BY <2>1 DEF Waiting
    <3>2. r = DeliverOwnership(s)
      BY <1>0, <3>1 DEF Informed, InState, Listeners
    <3>3. /\ Same(s, r) /\ r.ti.pending = s.ti.pending
          /\ \A i \in Listeners(s) :
                /\ r.ti.listeners[i].state = IF i = 1 THEN "IS_OWNER"
                                             ELSE s.ti.listeners[i].state
                /\ GotBy(r, i).events = IF i = 1 THEN Append(GotBy(s, i).events, "ownership")
                                        ELSE GotBy(s, i).events
                /\ GotBy(r, i).updates = GotBy(s, i).updates
                /\ GotBy(r, i).pending = GotBy(s, i).pending
      BY <1>0, <3>2, OwnershipIs
    <3>4. GotBy(s, 1).events = Shown(l) /\ (n <= HistorySize - 2 => GotBy(s, 1).updates = n)
      BY <1>1, <3>1 DEF Fits
    <3>5. QED
      BY <1>0, <2>1, <3>3, <3>4
  <2>2. CASE ~l.wants
    <3>1. l.state = "AWAITING_BEGIN"
      BY <2>2 DEF Waiting
    <3>2. r = TouchEventHistoryReplay(s)
      BY <1>0, <3>1 DEF Informed, InState, Listeners
    <3>3. s.ti.kept /\ GotBy(s, 1).updates = 0 /\ GotBy(s, 1).events = Shown(l)
          /\ (n <= HistorySize - 2 => s.ti.history = n)
      BY <1>0, <1>1, <2>2, <3>1, SizeAssumption DEF Fits, Common, Recorded
    <3>4. /\ Same(s, r) /\ r.ti.pending = s.ti.pending
          /\ \A i \in Listeners(s) :
                /\ r.ti.listeners[i].state =
                     IF i = 1 THEN IF s.ti.listeners[i].grab THEN "IS_OWNER" ELSE "HAS_ACCEPTED"
                     ELSE s.ti.listeners[i].state
                /\ GotBy(r, i).events = IF i = 1 THEN Append(GotBy(s, i).events, "begin")
                                        ELSE GotBy(s, i).events
                /\ GotBy(r, i).updates = IF i = 1 THEN s.ti.history ELSE GotBy(s, i).updates
                /\ GotBy(r, i).pending = GotBy(s, i).pending
      BY <1>0, <2>2, <3>2, <3>3, ReplayIs
    <3>5. QED
      BY <1>0, <2>2, <3>3, <3>4
  <2>3. QED
    BY <2>1, <2>2
<1>3. /\ r \in Delivery /\ Listeners(r) = Listeners(s)
      /\ \A i \in Listeners(s) : r.ti.listeners[i] \in Listener /\ s.ti.listeners[i] \in Listener
  BY <1>0, <1>2, ListenersAre, SameKeeps
<1>4. \A i \in Listeners(s) \ {1} : r.ti.listeners[i] = s.ti.listeners[i]
  BY <1>0, <1>2, SameListener
<1>5. Ranked(r)
  <2>1. Owning(r.ti.listeners[1])
    BY <1>2 DEF Owning
  <2>2. QED
    BY <1>3, <1>4, <2>1 DEF Ranked, Common
<1>6. Fits(r.ti.listeners[1], GotBy(r, 1), r.ti.pending, n)
  <2>1. r.ti.listeners[1].wants = l.wants /\ r.ti.listeners[1] \in Listener
    BY <1>0, <1>2, <1>3 DEF Same
  <2>2. r.ti.listeners[1].state \in {"IS_OWNER", "HAS_ACCEPTED"}
    BY <1>2
  <2>3. GotBy(r, 1).events = Shown(r.ti.listeners[1])
    <3>1. Shown(l) = IF l.wants THEN <<"begin">> ELSE <<>>
      BY <1>0, ShownIs DEF Waiting
    <3>2. Shown(r.ti.listeners[1]) = IF l.wants THEN <<"begin", "ownership">> ELSE <<"begin">>
      BY <2>1, <2>2, ShownIs
    <3>3. QED
      BY <1>2, <3>1, <3>2, Words
  <2>4. QED
    BY <1>2, <2>1, <2>2, <2>3 DEF Fits, Waiting
<1>7. ASSUME NEW i \in Listeners(s)
      PROVE  Fits(r.ti.listeners[i], GotBy(r, i), r.ti.pending, n)
  <2>1. CASE i = 1
    BY <1>6, <2>1
  <2>2. CASE i # 1
    <3>1. Fits(s.ti.listeners[i], GotBy(s, i), s.ti.pending, n)
      BY DEF Common
    <3>2. QED
      BY <1>2, <1>4, <2>2, <3>1 DEF Fits
  <2>3. QED
    BY <2>1, <2>2
<1>8. QED
  BY <1>2, <1>5, <1>7, Staying

\* After a step without a new listener
LEMMA SameGrows ==
    ASSUME NEW s \in Delivery, NEW r, Same(s, r)
    PROVE  Grows(s, r) /\ \A c : IsListener(r, c) => IsListener(s, c)
BY SameKeeps DEF Grows, Same

\* The owner accepts: the others are cut off, and if it has had its end the touch is over.
LEMMA AcceptIs ==
    ASSUME NEW n \in Nat, NEW s, Common(s, alive, n), Owned(s), s.ti.active,
           s.ti.listeners # <<>>, NEW r, r = Accept(s)
    PROVE  After(s, r, n)
<1> DEFINE q == DeliverTouchEndEvent(s, 2 .. Len(s.ti.listeners), "accept")
           alone == [q EXCEPT !.ti.listeners = <<Head(@)>>]
           l == s.ti.listeners[1]
<1>0. /\ s \in Delivery /\ Placed(s, alive) /\ Ranked(s) /\ alive \subseteq Clients
      /\ 1 \in Listeners(s) /\ l \in Listener /\ Owning(l)
  BY FirstIs DEF Common, Owned
<1>1. /\ q = DeliverTouchEndEvent(s, 2 .. Len(s.ti.listeners), "accept")
      /\ alone = [q EXCEPT !.ti.listeners = <<Head(q.ti.listeners)>>]
      /\ r = IF l.state = "HAS_END" THEN TouchEndTouch(alone)
             ELSE SetState(alone, [i \in {1} |-> "HAS_ACCEPTED"])
  BY <1>0 DEF Accept, InState, Listeners
<1> HIDE DEF q, alone
<1>2. /\ 2 .. Len(s.ti.listeners) \in SUBSET Listeners(s)
      /\ \A i \in Listeners(s) : i \in 2 .. Len(s.ti.listeners) <=> i # 1
      /\ Cut(2 .. Len(s.ti.listeners), "accept") = 2 .. Len(s.ti.listeners)
  BY <1>0, ListenersAre DEF Cut
<1>3. /\ Same(s, q) /\ q.ti.pending = s.ti.pending
      /\ \A i \in Listeners(s) :
            /\ i = 1 => q.ti.listeners[i].state = s.ti.listeners[i].state
            /\ GotBy(q, i).events =
                  IF i # 1 /\ s.ti.listeners[i].state \notin {"AWAITING_BEGIN", "HAS_END"}
                  THEN Append(GotBy(s, i).events, "end") ELSE GotBy(s, i).events
            /\ GotBy(q, i).updates = GotBy(s, i).updates
            /\ GotBy(q, i).pending = GotBy(s, i).pending
  <2>1. PICK I \in SUBSET Listeners(s) : I = 2 .. Len(s.ti.listeners)
    BY <1>2
  <2>2. q = DeliverTouchEndEvent(s, I, "accept") /\ Cut(I, "accept") = I
        /\ \A i \in Listeners(s) : i \in I <=> i # 1
    BY <1>1, <1>2, <2>1
  <2>3. QED
    BY <1>0, <2>2, CuttingOff
<1>4. /\ q \in Delivery /\ Listeners(q) = Listeners(s)
      /\ q.ti.listeners \in Seq(Listener) /\ q.ti.listeners # <<>>
  BY <1>0, <1>3, SameKeeps, ListenersAre
<1>5. q.ti.listeners[1] = l
  BY <1>0, <1>3, SameListener
<1>6. /\ alone.ti = [q.ti EXCEPT !.listeners = <<l>>] /\ alone.got = q.got
      /\ alone = [ti |-> [q.ti EXCEPT !.listeners = <<l>>], got |-> q.got]
  <2>1. Head(q.ti.listeners) = l
    BY <1>4, <1>5
  <2>2. QED
    BY <1>1, <1>4, <2>1 DEF Delivery
<1>7. /\ alone.ti \in Record /\ alone.ti.listeners = <<l>> /\ alone.ti.pending = s.ti.pending
      /\ alone.ti.active /\ alone.ti.kept = s.ti.kept /\ alone.ti.history = s.ti.history
  <2>1. q.ti \in Record /\ <<l>> \in Seq(Listener)
    BY <1>0, <1>4, ListenersAre
  <2>2. alone.ti \in Record /\ alone.ti.listeners = <<l>> /\ alone.ti.pending = q.ti.pending
        /\ alone.ti.active = q.ti.active /\ alone.ti.kept = q.ti.kept
        /\ alone.ti.history = q.ti.history
    BY <1>6, <2>1 DEF Record
  <2>3. QED
    BY <1>3, <2>2 DEF Same
<1>8. alone \in Delivery /\ Listeners(alone) = {1} /\ Len(alone.ti.listeners) = 1
      /\ alone.ti.listeners[1] = l
  BY <1>4, <1>6, <1>7, ListenersAre DEF Delivery, Listeners
<1>9. \A c \in alive : c # l.client => q.got[c].events \in Whole
  <2>1. SUFFICES ASSUME NEW c \in alive, c # l.client
                 PROVE  q.got[c].events \in Whole
    OBVIOUS
  <2>2. CASE ~IsListener(s, c)
    BY <1>0, <1>3, <2>2 DEF Same, Common
  <2>3. CASE IsListener(s, c)
    <3>1. PICK i \in Listeners(s) : s.ti.listeners[i].client = c
      BY <2>3 DEF IsListener
    <3>2. i # 1 /\ s.ti.listeners[i] \in Listener
      BY <1>0, <2>1, <3>1, ListenersAre
    <3>3. GotBy(s, i).events = Shown(s.ti.listeners[i]) /\ Waiting(s.ti.listeners[i])
      BY <1>0, <3>2 DEF Common, Fits, Ranked
    <3>4. GotBy(q, i).events \in Whole
      BY <1>3, <3>2, <3>3, EndMakesWhole
    <3>5. GotBy(q, i) = q.got[c]
      BY <1>3, <3>1 DEF GotBy, Same
    <3>6. QED
      BY <3>4, <3>5
  <2>4. QED
    BY <2>2, <2>3
<1>10. Grows(s, q)
  BY <1>0, <1>3, SameGrows
<1>11. GotBy(q, 1) = q.got[l.client] /\ Fits(l, q.got[l.client], s.ti.pending, n)
  <2>1. Fits(l, GotBy(s, 1), s.ti.pending, n)
    BY <1>0 DEF Common
  <2>2. GotBy(q, 1) = q.got[l.client]
    BY <1>5 DEF GotBy
  <2>3. QED
    BY <1>0, <1>3, <2>1, <2>2 DEF Fits
<1>12. CASE l.state = "HAS_END"
  <2>1. \A c \in alive : alone.got[c].events \in Whole
    <3>1. q.got[l.client].events \in Whole
      BY <1>0, <1>11, <1>12, EndMakesWhole DEF Fits
    <3>2. QED
      BY <1>6, <1>9, <3>1
  <2>2. /\ Common(r, alive, n) /\ Owned(r) /\ r.ti = NoTouch /\ r.got = alone.got
    BY <1>0, <1>1, <1>8, <1>12, <2>1, Closing
  <2>3. ~r.ti.active /\ \A c : ~IsListener(r, c)
    BY <2>2, EmptyHas DEF NoTouch
  <2>4. QED
    BY <1>6, <1>10, <2>2, <2>3 DEF After, Grows
<1>13. CASE l.state # "HAS_END"
  <2> DEFINE of == [i \in {1} |-> "HAS_ACCEPTED"]
  <2>1. r = SetState(alone, of)
    BY <1>1, <1>13
  <2>2. DOMAIN of = {1} /\ of[1] = "HAS_ACCEPTED" /\ \A i \in DOMAIN of : of[i] \in States
    BY DEF States
  <2> HIDE DEF of
  <2>3. Same(alone, r) /\ r.got = q.got /\ r.ti.pending = s.ti.pending
        /\ r.ti.listeners[1].state = "HAS_ACCEPTED"
    <3>1. /\ Same(alone, r) /\ r.got = alone.got /\ r.ti.pending = alone.ti.pending
          /\ \A i \in Listeners(alone) :
                r.ti.listeners[i].state = IF i \in DOMAIN of THEN of[i]
                                          ELSE alone.ti.listeners[i].state
      BY <1>8, <2>1, <2>2, SettingState
    <3>2. QED
      BY <1>6, <1>7, <1>8, <2>2, <3>1
  <2>4. r \in Delivery /\ Listeners(r) = {1} /\ Len(r.ti.listeners) = 1
        /\ r.ti.listeners[1] \in Listener
    BY <1>8, <2>3, SameKeeps, ListenersAre DEF Same
  <2>5. /\ r.ti.listeners[1].client = l.client /\ r.ti.listeners[1].wants = l.wants
        /\ r.ti.active /\ r.ti.kept = s.ti.kept /\ r.ti.history = s.ti.history
    BY <1>7, <1>8, <2>3 DEF Same
  <2>6. ~s.ti.pending
    BY <1>13 DEF Owned
  <2>7. GotBy(r, 1) = q.got[l.client]
    BY <2>3, <2>5 DEF GotBy
  <2>8. Owning(r.ti.listeners[1]) /\ ~Waiting(r.ti.listeners[1])
    BY <2>3 DEF Owning, Waiting
  <2>9. Shown(r.ti.listeners[1]) = Shown(l)
    BY <1>0, <1>13, <2>3, <2>4, <2>5, ShownIs DEF Owning
  <2>10. Fits(r.ti.listeners[1], GotBy(r, 1), r.ti.pending, n)
    <3>1. r.ti.listeners[1].state # "AWAITING_BEGIN" /\ l.state # "AWAITING_BEGIN"
      BY <1>0, <2>3 DEF Owning
    <3>2. q.got[l.client].events = Shown(l)
          /\ (n <= HistorySize - 2 => q.got[l.client].updates = n)
      BY <1>11, <3>1 DEF Fits
    <3>3. QED
      BY <2>7, <2>8, <2>9, <3>1, <3>2 DEF Fits
  <2>11. Placed(r, alive)
    BY <1>0, <2>4, <2>5 DEF Placed
  <2>12. Recorded(r, n)
    BY <1>0, <2>4, <2>5 DEF Recorded, Common
  <2>13. \A c : IsListener(r, c) <=> c = l.client
    BY <2>4, <2>5 DEF IsListener
  <2>14. Common(r, alive, n)
    BY <1>0, <1>9, <2>3, <2>4, <2>5, <2>8, <2>10, <2>11, <2>12, <2>13 DEF Common, Ranked
  <2>15. Owned(r)
    BY <2>3, <2>6, <2>8 DEF Owned
  <2>16. \A c : IsListener(r, c) => IsListener(s, c)
    BY <1>0, <2>13 DEF IsListener
  <2>17. QED
    BY <1>10, <2>3, <2>14, <2>15, <2>16 DEF After, Grows
<1>14. QED
  BY <1>12, <1>13

-----------------------------------------------------------------------------
\* Rejecting

\* Grows is transitive, and so is After, from a step without a new listener.
LEMMA GrowsOn ==
    ASSUME NEW s \in Delivery, NEW r \in Delivery, NEW q \in Delivery, Grows(s, r), Grows(r, q)
    PROVE  Grows(s, q)
BY ContinuesOn, ListenersAre DEF Grows

LEMMA AfterTwice ==
    ASSUME NEW n \in Nat, NEW s \in Delivery, NEW r \in Delivery, NEW q,
           Grows(s, r), \A c : IsListener(r, c) => IsListener(s, c),
           r.ti.pending = s.ti.pending, After(r, q, n)
    PROVE  After(s, q, n)
<1>1. q \in Delivery
  BY DEF After, Common
<1>2. QED
  BY <1>1, GrowsOn DEF After

\* The touch passes to its next owner, whose finger may be gone and whose acceptance may
\* have come already.
LEMMA PuntIs ==
    ASSUME NEW n \in Nat, NEW s, Common(s, alive, n), s.ti.active, s.ti.listeners # <<>>,
           Waiting(s.ti.listeners[1]), NEW r, r = TouchPuntToNextOwner(s)
    PROVE  After(s, r, n)
<1> DEFINE t == Informed(s)
           e == DeliverEndToAll(t)
           early == 1 \in InState(s, {"EARLY_ACCEPT"}) /\ 1 \in Grabs(s)
           last == Len(s.ti.listeners) = 1 /\ Grabs(s) = {}
<1>0. s \in Delivery /\ 1 \in Listeners(s)
  BY FirstIs DEF Common
<1>1. r = IF s.ti.pending /\ last THEN TouchEndTouch(IF s.ti.pending THEN e ELSE t)
          ELSE IF early THEN Accept(IF s.ti.pending THEN e ELSE t)
          ELSE IF s.ti.pending THEN e ELSE t
  BY DEF TouchPuntToNextOwner, Informed
<1>2. t = Informed(s) /\ e = DeliverEndToAll(t)
  OBVIOUS
<1> HIDE DEF t, e, early
<1>3. /\ Same(s, t) /\ Common(t, alive, n) /\ t.ti.pending = s.ti.pending
      /\ t.ti.listeners[1].state =
            IF s.ti.listeners[1].wants \/ s.ti.listeners[1].grab THEN "IS_OWNER"
            ELSE "HAS_ACCEPTED"
  BY <1>2, TakingOver
<1>4. /\ t \in Delivery /\ Listeners(t) = Listeners(s) /\ Grabs(t) = Grabs(s)
      /\ Len(t.ti.listeners) = Len(s.ti.listeners) /\ t.ti.active /\ t.ti.listeners # <<>>
  <2>1. t \in Delivery /\ Listeners(t) = Listeners(s) /\ Grabs(t) = Grabs(s)
    BY <1>0, <1>3, SameKeeps
  <2>2. Len(t.ti.listeners) = Len(s.ti.listeners) /\ t.ti.active
    BY <1>3 DEF Same
  <2>3. QED
    BY <1>0, <2>1, <2>2, EmptyHas
<1>5. Owning(t.ti.listeners[1])
  BY <1>3 DEF Owning
<1>6. Grows(s, t) /\ \A c : IsListener(t, c) => IsListener(s, c)
  BY <1>0, <1>3, SameGrows
<1>7. CASE ~s.ti.pending
  <2>1. Owned(t)
    BY <1>3, <1>5, <1>7 DEF Owned
  <2>2. CASE early
    <3>1. r = Accept(t)
      BY <1>1, <1>7, <2>2
    <3>2. After(t, r, n)
      BY <1>3, <1>4, <2>1, <3>1, AcceptIs
    <3>3. QED
      BY <1>0, <1>3, <1>4, <1>6, <3>2, AfterTwice
  <2>3. CASE ~early
    BY <1>1, <1>3, <1>6, <1>7, <2>1, <2>3 DEF After
  <2>4. QED
    BY <2>2, <2>3
<1>8. CASE s.ti.pending /\ last
  <2>1. r = TouchEndTouch(DeliverEndToAll(t))
    BY <1>1, <1>2, <1>8
  <2>2. ~LivesOn(t)
    BY <1>4, <1>8 DEF LivesOn
  <2>3. Common(r, alive, n) /\ Owned(r) /\ Grows(t, r) /\ r.ti = NoTouch
        /\ \A c : ~IsListener(r, c)
    BY <1>3, <1>5, <2>1, <2>2, EndingTouch
  <2>4. After(t, r, n)
    BY <2>3 DEF After, NoTouch
  <2>5. QED
    BY <1>0, <1>3, <1>4, <1>6, <2>4, AfterTwice
<1>9. CASE s.ti.pending /\ ~last
  <2>1. LivesOn(t)
    <3>1. t.ti.listeners[1].state # "AWAITING_BEGIN"
      BY <1>3
    <3>2. PICK m \in Nat : m = Len(s.ti.listeners)
      BY <1>0, ListenersAre
    <3>3. Listeners(s) = 1 .. m
      BY <1>0, <3>2, ListenersAre
    <3>4. m = 1 \/ m > 1
      BY <1>0, <3>3
    <3>5. CASE m > 1
      <4>1. Len(t.ti.listeners) > 1
        BY <1>4, <3>2, <3>5
      <4>2. QED
        BY <1>4, <3>1, <4>1 DEF LivesOn, InState
    <3>6. CASE m = 1
      <4>1. Grabs(s) # {}
        BY <1>9, <3>2, <3>6
      <4>2. Listeners(s) = {1}
        BY <3>6, <3>3
      <4>3. s.ti.listeners[1].grab
        BY <4>1, <4>2 DEF Grabs, Listeners
      <4>4. QED
        BY <1>3, <1>4, <3>1, <4>1, <4>3 DEF LivesOn, InState
    <3>7. QED
      BY <3>4, <3>5, <3>6
  <2>2. Same(t, e) /\ Common(e, alive, n) /\ Owned(e) /\ e.ti.pending
    BY <1>2, <1>3, <1>4, <1>5, <2>1, EndingOwner
  <2>3. e \in Delivery /\ e.ti.active /\ e.ti.listeners # <<>>
    BY <1>4, <2>2, SameKeeps DEF Same, Owned
  <2>4. Grows(s, e) /\ \A c : IsListener(e, c) => IsListener(s, c)
    BY <1>0, <1>4, <1>6, <2>2, <2>3, SameGrows, GrowsOn
  <2>5. e.ti.pending = s.ti.pending
    <3>1. s.ti.pending \in BOOLEAN /\ e.ti.pending \in BOOLEAN
      BY <1>0, <2>3, ListenersAre DEF Record
    <3>2. QED
      BY <1>9, <2>2, <3>1
  <2>6. CASE early
    <3>1. r = Accept(e)
      BY <1>1, <1>9, <2>6
    <3>2. After(e, r, n)
      BY <2>2, <2>3, <3>1, AcceptIs
    <3>3. QED
      BY <1>0, <2>3, <2>4, <2>5, <3>2, AfterTwice
  <2>7. CASE ~early
    BY <1>1, <1>9, <2>2, <2>4, <2>5, <2>7 DEF After
  <2>8. QED
    BY <2>6, <2>7
<1>10. QED
  BY <1>7, <1>8, <1>9

\* The effect of RemoveAt
LEMMA RemoveIs ==
    ASSUME NEW S, NEW list \in Seq(S), NEW p \in 1 .. Len(list)
    PROVE  /\ RemoveAt(list, p) \in Seq(S)
           /\ Len(RemoveAt(list, p)) = Len(list) - 1
           /\ \A k \in 1 .. Len(list) - 1 :
                RemoveAt(list, p)[k] = IF k < p THEN list[k] ELSE list[k + 1]
<1> DEFINE left == SubSeq(list, 1, p - 1)
           right == SubSeq(list, p + 1, Len(list))
<1>0. Len(list) \in Nat /\ p \in Int /\ \A i \in 1 .. Len(list) : list[i] \in S
  OBVIOUS
<1>1. left \in Seq(S) /\ Len(left) = p - 1 /\ \A i \in 1 .. p - 1 : left[i] = list[i]
  <2>1. \A i \in 1 .. p - 1 : list[i] \in S /\ 1 + i - 1 = i
    BY <1>0
  <2>2. QED
    BY <1>0, <2>1, SubSeqProperties
<1>2. right \in Seq(S) /\ Len(right) = Len(list) - p
      /\ \A i \in 1 .. Len(list) - p : right[i] = list[i + p]
  <2>1. \A i \in p + 1 .. Len(list) : list[i] \in S
    BY <1>0
  <2>2. /\ right \in Seq(S)
        /\ Len(right) = IF p + 1 <= Len(list) THEN Len(list) - (p + 1) + 1 ELSE 0
        /\ \A i \in 1 .. Len(list) - (p + 1) + 1 : right[i] = list[p + 1 + i - 1]
    BY <1>0, <2>1, SubSeqProperties
  <2> HIDE DEF right
  <2>3. QED
    BY <1>0, <2>2
<1>3. RemoveAt(list, p) = left \o right
  BY DEF RemoveAt
<1> HIDE DEF left, right
<1>4. /\ left \o right \in Seq(S) /\ Len(left \o right) = Len(left) + Len(right)
      /\ \A i \in 1 .. Len(left) + Len(right) :
            (left \o right)[i] = IF i <= Len(left) THEN left[i] ELSE right[i - Len(left)]
  BY <1>1, <1>2, ConcatProperties
<1> DEFINE new == left \o right
<1> HIDE DEF new
<1>5. \A k \in 1 .. Len(list) - 1 : new[k] = IF k < p THEN list[k] ELSE list[k + 1]
  <2>1. TAKE k \in 1 .. Len(list) - 1
  <2>2. CASE k < p
    <3>1. k \in 1 .. Len(left) + Len(right) /\ k <= Len(left) /\ k \in 1 .. p - 1
      BY <1>0, <1>1, <1>2, <2>1, <2>2
    <3>2. QED
      BY <1>1, <1>4, <2>2, <3>1 DEF new
  <2>3. CASE ~(k < p)
    <3> DEFINE i == k - (p - 1)
    <3>1. k \in 1 .. Len(left) + Len(right) /\ ~(k <= Len(left)) /\ i \in 1 .. Len(list) - p
          /\ i + p = k + 1 /\ k - Len(left) = i
      BY <1>0, <1>1, <1>2, <2>1, <2>3
    <3> HIDE DEF i
    <3>2. new[k] = right[i] /\ right[i] = list[i + p]
      BY <1>2, <1>4, <3>1 DEF new
    <3>3. QED
      BY <2>3, <3>1, <3>2
  <2>4. QED
    BY <2>2, <2>3
<1>6. QED
  BY <1>0, <1>1, <1>2, <1>3, <1>4, <1>5 DEF new


\* The listener at p has seen a whole touch, or nothing; the others are as they should be.
Removable(s, p, n) ==
    /\ s \in Delivery /\ alive \subseteq Clients
    /\ Placed(s, alive) /\ Recorded(s, n) /\ s.ti.active
    /\ \A c \in alive : ~IsListener(s, c) => s.got[c].events \in Whole
    /\ p \in Listeners(s) /\ GotBy(s, p).events \in Whole
    /\ \A i \in Listeners(s) \ {p} :
          /\ Waiting(s.ti.listeners[i]) \/ (i = 1 /\ Owning(s.ti.listeners[i]))
          /\ Fits(s.ti.listeners[i], GotBy(s, i), s.ti.pending, n)

\* It is taken off the list; it may be the next listener's turn then.
Removed(s, p, r, n) ==
    /\ Common(r, alive, n) /\ r.got = s.got /\ r.ti.pending = s.ti.pending /\ r.ti.active
    /\ \A c : IsListener(r, c) => IsListener(s, c) /\ c # s.ti.listeners[p].client
    /\ p = 1 /\ r.ti.listeners # <<>> => Waiting(r.ti.listeners[1])
    /\ p > 1 => r.ti.listeners # <<>> /\ r.ti.listeners[1] = s.ti.listeners[1]

\* The effect of TouchRemoveListener
LEMMA Removing ==
    ASSUME NEW n \in Nat, NEW s, NEW p, Removable(s, p, n),
           NEW r, r = TouchRemoveListener(s, p)
    PROVE  Removed(s, p, r, n)
<1> DEFINE L == s.ti.listeners
           M == RemoveAt(L, p)
           At(k) == IF k < p THEN k ELSE k + 1
<1> USE DEF Removable
<1>0. /\ L \in Seq(Listener) /\ Len(L) \in Nat /\ Listeners(s) = 1 .. Len(L)
      /\ p \in 1 .. Len(L)
  BY ListenersAre
<1>1. /\ M \in Seq(Listener) /\ Len(M) = Len(L) - 1
      /\ \A k \in 1 .. Len(L) - 1 : M[k] = IF k < p THEN L[k] ELSE L[k + 1]
  BY <1>0, RemoveIs
<1>2. r = [s EXCEPT !.ti.listeners = M]
  BY DEF TouchRemoveListener
<1> HIDE DEF M
<1>3. /\ r.ti = [s.ti EXCEPT !.listeners = M] /\ r.got = s.got
      /\ r = [ti |-> [s.ti EXCEPT !.listeners = M], got |-> s.got]
  BY <1>2 DEF Delivery
<1>4. /\ r.ti \in Record /\ r.ti.listeners = M /\ r.ti.pending = s.ti.pending
      /\ r.ti.active = s.ti.active /\ r.ti.kept = s.ti.kept /\ r.ti.history = s.ti.history
  <2>1. s.ti \in Record
    BY ListenersAre
  <2>2. QED
    BY <1>1, <1>3, <2>1 DEF Record
<1>5. r \in Delivery
  BY <1>3, <1>4, ListenersAre DEF Delivery
<1>6. Listeners(r) = 1 .. Len(L) - 1
  BY <1>0, <1>1, <1>4, <1>5, ListenersAre
<1>7. \A k \in Listeners(r) :
        /\ At(k) \in Listeners(s) \ {p} /\ r.ti.listeners[k] = L[At(k)]
        /\ p > 1 /\ k = 1 => At(k) = 1
        /\ At(k) = 1 => k = 1
  <2>1. TAKE k \in Listeners(r)
  <2>2. k \in 1 .. Len(L) - 1 /\ M[k] = L[At(k)]
    BY <1>1, <1>6
  <2>3. At(k) \in 1 .. Len(L) /\ At(k) # p /\ (p > 1 /\ k = 1 => At(k) = 1)
        /\ (At(k) = 1 => k = 1)
    BY <1>0, <2>2
  <2>4. QED
    BY <1>0, <1>4, <2>2, <2>3
<1>8. \A j, k \in Listeners(r) : At(j) = At(k) => j = k
  BY <1>0, <1>6
<1>9. \A k \in Listeners(r) : At(k) = Len(L) => k = Len(L) - 1
  BY <1>0, <1>6
<1> HIDE DEF At
<1>10. Placed(r, alive)
  <2>1. \A j, k \in Listeners(r) :
           r.ti.listeners[j].client = r.ti.listeners[k].client => j = k
    BY <1>7, <1>8 DEF Placed
  <2>2. \A k \in Listeners(r) : r.ti.listeners[k].client \in alive
    BY <1>7 DEF Placed
  <2>3. \A k \in Listeners(r) : L[At(k)].grab \/ At(k) = Len(L)
    BY <1>7 DEF Placed
  <2>4. \A k \in Listeners(r) : r.ti.listeners[k].grab \/ k = Len(r.ti.listeners)
    BY <1>1, <1>4, <1>7, <1>9, <2>3
  <2>5. QED
    BY <2>1, <2>2, <2>4 DEF Placed
<1>11. \A k \in Listeners(r) : GotBy(r, k) = GotBy(s, At(k))
  BY <1>3, <1>7 DEF GotBy
<1>12. Ranked(r)
  BY <1>7 DEF Ranked
<1>13. \A k \in Listeners(r) : Fits(r.ti.listeners[k], GotBy(r, k), r.ti.pending, n)
  BY <1>4, <1>7, <1>11
<1>14. Recorded(r, n)
  BY <1>4, <1>7 DEF Recorded
<1>15. ASSUME NEW c, IsListener(r, c)
       PROVE  IsListener(s, c) /\ c # L[p].client
  BY <1>7, <1>15 DEF IsListener, Placed
<1>16. ASSUME NEW c, IsListener(s, c), c # L[p].client
       PROVE  IsListener(r, c)
  <2>1. PICK i \in 1 .. Len(L) : L[i].client = c /\ i # p
    BY <1>0, <1>16 DEF IsListener
  <2>2. PICK k \in 1 .. Len(L) - 1 : i = IF k < p THEN k ELSE k + 1
    <3>1. CASE i < p
      BY <1>0, <3>1
    <3>2. CASE i > p
      <4>1. i - 1 \in 1 .. Len(L) - 1 /\ ~(i - 1 < p) /\ i = (i - 1) + 1
        BY <1>0, <3>2
      <4>2. QED
        BY <4>1
    <3>3. QED
      BY <1>0, <2>1, <3>1, <3>2
  <2>3. r.ti.listeners[k] = L[i] /\ k \in Listeners(r)
    BY <1>1, <1>4, <1>6, <2>2
  <2>4. QED
    BY <2>1, <2>3 DEF IsListener
<1>17. \A c \in alive : ~IsListener(r, c) => r.got[c].events \in Whole
  BY <1>3, <1>16 DEF GotBy
<1>18. Common(r, alive, n)
  BY <1>4, <1>5, <1>10, <1>12, <1>13, <1>14, <1>17 DEF Common
<1>19. p = 1 /\ r.ti.listeners # <<>> => Waiting(r.ti.listeners[1])
  <2>1. SUFFICES ASSUME p = 1, r.ti.listeners # <<>>
                 PROVE  Waiting(r.ti.listeners[1])
    OBVIOUS
  <2>2. 1 \in Listeners(r)
    BY <1>5, <2>1, FirstIs
  <2>3. QED
    BY <1>7, <2>1, <2>2
<1>20. p > 1 => r.ti.listeners # <<>> /\ r.ti.listeners[1] = s.ti.listeners[1]
  <2>1. SUFFICES ASSUME p > 1
                 PROVE  r.ti.listeners # <<>> /\ r.ti.listeners[1] = s.ti.listeners[1]
    OBVIOUS
  <2>2. 1 \in Listeners(r)
    BY <1>0, <1>6, <2>1
  <2>3. At(1) = 1
    BY <1>7, <2>1, <2>2
  <2>4. QED
    BY <1>7, <2>2, <2>3, EmptyHas
<1>21. QED
  BY <1>3, <1>4, <1>15, <1>18, <1>19, <1>20 DEF Removed

\* A listener rejects the touch or goes away, the owner or another.
LEMMA RejectedIs ==
    ASSUME NEW n \in Nat, NEW s, Common(s, alive, n), Owned(s), s.ti.active,
           NEW p \in Listeners(s), NEW announce \in BOOLEAN, p = 1 => announce,
           NEW r, r = TouchRejected(s, p, announce)
    PROVE  After(s, r, n) /\ ~IsListener(r, s.ti.listeners[p].client)
<1> DEFINE e == DeliverTouchEndEvent(s, {p}, "reject")
           m == TouchRemoveListener(e, p)
           L == s.ti.listeners
<1>0. /\ s \in Delivery /\ Placed(s, alive) /\ Ranked(s) /\ alive \subseteq Clients
      /\ L[p] \in Listener
  BY ListenersAre DEF Common
<1>1. /\ e = DeliverTouchEndEvent(s, {p}, "reject") /\ m = TouchRemoveListener(e, p)
      /\ r = IF m.ti.listeners = <<>> THEN TouchEndTouch(m)
             ELSE IF announce /\ p = 1 THEN TouchPuntToNextOwner(m) ELSE m
  BY DEF TouchRejected
<1> HIDE DEF e, m
<1>2. /\ Same(s, e) /\ e.ti.pending = s.ti.pending
      /\ \A i \in Listeners(s) :
            /\ i # p => e.ti.listeners[i].state = L[i].state
            /\ GotBy(e, i).events =
                  IF i = p /\ L[i].state \notin {"AWAITING_BEGIN", "HAS_END"}
                  THEN Append(GotBy(s, i).events, "end") ELSE GotBy(s, i).events
            /\ GotBy(e, i).updates = GotBy(s, i).updates
            /\ GotBy(e, i).pending = GotBy(s, i).pending
  <2>1. PICK I \in SUBSET Listeners(s) : I = {p}
    OBVIOUS
  <2>2. e = DeliverTouchEndEvent(s, I, "reject")
        /\ \A i : (i \in Cut(I, "reject") <=> i = p) /\ (i \in I <=> i = p)
    BY <1>1, <2>1 DEF Cut
  <2>3. QED
    BY <1>0, <2>2, CuttingOff
<1>3. /\ e \in Delivery /\ Listeners(e) = Listeners(s) /\ Placed(e, alive)
      /\ \A c : IsListener(e, c) <=> IsListener(s, c)
  BY <1>0, <1>2, SameKeeps
<1>4. e.ti.active /\ Recorded(e, n)
  BY <1>2, <1>3 DEF Recorded, Same, Common
<1>5. \A c \in alive : ~IsListener(e, c) => e.got[c].events \in Whole
  BY <1>2, <1>3 DEF Same, Common
<1>6. GotBy(e, p).events \in Whole
  <2>1. GotBy(s, p).events = Shown(L[p]) /\ (Waiting(L[p]) \/ Owning(L[p]))
    BY DEF Common, Fits, Ranked
  <2>2. QED
    BY <1>0, <1>2, <2>1, EndMakesWhole
<1>7. \A i \in Listeners(e) \ {p} : e.ti.listeners[i] = L[i]
  BY <1>0, <1>2, <1>3, SameListener
<1>8. Removable(e, p, n)
  <2>1. ASSUME NEW i \in Listeners(e) \ {p}
        PROVE  /\ Waiting(e.ti.listeners[i]) \/ (i = 1 /\ Owning(e.ti.listeners[i]))
               /\ Fits(e.ti.listeners[i], GotBy(e, i), e.ti.pending, n)
    <3>1. Fits(L[i], GotBy(s, i), s.ti.pending, n)
      BY <1>3 DEF Common
    <3>2. Fits(e.ti.listeners[i], GotBy(e, i), e.ti.pending, n)
      BY <1>2, <1>3, <1>7, <3>1 DEF Fits
    <3>3. QED
      BY <1>0, <1>3, <1>7, <3>2 DEF Ranked
  <2>2. QED
    BY <1>0, <1>3, <1>4, <1>5, <1>6, <2>1 DEF Removable
<1>9. /\ Common(m, alive, n) /\ m.got = e.got /\ m.ti.pending = e.ti.pending /\ m.ti.active
      /\ \A c : IsListener(m, c) => IsListener(e, c) /\ c # e.ti.listeners[p].client
      /\ p = 1 /\ m.ti.listeners # <<>> => Waiting(m.ti.listeners[1])
      /\ p > 1 => m.ti.listeners # <<>> /\ m.ti.listeners[1] = e.ti.listeners[1]
  <2>1. Removed(e, p, m, n)
    BY <1>1, <1>8, Removing
  <2>2. QED
    BY <2>1 DEF Removed
<1>10. /\ m \in Delivery /\ m.ti.pending = s.ti.pending /\ Grows(s, m)
       /\ \A c : IsListener(m, c) => IsListener(s, c) /\ c # L[p].client
  <2>1. e.ti.listeners[p].client = L[p].client
    BY <1>2 DEF Same
  <2>2. Grows(s, e)
    BY <1>0, <1>2, SameGrows
  <2>3. QED
    BY <1>2, <1>3, <1>9, <2>1, <2>2 DEF Common, Grows
<1>11. After(m, r, n)
  <2>1. CASE m.ti.listeners = <<>>
    <3>1. r = TouchEndTouch(m)
      BY <1>1, <2>1
    <3>2. \A c \in alive : m.got[c].events \in Whole
      BY <1>9, <2>1, EmptyHas DEF Common
    <3>3. Common(r, alive, n) /\ Owned(r) /\ r.ti = NoTouch /\ r.got = m.got
      BY <1>0, <1>10, <3>1, <3>2, Closing
    <3>4. ~r.ti.active /\ \A c : ~IsListener(r, c)
      BY <3>3, EmptyHas DEF NoTouch
    <3>5. Grows(m, r)
      BY <1>10, <3>3, AppendIs, ListenersAre DEF Grows, Continues
    <3>6. QED
      BY <3>3, <3>4, <3>5 DEF After
  <2>2. CASE m.ti.listeners # <<>> /\ p = 1
    <3>1. r = TouchPuntToNextOwner(m) /\ Waiting(m.ti.listeners[1])
      BY <1>1, <1>9, <2>2
    <3>2. QED
      BY <1>9, <2>2, <3>1, PuntIs
  <2>3. CASE m.ti.listeners # <<>> /\ p # 1
    <3>1. r = m /\ p > 1 /\ 1 \in Listeners(s)
      BY <1>0, <1>1, <2>3, ListenersAre
    <3>2. m.ti.listeners[1] = L[1] /\ L # <<>>
      BY <1>3, <1>7, <1>9, <3>1, EmptyHas
    <3>3. Owned(m)
      BY <1>10, <2>3, <3>2 DEF Owned
    <3>4. Grows(m, m)
      BY <1>10, ListenersAre DEF Grows, Continues
    <3>5. QED
      BY <1>9, <3>1, <3>3, <3>4 DEF After
  <2>4. QED
    BY <2>1, <2>2, <2>3
<1>12. After(s, r, n)
  BY <1>0, <1>10, <1>11, AfterTwice
<1>13. QED
  BY <1>10, <1>11, <1>12 DEF After

\* An early acceptance is only noted.
LEMMA NotingIs ==
    ASSUME NEW n \in Nat, NEW s, Common(s, alive, n), Owned(s), s.ti.active,
           NEW p \in Listeners(s), p > 1, GotBy(s, p).events # <<>>,
           NEW r, r = SetState(s, [j \in {p} |-> "EARLY_ACCEPT"])
    PROVE  After(s, r, n)
<1> DEFINE of == [j \in {p} |-> "EARLY_ACCEPT"]
           L == s.ti.listeners
<1>0. s \in Delivery /\ L[p] \in Listener /\ 1 \in Listeners(s) /\ L # <<>>
  <2>1. s \in Delivery
    BY DEF Common
  <2>2. QED
    BY <2>1, ListenersAre, EmptyHas
<1>1. r = SetState(s, of) /\ DOMAIN of = {p} /\ of[p] = "EARLY_ACCEPT"
      /\ \A i \in DOMAIN of : of[i] \in States
  BY DEF States
<1> HIDE DEF of
<1>2. /\ Same(s, r) /\ r.got = s.got /\ r.ti.pending = s.ti.pending
      /\ \A i \in Listeners(s) :
            r.ti.listeners[i].state = IF i = p THEN "EARLY_ACCEPT" ELSE L[i].state
  BY <1>0, <1>1, SettingState
<1>3. \A i \in Listeners(s) : GotBy(r, i) = GotBy(s, i) /\ (i # p => r.ti.listeners[i] = L[i])
  <2>1. \A i \in Listeners(s) : GotBy(r, i) = GotBy(s, i)
    BY <1>2 DEF GotBy, Same
  <2>2. \A i \in Listeners(s) : i # p => r.ti.listeners[i] = L[i]
    BY <1>0, <1>2, SameListener
  <2>3. QED
    BY <2>1, <2>2
<1>4. Fits(L[p], GotBy(s, p), s.ti.pending, n) /\ Waiting(L[p])
  BY DEF Common, Ranked
<1>5. L[p].wants /\ L[p].state \in {"AWAITING_OWNER", "EARLY_ACCEPT"}
  BY <1>0, <1>4, ShownIs DEF Fits, Waiting
<1>6. r.ti.listeners[p] \in Listener /\ r.ti.listeners[p].wants
  BY <1>0, <1>2, <1>5, SameKeeps, ListenersAre DEF Same
<1>7. Fits(r.ti.listeners[p], GotBy(r, p), r.ti.pending, n) /\ Waiting(r.ti.listeners[p])
  <2>1. Waiting(r.ti.listeners[p])
    BY <1>2, <1>6 DEF Waiting
  <2>2. Shown(r.ti.listeners[p]) = Shown(L[p])
    BY <1>0, <1>2, <1>5, <1>6, ShownIs
  <2>3. QED
    BY <1>2, <1>3, <1>4, <1>5, <2>1, <2>2 DEF Fits
<1>8. \A i \in Listeners(s) : Fits(r.ti.listeners[i], GotBy(r, i), r.ti.pending, n)
  BY <1>2, <1>3, <1>7 DEF Common
<1>9. r \in Delivery /\ Listeners(r) = Listeners(s)
  BY <1>0, <1>2, SameKeeps
<1>10. Ranked(r)
  BY <1>3, <1>7, <1>9 DEF Ranked, Common
<1>11. Common(r, alive, n)
  BY <1>2, <1>8, <1>10, Staying
<1>12. r.ti.listeners[1] = L[1]
  BY <1>0, <1>3
<1>13. Owned(r)
  BY <1>0, <1>2, <1>9, <1>12, EmptyHas DEF Owned
<1>14. QED
  <2>1. Grows(s, r) /\ \A c : IsListener(r, c) => IsListener(s, c)
    BY <1>0, <1>2, SameGrows
  <2>2. QED
    BY <1>2, <1>11, <1>13, <2>1 DEF After

-----------------------------------------------------------------------------
\* The invariant of the specification

\* The inductive invariant: the two parts for the current state, and pending_finish says that
\* the finger is gone
DeliveryInv ==
    /\ Common(Now, alive, updates) /\ Owned(Now)
    /\ ti.active => (ti.pending <=> ~down)
    /\ down \in BOOLEAN /\ updates \in 0 .. MaxUpdates /\ touches \in 0 .. MaxTouches

\* No client is ever sent less.
NothingTakenBack == \A c \in Clients : Continues(got[c].events, got'[c].events)

\* The state a step becomes
LEMMA LaterIs ==
    ASSUME NEW s \in Delivery, Become(s)
    PROVE  Now' = s
<1>1. s = [ti |-> s.ti, got |-> s.got]
  BY DEF Delivery
<1>2. QED
  BY <1>1 DEF Become, Now

LEMMA Becoming ==
    ASSUME NEW s, Become(s), Common(s, alive', updates'), Owned(s),
           s.ti.active => (s.ti.pending <=> ~down'),
           down' \in BOOLEAN, updates' \in 0 .. MaxUpdates, touches' \in 0 .. MaxTouches
    PROVE  DeliveryInv'
<1>1. s \in Delivery
  BY DEF Common
<1>2. Now' = s
  BY <1>1, LaterIs
<1>3. Common(Now, alive, updates)' /\ Owned(Now)'
  <2>1. Common(Now', alive', updates') /\ Owned(Now')
    BY <1>2
  <2>2. QED
    BY <2>1
<1>4. ti'.active => (ti'.pending <=> ~down')
  BY DEF Become
<1>5. QED
  BY <1>3, <1>4 DEF DeliveryInv

\* The types of the current state
LEMMA NowHas ==
    ASSUME DeliveryInv
    PROVE  /\ Now \in Delivery /\ Now.ti = ti /\ Now.got = got
           /\ updates \in Nat /\ alive \subseteq Clients
<1>1. Now \in Delivery /\ alive \subseteq Clients
  BY DEF DeliveryInv, Common
<1>2. updates \in Nat
  BY TouchBoundsAssumption DEF DeliveryInv
<1>3. QED
  BY <1>1, <1>2 DEF Now

\* The listeners of a trace
LEMMA TracesAre ==
    ASSUME NEW ls \in Traces
    PROVE  /\ ls \in Seq(Listener) /\ DOMAIN ls = 1 .. Len(ls)
           /\ \A i \in DOMAIN ls : ls[i].state = "AWAITING_BEGIN"
           /\ \A i, j \in DOMAIN ls : ls[i].client = ls[j].client => i = j
           /\ \A i \in DOMAIN ls : ls[i].grab \/ i = Len(ls)
<1> DEFINE L == [client : Clients, grab : BOOLEAN, wants : BOOLEAN,
                 state : {"AWAITING_BEGIN"}]
           top == Cardinality(Clients)
<1>1. /\ ls \in SeqOf(L, top)
      /\ \A i, j \in DOMAIN ls : ls[i].client = ls[j].client => i = j
      /\ \A i \in DOMAIN ls : ls[i].grab \/ i = Len(ls)
  BY DEF Traces
<1>2. \A l \in L : l \in Listener /\ l.state = "AWAITING_BEGIN"
  BY DEF Listener, States
<1> HIDE DEF L, top
<1>3. PICK m \in 0 .. top : ls \in [1 .. m -> L]
  BY <1>1 DEF SeqOf
<1>4. m \in Nat
  OBVIOUS
<1>5. ls \in Seq(L)
  BY <1>3, <1>4
<1>6. DOMAIN ls = 1 .. Len(ls) /\ \A i \in DOMAIN ls : ls[i] \in L
  BY <1>5
<1>7. ls \in Seq(Listener)
  <2>1. Len(ls) \in Nat /\ ls \in [1 .. Len(ls) -> Listener]
    BY <1>2, <1>5, <1>6
  <2>2. QED
    BY <2>1
<1>8. QED
  BY <1>1, <1>2, <1>6, <1>7

\* The listeners of a new touch: the first owns it, the others wait.
LEMMA BeginningAll ==
    ASSUME NEW ls \in Traces, \A i \in DOMAIN ls : ls[i].client \in alive,
           alive \subseteq Clients, NEW s, NEW r,
           s = [ti |-> TouchSetupListeners(ls), got |-> [c \in Clients |-> Nothing]],
           r = DeliverTouchBeginEvent(s, DOMAIN ls)
    PROVE  /\ Common(r, alive, 0) /\ Owned(r)
           /\ r.ti.active /\ ~r.ti.pending
<1>1. /\ ls \in Seq(Listener) /\ DOMAIN ls = 1 .. Len(ls)
      /\ \A i \in DOMAIN ls : ls[i].state = "AWAITING_BEGIN"
      /\ \A i, j \in DOMAIN ls : ls[i].client = ls[j].client => i = j
      /\ \A i \in DOMAIN ls : ls[i].grab \/ i = Len(ls)
  BY TracesAre
<1>2. PICK kept \in BOOLEAN : kept <=> \E i \in DOMAIN ls : ~ls[i].wants
  OBVIOUS
<1>3. s.ti = [active |-> TRUE, listeners |-> ls, pending |-> FALSE, kept |-> kept,
              history |-> 0]
  BY <1>2 DEF TouchSetupListeners, NoTouch
<1>4. s.ti \in Record
  <2>1. ls \in Seq(Listener) /\ 0 \in Nat
    BY <1>1
  <2>2. [active |-> TRUE, listeners |-> ls, pending |-> FALSE, kept |-> kept,
         history |-> 0] \in Record
    BY <2>1, SMTT(20) DEF Record
  <2>3. QED
    BY <1>3, <2>2, Zenon
<1>5. s.got \in [Clients -> Got] /\ \A c \in Clients : s.got[c] = Nothing
  BY DEF Nothing, Got
<1>6. s \in Delivery
  BY <1>4, <1>5 DEF Delivery
<1>7. /\ s.ti.listeners = ls /\ Listeners(s) = DOMAIN ls /\ s.ti.active /\ ~s.ti.pending
      /\ (s.ti.kept <=> kept) /\ s.ti.history = 0
  BY <1>3 DEF Listeners
<1>8. Placed(s, alive)
  BY <1>1, <1>7 DEF Placed
<1>9. PICK I \in SUBSET Listeners(s) : I = DOMAIN ls
  BY <1>7
<1>10. /\ Same(s, r) /\ r.ti.pending = s.ti.pending
       /\ \A i \in Listeners(s) :
            /\ r.ti.listeners[i].state =
                 IF i = 1 THEN IF s.ti.listeners[i].grab THEN "IS_OWNER" ELSE "HAS_ACCEPTED"
                 ELSE IF s.ti.listeners[i].wants THEN "AWAITING_OWNER" ELSE "AWAITING_BEGIN"
            /\ GotBy(r, i).events =
                 IF s.ti.listeners[i].wants
                 THEN IF i = 1 THEN Append(Append(GotBy(s, i).events, "begin"), "ownership")
                      ELSE Append(GotBy(s, i).events, "begin")
                 ELSE IF i = 1 THEN Append(GotBy(s, i).events, "begin")
                      ELSE GotBy(s, i).events
            /\ GotBy(r, i).updates = GotBy(s, i).updates
  <2>1. r = DeliverTouchBeginEvent(s, I)
    BY <1>9
  <2>2. I = Listeners(s)
    BY <1>7, <1>9
  <2>3. QED
    BY <1>6, <1>8, <2>1, <2>2, Beginning
<1>11. \A i \in Listeners(s) : GotBy(s, i).events = <<>> /\ GotBy(s, i).updates = 0
  BY <1>5, <1>6, ListenersAre DEF GotBy, Nothing
<1>12. /\ r \in Delivery /\ Listeners(r) = Listeners(s) /\ Placed(r, alive)
       /\ \A c : IsListener(r, c) <=> IsListener(s, c)
  BY <1>6, <1>8, <1>10, SameKeeps
<1>13. /\ r.ti.active /\ ~r.ti.pending /\ (r.ti.kept <=> kept) /\ r.ti.history = 0
  BY <1>7, <1>10 DEF Same
<1>14. ASSUME NEW i \in Listeners(r)
       PROVE  /\ Waiting(r.ti.listeners[i]) \/ (i = 1 /\ Owning(r.ti.listeners[i]))
              /\ Fits(r.ti.listeners[i], GotBy(r, i), r.ti.pending, 0)
              /\ ~r.ti.listeners[i].wants => kept
  <2> DEFINE l == r.ti.listeners[i]
  <2>0. i \in Listeners(s) /\ l \in Listener
    BY <1>12, ListenersAre
  <2>1. l.grab = s.ti.listeners[i].grab /\ l.wants = s.ti.listeners[i].wants
    BY <1>10, <2>0 DEF Same
  <2>2. /\ l.state = IF i = 1 THEN IF l.grab THEN "IS_OWNER" ELSE "HAS_ACCEPTED"
                     ELSE IF l.wants THEN "AWAITING_OWNER" ELSE "AWAITING_BEGIN"
        /\ GotBy(r, i).events =
              IF l.wants THEN IF i = 1 THEN <<"begin", "ownership">> ELSE <<"begin">>
              ELSE IF i = 1 THEN <<"begin">> ELSE <<>>
        /\ GotBy(r, i).updates = 0
    <3>1. /\ l.state = IF i = 1 THEN IF l.grab THEN "IS_OWNER" ELSE "HAS_ACCEPTED"
                       ELSE IF l.wants THEN "AWAITING_OWNER" ELSE "AWAITING_BEGIN"
          /\ GotBy(r, i).updates = 0
      BY <1>10, <1>11, <2>0, <2>1
    <3> DEFINE none == GotBy(s, i).events
               one == Append(none, "begin")
               two == Append(one, "ownership")
    <3>2. GotBy(r, i).events =
            IF l.wants THEN IF i = 1 THEN two ELSE one ELSE IF i = 1 THEN one ELSE none
      BY <1>10, <2>0, <2>1
    <3>3. none = <<>>
      BY <1>11, <2>0
    <3> HIDE DEF none
    <3>4. one = <<"begin">>
      BY <3>3, Words
    <3> HIDE DEF one
    <3>5. two = <<"begin", "ownership">>
      BY <3>4, Words
    <3> HIDE DEF two
    <3>6. QED
      BY <3>1, <3>2, <3>3, <3>4, <3>5
  <2> HIDE DEF l
  <2>3. Waiting(l) \/ (i = 1 /\ Owning(l))
    BY <2>2 DEF Waiting, Owning
  <2>4. GotBy(r, i).events = Shown(l)
    BY <2>0, <2>2, ShownIs
  <2>5. Fits(l, GotBy(r, i), FALSE, 0)
    BY <2>2, <2>4 DEF Fits
  <2>6. ~l.wants => kept
    BY <1>2, <1>7, <2>0, <2>1
  <2>7. QED
    BY <1>13, <2>3, <2>5, <2>6 DEF l, Fits
<1>15. Recorded(r, 0)
  <2>1. HistorySize \in Int /\ HistorySize >= 2
    BY SizeAssumption
  <2>2. 0 = IF ~kept THEN 0 ELSE IF 0 < HistorySize - 2 THEN 0 ELSE HistorySize - 2
    BY <2>1
  <2>3. QED
    BY <1>13, <1>14, <2>2 DEF Recorded
<1>16. ASSUME NEW c \in alive, ~IsListener(r, c)
       PROVE  r.got[c].events \in Whole
  <2>1. r.got[c] = Nothing
    BY <1>5, <1>10, <1>12, <1>16 DEF Same
  <2>2. QED
    BY <2>1 DEF Nothing, Whole
<1>17. Common(r, alive, 0)
  BY <1>12, <1>13, <1>14, <1>15, <1>16 DEF Common, Ranked
<1>18. Owned(r)
  <2>1. r.ti.listeners # <<>> => Owning(r.ti.listeners[1])
    <3>1. ASSUME r.ti.listeners # <<>> PROVE Owning(r.ti.listeners[1])
      <4>1. 1 \in Listeners(r)
        BY <1>12, <3>1, FirstIs
      <4>2. r.ti.listeners[1].state \in {"IS_OWNER", "HAS_ACCEPTED"}
        BY <1>10, <1>12, <4>1
      <4>3. QED
        BY <4>2 DEF Owning
    <3>2. QED
      BY <3>1
  <2>2. QED
    BY <1>13, <2>1 DEF Owned
<1>19. QED
  BY <1>13, <1>17, <1>18

\* The effect of one movement
LEMMA SendingUpdate ==
    ASSUME NEW s \in Delivery, Placed(s, alive), NEW I \in SUBSET Listeners(s),
           \A i \in I : Hears(s, i), NEW r, r = SendUpdates(s, I, 1)
    PROVE  /\ Same(s, r) /\ r.ti = s.ti
           /\ \A i \in Listeners(s) :
                /\ GotBy(r, i).events = GotBy(s, i).events
                /\ GotBy(r, i).pending = GotBy(s, i).pending
                /\ i \in I => GotBy(r, i).updates = GotBy(s, i).updates + 1
                /\ i \notin I => GotBy(r, i).updates = GotBy(s, i).updates
<1>1. ASSUME NEW n \in Nat, r = SendUpdates(s, I, n)
      PROVE  /\ Same(s, r) /\ r.ti = s.ti
             /\ \A i \in Listeners(s) :
                  /\ GotBy(r, i).events = GotBy(s, i).events
                  /\ GotBy(r, i).pending = GotBy(s, i).pending
                  /\ i \in I => GotBy(r, i).updates = GotBy(s, i).updates + n
                  /\ i \notin I => GotBy(r, i).updates = GotBy(s, i).updates
  <2>1. /\ Same(s, r) /\ r.ti = s.ti
        /\ \A i \in Listeners(s) :
             /\ GotBy(r, i).events = GotBy(s, i).events
             /\ GotBy(r, i).updates = IF i \in I THEN GotBy(s, i).updates + n
                                      ELSE GotBy(s, i).updates
             /\ GotBy(r, i).pending = GotBy(s, i).pending
    BY <1>1, SendingUpdates
  <2>2. QED
    BY <2>1
<1>2. QED
  BY <1>1

\* A movement that comes in goes to the owner and to whoever asked to be told, and
\* into the history for the others.
LEMMA Updating ==
    ASSUME NEW n \in Nat, NEW s, Common(s, alive, n), Owned(s), s.ti.active,
           NEW q, q = [s EXCEPT !.ti = TouchEventHistoryPush(s.ti)],
           NEW I, I = ({1} \cap DOMAIN s.ti.listeners) \cup Wants(s),
           NEW r, r = SendUpdates(q, I, 1)
    PROVE  /\ Common(r, alive, n + 1) /\ Owned(r) /\ Grows(s, r)
           /\ r.ti.active /\ r.ti.pending = s.ti.pending
<1> DEFINE L == s.ti.listeners
           t == TouchEventHistoryPush(s.ti)
<1>0. /\ s \in Delivery /\ Placed(s, alive) /\ Ranked(s) /\ Recorded(s, n)
      /\ alive \subseteq Clients
  BY DEF Common
<1>1. PICK room \in Nat : room = HistorySize - 2
  BY SizeAssumption
<1>2. /\ s.ti \in Record /\ s.ti.history \in Nat /\ s.ti.kept \in BOOLEAN
      /\ s.ti.pending \in BOOLEAN
  BY <1>0, ListenersAre DEF Record
<1>3. PICK h \in Nat : h = IF s.ti.kept /\ s.ti.history < room THEN s.ti.history + 1
                           ELSE s.ti.history
  BY <1>2
<1>4. /\ t \in Record /\ t.listeners = L /\ t.active /\ t.pending = s.ti.pending
      /\ t.kept = s.ti.kept /\ t.history = h
  <2>1. t = [s.ti EXCEPT !.history = h]
    BY <1>1, <1>2, <1>3 DEF TouchEventHistoryPush, Record
  <2>2. QED
    BY <1>2, <2>1 DEF Record
<1> HIDE DEF t
<1>5. q = [ti |-> t, got |-> s.got]
  BY <1>0 DEF t, Delivery
<1>6. q.ti = t /\ q.got = s.got /\ q \in Delivery
  BY <1>0, <1>4, <1>5, ListenersAre DEF Delivery
<1>7. /\ Listeners(q) = Listeners(s) /\ q.ti.listeners = L
      /\ Placed(q, alive) /\ \A c : IsListener(q, c) <=> IsListener(s, c)
  BY <1>0, <1>4, <1>6 DEF Listeners, Placed, IsListener
<1>8. I \in SUBSET Listeners(s)
  BY DEF Wants, Listeners
<1>9. \A i \in Listeners(s) : i \in I <=> i = 1 \/ L[i].wants
  BY DEF Wants, Listeners
<1>10. \A i \in I : Hears(q, i)
  BY <1>6, <1>7, <1>8, <1>9, HearsWhen
<1>11. /\ Same(q, r) /\ r.ti = q.ti
       /\ \A i \in Listeners(q) :
            /\ GotBy(r, i).events = GotBy(q, i).events
            /\ GotBy(r, i).pending = GotBy(q, i).pending
            /\ i \in I => GotBy(r, i).updates = GotBy(q, i).updates + 1
            /\ i \notin I => GotBy(r, i).updates = GotBy(q, i).updates
  <2>1. I \in SUBSET Listeners(q) /\ q \in Delivery /\ Placed(q, alive)
    BY <1>6, <1>7, <1>8
  <2>2. Same(q, r)
    BY <1>10, <2>1, SendingUpdate
  <2>3. r.ti = q.ti
    BY DEF SendUpdates
  <2>4. ASSUME NEW i \in Listeners(q)
        PROVE  /\ GotBy(r, i).events = GotBy(q, i).events
               /\ GotBy(r, i).pending = GotBy(q, i).pending
    BY <1>10, <2>1, SendingUpdate
  <2>5. ASSUME NEW i \in Listeners(q)
        PROVE  /\ i \in I => GotBy(r, i).updates = GotBy(q, i).updates + 1
               /\ i \notin I => GotBy(r, i).updates = GotBy(q, i).updates
    BY <1>10, <2>1, SendingUpdate
  <2>6. QED
    BY <2>2, <2>3, <2>4, <2>5, Zenon
<1>12. /\ r \in Delivery /\ r.ti.listeners = L /\ r.ti.pending = s.ti.pending
       /\ r.ti.active /\ r.ti.kept = s.ti.kept /\ r.ti.history = h
  BY <1>4, <1>6, <1>11 DEF Same
<1>13. /\ Listeners(r) = Listeners(s) /\ Placed(r, alive)
       /\ \A c : IsListener(r, c) <=> IsListener(s, c)
  BY <1>6, <1>7, <1>11, SameKeeps
<1>14. \A i \in Listeners(s) :
         /\ GotBy(r, i).events = GotBy(s, i).events
         /\ i \in I => GotBy(r, i).updates = GotBy(s, i).updates + 1
         /\ i \notin I => GotBy(r, i).updates = GotBy(s, i).updates
         /\ GotBy(r, i).pending = GotBy(s, i).pending
  <2>1. \A i \in Listeners(s) : GotBy(q, i) = GotBy(s, i)
    BY <1>6, <1>7 DEF GotBy
  <2>2. TAKE i \in Listeners(s)
  <2>3. i \in Listeners(q) /\ GotBy(q, i) = GotBy(s, i)
    BY <1>7, <2>1
  <2>4. QED
    BY <1>11, <2>3, Zenon
<1>15. ASSUME NEW i \in Listeners(s)
       PROVE  Fits(L[i], GotBy(r, i), r.ti.pending, n + 1)
  <2>1. Fits(L[i], GotBy(s, i), s.ti.pending, n) /\ GotBy(s, i).updates \in Nat
    BY <1>0, ListenersAre DEF Common, GotBy
  <2>2. PICK u \in Nat : u = GotBy(s, i).updates
    BY <2>1
  <2>3. i = 1 => Owning(L[i])
    BY <1>0, <1>15, EmptyHas DEF Owned
  <2>4. CASE L[i].state = "AWAITING_BEGIN"
    <3>1. i \notin I
      BY <1>0, <1>9, <2>3, <2>4 DEF Ranked, Waiting, Owning
    <3>2. QED
      BY <1>12, <1>14, <2>1, <2>4, <3>1 DEF Fits
  <2>5. CASE L[i].state # "AWAITING_BEGIN"
    <3>1. i \in I
      BY <1>0, <1>9, <2>5 DEF Ranked, Waiting
    <3>2. n + 1 <= HistorySize - 2 => GotBy(r, i).updates = n + 1
      <4>1. GotBy(r, i).updates = u + 1
        BY <1>14, <2>2, <3>1
      <4>2. n <= room => u = n
        BY <1>1, <2>1, <2>2, <2>5 DEF Fits
      <4>3. n + 1 <= room => n <= room
        OBVIOUS
      <4>4. QED
        BY <1>1, <4>1, <4>2, <4>3
    <3>3. QED
      BY <1>12, <1>14, <2>1, <2>5, <3>2 DEF Fits
  <2>6. QED
    BY <2>4, <2>5
<1>16. Recorded(r, n + 1)
  <2>1. h = IF ~s.ti.kept THEN 0 ELSE IF n + 1 < room THEN n + 1 ELSE room
    <3>1. s.ti.history = IF ~s.ti.kept THEN 0 ELSE IF n < room THEN n ELSE room
      BY <1>0, <1>1 DEF Recorded
    <3>2. QED
      BY <1>1, <1>2, <1>3, <3>1
  <2>2. QED
    BY <1>0, <1>1, <1>12, <1>13, <2>1 DEF Recorded
<1>17. \A c \in alive : ~IsListener(r, c) => r.got[c].events \in Whole
  <2>1. \A c \in alive : ~IsListener(s, c) => s.got[c].events \in Whole
    BY DEF Common
  <2>2. \A c \in Clients : ~IsListener(q, c) => r.got[c] = q.got[c]
    BY <1>11 DEF Same
  <2>3. QED
    BY <1>0, <1>6, <1>7, <1>13, <2>1, <2>2
<1>18. Ranked(r)
  BY <1>0, <1>12, <1>13 DEF Ranked
<1>19. Common(r, alive, n + 1)
  BY <1>0, <1>12, <1>13, <1>15, <1>16, <1>17, <1>18 DEF Common
<1>20. Owned(r) /\ Grows(s, r)
  BY <1>6, <1>11, <1>12 DEF Owned, Grows, Same
<1>21. QED
  BY <1>12, <1>19, <1>20

\* A client that listens no more may go.
LEMMA Leaving ==
    ASSUME NEW s, NEW who, NEW n, NEW c, Common(s, who, n), ~IsListener(s, c)
    PROVE  Common(s, who \ {c}, n)
<1>1. Placed(s, who \ {c})
  BY DEF Common, Placed, IsListener
<1>2. QED
  BY <1>1 DEF Common

\* One lemma for each action: the invariant is kept, and nobody is sent less.
LEMMA StepBegin ==
    ASSUME DeliveryInv, Begin
    PROVE  DeliveryInv' /\ ~ti.active /\ ti'.active
<1>1. PICK ls \in Traces :
        /\ \A i \in DOMAIN ls : ls[i].client \in alive
        /\ Become(DeliverTouchBeginEvent(
               [ti |-> TouchSetupListeners(ls), got |-> [c \in Clients |-> Nothing]],
               DOMAIN ls))
  BY DEF Begin
<1>2. PICK s : s = [ti |-> TouchSetupListeners(ls), got |-> [c \in Clients |-> Nothing]]
  OBVIOUS
<1>3. PICK r : r = DeliverTouchBeginEvent(s, DOMAIN ls)
  OBVIOUS
<1>4. Common(r, alive, 0) /\ Owned(r) /\ r.ti.active /\ ~r.ti.pending
  BY <1>1, <1>2, <1>3, NowHas, BeginningAll
<1>5. Become(r)
  BY <1>1, <1>2, <1>3
<1>6. /\ alive' = alive /\ updates' = 0 /\ down' = TRUE /\ touches' = touches + 1
      /\ touches < MaxTouches /\ ~ti.active
  BY DEF Begin
<1>7. 0 \in 0 .. MaxUpdates /\ touches + 1 \in 0 .. MaxTouches
  BY <1>6, TouchBoundsAssumption DEF DeliveryInv
<1>8. DeliveryInv'
  <2>1. Common(r, alive', updates') /\ (r.ti.pending <=> ~down')
    BY <1>4, <1>6
  <2>2. down' \in BOOLEAN /\ updates' \in 0 .. MaxUpdates /\ touches' \in 0 .. MaxTouches
    BY <1>6, <1>7
  <2>3. QED
    BY <1>4, <1>5, <2>1, <2>2, Becoming
<1>9. ti'.active
  BY <1>4, <1>5 DEF Become
<1>10. QED
  BY <1>6, <1>8, <1>9

\* What leaves the record alone
LEMMA Idle ==
    ASSUME DeliveryInv, UNCHANGED <<ti, got>>
    PROVE  Become(Now) /\ NothingTakenBack
<1>1. Become(Now)
  BY DEF Become, Now
<1>2. \A c \in Clients : got[c].events \in Seq(Word)
  BY NowHas, ListenersAre
<1>3. NothingTakenBack
  BY <1>2 DEF NothingTakenBack, Continues
<1>4. QED
  BY <1>1, <1>3

\* What an operator promises is what a step to its result keeps.
LEMMA StepTo ==
    ASSUME DeliveryInv, NEW r, Grows(Now, r), Become(r)
    PROVE  NothingTakenBack
<1>1. got' = r.got
  BY DEF Become
<1>2. QED
  BY <1>1, NowHas DEF NothingTakenBack, Grows

\* A movement of the finger
LEMMA StepUpdate ==
    ASSUME DeliveryInv, Update
    PROVE  DeliveryInv' /\ NothingTakenBack /\ alive' = alive /\ (ti'.active <=> ti.active)
<1>1. /\ down /\ updates < MaxUpdates /\ updates' = updates + 1
      /\ alive' = alive /\ down' = down /\ touches' = touches
  BY DEF Update
<1>2. /\ Now \in Delivery /\ Now.ti = ti /\ Now.got = got /\ updates \in Nat
  BY NowHas
<1>3. updates' \in 0 .. MaxUpdates /\ down' \in BOOLEAN /\ touches' \in 0 .. MaxTouches
  BY <1>1, <1>2, TouchBoundsAssumption DEF DeliveryInv
<1>4. CASE ti.active
  <2>1. PICK r : r = SendUpdates([Now EXCEPT !.ti = TouchEventHistoryPush(ti)],
                                 ({1} \cap DOMAIN ti.listeners) \cup Wants(Now), 1)
    OBVIOUS
  <2>2. Become(r)
    BY <1>4, <2>1 DEF Update
  <2>3. /\ Common(r, alive, updates + 1) /\ Owned(r) /\ Grows(Now, r)
        /\ r.ti.active /\ r.ti.pending = ti.pending
    <3>1. Common(Now, alive, updates) /\ Owned(Now)
      BY DEF DeliveryInv
    <3>2. r = SendUpdates([Now EXCEPT !.ti = TouchEventHistoryPush(Now.ti)],
                          ({1} \cap DOMAIN Now.ti.listeners) \cup Wants(Now), 1)
      BY <1>2, <2>1
    <3>3. QED
      BY <1>2, <1>4, <3>1, <3>2, Updating
  <2>4. DeliveryInv'
    <3>1. Common(r, alive', updates')
      BY <1>1, <2>3
    <3>2. r.ti.pending <=> ~down'
      BY <1>1, <1>4, <2>3 DEF DeliveryInv
    <3>3. QED
      BY <1>3, <2>2, <2>3, <3>1, <3>2, Becoming
  <2>5. ti'.active
    BY <2>2, <2>3 DEF Become
  <2>6. QED
    BY <1>1, <1>4, <2>2, <2>3, <2>4, <2>5, StepTo
<1>5. CASE ~ti.active
  <2>1. UNCHANGED <<ti, got>>
    BY <1>5 DEF Update
  <2>2. Become(Now) /\ NothingTakenBack
    BY <2>1, Idle
  <2>3. Common(Now, alive', updates') /\ Owned(Now)
    <3>1. Common(Now, alive, updates) /\ Owned(Now)
      BY DEF DeliveryInv
    <3>2. ti = NoTouch
      BY <1>2, <1>5, <3>1 DEF Common
    <3>3. Listeners(Now) = {}
      BY <1>2, <3>2, EmptyHas DEF NoTouch
    <3>4. Recorded(Now, updates')
      BY <1>2, <3>2, <3>3 DEF Recorded, NoTouch
    <3>5. Common(Now, alive, updates')
      BY <3>1, <3>3, <3>4 DEF Common
    <3>6. QED
      BY <1>1, <3>1, <3>5
  <2>4. DeliveryInv'
    BY <1>2, <1>3, <1>5, <2>2, <2>3, Becoming
  <2>5. QED
    BY <1>1, <2>1, <2>2, <2>4
<1>6. QED
  BY <1>4, <1>5

\* The finger is lifted: the touch lives on, or is over at once.
LEMMA StepEnd ==
    ASSUME DeliveryInv, End
    PROVE  DeliveryInv' /\ NothingTakenBack /\ alive' = alive /\ (ti'.active => ti.active)
<1>1. /\ down /\ down' = FALSE
      /\ alive' = alive /\ updates' = updates /\ touches' = touches
  BY DEF End
<1>2. /\ Now \in Delivery /\ Now.ti = ti /\ Now.got = got /\ updates \in Nat
  BY NowHas
<1>3. updates' \in 0 .. MaxUpdates /\ down' \in BOOLEAN /\ touches' \in 0 .. MaxTouches
  BY <1>1 DEF DeliveryInv
<1>4. Common(Now, alive, updates) /\ Owned(Now)
  BY DEF DeliveryInv
<1>5. CASE ~ti.active
  <2>1. Become(Now)
    BY <1>5 DEF End
  <2>2. UNCHANGED <<ti, got>>
    BY <1>2, <2>1 DEF Become
  <2>3. NothingTakenBack
    BY <2>2, Idle
  <2>4. Common(Now, alive', updates')
    BY <1>1, <1>4
  <2>5. DeliveryInv'
    BY <1>2, <1>3, <1>4, <1>5, <2>1, <2>4, Becoming
  <2>6. QED
    BY <1>1, <2>2, <2>3, <2>5
<1>6. CASE ti.active /\ LivesOn(Now)
  <2>1. PICK r : r = DeliverEndToAll(Now)
    OBVIOUS
  <2>2. Become(r)
    BY <1>6, <2>1 DEF End
  <2>3. Now.ti.listeners # <<>> /\ Owning(Now.ti.listeners[1])
    BY <1>4, <1>6 DEF LivesOn, Owned
  <2>4. Same(Now, r) /\ Common(r, alive, updates) /\ Owned(r) /\ r.ti.pending
    BY <1>2, <1>4, <1>6, <2>1, <2>3, EndingOwner
  <2>5. Grows(Now, r)
    BY <1>2, <2>4, SameGrows
  <2>6. NothingTakenBack
    BY <2>2, <2>5, StepTo
  <2>7. Common(r, alive', updates') /\ (r.ti.pending <=> ~down')
    BY <1>1, <2>4
  <2>8. DeliveryInv'
    BY <1>3, <2>2, <2>4, <2>7, Becoming
  <2>9. QED
    BY <1>1, <1>6, <2>6, <2>8
<1>7. CASE ti.active /\ ~LivesOn(Now)
  <2>1. PICK r : r = TouchEndTouch(DeliverEndToAll(Now))
    OBVIOUS
  <2>2. Become(r)
    BY <1>7, <2>1 DEF End
  <2>3. Common(r, alive, updates) /\ Owned(r) /\ Grows(Now, r) /\ r.ti = NoTouch
    BY <1>2, <1>4, <1>7, <2>1, EndingTouch DEF Owned
  <2>4. NothingTakenBack
    BY <2>2, <2>3, StepTo
  <2>5. Common(r, alive', updates') /\ ~r.ti.active
    BY <1>1, <2>3 DEF NoTouch
  <2>6. DeliveryInv'
    BY <1>3, <2>2, <2>3, <2>5, Becoming
  <2>7. QED
    BY <1>1, <1>7, <2>4, <2>6
<1>8. QED
  BY <1>5, <1>6, <1>7

\* A step to an operator's result, for the operators that only answer for a client
LEMMA StepAfter ==
    ASSUME DeliveryInv, ti.active, NEW r, After(Now, r, updates), Become(r),
           Common(r, alive', updates), UNCHANGED <<down, updates, touches>>
    PROVE  DeliveryInv' /\ NothingTakenBack
<1>1. Owned(r) /\ Grows(Now, r) /\ (r.ti.active => r.ti.pending = Now.ti.pending)
  BY DEF After
<1>2. r.ti.active => (r.ti.pending <=> ~down')
  BY <1>1, NowHas DEF DeliveryInv
<1>3. NothingTakenBack
  BY <1>1, StepTo
<1>4. down' \in BOOLEAN /\ updates' \in 0 .. MaxUpdates /\ touches' \in 0 .. MaxTouches
  BY DEF DeliveryInv
<1>5. Common(r, alive', updates')
  OBVIOUS
<1>6. QED
  BY <1>1, <1>2, <1>3, <1>4, <1>5, Becoming

\* A client accepts or rejects.
LEMMA StepAnswer ==
    ASSUME DeliveryInv, NEW c \in Clients, TouchAcceptReject(c)
    PROVE  DeliveryInv' /\ NothingTakenBack /\ alive' = alive /\ ti.active
<1>1. /\ ti.active /\ got[c].events # <<>>
      /\ alive' = alive /\ UNCHANGED <<down, updates, touches>>
  BY DEF TouchAcceptReject
<1>2. PICK i \in Positions(c), accept \in BOOLEAN :
         Become(TouchListenerAcceptReject(Now, i, accept))
  BY DEF TouchAcceptReject
<1>3. /\ Now \in Delivery /\ Now.ti = ti /\ Now.got = got /\ updates \in Nat
  BY NowHas
<1>4. Common(Now, alive, updates) /\ Owned(Now)
  BY DEF DeliveryInv
<1>5. i \in Listeners(Now) /\ ti.listeners[i].client = c /\ i \in Nat /\ i >= 1
  <2>1. i \in Listeners(Now) /\ ti.listeners[i].client = c
    BY <1>3 DEF Positions, Listeners
  <2>2. QED
    BY <1>3, <2>1, ListenersAre
<1>6. GotBy(Now, i).events # <<>>
  BY <1>1, <1>3, <1>5 DEF GotBy
<1>7. PICK r : r = TouchListenerAcceptReject(Now, i, accept)
  OBVIOUS
<1>8. Become(r)
  BY <1>2, <1>7
<1>9. After(Now, r, updates)
  <2>1. CASE i = 1 /\ accept
    <3>1. r = Accept(Now)
      BY <1>7, <2>1 DEF TouchListenerAcceptReject
    <3>2. Now.ti.listeners # <<>>
      BY <1>5, EmptyHas
    <3>3. QED
      BY <1>1, <1>3, <1>4, <3>1, <3>2, AcceptIs
  <2>2. CASE i = 1 /\ ~accept
    <3>1. r = TouchRejected(Now, i, TRUE)
      BY <1>7, <2>2 DEF TouchListenerAcceptReject
    <3>2. PICK announce \in BOOLEAN : announce = TRUE
      OBVIOUS
    <3>3. QED
      BY <1>1, <1>3, <1>4, <1>5, <3>1, <3>2, RejectedIs
  <2>3. CASE i > 1 /\ accept
    <3>1. r = SetState(Now, [j \in {i} |-> "EARLY_ACCEPT"])
      BY <1>7, <2>3 DEF TouchListenerAcceptReject
    <3>2. QED
      BY <1>1, <1>3, <1>4, <1>5, <1>6, <2>3, <3>1, NotingIs
  <2>4. CASE i > 1 /\ ~accept
    <3>1. r = TouchRejected(Now, i, FALSE)
      <4>1. i # 1
        BY <1>5, <2>4
      <4>2. QED
        BY <1>7, <2>4, <4>1 DEF TouchListenerAcceptReject
    <3>2. PICK announce \in BOOLEAN : announce = FALSE
      OBVIOUS
    <3>3. r = TouchRejected(Now, i, announce) /\ i # 1
      <4>1. i # 1
        BY <1>5, <2>4
      <4>2. r = TouchRejected(Now, i, announce)
        BY <3>1, <3>2, Zenon
      <4>3. QED
        BY <4>1, <4>2
    <3>4. QED
      BY <1>1, <1>3, <1>4, <1>5, <3>3, RejectedIs
  <2>5. QED
    BY <1>5, <2>1, <2>2, <2>3, <2>4
<1>10. Common(r, alive', updates)
  BY <1>1, <1>9 DEF After
<1>11. QED
  BY <1>1, <1>8, <1>9, <1>10, StepAfter

\* A client goes away.
LEMMA StepGone ==
    ASSUME DeliveryInv, NEW c \in Clients, TouchListenerGone(c)
    PROVE  /\ DeliveryInv' /\ NothingTakenBack /\ alive' \subseteq alive
           /\ ~ti.active => UNCHANGED <<ti, got>>
<1>1. alive' = alive \ {c} /\ UNCHANGED <<down, updates, touches>>
  BY DEF TouchListenerGone
<1>2. /\ Now \in Delivery /\ Now.ti = ti /\ Now.got = got /\ updates \in Nat
  BY NowHas
<1>3. Common(Now, alive, updates) /\ Owned(Now)
  BY DEF DeliveryInv
<1>4. CASE Positions(c) = {}
  <2>1. UNCHANGED <<ti, got>>
    BY <1>4 DEF TouchListenerGone
  <2>2. Become(Now) /\ NothingTakenBack
    BY <2>1, Idle
  <2>3. ~IsListener(Now, c)
    BY <1>2, <1>4 DEF IsListener, Positions, Listeners
  <2>4. Common(Now, alive', updates')
    <3>1. Common(Now, alive \ {c}, updates)
      BY <1>3, <2>3, Leaving
    <3>2. QED
      BY <1>1, <3>1
  <2>5. Now.ti.active => (Now.ti.pending <=> ~down')
    BY <1>1, <1>2 DEF DeliveryInv
  <2>6. down' \in BOOLEAN /\ updates' \in 0 .. MaxUpdates /\ touches' \in 0 .. MaxTouches
    BY <1>1 DEF DeliveryInv
  <2>7. DeliveryInv'
    BY <1>3, <2>2, <2>4, <2>5, <2>6, Becoming
  <2>8. QED
    BY <1>1, <2>1, <2>2, <2>7
<1>5. CASE Positions(c) # {}
  <2>1. PICK i \in Positions(c) : Become(TouchRejected(Now, i, TRUE))
    BY <1>5 DEF TouchListenerGone
  <2>2. i \in Listeners(Now) /\ ti.listeners[i].client = c
    BY <1>2 DEF Positions, Listeners
  <2>3. ti.active
    <3>1. ti.listeners # <<>>
      BY <1>2, <2>2, EmptyHas
    <3>2. QED
      BY <1>2, <1>3, <3>1 DEF Common, NoTouch
  <2>4. PICK announce \in BOOLEAN : announce = TRUE
    OBVIOUS
  <2>5. PICK r : r = TouchRejected(Now, i, announce)
    OBVIOUS
  <2>6. Become(r)
    BY <2>1, <2>4, <2>5
  <2>7. After(Now, r, updates) /\ ~IsListener(r, c)
    BY <1>2, <1>3, <2>2, <2>3, <2>4, <2>5, RejectedIs
  <2>8. Common(r, alive', updates)
    <3>1. Common(r, alive \ {c}, updates)
      BY <2>7, Leaving DEF After
    <3>2. QED
      BY <1>1, <3>1
  <2>9. DeliveryInv' /\ NothingTakenBack
    BY <1>1, <2>3, <2>6, <2>7, <2>8, StepAfter
  <2>10. QED
    BY <1>1, <2>3, <2>9
<1>6. QED
  BY <1>4, <1>5

\* Steps that change nothing
LEMMA StepStutter ==
    ASSUME DeliveryInv, UNCHANGED deliveryVars
    PROVE  DeliveryInv'
<1>1. UNCHANGED <<ti, got, alive, down, updates, touches>>
  BY DEF deliveryVars
<1>2. Become(Now) /\ Common(Now, alive', updates') /\ Owned(Now)
  BY <1>1, Idle DEF DeliveryInv
<1>3. Now.ti.active => (Now.ti.pending <=> ~down')
  BY <1>1, NowHas DEF DeliveryInv
<1>4. down' \in BOOLEAN /\ updates' \in 0 .. MaxUpdates /\ touches' \in 0 .. MaxTouches
  BY <1>1 DEF DeliveryInv
<1>5. QED
  BY <1>2, <1>3, <1>4, Becoming

\* The three facts of the induction
LEMMA DeliveryStarts == DeliveryInit => DeliveryInv
<1> SUFFICES ASSUME DeliveryInit PROVE DeliveryInv
  OBVIOUS
<1>1. /\ ti = NoTouch /\ got = [c \in Clients |-> Nothing] /\ alive = Clients
      /\ down = FALSE /\ updates = 0 /\ touches = 0
  BY DEF DeliveryInit
<1>2. Now.ti = NoTouch /\ Now.got = got
  BY <1>1 DEF Now
<1>3. Nothing \in Got /\ Nothing.events = <<>>
  BY DEF Nothing, Got
<1>4. NoTouch \in Record /\ NoTouch.listeners = <<>> /\ ~NoTouch.active
      /\ ~NoTouch.pending /\ ~NoTouch.kept /\ NoTouch.history = 0
  <2>1. <<>> \in Seq(Listener) /\ 0 \in Nat
    OBVIOUS
  <2>2. QED
    BY <2>1 DEF NoTouch, Record
<1>5. Now \in Delivery
  <2>1. got \in [Clients -> Got]
    BY <1>1, <1>3
  <2>2. QED
    BY <1>1, <1>4, <2>1 DEF Now, Delivery
<1>6. Listeners(Now) = {} /\ Owned(Now)
  BY <1>2, <1>4, EmptyHas DEF Owned
<1>7. \A c \in Clients : Now.got[c].events \in Whole
  BY <1>1, <1>2, <1>3 DEF Whole
<1>8. Common(Now, alive, updates)
  BY <1>1, <1>2, <1>4, <1>5, <1>6, <1>7 DEF Common, Placed, Ranked, Recorded
<1>9. 0 \in 0 .. MaxUpdates /\ 0 \in 0 .. MaxTouches
  BY TouchBoundsAssumption
<1>10. ~ti.active /\ down \in BOOLEAN
  BY <1>1, <1>4
<1>11. QED
  BY <1>1, <1>6, <1>8, <1>9, <1>10 DEF DeliveryInv

LEMMA DeliverySteps == DeliveryInv /\ [DeliveryNext]_deliveryVars => DeliveryInv'
<1>1. ASSUME DeliveryInv, NEW c \in Clients, TouchAcceptReject(c) \/ TouchListenerGone(c)
      PROVE  DeliveryInv'
  BY <1>1, StepAnswer, StepGone
<1>2. ASSUME DeliveryInv, Begin PROVE DeliveryInv'
  BY <1>2, StepBegin
<1>3. ASSUME DeliveryInv, Update PROVE DeliveryInv'
  BY <1>3, StepUpdate
<1>4. ASSUME DeliveryInv, End PROVE DeliveryInv'
  BY <1>4, StepEnd
<1>5. ASSUME DeliveryInv, Over \/ UNCHANGED deliveryVars PROVE DeliveryInv'
  BY <1>5, StepStutter DEF Over
<1>6. QED
  BY <1>1, <1>2, <1>3, <1>4, <1>5 DEF DeliveryNext

LEMMA DeliveryInvariant == DeliverySpec => []DeliveryInv
BY DeliveryStarts, DeliverySteps, PTL DEF DeliverySpec

-----------------------------------------------------------------------------
\* What follows from it

\* The history never holds more than the movements there were.
LEMMA TypesAre == DeliveryInv => DeliveryTypeOK
<1> SUFFICES ASSUME DeliveryInv PROVE DeliveryTypeOK
  OBVIOUS
<1>1. /\ Now \in Delivery /\ Now.ti = ti /\ Now.got = got
      /\ updates \in Nat /\ alive \subseteq Clients
  BY NowHas
<1>2. ti \in Record /\ got \in [Clients -> Got]
  BY <1>1 DEF Delivery
<1>3. Recorded(Now, updates) /\ (~ti.active => ti = NoTouch)
  BY <1>1 DEF DeliveryInv, Common
<1>4. ti.history \in 0 .. MaxUpdates
  <2>1. ti.history = IF ~ti.kept THEN 0
                     ELSE IF updates < HistorySize - 2 THEN updates ELSE HistorySize - 2
    BY <1>1, <1>3 DEF Recorded
  <2>2. ti.history \in 0 .. updates
    BY <1>1, <2>1, SizeAssumption
  <2>3. updates <= MaxUpdates
    BY DEF DeliveryInv
  <2>4. QED
    BY <1>1, <2>2, <2>3, TouchBoundsAssumption
<1>5. ti \in [active : BOOLEAN, listeners : Seq(Listener), pending : BOOLEAN,
              kept : BOOLEAN, history : 0 .. MaxUpdates]
  BY <1>2, <1>4 DEF Record
<1>6. got \in [Clients -> [events : Seq({"begin", "ownership", "end"}),
                           updates : Nat, pending : BOOLEAN]]
  BY <1>2 DEF Got, Word
<1>7. QED
  BY <1>1, <1>3, <1>5, <1>6 DEF DeliveryTypeOK, DeliveryInv

\* The touch record and what the clients were sent have their types, whatever the clients do.
THEOREM DeliveryTypeCorrect == DeliverySpec => []DeliveryTypeOK
BY DeliveryInvariant, TypesAre, PTL

\* The first listener owns the touch, and who owns it has seen every movement.
LEMMA OwnerHas == DeliveryInv => OwnerMissesNothing
<1> SUFFICES ASSUME DeliveryInv, NEW c \in alive, 1 \in Positions(c),
                    updates <= HistorySize - 2
             PROVE  got[c].updates = updates
  BY DEF OwnerMissesNothing
<1>1. Now.ti = ti /\ Now.got = got
  BY NowHas
<1>2. 1 \in Listeners(Now) /\ ti.listeners[1].client = c
  BY <1>1 DEF Positions, Listeners
<1>3. Owning(ti.listeners[1])
  BY <1>1, <1>2, EmptyHas DEF DeliveryInv, Owned
<1>4. Fits(ti.listeners[1], got[c], ti.pending, updates)
  BY <1>1, <1>2 DEF DeliveryInv, Common, GotBy
<1>5. QED
  BY <1>3, <1>4 DEF Owning, Fits

\* However late a client comes to own the touch, by an ownership event or by the replay, it
\* misses no movement that the history has room for.
THEOREM OwnerHasEverything == DeliverySpec => []OwnerMissesNothing
BY DeliveryInvariant, OwnerHas, PTL

\* How the words end
LEMMA LastIs ==
    /\ Last(<<"begin">>) = "begin" /\ Last(<<"begin", "ownership">>) = "ownership"
    /\ Last(<<"begin", "end">>) = "end" /\ Last(<<"begin", "ownership", "end">>) = "end"
BY DEF Last

LEMMA WholeIs ==
    ASSUME NEW l \in Whole
    PROVE  l = <<>> \/ (l # <<>> /\ Last(l) = "end")
<1>1. l \in {<<>>, <<"begin", "end">>, <<"begin", "ownership", "end">>}
  BY DEF Whole
<1>2. <<"begin", "end">> # <<>> /\ <<"begin", "ownership", "end">> # <<>>
  OBVIOUS
<1>3. QED
  BY <1>1, <1>2, LastIs, Zenon

\* Only an owner that asked for it and has no end yet was told last that it owns the touch.
LEMMA LastShown ==
    ASSUME NEW l \in Listener
    PROVE  /\ l.state = "HAS_END" => Shown(l) # <<>> /\ Last(Shown(l)) = "end"
           /\ Waiting(l) => Shown(l) = <<>> \/ Last(Shown(l)) = "begin"
           /\ Shown(l) # <<>> /\ Waiting(l) => l.wants
<1>1. CASE l.state = "HAS_END"
  BY <1>1, ShownIs, LastIs DEF Waiting
<1>2. CASE Waiting(l)
  <2>1. CASE l.state = "AWAITING_BEGIN"
    BY <2>1, ShownIs
  <2>2. CASE l.state \in {"AWAITING_OWNER", "EARLY_ACCEPT"}
    BY <1>2, <2>2, ShownIs, LastIs DEF Waiting
  <2>3. QED
    BY <1>2, <2>1, <2>2 DEF Waiting
<1>3. QED
  BY <1>1, <1>2

\* With the finger gone, who waits has been told so and who owns has had its end.
LEMMA EndsAnnounced == DeliveryInv => EndIsAnnounced
<1> SUFFICES ASSUME DeliveryInv, ti.active, ~down, NEW c \in alive, got[c].events # <<>>
             PROVE  got[c].pending \/ Ended(c)
  BY DEF EndIsAnnounced
<1>1. /\ Now \in Delivery /\ Now.ti = ti /\ Now.got = got
      /\ Common(Now, alive, updates) /\ Owned(Now)
  BY NowHas DEF DeliveryInv
<1>2. ti.pending
  BY DEF DeliveryInv
<1>3. CASE ~IsListener(Now, c)
  <2>1. got[c].events \in Whole
    BY <1>1, <1>3 DEF Common
  <2>2. QED
    BY <2>1, WholeIs DEF Ended
<1>4. CASE IsListener(Now, c)
  <2>1. PICK i \in Listeners(Now) : ti.listeners[i].client = c
    BY <1>1, <1>4 DEF IsListener
  <2>2. ti.listeners[i] \in Listener
    BY <1>1, ListenersAre
  <2>3. Fits(ti.listeners[i], got[c], ti.pending, updates)
    BY <1>1, <2>1 DEF Common, GotBy
  <2>4. CASE Waiting(ti.listeners[i])
    BY <1>2, <2>2, <2>3, <2>4, LastShown DEF Fits
  <2>5. CASE i = 1 /\ Owning(ti.listeners[i])
    BY <1>1, <1>2, <2>2, <2>3, <2>5, LastShown DEF Fits, Owned, Ended
  <2>6. QED
    BY <1>1, <2>1, <2>4, <2>5 DEF Common, Ranked
<1>5. QED
  BY <1>3, <1>4

\* Once the finger is gone every client that saw the touch begin has been told so.
THEOREM EndsAreAnnounced == DeliverySpec => []EndIsAnnounced
BY DeliveryInvariant, EndsAnnounced, PTL

\* What is seen from outside
Log(s) == [c \in Clients |-> s.got[c].events]

\* What a client is shown of a touch is legal, and only the first listener owns it.
LEMMA SoundIs ==
    ASSUME NEW s, NEW who, NEW n, Common(s, who, n)
    PROVE  /\ Promise!Sound(Log(s), who)
           /\ ~s.ti.active => Promise!Finished(Log(s), who)
<1>0. \A l : Promise!Last(l) = Last(l)
  BY DEF Promise!Last, Last
<1>1. s \in Delivery /\ who \subseteq Clients /\ Ranked(s)
  BY DEF Common
<1>2. \A c \in who : Log(s)[c] = s.got[c].events
  BY <1>1 DEF Log
<1>3. Whole \subseteq Promise!Legal /\ \A l \in Listener : Shown(l) \in Promise!Legal
  <2>1. Whole \subseteq Promise!Legal
    BY DEF Whole, Promise!Legal
  <2>2. \A l \in Listener : Shown(l) \in Promise!Legal
    <3>1. TAKE l \in Listener
    <3>2. QED
      BY ShownIs DEF Promise!Legal
  <2>3. QED
    BY <2>1, <2>2
<1>4. ASSUME NEW c \in who
      PROVE  \/ ~IsListener(s, c) /\ s.got[c].events \in Whole
             \/ \E i \in Listeners(s) : /\ s.ti.listeners[i].client = c
                                        /\ s.got[c].events = Shown(s.ti.listeners[i])
                                        /\ s.ti.listeners[i] \in Listener
  <2>1. CASE ~IsListener(s, c)
    BY <2>1 DEF Common
  <2>2. CASE IsListener(s, c)
    <3>1. PICK i \in Listeners(s) : s.ti.listeners[i].client = c
      BY <2>2 DEF IsListener
    <3>2. s.got[c].events = Shown(s.ti.listeners[i])
      BY <3>1 DEF Common, Fits, GotBy
    <3>3. QED
      BY <1>1, <3>1, <3>2, ListenersAre
  <2>3. QED
    BY <2>1, <2>2
<1>5. \A c \in who : Log(s)[c] \in Promise!Legal
  BY <1>2, <1>3, <1>4
<1>6. ASSUME NEW c \in who, Promise!Owns(Log(s), c)
      PROVE  c = s.ti.listeners[1].client
  <2>1. s.got[c].events # <<>> /\ Last(s.got[c].events) = "ownership"
    BY <1>0, <1>2, <1>6 DEF Promise!Owns
  <2>2. s.got[c].events \notin Whole
    BY <2>1, WholeIs
  <2>3. PICK i \in Listeners(s) : /\ s.ti.listeners[i].client = c
                                  /\ s.got[c].events = Shown(s.ti.listeners[i])
                                  /\ s.ti.listeners[i] \in Listener
    BY <1>4, <2>2
  <2>4. ~Waiting(s.ti.listeners[i])
    BY <2>1, <2>3, LastShown
  <2>5. QED
    BY <1>1, <2>3, <2>4 DEF Ranked
<1>7. ASSUME ~s.ti.active, NEW c \in who
      PROVE  Log(s)[c] = <<>> \/ Last(Log(s)[c]) = "end"
  <2>1. s.ti = NoTouch
    BY <1>7 DEF Common
  <2>2. s.got[c].events \in Whole
    BY <2>1, EmptyHas DEF Common, NoTouch
  <2>3. QED
    BY <1>2, <2>2, WholeIs
<1>8. QED
  BY <1>0, <1>5, <1>6, <1>7 DEF Promise!Sound, Promise!Finished

\* Continues is the prefix order of the abstract specification.
LEMMA ContinuesIsPrefix ==
    ASSUME NEW S, NEW log \in Seq(S), NEW more \in Seq(S), Continues(log, more)
    PROVE  IsPrefix(log, more)
<1>1. PICK n \in Nat : n = Len(log)
  OBVIOUS
<1>2. PICK m \in Nat : m = Len(more)
  OBVIOUS
<1>3. n <= m /\ \A k \in 1 .. n : more[k] = log[k] /\ more[k] \in S /\ log[k] \in S
  BY <1>1, <1>2 DEF Continues
<1> DEFINE left == SubSeq(log, 1, n)
           right == SubSeq(more, 1, n)
<1>4. left \in Seq(S) /\ Len(left) = n /\ \A i \in 1 .. n : left[i] = log[i]
  <2>1. /\ left \in Seq(S) /\ Len(left) = IF 1 <= n THEN n - 1 + 1 ELSE 0
        /\ \A i \in 1 .. n - 1 + 1 : left[i] = log[1 + i - 1]
    BY <1>3, SubSeqProperties
  <2> HIDE DEF left
  <2>2. QED
    BY <2>1
<1>5. right \in Seq(S) /\ Len(right) = n /\ \A i \in 1 .. n : right[i] = more[i]
  <2>1. /\ right \in Seq(S) /\ Len(right) = IF 1 <= n THEN n - 1 + 1 ELSE 0
        /\ \A i \in 1 .. n - 1 + 1 : right[i] = more[1 + i - 1]
    BY <1>3, SubSeqProperties
  <2> HIDE DEF right
  <2>2. QED
    BY <2>1
<1> HIDE DEF left, right
<1>6. left = right
  BY <1>3, <1>4, <1>5, SeqEqual
<1>7. QED
  BY <1>1, <1>2, <1>3, <1>6 DEF IsPrefix, left, right

\* The initial states are those of the promise.
LEMMA DeliveryPromised == DeliveryInit => Promise!Init
<1> SUFFICES ASSUME DeliveryInit PROVE Promise!Init
  OBVIOUS
<1>1. \A c \in Clients : got[c].events = <<>>
  BY DEF DeliveryInit, Nothing
<1>2. [c \in Clients |-> got[c].events] = [c \in Clients |-> <<>>]
  BY <1>1
<1>3. alive = Clients /\ ti.active = FALSE
  BY DEF DeliveryInit, NoTouch
<1>4. QED
  BY <1>2, <1>3 DEF Promise!Init

\* The same of the next state
LEMMA SoundLater ==
    ASSUME DeliveryInv'
    PROVE  /\ Promise!Sound([c \in Clients |-> got'[c].events], alive')
           /\ ~ti'.active => Promise!Finished([c \in Clients |-> got'[c].events], alive')
           /\ ti'.active \in BOOLEAN
           /\ \A c \in Clients : got'[c].events \in Seq(Word)
<1>1. PICK s, who, n : s = Now' /\ who = alive' /\ n = updates'
  OBVIOUS
<1>2. Common(s, who, n) /\ s \in Delivery
  <2>1. Common(Now', alive', updates')
    BY DEF DeliveryInv
  <2>2. QED
    BY <1>1, <2>1 DEF Common
<1>3. /\ Promise!Sound(Log(s), who) /\ (~s.ti.active => Promise!Finished(Log(s), who))
  BY <1>2, SoundIs
<1>4. s.ti = ti' /\ s.got = got'
  BY <1>1 DEF Now
<1>5. Log(s) = [c \in Clients |-> got'[c].events]
  BY <1>4 DEF Log
<1>6. ti'.active \in BOOLEAN /\ \A c \in Clients : got'[c].events \in Seq(Word)
  BY <1>2, <1>4, ListenersAre DEF Record
<1>7. QED
  BY <1>1, <1>3, <1>4, <1>5, <1>6

\* A step of an active touch shows the clients more of it, and never takes anything back.
LEMMA ShowsMore ==
    ASSUME DeliveryInv, DeliveryInv', ti.active, NothingTakenBack, alive' \subseteq alive
    PROVE  Promise!Show
<1>1. \A c \in alive' : IsPrefix(got[c].events, got'[c].events)
  <2>1. TAKE c \in alive'
  <2>2. c \in Clients
    BY NowHas
  <2>3. got[c].events \in Seq(Word) /\ got'[c].events \in Seq(Word)
    BY <2>2, NowHas, ListenersAre, SoundLater
  <2>4. QED
    BY <2>2, <2>3, ContinuesIsPrefix DEF NothingTakenBack
<1>2. \A l, m : Promise!IsPrefix(l, m) <=> IsPrefix(l, m)
  BY DEF Promise!IsPrefix, IsPrefix
<1>3. alive \subseteq Clients
  BY NowHas
<1>4. QED
  BY <1>1, <1>2, <1>3, SoundLater DEF Promise!Show

\* Every step is a step of the promise, or changes nothing of it.
LEMMA DeliveryRefines ==
    DeliveryInv /\ [DeliveryNext]_deliveryVars => [Promise!Next]_Promise!vars
<1> SUFFICES ASSUME DeliveryInv, [DeliveryNext]_deliveryVars
             PROVE  Promise!Next \/ UNCHANGED Promise!vars
  OBVIOUS
<1>0. DeliveryInv' /\ ti.active \in BOOLEAN /\ ti'.active \in BOOLEAN
  <2>1. DeliveryInv'
    BY DeliverySteps
  <2>2. QED
    BY <2>1, NowHas, ListenersAre, SoundLater DEF Record
<1>1. CASE Begin
  <2>1. ~ti.active /\ ti'.active /\ alive' = alive
    BY <1>1, StepBegin DEF Begin
  <2>2. Promise!Open
    BY <1>0, <2>1, SoundLater DEF Promise!Open
  <2>3. QED
    BY <2>2 DEF Promise!Next
<1>2. CASE ti.active /\ NothingTakenBack /\ alive' \subseteq alive
  BY <1>0, <1>2, ShowsMore DEF Promise!Next
<1>3. CASE ~ti.active /\ UNCHANGED <<ti, got>> /\ alive' \subseteq alive
  BY <1>3 DEF Promise!Next, Promise!Leave
<1>4. CASE Update \/ End
  <2>1. NothingTakenBack /\ alive' = alive
    BY <1>4, StepUpdate, StepEnd
  <2>2. ~ti.active => UNCHANGED <<ti, got>>
    BY <1>4, NowHas DEF Update, End, Become
  <2>3. QED
    BY <1>2, <1>3, <2>1, <2>2
<1>5. ASSUME NEW c \in Clients, TouchAcceptReject(c) \/ TouchListenerGone(c)
      PROVE  Promise!Next \/ UNCHANGED Promise!vars
  BY <1>2, <1>3, <1>5, StepAnswer, StepGone
<1>6. CASE Over \/ UNCHANGED deliveryVars
  BY <1>6 DEF Over, deliveryVars, Promise!vars
<1>7. QED
  BY <1>1, <1>4, <1>5, <1>6 DEF DeliveryNext

\* What the clients are sent makes a well-formed touch for each of them, and nobody is left
\* without its end: the delivery implements TouchPromise.
THEOREM DeliveryKeepsPromise == DeliverySpec => KeepsPromise
BY DeliveryInvariant, DeliveryPromised, DeliveryRefines, PTL
   DEF DeliverySpec, KeepsPromise, Promise!Spec

=============================================================================
