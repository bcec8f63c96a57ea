-------------------------- MODULE EventQueueProofs --------------------------
(***************************************************************************)
(* Proofs about EventQueue, for any set of devices, any initial size of    *)
(* the ring and any number of events.                                      *)
(***************************************************************************)
EXTENDS EventQueue, SequenceTheorems, TLAPS

-----------------------------------------------------------------------------
\* Arithmetic of the ring.

LEMMA ModRange == \A a \in Int, b \in Nat : b > 0 => a % b \in 0 .. b - 1
  BY SMT

\* mieqNumEnqueued never counts a full ring: one bucket stays free.
LEMMA Counted ==
    ASSUME TypeOK
    PROVE  mieqNumEnqueued \in 0 .. nevents - 1
  BY SMT DEF TypeOK, mieqNumEnqueued

LEMMA SlotInRing ==
    ASSUME TypeOK, NEW i \in Nat
    PROVE  /\ Slot(i) \in 0 .. nevents - 1
           /\ Previous(i) \in 0 .. nevents - 1
           /\ (i + 1) % nevents \in 0 .. nevents - 1
  <1>1. (i + Word - 1) % Word \in Int
    BY ModRange, WordAssumption
  <1> QED BY <1>1, ModRange DEF TypeOK, Slot, Previous

-----------------------------------------------------------------------------
\* What the parts of mieqEnqueue do to the queue.

QueueTypes ==
    /\ nevents \in Nat /\ nevents > 1
    /\ head \in 0 .. nevents - 1
    /\ tail \in 0 .. nevents - 1
    /\ ring \in [0 .. nevents - 1 -> Events \cup {Blank, Freed}]
    /\ lastMotion \in Devices \cup {None}
    /\ growing \in Events \cup {None}

LEMMA StoreTypes ==
    ASSUME TypeOK, NEW i \in 0 .. nevents - 1, NEW e \in Events,
           Store(i, e), UNCHANGED <<nevents, head>>
    PROVE  /\ tail' \in 0 .. nevents' - 1
           /\ ring' \in [0 .. nevents' - 1 -> Events \cup {Blank, Freed}]
           /\ lastMotion' \in Devices \cup {None}
  <1>1. tail' \in 0 .. nevents' - 1
    <2>1. i \in Nat /\ tail' = (i + 1) % nevents
      BY DEF TypeOK, Store
    <2> QED BY <2>1, SlotInRing
  <1>2. ring' \in [0 .. nevents' - 1 -> Events \cup {Blank, Freed}]
    BY DEF TypeOK, Store
  <1>3. lastMotion' \in Devices \cup {None}
    BY DEF Store, Events
  <1> QED BY <1>1, <1>2, <1>3

LEMMA GrowTypes ==
    ASSUME TypeOK, mieqGrowQueue
    PROVE  /\ nevents' \in Nat /\ nevents' > 1
           /\ head' \in 0 .. nevents' - 1
           /\ tail' \in 0 .. nevents' - 1
           /\ ring' \in [0 .. nevents' - 1 -> Events \cup {Blank, Freed}]
  <1>1. nevents' = 2 * nevents /\ nevents' \in Nat /\ nevents' > 1
    BY DEF TypeOK, mieqGrowQueue
  <1>2. head' \in 0 .. nevents' - 1
    BY <1>1 DEF mieqGrowQueue
  <1>3. tail' \in 0 .. nevents' - 1
    BY <1>1, Counted DEF TypeOK, mieqGrowQueue
  <1>4. \A i \in 0 .. nevents - 1 : ring[Slot(i)] \in Events \cup {Blank, Freed}
    <2> TAKE i \in 0 .. nevents - 1
    <2>1. i \in Nat
      BY DEF TypeOK
    <2>2. Slot(i) \in 0 .. nevents - 1
      BY <2>1, SlotInRing
    <2> QED BY <2>2 DEF TypeOK
  <1>5. \A i \in 0 .. 2 * nevents - 1 : i < nevents => i \in 0 .. nevents - 1
    BY DEF TypeOK
  <1>6. ring' \in [0 .. nevents' - 1 -> Events \cup {Blank, Freed}]
    BY <1>1, <1>4, <1>5 DEF mieqGrowQueue
  <1> QED BY <1>1, <1>2, <1>3, <1>6

\* One case for each alternative of mieqEnqueue.
LEMMA EnqueueTypes ==
    ASSUME TypeOK, NEW e \in Events, mieqEnqueue(e)
    PROVE  QueueTypes'
  <1>1. CASE /\ Merges(e)
             /\ Store(Previous(tail), e)
             /\ UNCHANGED <<nevents, head, growing>>
    <2>1. Previous(tail) \in 0 .. nevents - 1
      <3>1. tail \in Nat
        BY DEF TypeOK
      <3> QED BY <3>1, SlotInRing
    <2>2. /\ tail' \in 0 .. nevents' - 1
          /\ ring' \in [0 .. nevents' - 1 -> Events \cup {Blank, Freed}]
          /\ lastMotion' \in Devices \cup {None}
      BY <1>1, <2>1, StoreTypes
    <2> QED BY <1>1, <2>2 DEF TypeOK, QueueTypes
  <1>2. CASE /\ ~Merges(e) /\ ~Full
             /\ Store(tail, e)
             /\ UNCHANGED <<nevents, head, growing>>
    BY <1>2, StoreTypes DEF TypeOK, QueueTypes
  <1>3. CASE /\ ~Merges(e) /\ Full
             /\ mieqGrowQueue
             /\ growing' = e
             /\ UNCHANGED lastMotion
    BY <1>3, GrowTypes DEF TypeOK, QueueTypes
  <1>4. CASE UNCHANGED <<ring, nevents, head, tail, lastMotion, growing>>
    BY <1>4 DEF TypeOK, QueueTypes
  <1>5. CASE mieqGrowQueueUnwinds /\ UNCHANGED <<lastMotion, growing>>
    <2>1. ring' \in [0 .. nevents - 1 -> Events \cup {Blank, Freed}]
      BY <1>5 DEF mieqGrowQueueUnwinds
    <2> QED BY <1>5, <2>1 DEF mieqGrowQueueUnwinds, TypeOK, QueueTypes
  <1> QED BY <1>1, <1>2, <1>3, <1>4, <1>5 DEF mieqEnqueue

-----------------------------------------------------------------------------

\* The variables have their types in every reachable state; in particular head
\* and tail stay inside the ring, whatever mieqEnqueue and the growth do to it.
THEOREM TypeCorrect == Spec => []TypeOK
<1>1. Init => TypeOK
  <2> SUFFICES ASSUME Init
               PROVE  TypeOK
    OBVIOUS
  <2>1. /\ nevents \in Nat /\ nevents > 1
        /\ head \in 0 .. nevents - 1
        /\ tail \in 0 .. nevents - 1
    BY InitialSizeAssumption DEF Init
  <2>2. ring \in [0 .. nevents - 1 -> Events \cup {Blank, Freed}]
    BY DEF Init
  <2>3. status \in [Devices -> {"on", "off", "removed"}]
    BY DEF Init
  <2>4. generated \in 0 .. MaxEvents /\ hotplugs \in 0 .. MaxHotplugs
    BY BoundsAssumption DEF Init
  <2>5. /\ lastMotion \in Devices \cup {None}
        /\ growing \in Events \cup {None}
        /\ seen \in [of : {"head", "tail"}, at : Nat, size : Nat] \cup {None}
        /\ victim \in Devices \cup {None}
        /\ current \in Events \cup {Blank, Freed, None}
    BY DEF Init
  <2>6. /\ held \in BOOLEAN /\ fooled \in BOOLEAN
        /\ pc \in {"check", "process", "deliver", "wait", "request", "off", "close"}
        /\ ret \in {"wait", "request", "off", "close"}
    BY DEF Init
  <2> QED BY <2>1, <2>2, <2>3, <2>4, <2>5, <2>6 DEF TypeOK
<1>2. TypeOK /\ [Next]_vars => TypeOK'
  <2> SUFFICES ASSUME TypeOK, [Next]_vars
               PROVE  TypeOK'
    OBVIOUS
  <2>1. CASE Generate
    <3>1. PICK d \in Devices, m \in BOOLEAN :
             mieqEnqueue([id |-> generated', dev |-> d, motion |-> m])
      BY <2>1 DEF Generate
    <3>2. generated' \in 1 .. MaxEvents /\ hotplugs' = hotplugs
      BY <2>1, BoundsAssumption DEF Generate, TypeOK
    <3>3. [id |-> generated', dev |-> d, motion |-> m] \in Events
      BY <3>2 DEF Events
    <3>4. QueueTypes'
      BY <3>1, <3>3, EnqueueTypes
    <3>5. UNCHANGED <<mainVars, status>>
      BY <3>1 DEF mieqEnqueue
    <3>6. generated' \in 0 .. MaxEvents /\ hotplugs' \in 0 .. MaxHotplugs
      BY <3>2, BoundsAssumption DEF TypeOK
    <3>7. UNCHANGED <<held, pc, ret, seen, victim, current, fooled, status>>
      BY <3>5 DEF mainVars
    <3> QED BY <3>4, <3>6, <3>7 DEF TypeOK, QueueTypes
  <2>2. CASE EnqueueGrown
    <3>1. growing \in Events /\ tail \in 0 .. nevents - 1
      BY <2>2 DEF EnqueueGrown, TypeOK
    <3>2. /\ tail' \in 0 .. nevents' - 1
          /\ ring' \in [0 .. nevents' - 1 -> Events \cup {Blank, Freed}]
          /\ lastMotion' \in Devices \cup {None}
      BY <2>2, <3>1, StoreTypes DEF EnqueueGrown
    <3> QED BY <2>2, <3>2 DEF EnqueueGrown, TypeOK, mainVars, bounds
  <2>3. CASE CheckOne
    BY <2>3 DEF CheckOne, TypeOK, queueVars, bounds
  <2>4. CASE CheckOther
    BY <2>4 DEF CheckOther, TypeOK, queueVars, bounds
  <2>5. CASE mieqProcessInputEvents
    <3>1. head \in Nat /\ ring[head] \in Events \cup {Blank, Freed}
      BY DEF TypeOK
    <3>2. (head + 1) % nevents \in 0 .. nevents - 1
      BY <3>1, SlotInRing
    <3>3. CASE head # tail
      BY <2>5, <3>1, <3>2, <3>3 DEF mieqProcessInputEvents, TypeOK, bounds
    <3>4. CASE head = tail
      BY <2>5, <3>4 DEF mieqProcessInputEvents, TypeOK, bounds
    <3> QED BY <3>3, <3>4
  <2>6. CASE mieqProcessDeviceEvent
    BY <2>6 DEF mieqProcessDeviceEvent, TypeOK, queueVars, bounds
  <2>7. CASE WaitForSomething
    BY <2>7 DEF WaitForSomething, CheckBefore, TypeOK, queueVars, bounds
  <2>8. CASE OtherRequest
    BY <2>8 DEF OtherRequest, CheckBefore, TypeOK, queueVars, bounds
  <2>9. CASE DeviceOff
    BY <2>9 DEF DeviceOff, CheckBefore, TypeOK, queueVars, bounds
  <2>10. CASE CloseDevice
    BY <2>10 DEF CloseDevice, TypeOK, queueVars, bounds
  <2>11. ASSUME NEW d \in Devices, EnableDevice(d)
         PROVE  TypeOK'
    BY <2>11 DEF EnableDevice, CheckBefore, TypeOK, queueVars, bounds
  <2>12. ASSUME NEW d \in Devices, DisableDevice(d)
         PROVE  TypeOK'
    BY <2>12 DEF DisableDevice, Flush, TypeOK, queueVars, bounds
  <2>13. ASSUME NEW d \in Devices, DeleteInputDeviceRequest(d)
         PROVE  TypeOK'
    BY <2>13 DEF DeleteInputDeviceRequest, Flush, TypeOK, queueVars, mainVars, bounds
  <2>14. ASSUME NEW d \in Devices, NewInputDevice(d)
         PROVE  TypeOK'
    BY <2>14, BoundsAssumption DEF NewInputDevice, TypeOK, queueVars, mainVars
  <2>15. CASE UNCHANGED vars
    BY <2>15 DEF TypeOK, vars, queueVars, mainVars, bounds
  <2> QED BY <2>1, <2>2, <2>3, <2>4, <2>5, <2>6, <2>7, <2>8, <2>9, <2>10, <2>11, <2>12,
             <2>13, <2>14, <2>15 DEF Next, Proceed, Change
<1> QED BY <1>1, <1>2, PTL DEF Spec

-----------------------------------------------------------------------------
(***************************************************************************)
(* Events and their devices.  An event is stale when its device is not on. *)
(* Such an event gets into the queue only by DEVICE_OFF, and then the main *)
(* thread is on its way to a check that will find the queue not empty, and *)
(* to its processing; no device is freed on that way.                      *)
(***************************************************************************)

\* The size of the ring divides 2^32, as a power of two does up to that size.
SizeDivides == \E q \in Nat : Word = q * nevents

\* The buckets from head on, up to tail
Live(s) ==
    /\ s \in 0 .. nevents - 1
    /\ IF head <= tail THEN head <= s /\ s < tail ELSE head <= s \/ s < tail

StaleAt(s) == Live(s) /\ ring[s] \in Events /\ status[ring[s].dev] # "on"

Stale == \E s \in Nat : StaleAt(s)

GoneAt(s) == Live(s) /\ ring[s] \in Events /\ status[ring[s].dev] = "removed"

NoneGone == \A s \in Nat : ~GoneAt(s)

PathInv ==
    /\ pc # "check" => seen = None
    /\ pc = "check" => ret \in {"wait", "request"}
    /\ ret = "close" => held /\ pc \in {"process", "deliver", "close"}
    /\ pc = "close" => ret = "close" /\ head = tail
    /\ held => growing = None
    /\ growing # None => status[growing.dev] = "on" /\ ~Full

SeenInv ==
    seen # None =>
        /\ seen.size <= nevents
        /\ seen.of = "head" /\ seen.size = nevents => seen.at = head

StaleInv ==
    ~fooled =>
        /\ Stale => /\ pc \in {"check", "process", "deliver"}
                    /\ ret \in {"wait", "request"}
                    /\ seen # None /\ seen.of = "tail" /\ seen.size = nevents
                          => seen.at # head
        /\ NoneGone

FlushInv == PathInv /\ SeenInv /\ StaleInv

LEMMA ModOnce ==
    ASSUME NEW n \in Nat, n > 0, NEW a \in 0 .. 2 * n - 1
    PROVE  a % n = IF a < n THEN a ELSE a - n
  BY SMT

LEMMA ModMultiple ==
    ASSUME NEW n \in Nat, n > 0, NEW q \in Nat, q > 0
    PROVE  (q * n - 1) % n = n - 1
  BY SMT

LEMMA PreviousIs ==
    ASSUME TypeOK, SizeDivides
    PROVE  Previous(tail) = IF tail = 0 THEN nevents - 1 ELSE tail - 1
  <1>1. PICK q \in Nat : Word = q * nevents
    BY DEF SizeDivides
  <1>2. q > 0 /\ nevents \in Nat /\ nevents > 1 /\ tail \in 0 .. nevents - 1 /\ Word \in Nat
    BY <1>1, WordAssumption DEF TypeOK
  <1>3. nevents <= Word
    BY <1>1, <1>2
  <1>4. CASE tail = 0
    <2>1. (tail + Word - 1) % Word = Word - 1
      BY <1>2, <1>3, <1>4, ModOnce
    <2>2. (Word - 1) % nevents = nevents - 1
      BY <1>1, <1>2, ModMultiple
    <2> QED BY <1>4, <2>1, <2>2 DEF Previous
  <1>5. CASE tail # 0
    <2>1. (tail + Word - 1) % Word = tail - 1
      BY <1>2, <1>3, <1>5, ModOnce
    <2>2. (tail - 1) % nevents = tail - 1
      BY <1>2, <1>5, ModOnce
    <2> QED BY <1>5, <2>1, <2>2 DEF Previous
  <1> QED BY <1>4, <1>5

\* The events of Queued lie in live buckets.
LEMMA QueuedLive ==
    ASSUME TypeOK, NEW i \in 0 .. mieqNumEnqueued - 1
    PROVE  Slot(i) \in Nat /\ Live(Slot(i))
  <1>1. /\ nevents \in Nat /\ nevents > 1
        /\ head \in 0 .. nevents - 1 /\ tail \in 0 .. nevents - 1
    BY DEF TypeOK
  <1>2. mieqNumEnqueued = IF tail >= head THEN tail - head ELSE tail - head + nevents
    BY <1>1 DEF mieqNumEnqueued
  <1>3. head + i \in 0 .. 2 * nevents - 1
    BY <1>1, <1>2
  <1>4. Slot(i) = IF head + i < nevents THEN head + i ELSE head + i - nevents
    BY <1>1, <1>3, ModOnce DEF Slot
  <1> QED BY <1>1, <1>2, <1>4 DEF Live

\* What is live after an event was stored: that event, or what was live before.
LEMMA StoreLive ==
    ASSUME TypeOK, NEW i \in 0 .. nevents - 1, NEW e \in Events,
           Store(i, e), UNCHANGED <<nevents, head>>,
           \/ i = tail /\ ~Full
           \/ tail # head /\ i = IF tail = 0 THEN nevents - 1 ELSE tail - 1,
           NEW s \in Nat, Live(s)'
    PROVE  ring'[s] = e \/ (Live(s) /\ ring'[s] = ring[s])
  <1>1. /\ nevents \in Nat /\ nevents > 1 /\ i \in Nat
        /\ head \in 0 .. nevents - 1 /\ tail \in 0 .. nevents - 1
    BY DEF TypeOK
  <1>2. tail' = IF i + 1 < nevents THEN i + 1 ELSE i + 1 - nevents
    <2>1. tail' = (i + 1) % nevents /\ i + 1 \in 0 .. 2 * nevents - 1
      BY <1>1 DEF Store
    <2> QED BY <1>1, <2>1, ModOnce
  <1>3. ring'[s] = IF s = i THEN e ELSE ring[s]
    BY DEF Store, TypeOK, Live
  <1>4. ASSUME s # i PROVE Live(s)
    <2>1. CASE i = tail
      BY <1>1, <1>2, <1>4, <2>1 DEF Live
    <2>2. CASE tail # head /\ i = IF tail = 0 THEN nevents - 1 ELSE tail - 1
      BY <1>1, <1>2, <1>4, <2>2 DEF Live
    <2> QED BY <2>1, <2>2
  <1>5. CASE s = i
    BY <1>3, <1>5
  <1>6. CASE s # i
    BY <1>3, <1>4, <1>6
  <1> QED BY <1>5, <1>6

\* What is live after the ring has grown was live before.
LEMMA GrowLive ==
    ASSUME TypeOK, mieqGrowQueue, NEW s \in Nat, Live(s)'
    PROVE  \E t \in Nat : Live(t) /\ ring'[s] = ring[t]
  <1>1. s \in 0 .. mieqNumEnqueued - 1 /\ s < nevents
    BY Counted DEF mieqGrowQueue, Live, TypeOK
  <1>2. ring'[s] = ring[Slot(s)]
    BY <1>1 DEF mieqGrowQueue, TypeOK
  <1> QED BY <1>1, <1>2, QueuedLive

LEMMA EnqueueLive ==
    ASSUME TypeOK, SizeDivides, NEW e \in Events, mieqEnqueue(e),
           NEW s \in Nat, Live(s)', ring'[s] \in Events
    PROVE  ring'[s] = e \/ \E t \in Nat : Live(t) /\ ring'[s] = ring[t]
  <1>1. CASE /\ Merges(e)
             /\ Store(Previous(tail), e)
             /\ UNCHANGED <<nevents, head, growing>>
    <2>1. tail # head /\ tail \in Nat
      BY <1>1 DEF Merges, TypeOK
    <2>2. Previous(tail) \in 0 .. nevents - 1
      BY <2>1, SlotInRing
    <2> QED BY <1>1, <2>1, <2>2, PreviousIs, StoreLive
  <1>2. CASE /\ ~Merges(e) /\ ~Full
             /\ Store(tail, e)
             /\ UNCHANGED <<nevents, head, growing>>
    <2>1. tail \in 0 .. nevents - 1
      BY DEF TypeOK
    <2> QED BY <1>2, <2>1, StoreLive
  <1>3. CASE mieqGrowQueue
    BY <1>3, GrowLive
  <1>4. CASE UNCHANGED <<ring, nevents, head, tail, lastMotion, growing>>
    BY <1>4 DEF Live
  <1>5. CASE mieqGrowQueueUnwinds
    BY <1>5, BucketAssumption DEF mieqGrowQueueUnwinds, Live
  <1> QED BY <1>1, <1>2, <1>3, <1>4, <1>5 DEF mieqEnqueue

-----------------------------------------------------------------------------
\* How the steps change what is stale, and what points to a freed device.

\* A step that leaves the devices alone, and puts into the queue at most an
\* event of a device that is on.
LEMMA QueueStep ==
    ASSUME UNCHANGED status,
           \A s \in Nat : Live(s)' /\ ring'[s] \in Events =>
               \/ status[ring'[s].dev] = "on"
               \/ \E t \in Nat : Live(t) /\ ring'[s] = ring[t]
    PROVE  (Stale' => Stale) /\ (NoneGone => NoneGone')
  <1>1. ASSUME NEW s \in Nat, StaleAt(s)' PROVE Stale
    <2>1. Live(s)' /\ ring'[s] \in Events /\ status[ring'[s].dev] # "on"
      BY <1>1 DEF StaleAt
    <2>2. PICK t \in Nat : Live(t) /\ ring'[s] = ring[t]
      BY <2>1
    <2> QED BY <2>1, <2>2 DEF Stale, StaleAt
  <1>2. ASSUME NEW s \in Nat, GoneAt(s)' PROVE ~NoneGone
    <2>1. Live(s)' /\ ring'[s] \in Events /\ status[ring'[s].dev] = "removed"
      BY <1>2 DEF GoneAt
    <2>2. PICK t \in Nat : Live(t) /\ ring'[s] = ring[t]
      BY <2>1
    <2> QED BY <2>1, <2>2 DEF NoneGone, GoneAt
  <1>3. Stale' => Stale
    BY <1>1 DEF Stale
  <1>4. NoneGone => NoneGone'
    BY <1>2 DEF NoneGone
  <1> QED BY <1>3, <1>4

\* A step that changes neither.
LEMMA QuietStep ==
    ASSUME UNCHANGED <<ring, nevents, head, tail, status>>
    PROVE  (Stale' => Stale) /\ (NoneGone => NoneGone')
  <1>1. \A s \in Nat : Live(s)' <=> Live(s)
    BY DEF Live
  <1> QED BY <1>1 DEF Stale, StaleAt, NoneGone, GoneAt

\* A step that gives one device another status.
LEMMA StatusStep ==
    ASSUME TypeOK, UNCHANGED <<ring, nevents, head, tail>>,
           NEW d, NEW x, status' = [status EXCEPT ![d] = x]
    PROVE  /\ x = "on" => (Stale' => Stale)
           /\ x # "removed" => (NoneGone => NoneGone')
           /\ ~Stale /\ x = "removed" /\ status[d] # "on" =>
                  ~Stale' /\ (NoneGone => NoneGone')
  <1>1. \A s \in Nat : Live(s)' <=> Live(s)
    BY DEF Live
  <1>2. \A s \in Nat : Live(s) /\ ring[s] \in Events =>
           /\ ring[s].dev \in Devices
           /\ ring[s].dev # d => status'[ring[s].dev] = status[ring[s].dev]
           /\ ring[s].dev = d => status'[ring[s].dev] = x
    BY DEF TypeOK, Events
  <1>3. x = "on" => (Stale' => Stale)
    BY <1>1, <1>2 DEF Stale, StaleAt
  <1>4. x # "removed" => (NoneGone => NoneGone')
    BY <1>1, <1>2 DEF NoneGone, GoneAt
  <1>5. ASSUME ~Stale, status[d] # "on" PROVE ~Stale' /\ (NoneGone => NoneGone')
    <2>1. \A s \in Nat : Live(s) /\ ring[s] \in Events => ring[s].dev # d
      BY <1>5 DEF Stale, StaleAt
    <2>2. ~Stale'
      BY <1>1, <1>2, <1>5, <2>1 DEF Stale, StaleAt
    <2>3. NoneGone => NoneGone'
      BY <1>1, <1>2, <2>1 DEF NoneGone, GoneAt
    <2> QED BY <2>2, <2>3
  <1> QED BY <1>3, <1>4, <1>5

\* An empty queue holds nothing.
LEMMA EmptyQueue ==
    ASSUME head = tail, TypeOK
    PROVE  ~Stale /\ NoneGone
  <1>1. \A s \in Nat : ~Live(s)
    BY DEF Live, TypeOK
  <1> QED BY <1>1 DEF Stale, StaleAt, NoneGone, GoneAt

LEMMA EmptyQueueNext ==
    ASSUME head' = tail', TypeOK'
    PROVE  ~Stale' /\ NoneGone'
  <1>1. head' \in Nat /\ tail' \in Nat
    BY DEF TypeOK
  <1>2. \A s \in Nat : ~Live(s)'
    BY <1>1 DEF Live
  <1> QED BY <1>2 DEF Stale, StaleAt, NoneGone, GoneAt

LEMMA FlushInit == Init /\ TypeOK => FlushInv
  <1> SUFFICES ASSUME Init, TypeOK
               PROVE  FlushInv
    OBVIOUS
  <1>1. ~Stale /\ NoneGone
    BY EmptyQueue DEF Init
  <1>2. PathInv /\ SeenInv
    BY DEF Init, PathInv, SeenInv
  <1> QED BY <1>1, <1>2 DEF FlushInv, StaleInv

\* mieqEnqueue does not disturb a check that is under way, except by growing.
LEMMA GenerateFlush ==
    ASSUME TypeOK, SizeDivides, FlushInv, Generate
    PROVE  FlushInv'
  <1>1. PICK d \in Devices, m \in BOOLEAN :
           /\ status[d] = "on"
           /\ mieqEnqueue([id |-> generated', dev |-> d, motion |-> m])
    BY DEF Generate
  <1> DEFINE e == [id |-> generated', dev |-> d, motion |-> m]
  <1>2. e \in Events
    BY BoundsAssumption DEF Generate, TypeOK, Events
  <1>3. mieqEnqueue(e) /\ status[e.dev] = "on"
    BY <1>1
  <1> HIDE DEF e
  <1>4. growing = None /\ ~held
    BY <1>3 DEF mieqEnqueue, Unlocked
  <1>5. UNCHANGED <<held, pc, ret, seen, victim, current, fooled, status>>
    BY <1>3 DEF mieqEnqueue, mainVars
  <1>6. /\ Stale' => Stale
        /\ NoneGone => NoneGone'
    BY <1>2, <1>3, <1>5, EnqueueLive, QueueStep
  <1>7. \/ head' = head /\ nevents' = nevents
        \/ nevents' = 2 * nevents
    BY <1>3 DEF mieqEnqueue, mieqGrowQueue, mieqGrowQueueUnwinds
  <1>8. growing' # None => growing' = e /\ ~Full'
    <2>1. CASE mieqGrowQueue /\ growing' = e
      <3>1. PICK k \in 0 .. nevents - 1 : tail' = k
        BY <2>1, Counted DEF mieqGrowQueue
      <3>2. /\ nevents \in Nat /\ nevents > 1
            /\ nevents' = 2 * nevents /\ head' = 0
        BY <2>1 DEF TypeOK, mieqGrowQueue
      <3>3. ~Full'
        BY <3>1, <3>2 DEF Full, mieqNumEnqueued
      <3> QED BY <2>1, <3>3
    <2> QED BY <1>3, <1>4, <2>1 DEF mieqEnqueue
  <1>9. PathInv'
    <2>1. pc # "close" /\ ret # "close"
      BY <1>4 DEF FlushInv, PathInv
    <2> QED BY <1>3, <1>4, <1>5, <1>8, <2>1 DEF FlushInv, PathInv
  <1>10. seen # None => seen.size \in Nat /\ seen.size <= nevents
    BY DEF FlushInv, SeenInv, TypeOK
  <1>11. nevents \in Nat /\ nevents > 1
    BY DEF TypeOK
  <1>12. seen # None /\ seen.size = nevents' => head' = head /\ nevents' = nevents
    BY <1>7, <1>10, <1>11
  <1>13. SeenInv'
    <2>1. seen # None => seen.size <= nevents'
      BY <1>7, <1>10, <1>11
    <2> QED BY <1>5, <1>12, <2>1 DEF FlushInv, SeenInv
  <1>14. StaleInv'
    BY <1>5, <1>6, <1>12 DEF FlushInv, StaleInv
  <1> QED BY <1>9, <1>13, <1>14 DEF FlushInv

\* The rest of mieqEnqueue after the growth puts in the event of a device that is on.
LEMMA EnqueueGrownFlush ==
    ASSUME TypeOK, FlushInv, EnqueueGrown
    PROVE  FlushInv'
  <1>1. /\ growing \in Events /\ status[growing.dev] = "on" /\ ~Full /\ ~held
    BY DEF EnqueueGrown, TypeOK, FlushInv, PathInv
  <1>2. /\ Store(tail, growing)
        /\ growing' = None
        /\ UNCHANGED <<nevents, head, held, pc, ret, seen, victim, current, fooled, status>>
    BY DEF EnqueueGrown, mainVars
  <1>3. tail \in 0 .. nevents - 1
    BY DEF TypeOK
  <1>4. \A s \in Nat : Live(s)' => ring'[s] = growing \/ (Live(s) /\ ring'[s] = ring[s])
    BY <1>1, <1>2, <1>3, StoreLive
  <1>5. /\ Stale' => Stale
        /\ NoneGone => NoneGone'
    BY <1>1, <1>2, <1>4, QueueStep
  <1>6. PathInv' /\ SeenInv'
    BY <1>1, <1>2 DEF FlushInv, PathInv, SeenInv
  <1>7. StaleInv'
    BY <1>2, <1>5 DEF FlushInv, StaleInv
  <1> QED BY <1>6, <1>7 DEF FlushInv

\* InputCheckPending finds a queue with a stale event pending, or it was misled.
LEMMA CheckFlush ==
    ASSUME TypeOK, FlushInv, CheckOne \/ CheckOther
    PROVE  FlushInv'
  <1>1. UNCHANGED <<ring, nevents, head, tail, growing, held, ret, status>> /\ pc = "check"
    BY DEF CheckOne, CheckOther, queueVars
  <1>2. /\ Stale' => Stale
        /\ NoneGone => NoneGone'
    BY <1>1, QuietStep
  <1>3. Stale => head # tail
    BY EmptyQueue
  <1>4. Full' <=> Full
    BY <1>1 DEF Full, mieqNumEnqueued
  <1>5. /\ ret \in {"wait", "request"}
        /\ growing # None => status[growing.dev] = "on" /\ ~Full
        /\ held => growing = None
    BY <1>1 DEF FlushInv, PathInv
  <1>6. CASE CheckOne
    <2>1. /\ pc' = "check" /\ fooled' = fooled
          /\ seen' \in {[of |-> "head", at |-> head, size |-> nevents],
                        [of |-> "tail", at |-> tail, size |-> nevents]}
      BY <1>6 DEF CheckOne
    <2>2. PathInv'
      BY <1>1, <1>4, <1>5, <2>1 DEF PathInv
    <2>3. SeenInv'
      BY <1>1, <2>1 DEF SeenInv, TypeOK
    <2>4. StaleInv'
      BY <1>1, <1>2, <1>3, <1>5, <2>1 DEF FlushInv, StaleInv
    <2> QED BY <2>2, <2>3, <2>4 DEF FlushInv
  <1>7. CASE CheckOther
    <2>1. seen # None /\ seen' = None
      BY <1>7 DEF CheckOther
    <2>2. seen.of = "head" \/ seen.of = "tail"
      BY <2>1 DEF TypeOK
    <2>3. \/ pc' = "process" /\ fooled' = fooled
          \/ /\ pc' = ret
             /\ seen.at = IF seen.of = "head" THEN tail ELSE head
             /\ ~fooled' => ~fooled /\ seen.size = nevents
      BY <1>7 DEF CheckOther, TypeOK
    <2>4. PathInv'
      BY <1>1, <1>4, <1>5, <2>1, <2>3 DEF PathInv
    <2>5. SeenInv'
      BY <2>1 DEF SeenInv
    <2>6. ASSUME ~fooled', Stale'
          PROVE  pc' = "process"
      BY <1>2, <1>3, <2>1, <2>2, <2>3, <2>6 DEF FlushInv, SeenInv, StaleInv
    <2>7. ~fooled' => ~fooled
      BY <2>3
    <2>8. StaleInv'
      BY <1>1, <1>2, <1>5, <2>1, <2>6, <2>7 DEF FlushInv, StaleInv
    <2> QED BY <2>4, <2>5, <2>8 DEF FlushInv
  <1> QED BY <1>6, <1>7

\* Taking an event leaves no bucket that was not live, and the loop only ends
\* with an empty queue.
LEMMA ProcessFlush ==
    ASSUME TypeOK, FlushInv, mieqProcessInputEvents
    PROVE  FlushInv'
  <1>1. /\ pc = "process" /\ growing = None
        /\ UNCHANGED <<ring, nevents, tail, growing, ret, seen, fooled, status>>
    BY DEF mieqProcessInputEvents
  <1>2. seen = None
    BY <1>1 DEF FlushInv, PathInv
  <1>3. CASE head # tail
    <2>1. head' = (head + 1) % nevents /\ pc' = "deliver" /\ held' = held
      BY <1>3 DEF mieqProcessInputEvents
    <2>2. /\ nevents \in Nat /\ nevents > 1
          /\ head \in 0 .. nevents - 1 /\ tail \in 0 .. nevents - 1
      BY DEF TypeOK
    <2>3. head' = IF head + 1 < nevents THEN head + 1 ELSE head + 1 - nevents
      <3>1. head + 1 \in 0 .. 2 * nevents - 1
        BY <2>2
      <3> QED BY <2>1, <2>2, <3>1, ModOnce
    <2>4. \A s \in Nat : Live(s)' => Live(s)
      BY <1>1, <1>3, <2>2, <2>3 DEF Live
    <2>5. /\ Stale' => Stale
          /\ NoneGone => NoneGone'
      BY <1>1, <2>4, QueueStep
    <2>6. PathInv' /\ SeenInv'
      BY <1>1, <1>2, <2>1 DEF FlushInv, PathInv, SeenInv
    <2>7. StaleInv'
      BY <1>1, <1>2, <2>1, <2>5 DEF FlushInv, StaleInv
    <2> QED BY <2>6, <2>7 DEF FlushInv
  <1>4. CASE head = tail
    <2>1. pc' = ret /\ held' = (ret = "close") /\ head' = head
      BY <1>4 DEF mieqProcessInputEvents
    <2>2. ~Stale /\ NoneGone
      BY <1>4, EmptyQueue
    <2>3. ~Stale' /\ NoneGone'
      BY <1>1, <2>1, <2>2, QuietStep
    <2>4. ret # "check"
      BY DEF TypeOK
    <2>5. SeenInv'
      BY <1>1, <1>2 DEF SeenInv
    <2>6. PathInv'
      BY <1>1, <1>2, <1>4, <2>1, <2>4 DEF FlushInv, PathInv
    <2> QED BY <2>3, <2>5, <2>6 DEF FlushInv, StaleInv
  <1> QED BY <1>3, <1>4

\* The other steps change neither the queue nor what was seen of it.
LEMMA MainFlush ==
    ASSUME TypeOK, FlushInv,
           UNCHANGED <<ring, nevents, head, tail, growing, fooled>>,
           pc # "check", seen' = seen,
           ~fooled => (Stale' => pc' \in {"check", "process", "deliver"}
                                   /\ ret' \in {"wait", "request"}),
           ~fooled => NoneGone',
           pc' = "check" => ret' \in {"wait", "request"},
           ret' = "close" => held' /\ pc' \in {"process", "deliver", "close"},
           pc' # "close",
           held' => growing = None,
           growing # None => status'[growing.dev] = status[growing.dev]
    PROVE  FlushInv'
  <1>1. seen = None
    BY DEF FlushInv, PathInv
  <1>2. Full' <=> Full
    BY DEF Full, mieqNumEnqueued
  <1>3. PathInv'
    BY <1>1, <1>2 DEF FlushInv, PathInv
  <1>4. SeenInv' /\ StaleInv'
    BY <1>1 DEF SeenInv, StaleInv
  <1> QED BY <1>3, <1>4 DEF FlushInv

\* Every step keeps FlushInv: the device of a stale event is freed by no step.
LEMMA FlushStep ==
    ASSUME TypeOK, TypeOK', SizeDivides, FlushInv, [Next]_vars
    PROVE  FlushInv'
  <1>1. /\ pc # "check" => seen = None
        /\ held => growing = None
        /\ ret = "close" => held /\ pc \in {"process", "deliver", "close"}
        /\ pc = "close" => ret = "close" /\ head = tail
    BY DEF FlushInv, PathInv
  <1>2. /\ ~fooled /\ Stale => /\ pc \in {"check", "process", "deliver"}
                               /\ ret \in {"wait", "request"}
        /\ ~fooled => NoneGone
    BY DEF FlushInv, StaleInv
  <1>3. UNCHANGED <<ring, nevents, head, tail, status>> =>
           (Stale' => Stale) /\ (NoneGone => NoneGone')
    BY QuietStep
  <1>4. ASSUME mieqProcessDeviceEvent
        PROVE  FlushInv'
    <2>1. /\ pc = "deliver" /\ pc' = "process"
          /\ UNCHANGED <<ring, nevents, head, tail, growing, held, ret, seen, fooled, status>>
      BY <1>4 DEF mieqProcessDeviceEvent, queueVars
    <2> QED BY <1>1, <1>2, <1>3, <2>1, MainFlush
  <1>5. ASSUME WaitForSomething \/ OtherRequest
        PROVE  FlushInv'
    <2>1. /\ pc \in {"wait", "request"} /\ pc' = "check" /\ ret' \in {"wait", "request"}
          /\ UNCHANGED <<ring, nevents, head, tail, growing, held, seen, fooled, status>>
      BY <1>5 DEF WaitForSomething, OtherRequest, CheckBefore, queueVars
    <2> QED BY <1>1, <1>2, <1>3, <2>1, MainFlush
  <1>6. ASSUME DeviceOff
        PROVE  FlushInv'
    <2>1. /\ pc = "off" /\ pc' = "check" /\ ret' \in {"wait", "request"}
          /\ growing = None
          /\ status' = [status EXCEPT ![victim] = "off"]
          /\ UNCHANGED <<ring, nevents, head, tail, growing, held, seen, fooled>>
      BY <1>6 DEF DeviceOff, CheckBefore, queueVars
    <2>2. NoneGone => NoneGone'
      <3>1. "off" # "removed"
        OBVIOUS
      <3> QED BY <2>1, <3>1, StatusStep, Zenon
    <2> QED BY <1>1, <1>2, <2>1, <2>2, MainFlush
  <1>7. ASSUME CloseDevice
        PROVE  FlushInv'
    <2>1. /\ pc = "close" /\ pc' = "wait" /\ ret' = "wait" /\ held' = FALSE
          /\ UNCHANGED <<ring, nevents, head, tail, growing, seen, fooled>>
      BY <1>7 DEF CloseDevice, queueVars
    <2>2. growing = None
      BY <1>1, <2>1
    <2>3. ~Stale' /\ NoneGone'
      BY <1>1, <2>1, EmptyQueueNext
    <2> QED BY <2>1, <2>2, <2>3, MainFlush
  <1>8. ASSUME NEW d \in Devices, EnableDevice(d) \/ NewInputDevice(d)
        PROVE  FlushInv'
    <2>1. /\ pc \in {"wait", "request"} /\ growing = None /\ ~held
          /\ status' = [status EXCEPT ![d] = "on"]
          /\ UNCHANGED <<ring, nevents, head, tail, growing, held, seen, fooled>>
          /\ \/ pc' = "check" /\ ret' \in {"wait", "request"}
             \/ pc' = pc /\ ret' = ret
      BY <1>8 DEF EnableDevice, NewInputDevice, CheckBefore, Unlocked, queueVars, mainVars
    <2>2. /\ Stale' => Stale
          /\ NoneGone => NoneGone'
      <3>1. "on" # "removed"
        OBVIOUS
      <3> QED BY <2>1, <3>1, StatusStep, Zenon
    <2> QED BY <1>1, <1>2, <2>1, <2>2, MainFlush
  <1>9. ASSUME NEW d \in Devices, pc \in {"wait", "request"}, Unlocked,
               Flush(d, "off") \/ Flush(d, "close")
        PROVE  FlushInv'
    <2>1. /\ growing = None
          /\ pc' = "process" /\ held' /\ ret' \in {"off", "close"}
          /\ UNCHANGED <<ring, nevents, head, tail, growing, seen, fooled, status>>
      BY <1>9 DEF Flush, Unlocked, queueVars
    <2> QED BY <1>1, <1>2, <1>3, <1>9, <2>1, MainFlush
  <1>10. ASSUME NEW d \in Devices, pc = "wait", Unlocked, status[d] = "off",
                status' = [status EXCEPT ![d] = "removed"],
                UNCHANGED <<queueVars, mainVars>>
         PROVE  FlushInv'
    <2>1. /\ growing = None /\ ~held
          /\ UNCHANGED <<ring, nevents, head, tail, growing, held, pc, ret, seen, fooled>>
      BY <1>10 DEF Unlocked, queueVars, mainVars
    <2>2. ~Stale => ~Stale' /\ (NoneGone => NoneGone')
      BY <1>10, <2>1, StatusStep
    <2> QED BY <1>1, <1>2, <1>10, <2>1, <2>2, MainFlush
  <1>11. ASSUME UNCHANGED vars
         PROVE  FlushInv'
    <2>1. UNCHANGED <<ring, nevents, head, tail, growing, held, pc, ret, seen, fooled, status>>
      BY <1>11 DEF vars, queueVars, mainVars
    <2>2. Full' <=> Full
      BY <2>1 DEF Full, mieqNumEnqueued
    <2>3. PathInv' /\ SeenInv'
      BY <2>1, <2>2 DEF FlushInv, PathInv, SeenInv
    <2>4. StaleInv'
      BY <1>3, <2>1 DEF FlushInv, StaleInv
    <2> QED BY <2>3, <2>4 DEF FlushInv
  <1>12. ASSUME NEW d \in Devices, Change(d)
         PROVE  FlushInv'
    <2>1. CASE DisableDevice(d)
      BY <1>9, <2>1 DEF DisableDevice
    <2>2. CASE DeleteInputDeviceRequest(d)
      BY <1>9, <1>10, <2>2 DEF DeleteInputDeviceRequest
    <2> QED BY <1>8, <1>12, <2>1, <2>2 DEF Change
  <1>13. ASSUME Proceed
         PROVE  FlushInv'
    BY <1>4, <1>5, <1>6, <1>7, <1>13, CheckFlush, ProcessFlush DEF Proceed
  <1> QED BY <1>5, <1>11, <1>12, <1>13, GenerateFlush, EnqueueGrownFlush DEF Next

\* No event in the queue, or in the hands of mieqEnqueue, belongs to a device that
\* CloseDevice has freed, unless a check was misled by the growing queue: as long
\* as the size of the ring divides 2^32, so that the bucket that mieqEnqueue
\* merges a motion into is the one before tail.
THEOREM NoEventOutlivesItsDevice == Spec /\ []SizeDivides => []NoEventOfFreedDevice
<1>1. FlushInv /\ TypeOK => NoEventOfFreedDevice
  <2> SUFFICES ASSUME FlushInv, TypeOK, ~fooled
               PROVE  /\ \A i \in DOMAIN Queued :
                           Queued[i] \in Events => status[Queued[i].dev] # "removed"
                      /\ growing # None => status[growing.dev] # "removed"
    BY DEF NoEventOfFreedDevice
  <2>1. NoneGone
    BY DEF FlushInv, StaleInv
  <2>2. ASSUME NEW i \in DOMAIN Queued, Queued[i] \in Events
        PROVE  status[Queued[i].dev] # "removed"
    <3>1. i - 1 \in 0 .. mieqNumEnqueued - 1 /\ Queued[i] = ring[Slot(i - 1)]
      BY <2>2, Counted DEF Queued
    <3>2. Slot(i - 1) \in Nat /\ Live(Slot(i - 1))
      BY <3>1, QueuedLive
    <3> QED BY <2>1, <2>2, <3>1, <3>2 DEF NoneGone, GoneAt
  <2>3. growing # None => status[growing.dev] # "removed"
    BY DEF FlushInv, PathInv
  <2> QED BY <2>2, <2>3
<1>2. Init /\ TypeOK => FlushInv
  BY FlushInit
<1>3. TypeOK /\ TypeOK' /\ SizeDivides /\ FlushInv /\ [Next]_vars => FlushInv'
  BY FlushStep
<1> QED BY <1>1, <1>2, <1>3, TypeCorrect, PTL DEF Spec

-----------------------------------------------------------------------------
(***************************************************************************)
(* The ring is a queue: Queued, the events between head and tail, changes  *)
(* as InputQueue says.                                                     *)
(***************************************************************************)

LEMMA RingIs ==
    ASSUME TypeOK
    PROVE  /\ nevents \in Nat /\ nevents > 1
           /\ head \in 0 .. nevents - 1 /\ tail \in 0 .. nevents - 1
           /\ mieqNumEnqueued = IF tail >= head THEN tail - head ELSE tail - head + nevents
           /\ mieqNumEnqueued \in 0 .. nevents - 1
           /\ \A i \in 0 .. nevents - 1 :
                 Slot(i) = IF head + i < nevents THEN head + i ELSE head + i - nevents
  <1>1. /\ nevents \in Nat /\ nevents > 1
        /\ head \in 0 .. nevents - 1 /\ tail \in 0 .. nevents - 1
    BY DEF TypeOK
  <1>2. mieqNumEnqueued = IF tail >= head THEN tail - head ELSE tail - head + nevents
    BY <1>1 DEF mieqNumEnqueued
  <1>3. ASSUME NEW i \in 0 .. nevents - 1
        PROVE  Slot(i) = IF head + i < nevents THEN head + i ELSE head + i - nevents
    <2>1. head + i \in 0 .. 2 * nevents - 1
      BY <1>1
    <2> QED BY <1>1, <2>1, ModOnce DEF Slot
  <1> QED BY <1>1, <1>2, <1>3, Counted

LEMMA QueuedIs ==
    ASSUME TypeOK
    PROVE  /\ Queued \in Seq(Events \cup {Blank, Freed})
           /\ Len(Queued) = mieqNumEnqueued
           /\ DOMAIN Queued = 1 .. mieqNumEnqueued
           /\ tail # head <=> mieqNumEnqueued > 0
  <1>1. /\ mieqNumEnqueued \in Nat
        /\ \A i \in 1 .. mieqNumEnqueued : Slot(i - 1) \in 0 .. nevents - 1
    <2>1. \A i \in 1 .. mieqNumEnqueued : i - 1 \in Nat
      BY RingIs
    <2>2. \A i \in Nat : Slot(i) \in 0 .. nevents - 1
      BY SlotInRing
    <2> QED BY <2>1, <2>2, RingIs
  <1>2. \A i \in 1 .. mieqNumEnqueued : ring[Slot(i - 1)] \in Events \cup {Blank, Freed}
    BY <1>1 DEF TypeOK
  <1>3. Queued \in Seq(Events \cup {Blank, Freed}) /\ Len(Queued) = mieqNumEnqueued
    BY <1>1, <1>2 DEF Queued
  <1> QED BY <1>1, <1>3, RingIs DEF Queued

LEMMA AppendIs ==
    ASSUME NEW S, NEW q \in Seq(S), NEW e \in S, NEW n \in Nat, Len(q) = n,
           NEW r, r = [i \in 1 .. n + 1 |-> r[i]], r[n + 1] = e, \A i \in 1 .. n : r[i] = q[i]
    PROVE  r = Append(q, e)
<1>1. /\ Append(q, e) \in Seq(S) /\ Len(Append(q, e)) = n + 1
      /\ Append(q, e)[n + 1] = e /\ \A i \in 1 .. n : Append(q, e)[i] = q[i]
  OBVIOUS
<1>2. \A i \in 1 .. n + 1 : r[i] \in S
  <2>1. \A i \in 1 .. n : q[i] \in S
    BY ElementOfSeq
  <2>2. \A i \in 1 .. n + 1 : i \in 1 .. n \/ i = n + 1
    OBVIOUS
  <2> QED BY <2>1, <2>2
<1>3. r \in [1 .. n + 1 -> S]
  BY <1>2
<1>4. r \in Seq(S) /\ Len(r) = n + 1
  BY <1>3
<1>5. \A i \in 1 .. n + 1 : r[i] = Append(q, e)[i]
  <2>1. \A i \in 1 .. n + 1 : i \in 1 .. n \/ i = n + 1
    OBVIOUS
  <2> QED BY <1>1, <2>1
<1> QED BY <1>1, <1>4, <1>5, SeqEqual

LEMMA ReplaceIs ==
    ASSUME NEW S, NEW q \in Seq(S), NEW e \in S, NEW n \in Nat, Len(q) = n, n > 0,
           NEW r, r = [i \in 1 .. n |-> r[i]], r[n] = e, \A i \in 1 .. n - 1 : r[i] = q[i]
    PROVE  r = Append(Promise!Front(q), e)
<1> DEFINE f == SubSeq(q, 1, n - 1)
<1>1. f \in Seq(S) /\ Len(f) = n - 1 /\ \A i \in 1 .. n - 1 : f[i] = q[i]
  OBVIOUS
<1>2. Promise!Front(q) = f
  BY DEF Promise!Front
<1> HIDE DEF f
<1>3. Append(f, e) \in Seq(S) /\ Len(Append(f, e)) = n
  BY <1>1
<1>4. Append(f, e)[n] = e /\ \A i \in 1 .. n - 1 : Append(f, e)[i] = f[i]
  BY <1>1
<1>5. \A i \in 1 .. n : r[i] = Append(f, e)[i] /\ r[i] \in S
  <2>1. \A i \in 1 .. n : i \in 1 .. n - 1 \/ i = n
    OBVIOUS
  <2>2. \A i \in 1 .. n : q[i] \in S
    BY ElementOfSeq
  <2>3. ASSUME NEW i \in 1 .. n - 1 PROVE r[i] = Append(f, e)[i] /\ r[i] \in S
    <3>1. i \in 1 .. n
      OBVIOUS
    <3> QED BY <1>1, <1>4, <2>2, <3>1
  <2> QED BY <1>4, <2>1, <2>3
<1>6. r \in [1 .. n -> S]
  BY <1>5
<1>7. r \in Seq(S) /\ Len(r) = n
  BY <1>6
<1> QED BY <1>2, <1>3, <1>5, <1>7, SeqEqual

\* The event that is stored behind the last one
LEMMA StoreAppends ==
    ASSUME TypeOK, NEW e \in Events, ~Full, Store(tail, e), UNCHANGED <<nevents, head>>
    PROVE  Queued' = Append(Queued, e)
  <1>0. PICK n \in Nat : n = mieqNumEnqueued
    BY RingIs
  <1>1. /\ nevents \in Nat /\ nevents > 1
        /\ head \in 0 .. nevents - 1 /\ tail \in 0 .. nevents - 1
        /\ n = IF tail >= head THEN tail - head ELSE tail - head + nevents
        /\ n + 1 < nevents /\ n \in Nat
    BY <1>0, RingIs DEF Full
  <1>2. tail' = IF tail + 1 < nevents THEN tail + 1 ELSE tail + 1 - nevents
    <2>1. tail' = (tail + 1) % nevents /\ tail + 1 \in 0 .. 2 * nevents - 1
      BY <1>1 DEF Store
    <2> QED BY <1>1, <2>1, ModOnce
  <1>3. mieqNumEnqueued' = n + 1
    BY <1>0, <1>1, <1>2 DEF mieqNumEnqueued
  <1>4. \A i : Slot(i)' = Slot(i)
    BY DEF Slot
  <1>5. \A s \in 0 .. nevents - 1 : ring'[s] = IF s = tail THEN e ELSE ring[s]
    BY DEF Store, TypeOK
  <1>6. ASSUME NEW i \in 1 .. n PROVE ring'[Slot(i - 1)'] = ring[Slot(i - 1)]
    <2>1. i - 1 \in 0 .. nevents - 1
      BY <1>1
    <2>2. Slot(i - 1) \in 0 .. nevents - 1 /\ Slot(i - 1) # tail
      BY <1>1, <2>1, RingIs
    <2> QED BY <1>4, <1>5, <2>2
  <1>7. ring'[Slot(n)'] = e
    <2>1. n \in 0 .. nevents - 1
      BY <1>1
    <2>2. Slot(n) = tail
      BY <1>1, <2>1, RingIs
    <2> QED BY <1>1, <1>4, <1>5, <2>2
  <1>8. Queued' = [i \in 1 .. n + 1 |-> ring'[Slot(i - 1)']]
    BY <1>3 DEF Queued
  <1>9. /\ Queued \in Seq(Events \cup {Blank, Freed}) /\ Len(Queued) = n
        /\ \A i \in 1 .. n : Queued[i] = ring[Slot(i - 1)]
    BY <1>0, QueuedIs DEF Queued
  <1>10. Queued'[n + 1] = e
    BY <1>1, <1>7, <1>8
  <1>11. \A i \in 1 .. n : Queued'[i] = Queued[i]
    BY <1>1, <1>6, <1>8, <1>9
  <1>12. Queued' = [i \in 1 .. n + 1 |-> Queued'[i]]
    BY <1>8
  <1> QED BY <1>9, <1>10, <1>11, <1>12, AppendIs

\* The event that takes the place of the last one
LEMMA StoreReplaces ==
    ASSUME TypeOK, SizeDivides, NEW e \in Events, tail # head,
           Store(Previous(tail), e), UNCHANGED <<nevents, head>>
    PROVE  Queued' = Append(Promise!Front(Queued), e)
  <1>0. PICK n \in Nat, last \in Nat :
           n = mieqNumEnqueued /\ last = IF tail = 0 THEN nevents - 1 ELSE tail - 1
    BY RingIs
  <1>1. /\ nevents \in Nat /\ nevents > 1
        /\ head \in 0 .. nevents - 1 /\ tail \in 0 .. nevents - 1
        /\ n = IF tail >= head THEN tail - head ELSE tail - head + nevents
        /\ n \in 1 .. nevents - 1
    BY <1>0, RingIs
  <1>2. Previous(tail) = last /\ last \in 0 .. nevents - 1
    BY <1>0, <1>1, PreviousIs
  <1>3. tail' = tail
    <2>1. tail' = (last + 1) % nevents /\ last + 1 \in 0 .. 2 * nevents - 1
      BY <1>1, <1>2 DEF Store
    <2> QED BY <1>0, <1>1, <2>1, ModOnce
  <1>4. mieqNumEnqueued' = n /\ \A i : Slot(i)' = Slot(i)
    BY <1>0, <1>3 DEF mieqNumEnqueued, Slot
  <1>5. \A s \in 0 .. nevents - 1 : ring'[s] = IF s = last THEN e ELSE ring[s]
    BY <1>2 DEF Store, TypeOK
  <1>6. ASSUME NEW i \in 1 .. n PROVE ring'[Slot(i - 1)'] = IF i = n THEN e ELSE ring[Slot(i - 1)]
    <2>1. i - 1 \in 0 .. nevents - 1
      BY <1>1
    <2>2. Slot(i - 1) \in 0 .. nevents - 1 /\ (Slot(i - 1) = last <=> i = n)
      BY <1>0, <1>1, <2>1, RingIs
    <2> QED BY <1>4, <1>5, <2>2
  <1>7. Queued' = [i \in 1 .. n |-> ring'[Slot(i - 1)']]
    BY <1>4 DEF Queued
  <1>8. /\ Queued \in Seq(Events \cup {Blank, Freed}) /\ Len(Queued) = n
        /\ \A i \in 1 .. n : Queued[i] = ring[Slot(i - 1)]
    BY <1>0, QueuedIs DEF Queued
  <1>9. Queued'[n] = e
    BY <1>1, <1>6, <1>7
  <1>10. \A i \in 1 .. n - 1 : Queued'[i] = Queued[i]
    BY <1>1, <1>6, <1>7, <1>8
  <1>11. Queued' = [i \in 1 .. n |-> Queued'[i]]
    BY <1>7
  <1>12. n > 0 /\ e \in Events \cup {Blank, Freed}
    BY <1>1
  <1> QED BY <1>8, <1>9, <1>10, <1>11, <1>12, ReplaceIs

\* Growing moves the buckets and not the queue.
LEMMA GrowKeeps ==
    ASSUME TypeOK, mieqGrowQueue
    PROVE  Queued' = Queued /\ mieqNumEnqueued' = mieqNumEnqueued
  <1>0. PICK n \in Nat : n = mieqNumEnqueued
    BY RingIs
  <1>1. /\ nevents \in Nat /\ nevents > 1 /\ n < nevents
        /\ nevents' = 2 * nevents /\ head' = 0 /\ tail' = n
    BY <1>0, RingIs DEF mieqGrowQueue
  <1>2. mieqNumEnqueued' = n
    BY <1>1 DEF mieqNumEnqueued
  <1>3. ASSUME NEW i \in 1 .. n PROVE ring'[Slot(i - 1)'] = ring[Slot(i - 1)]
    <2>1. i - 1 \in 0 .. 2 * nevents - 1 /\ i - 1 < nevents
      BY <1>1
    <2>2. (i - 1) % (2 * nevents) = i - 1
      BY <1>1, <2>1, ModOnce
    <2>3. Slot(i - 1)' = i - 1
      BY <1>1, <2>2 DEF Slot
    <2>4. ring'[i - 1] = ring[Slot(i - 1)]
      BY <2>1 DEF mieqGrowQueue
    <2> QED BY <2>3, <2>4
  <1>4. Queued' = [i \in 1 .. n |-> ring'[Slot(i - 1)']]
    BY <1>2 DEF Queued
  <1>5. Queued = [i \in 1 .. n |-> ring[Slot(i - 1)]]
    BY <1>0 DEF Queued
  <1> QED BY <1>0, <1>2, <1>3, <1>4, <1>5

\* The event that is taken is the first one.
LEMMA TakesFirst ==
    ASSUME TypeOK, head # tail, head' = (head + 1) % nevents, UNCHANGED <<ring, nevents, tail>>
    PROVE  Queued # <<>> /\ Head(Queued) = ring[head] /\ Queued' = Tail(Queued)
  <1>0. PICK n \in Nat : n = mieqNumEnqueued
    BY RingIs
  <1>1. /\ nevents \in Nat /\ nevents > 1
        /\ head \in 0 .. nevents - 1 /\ tail \in 0 .. nevents - 1
        /\ n = IF tail >= head THEN tail - head ELSE tail - head + nevents
        /\ n \in 1 .. nevents - 1
    BY <1>0, RingIs
  <1>2. head' = IF head + 1 < nevents THEN head + 1 ELSE head + 1 - nevents
    <2>1. head + 1 \in 0 .. 2 * nevents - 1
      BY <1>1
    <2> QED BY <1>1, <2>1, ModOnce
  <1>3. mieqNumEnqueued' = n - 1
    BY <1>1, <1>2 DEF mieqNumEnqueued
  <1>4. ASSUME NEW i \in 1 .. n - 1 PROVE ring'[Slot(i - 1)'] = ring[Slot(i)]
    <2>1. Slot(i) = IF head + i < nevents THEN head + i ELSE head + i - nevents
      <3>1. i \in 0 .. nevents - 1
        BY <1>1
      <3> QED BY <3>1, RingIs
    <2>2. head' + (i - 1) \in 0 .. 2 * nevents - 1
      BY <1>1, <1>2
    <2>3. Slot(i - 1)' = IF head' + (i - 1) < nevents THEN head' + (i - 1)
                         ELSE head' + (i - 1) - nevents
      BY <1>1, <2>2, ModOnce DEF Slot
    <2>4. Slot(i - 1)' = Slot(i)
      BY <1>1, <1>2, <2>1, <2>3
    <2> QED BY <2>4
  <1>5. Queued' = [i \in 1 .. n - 1 |-> ring'[Slot(i - 1)']]
    BY <1>3 DEF Queued
  <1>6. /\ Queued \in Seq(Events \cup {Blank, Freed}) /\ Len(Queued) = n
        /\ \A i \in 1 .. n : Queued[i] = ring[Slot(i - 1)]
    BY <1>0, QueuedIs DEF Queued
  <1>7. \A i \in 1 .. n - 1 : Queued[i + 1] = ring[Slot(i)]
    <2> TAKE i \in 1 .. n - 1
    <2>1. i + 1 \in 1 .. n /\ (i + 1) - 1 = i
      BY <1>1
    <2> QED BY <1>6, <2>1
  <1>8. Queued # <<>>
    BY <1>1, <1>6
  <1>9. Head(Queued) = ring[head]
    <2>1. Head(Queued) = Queued[1] /\ 1 \in 1 .. n /\ Slot(0) = head /\ 1 - 1 = 0
      <3>1. 0 \in 0 .. nevents - 1
        BY <1>1
      <3> QED BY <1>1, <1>6, <1>8, <3>1, RingIs
    <2> QED BY <1>6, <2>1
  <1>10. /\ Tail(Queued) \in Seq(Events \cup {Blank, Freed}) /\ Len(Tail(Queued)) = n - 1
         /\ \A i \in 1 .. n - 1 : Tail(Queued)[i] = Queued[i + 1]
    BY <1>6, <1>8, HeadTailProperties
  <1>11. \A i \in 1 .. n - 1 : Queued'[i] = Tail(Queued)[i]
    BY <1>4, <1>5, <1>7, <1>10
  <1>12. Queued' \in Seq(Events \cup {Blank, Freed}) /\ Len(Queued') = n - 1
    <2>1. \A i \in 1 .. n - 1 : Queued'[i] \in Events \cup {Blank, Freed}
      BY <1>10, <1>11, ElementOfSeq
    <2>2. Queued' \in [1 .. n - 1 -> Events \cup {Blank, Freed}]
      BY <1>5, <2>1
    <2> QED BY <1>1, <2>2
  <1> QED BY <1>8, <1>9, <1>10, <1>11, <1>12, SeqEqual

-----------------------------------------------------------------------------
\* What lastMotion says of the queue, and that the main thread is busy with an event
\* only while it delivers it.
KindInv ==
    /\ Queued \in Seq(Events)
    /\ Queued # <<>> =>
          lastMotion = IF Promise!Last(Queued).motion THEN Promise!Last(Queued).dev ELSE None
    /\ growing # None => ~Merges(growing)

BusyInv == current = None <=> pc # "deliver"

OrderedInv == KindInv /\ BusyInv

\* mieqEnqueue merges an event when InputQueue has it supersede the last one.
LEMMA MergesIsSupersedes ==
    ASSUME TypeOK, KindInv, NEW e \in Events
    PROVE  Merges(e) <=> Queued # <<>> /\ Promise!Supersedes(e, Promise!Last(Queued))
  <1>1. Queued # <<>> <=> tail # head
    BY QueuedIs, RingIs
  <1>2. CASE Queued # <<>>
    <2>1. Promise!Last(Queued) \in Events
      BY <1>2 DEF KindInv, Promise!Last
    <2>2. /\ Promise!Last(Queued).motion \in BOOLEAN /\ Promise!Last(Queued).dev \in Devices
          /\ e.motion \in BOOLEAN /\ e.dev \in Devices /\ None \notin Devices
      BY <2>1, NoneAssumption DEF Events
    <2>3. CASE Promise!Last(Queued).motion
      BY <1>1, <1>2, <2>3 DEF KindInv, Merges, Promise!Supersedes
    <2>4. CASE ~Promise!Last(Queued).motion
      BY <1>1, <1>2, <2>2, <2>4 DEF KindInv, Merges, Promise!Supersedes
    <2> QED BY <2>3, <2>4
  <1>3. CASE Queued = <<>>
    BY <1>1, <1>3 DEF Merges
  <1> QED BY <1>2, <1>3

\* After an event is stored it is the last one.
LEMMA StoredKind ==
    ASSUME NEW q \in Seq(Events), NEW e \in Events, NEW i, Store(i, e),
           Queued' = Append(q, e), growing' = None
    PROVE  KindInv'
  <1>1. Queued' \in Seq(Events) /\ Queued'[Len(Queued')] = e
    OBVIOUS
  <1>2. lastMotion' = IF e.motion THEN e.dev ELSE None
    BY DEF Store
  <1> QED BY <1>1, <1>2 DEF KindInv, Promise!Last

\* A step that leaves the queue alone
LEMMA KindKept ==
    ASSUME KindInv, UNCHANGED <<ring, nevents, head, tail, lastMotion, growing>>
    PROVE  KindInv' /\ Queued' = Queued
  <1>1. Queued' = Queued
    BY DEF Queued, mieqNumEnqueued, Slot
  <1>2. growing' # None => ~Merges(growing)'
    BY DEF KindInv, Merges
  <1> QED BY <1>1, <1>2 DEF KindInv

\* What mieqEnqueue does is what Enqueue does, or nothing: memory was short, or the
\* ring has only grown.
LEMMA EnqueueRefines ==
    ASSUME TypeOK, SizeDivides, KindInv, "InitEventList" \notin AllocFails,
           NEW e \in Events, mieqEnqueue(e)
    PROVE  KindInv' /\ (Promise!Enqueue(e) \/ UNCHANGED <<Queued, current>>)
  <1>0. current' = current /\ growing = None /\ Queued \in Seq(Events)
    BY DEF mieqEnqueue, mainVars, Unlocked, KindInv
  <1>1. CASE /\ Merges(e)
             /\ Store(Previous(tail), e)
             /\ UNCHANGED <<nevents, head, growing>>
    <2>1. Queued # <<>> /\ Promise!Supersedes(e, Promise!Last(Queued)) /\ tail # head
      BY <1>1, MergesIsSupersedes DEF Merges
    <2>2. Queued' = Append(Promise!Front(Queued), e)
      BY <1>1, <2>1, StoreReplaces
    <2>3. Promise!Front(Queued) \in Seq(Events)
      BY <1>0, <2>1 DEF Promise!Front
    <2>4. KindInv'
      BY <1>0, <1>1, <2>2, <2>3, StoredKind
    <2> QED BY <1>0, <2>1, <2>2, <2>4 DEF Promise!Enqueue
  <1>2. CASE /\ ~Merges(e) /\ ~Full
             /\ Store(tail, e)
             /\ UNCHANGED <<nevents, head, growing>>
    <2>1. ~(Queued # <<>> /\ Promise!Supersedes(e, Promise!Last(Queued)))
      BY <1>2, MergesIsSupersedes
    <2>2. Queued' = Append(Queued, e)
      BY <1>2, StoreAppends
    <2>3. KindInv'
      BY <1>0, <1>2, <2>2, StoredKind
    <2> QED BY <1>0, <2>1, <2>2, <2>3 DEF Promise!Enqueue
  <1>3. CASE /\ ~Merges(e) /\ Full
             /\ mieqGrowQueue
             /\ growing' = e
             /\ UNCHANGED lastMotion
    <2>1. Queued' = Queued
      BY <1>3, GrowKeeps
    <2>2. tail # head
      BY <1>3, RingIs DEF Full
    <2>3. ~Merges(e)'
      BY <1>3, <2>2 DEF Merges
    <2>4. KindInv'
      BY <1>3, <2>1, <2>3 DEF KindInv
    <2> QED BY <1>0, <2>1, <2>4
  <1>4. CASE UNCHANGED <<ring, nevents, head, tail, lastMotion, growing>>
    BY <1>0, <1>4, KindKept
  <1> QED BY <1>1, <1>2, <1>3, <1>4 DEF mieqEnqueue

\* The event for which the ring has grown
LEMMA EnqueueGrownRefines ==
    ASSUME TypeOK, FlushInv, KindInv, EnqueueGrown
    PROVE  KindInv' /\ Promise!Enqueue(growing)
  <1>1. /\ growing \in Events /\ ~Merges(growing) /\ ~Full
        /\ Store(tail, growing) /\ growing' = None /\ current' = current
        /\ UNCHANGED <<nevents, head>>
    BY DEF EnqueueGrown, TypeOK, FlushInv, PathInv, KindInv, mainVars
  <1>2. ~(Queued # <<>> /\ Promise!Supersedes(growing, Promise!Last(Queued)))
    BY <1>1, MergesIsSupersedes
  <1>3. Queued' = Append(Queued, growing)
    BY <1>1, StoreAppends
  <1>4. KindInv'
    BY <1>1, <1>3, StoredKind DEF KindInv
  <1> QED BY <1>1, <1>2, <1>3, <1>4 DEF Promise!Enqueue

\* Taking an event, or finding none
LEMMA ProcessRefines ==
    ASSUME TypeOK, OrderedInv, mieqProcessInputEvents
    PROVE  OrderedInv' /\ (Promise!Take \/ UNCHANGED <<Queued, current>>)
  <1>1. /\ pc = "process" /\ growing = None /\ current = None
        /\ UNCHANGED <<ring, nevents, tail, lastMotion, growing, ret>>
        /\ Queued \in Seq(Events)
    BY DEF mieqProcessInputEvents, OrderedInv, BusyInv, KindInv
  <1>2. CASE head # tail
    <2>1. head' = (head + 1) % nevents /\ current' = ring[head] /\ pc' = "deliver"
      BY <1>2 DEF mieqProcessInputEvents
    <2>2. Queued # <<>> /\ Head(Queued) = ring[head] /\ Queued' = Tail(Queued)
      BY <1>1, <1>2, <2>1, TakesFirst
    <2>3. Head(Queued) \in Events /\ Tail(Queued) \in Seq(Events)
      BY <1>1, <2>2
    <2>4. current' # None
      BY <2>1, <2>2, <2>3, NoneAssumption
    <2>5. Tail(Queued) # <<>> => Promise!Last(Tail(Queued)) = Promise!Last(Queued)
      BY <1>1, <2>2 DEF Promise!Last
    <2>6. KindInv'
      BY <1>1, <2>2, <2>3, <2>5 DEF KindInv, OrderedInv
    <2> QED BY <1>1, <2>1, <2>2, <2>4, <2>6 DEF OrderedInv, BusyInv, Promise!Take
  <1>3. CASE head = tail
    <2>1. UNCHANGED <<head, current>> /\ pc' = ret
      BY <1>3 DEF mieqProcessInputEvents
    <2>2. ret # "deliver"
      BY DEF TypeOK
    <2>3. KindInv' /\ Queued' = Queued
      BY <1>1, <2>1, KindKept DEF OrderedInv
    <2> QED BY <1>1, <2>1, <2>2, <2>3 DEF OrderedInv, BusyInv
  <1> QED BY <1>2, <1>3

\* Every step is one of InputQueue, or changes nothing it knows of.
LEMMA QueueRefines ==
    ASSUME TypeOK, SizeDivides, FlushInv, OrderedInv, "InitEventList" \notin AllocFails,
           [Next]_vars
    PROVE  OrderedInv' /\ [Promise!Next]_(Promise!vars)
  <1>0. KindInv /\ BusyInv
    BY DEF OrderedInv
  <1>1. CASE Generate
    <2>1. PICK d \in Devices, m \in BOOLEAN :
             mieqEnqueue([id |-> generated', dev |-> d, motion |-> m])
      BY <1>1 DEF Generate
    <2> DEFINE e == [id |-> generated', dev |-> d, motion |-> m]
    <2>2. e \in Events /\ mieqEnqueue(e)
      BY <1>1, <2>1, BoundsAssumption DEF Generate, TypeOK, Events
    <2> HIDE DEF e
    <2>3. KindInv' /\ (Promise!Enqueue(e) \/ UNCHANGED <<Queued, current>>)
      BY <1>0, <2>2, EnqueueRefines
    <2>4. BusyInv'
      BY <1>0, <2>2 DEF mieqEnqueue, mainVars, BusyInv
    <2> QED BY <2>2, <2>3, <2>4 DEF OrderedInv, Promise!Next, Promise!vars
  <1>2. CASE EnqueueGrown
    <2>1. KindInv' /\ Promise!Enqueue(growing) /\ growing \in Events
      BY <1>0, <1>2, EnqueueGrownRefines DEF EnqueueGrown, TypeOK
    <2>2. BusyInv'
      BY <1>0, <1>2 DEF EnqueueGrown, mainVars, BusyInv
    <2> QED BY <2>1, <2>2 DEF OrderedInv, Promise!Next
  <1>3. CASE mieqProcessInputEvents
    BY <1>3, ProcessRefines DEF Promise!Next, Promise!vars
  <1>4. CASE mieqProcessDeviceEvent
    <2>1. KindInv' /\ Queued' = Queued
      BY <1>0, <1>4, KindKept DEF mieqProcessDeviceEvent, queueVars
    <2>2. current # None /\ current' = None /\ pc' = "process"
      BY <1>0, <1>4 DEF mieqProcessDeviceEvent, BusyInv
    <2> QED BY <2>1, <2>2 DEF OrderedInv, BusyInv, Promise!Next, Promise!Finish
  <1>5. ASSUME UNCHANGED <<ring, nevents, head, tail, lastMotion, growing, current>>,
               pc' # "deliver" <=> pc # "deliver"
        PROVE  OrderedInv' /\ [Promise!Next]_(Promise!vars)
    <2>1. KindInv' /\ Queued' = Queued
      BY <1>0, <1>5, KindKept
    <2> QED BY <1>0, <1>5, <2>1 DEF OrderedInv, BusyInv, Promise!vars
  <1>6. CASE CheckOne \/ CheckOther
    <2>1. ret # "deliver"
      BY DEF TypeOK
    <2> QED BY <1>5, <1>6, <2>1 DEF CheckOne, CheckOther, queueVars
  <1>7. CASE WaitForSomething \/ OtherRequest
    BY <1>5, <1>7 DEF WaitForSomething, OtherRequest, CheckBefore, queueVars
  <1>8. CASE DeviceOff \/ CloseDevice
    BY <1>5, <1>8 DEF DeviceOff, CloseDevice, CheckBefore, queueVars
  <1>9. ASSUME NEW d \in Devices, Change(d)
        PROVE  OrderedInv' /\ [Promise!Next]_(Promise!vars)
    <2>1. CASE EnableDevice(d)
      BY <1>5, <2>1 DEF EnableDevice, CheckBefore, queueVars
    <2>2. CASE DisableDevice(d)
      BY <1>5, <2>2 DEF DisableDevice, Flush, queueVars
    <2>3. CASE DeleteInputDeviceRequest(d)
      BY <1>5, <2>3 DEF DeleteInputDeviceRequest, Flush, queueVars, mainVars
    <2>4. CASE NewInputDevice(d)
      BY <1>5, <2>4 DEF NewInputDevice, queueVars, mainVars
    <2> QED BY <1>9, <2>1, <2>2, <2>3, <2>4 DEF Change
  <1>10. CASE UNCHANGED vars
    BY <1>5, <1>10 DEF vars, queueVars, mainVars
  <1> QED BY <1>1, <1>2, <1>3, <1>4, <1>6, <1>7, <1>8, <1>9, <1>10 DEF Next, Proceed

LEMMA QueueRefinesInit == Init /\ TypeOK => OrderedInv /\ Promise!Init
  <1> SUFFICES ASSUME Init, TypeOK PROVE OrderedInv /\ Promise!Init
    OBVIOUS
  <1>1. tail = head /\ growing = None /\ current = None /\ pc = "check"
    BY DEF Init
  <1>2. Queued = <<>>
    BY <1>1, QueuedIs, RingIs
  <1> QED BY <1>1, <1>2 DEF OrderedInv, KindInv, BusyInv, Promise!Init

\* The ring is a queue, whatever its size, and whenever it wraps, grows or merges: what
\* mieqEnqueue accepts is processed once and in order, but for a motion that the next
\* event replaces.  InitEventList must not fail (event_queue_memory shows why), and the size
\* of the ring divides 2^32.  ImplementsInputQueue is this and liveness.
THEOREM RingIsAQueue ==
    ASSUME "InitEventList" \notin AllocFails
    PROVE  Spec /\ []SizeDivides => Promise!Spec
<1>1. Init /\ TypeOK => FlushInv
  BY FlushInit
<1>2. TypeOK /\ TypeOK' /\ SizeDivides /\ FlushInv /\ [Next]_vars => FlushInv'
  BY FlushStep
<1>3. TypeOK /\ SizeDivides /\ FlushInv /\ OrderedInv /\ [Next]_vars =>
          OrderedInv' /\ [Promise!Next]_(Promise!vars)
  BY QueueRefines
<1>4. Init /\ TypeOK => OrderedInv /\ Promise!Init
  BY QueueRefinesInit
<1> QED BY <1>1, <1>2, <1>3, <1>4, TypeCorrect, PTL DEF Spec, Promise!Spec

=============================================================================
