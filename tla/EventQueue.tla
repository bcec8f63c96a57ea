----------------------------- MODULE EventQueue -----------------------------
(***************************************************************************)
(* The event queue between the input thread and the main thread            *)
(* (xorg-server-1.20.1/mi/mieq.c), with what the main thread does around   *)
(* it: the loop of Dispatch, which looks at the queue without the lock,    *)
(* and the enabling, disabling and removing of devices, which flush it.    *)
(*                                                                         *)
(* Left out: screens, custom handlers, masters, the count of the events    *)
(* dropped, which is only logged, and the times of events (the correction  *)
(* of a time is written to the caller's copy of the event, after the copy  *)
(* into the queue was made).                                               *)
(***************************************************************************)
EXTENDS Integers, FiniteSets, Sequences

CONSTANTS
    Devices,
    InitialSize,      \* QUEUE_INITIAL_SIZE
    Word,             \* the number of values of an unsigned int
    AllocFails,       \* what may fail in mieqGrowQueue: "calloc", "InitEventList"
    MaxEvents,        \* bound on the number of events generated
    MaxHotplugs,      \* bound on the number of devices plugged in again
    Blank, Freed,     \* what a bucket may point to besides an event: nothing
                      \* yet, or freed memory
    None

ASSUME InitialSizeAssumption == InitialSize \in Nat /\ InitialSize > 1
ASSUME WordAssumption == Word \in Nat /\ Word > 0
ASSUME BoundsAssumption == MaxEvents \in Nat /\ MaxHotplugs \in Nat
ASSUME AllocFailsAssumption == AllocFails \subseteq {"calloc", "InitEventList"}

Events == [id : 1 .. MaxEvents, dev : Devices, motion : BOOLEAN]

ASSUME NoneAssumption == None \notin Events \cup Devices
ASSUME BucketAssumption == Events \cap {Blank, Freed} = {}

VARIABLES
    ring,             \* miEventQueue.events
    nevents, head, tail,
    lastMotion,       \* the device if the last event was a motion, or None
    growing,          \* the event mieqEnqueue makes room for, or None
    held,             \* input_lock is held by the main thread
    status,           \* of each device: "on", "off", "removed"
    pc,               \* where the main thread is
    ret,              \* where it goes when the queue is empty
    seen,             \* what InputCheckPending has read so far, or None
    victim,           \* the device being disabled, or None
    current,          \* the event being processed, or None
    generated,        \* number of events generated
    hotplugs,         \* number of devices plugged in again
    fooled            \* history: a check found the queue empty that was not

queueVars == <<ring, nevents, head, tail, lastMotion, growing>>
mainVars == <<held, pc, ret, seen, victim, current, fooled>>
bounds == <<generated, hotplugs>>
vars == <<queueVars, mainVars, status, bounds>>

-----------------------------------------------------------------------------

mieqNumEnqueued ==
    LET n == tail - head + nevents IN IF n >= nevents THEN n - nevents ELSE n

Slot(i) == (head + i) % nevents

\* (oldtail - 1) % nevents, computed in an unsigned int
Previous(i) == ((i + Word - 1) % Word) % nevents

Merges(e) == e.motion /\ e.dev = lastMotion /\ tail # head

Full == mieqNumEnqueued + 1 = nevents

\* The input lock is free for the other thread.
Unlocked == growing = None /\ ~held

-----------------------------------------------------------------------------
\* mieqEnqueue, on the input thread

\* Mutant: the tail is not wrapped.
StoreUnwrapped(i, e) ==
    /\ ring' = [ring EXCEPT ![i] = e]
    /\ tail' = i + 1
    /\ lastMotion' = IF e.motion THEN e.dev ELSE None

\* The end of mieqEnqueue: the event goes into slot i.
Store(i, e) ==
    /\ ring' = [ring EXCEPT ![i] = e]
    /\ tail' = (i + 1) % nevents
    /\ lastMotion' = IF e.motion THEN e.dev ELSE None

\* Mutant: the buckets are copied as they lie, as realloc would.
GrowInPlace ==
    /\ nevents' = 2 * nevents
    /\ ring' = [i \in 0 .. 2 * nevents - 1 |->
                  IF i < nevents THEN ring[i] ELSE Blank]
    /\ head' = 0
    /\ tail' = mieqNumEnqueued

\* mieqGrowQueue(&miEventQueue, nevents << 1): the oldest event comes first.
mieqGrowQueue ==
    /\ nevents' = 2 * nevents
    /\ ring' = [i \in 0 .. 2 * nevents - 1 |->
                  IF i < nevents THEN ring[Slot(i)] ELSE Blank]
    /\ head' = 0
    /\ tail' = mieqNumEnqueued

\* InitEventList fails: mieqGrowQueue frees all that the new buckets point to,
\* which are the lists of the old buckets too, and returns FALSE.
mieqGrowQueueUnwinds ==
    /\ ring' = [i \in 0 .. nevents - 1 |-> Freed]
    /\ UNCHANGED <<nevents, head, tail>>

\* A driver reads its device, with input_lock held; only devices between
\* DEVICE_ON and DEVICE_OFF are read.
mieqEnqueue(e) ==
    /\ Unlocked
    /\ \/ /\ Merges(e)
          /\ Store(Previous(tail), e)
          /\ UNCHANGED <<nevents, head, growing>>
       \/ /\ ~Merges(e) /\ ~Full
          /\ Store(tail, e)
          /\ UNCHANGED <<nevents, head, growing>>
       \/ /\ ~Merges(e) /\ Full
          /\ mieqGrowQueue
          /\ growing' = e
          /\ UNCHANGED lastMotion
       \/ /\ ~Merges(e) /\ Full
          /\ "calloc" \in AllocFails
          /\ UNCHANGED <<ring, nevents, head, tail, lastMotion, growing>>
       \/ /\ ~Merges(e) /\ Full
          /\ "InitEventList" \in AllocFails
          /\ mieqGrowQueueUnwinds
          /\ UNCHANGED <<lastMotion, growing>>
    /\ UNCHANGED <<mainVars, status>>

Generate ==
    /\ generated < MaxEvents
    /\ generated' = generated + 1
    /\ \E d \in Devices, m \in BOOLEAN :
         /\ status[d] = "on"
         /\ mieqEnqueue([id |-> generated', dev |-> d, motion |-> m])
    /\ UNCHANGED hotplugs

\* mieqEnqueue goes on after mieqGrowQueue: what it wrote could be seen between.
EnqueueGrown ==
    /\ growing # None
    /\ Store(tail, growing)
    /\ growing' = None
    /\ UNCHANGED <<nevents, head, mainVars, status, bounds>>

-----------------------------------------------------------------------------
\* The main thread

\* InputCheckPending compares head and tail without the lock, in no given order.
CheckOne ==
    /\ pc = "check"
    /\ seen = None
    /\ seen' \in {[of |-> "head", at |-> head, size |-> nevents],
                  [of |-> "tail", at |-> tail, size |-> nevents]}
    /\ UNCHANGED <<queueVars, held, pc, ret, victim, current, fooled, status, bounds>>

CheckOther ==
    LET pending == seen.at # (IF seen.of = "head" THEN tail ELSE head)
    IN /\ pc = "check"
       /\ seen # None
       /\ seen' = None
       /\ pc' = IF pending THEN "process" ELSE ret
       /\ fooled' = (fooled \/ (~pending /\ seen.size # nevents))
       /\ UNCHANGED <<queueVars, held, ret, victim, current, status, bounds>>

\* The loop of mieqProcessInputEvents, from the locking to the unlocking (the main
\* thread may already hold the lock): it takes an event, or it ends.  When it
\* ends, TouchEndPhysicallyActiveTouches drops its own hold of the lock, and
\* DeleteInputDeviceRequest keeps it.
mieqProcessInputEvents ==
    /\ pc = "process"
    /\ growing = None
    /\ IF head # tail
       THEN /\ current' = ring[head]
            /\ head' = (head + 1) % nevents
            /\ pc' = "deliver"
            /\ UNCHANGED held
       ELSE /\ pc' = ret
            /\ held' = (ret = "close")
            /\ UNCHANGED <<current, head>>
    /\ UNCHANGED <<ring, nevents, tail, lastMotion, growing,
                   ret, seen, victim, fooled, status, bounds>>

\* mieqProcessDeviceEvent delivers or refuses the event; then the loop goes round.
mieqProcessDeviceEvent ==
    /\ pc = "deliver"
    /\ current' = None
    /\ pc' = "process"
    /\ UNCHANGED <<queueVars, held, ret, seen, victim, fooled, status, bounds>>

\* Dispatch looks at the queue before it waits and before each request.
CheckBefore(next) == pc' = "check" /\ ret' = next

WaitForSomething ==
    /\ pc = "wait"
    /\ \E next \in {"wait", "request"} : CheckBefore(next)
    /\ UNCHANGED <<queueVars, held, seen, victim, current, fooled, status, bounds>>

\* A request that does not concern us.
OtherRequest ==
    /\ pc = "request"
    /\ \E next \in {"wait", "request"} : CheckBefore(next)
    /\ UNCHANGED <<queueVars, held, seen, victim, current, fooled, status, bounds>>

EnableDevice(d) ==
    /\ pc = "request"
    /\ Unlocked
    /\ status[d] = "off"
    /\ status' = [status EXCEPT ![d] = "on"]
    /\ \E next \in {"wait", "request"} : CheckBefore(next)
    /\ UNCHANGED <<queueVars, held, seen, victim, current, fooled, bounds>>

\* The device is about to go: TouchEndPhysicallyActiveTouches locks and flushes.
Flush(d, next) ==
    /\ held' = TRUE
    /\ victim' = d
    /\ ret' = next
    /\ pc' = "process"
    /\ UNCHANGED <<queueVars, seen, current, fooled, status, bounds>>

DisableDevice(d) ==
    /\ pc = "request"
    /\ Unlocked
    /\ status[d] = "on"
    /\ Flush(d, "off")

\* DEVICE_OFF; the lock was free since the flush.
DeviceOff ==
    /\ pc = "off"
    /\ growing = None
    /\ status' = [status EXCEPT ![victim] = "off"]
    /\ victim' = None
    /\ \E next \in {"wait", "request"} : CheckBefore(next)
    /\ UNCHANGED <<queueVars, held, seen, current, fooled, bounds>>

\* Mutant: nothing is flushed.
RemoveAtOnce(d) ==
    /\ pc = "wait"
    /\ Unlocked
    /\ status[d] # "removed"
    /\ status' = [status EXCEPT ![d] = "removed"]
    /\ UNCHANGED <<queueVars, mainVars, bounds>>

\* DeleteInputDeviceRequest, from a callback of WaitForSomething, under the lock:
\* DisableDevice returns at once for a device that is off already.
DeleteInputDeviceRequest(d) ==
    /\ pc = "wait"
    /\ Unlocked
    /\ \/ /\ status[d] = "on"
          /\ Flush(d, "close")
       \/ /\ status[d] = "off"
          /\ status' = [status EXCEPT ![d] = "removed"]
          /\ UNCHANGED <<queueVars, mainVars, bounds>>

\* DEVICE_OFF, then CloseDevice frees it; the lock was held since the flush.
CloseDevice ==
    /\ pc = "close"
    /\ status' = [status EXCEPT ![victim] = "removed"]
    /\ victim' = None
    /\ held' = FALSE
    /\ pc' = "wait"
    /\ ret' = "wait"
    /\ UNCHANGED <<queueVars, seen, current, fooled, bounds>>

\* A device is plugged in (xf86NewInputDevice): it may get the address of an old one.
NewInputDevice(d) ==
    /\ pc = "wait"
    /\ Unlocked
    /\ hotplugs < MaxHotplugs
    /\ status[d] = "removed"
    /\ status' = [status EXCEPT ![d] = "on"]
    /\ hotplugs' = hotplugs + 1
    /\ UNCHANGED <<queueVars, mainVars, generated>>

-----------------------------------------------------------------------------

\* mieqInit, and the devices of the configuration
Init ==
    /\ nevents = InitialSize
    /\ ring = [i \in 0 .. InitialSize - 1 |-> Blank]
    /\ head = 0 /\ tail = 0
    /\ lastMotion = None
    /\ growing = None
    /\ status = [d \in Devices |-> "on"]
    /\ pc = "check" /\ ret = "wait" /\ seen = None
    /\ held = FALSE /\ victim = None /\ current = None
    /\ generated = 0 /\ hotplugs = 0
    /\ fooled = FALSE

\* What the main thread does by itself, and the lock lets it.
Proceed ==
    \/ CheckOne \/ CheckOther
    \/ mieqProcessInputEvents \/ mieqProcessDeviceEvent
    \/ OtherRequest \/ DeviceOff \/ CloseDevice

\* What it does when a client or the kernel asks for it.
Change(d) ==
    EnableDevice(d) \/ DisableDevice(d) \/ DeleteInputDeviceRequest(d) \/ NewInputDevice(d)

Next ==
    \/ Generate \/ EnqueueGrown
    \/ Proceed \/ WaitForSomething
    \/ \E d \in Devices : Change(d)

Spec == Init /\ [][Next]_vars

\* Threads are scheduled and release the lock.  WaitForSomething handles a finite
\* number of callbacks each time round its loop, so it returns however many there are.
Fairness == WF_vars(EnqueueGrown) /\ WF_vars(Proceed) /\ SF_vars(WaitForSomething)

FairSpec == Spec /\ Fairness

-----------------------------------------------------------------------------

\* The events between head and tail, oldest first
Queued == [i \in 1 .. mieqNumEnqueued |-> ring[Slot(i - 1)]]

\* Types; head and tail stay inside the ring whatever its size.
TypeOK ==
    /\ nevents \in Nat /\ nevents > 1
    /\ head \in 0 .. nevents - 1
    /\ tail \in 0 .. nevents - 1
    /\ ring \in [0 .. nevents - 1 -> Events \cup {Blank, Freed}]
    /\ lastMotion \in Devices \cup {None}
    /\ growing \in Events \cup {None}
    /\ held \in BOOLEAN
    /\ status \in [Devices -> {"on", "off", "removed"}]
    /\ pc \in {"check", "process", "deliver", "wait", "request", "off", "close"}
    /\ ret \in {"wait", "request", "off", "close"}
    /\ seen \in [of : {"head", "tail"}, at : Nat, size : Nat] \cup {None}
    /\ victim \in Devices \cup {None}
    /\ current \in Events \cup {Blank, Freed, None}
    /\ generated \in 0 .. MaxEvents
    /\ hotplugs \in 0 .. MaxHotplugs
    /\ fooled \in BOOLEAN

\* No event in the queue, or in the hands of mieqEnqueue, points to a device that
\* CloseDevice has freed.  Nothing in mieq sees to it: an event of a device that
\* is being disabled may well stay behind, and it is the flush under the lock,
\* or the check that Dispatch makes before anything else can free the device,
\* that gets rid of it.  The exception is a check misled by a queue that grows
\* between its two reads, which the code does not exclude.
NoEventOfFreedDevice ==
    ~fooled =>
        /\ \A i \in DOMAIN Queued :
             Queued[i] \in Events => status[Queued[i].dev] # "removed"
        /\ growing # None => status[growing.dev] # "removed"

\* What the buckets between head and tail point to has not been freed, even if
\* memory runs out: mieqEnqueue says that "additional events will be discarded
\* until existing events are processed".
QueuedEventsSurvive == \A i \in DOMAIN Queued : Queued[i] # Freed

Promise == INSTANCE InputQueue WITH queue <- Queued

\* Wrapping, growing and merging lose, repeat and reorder nothing that the queue
\* accepted, and the main thread gets to every event in the end, although it
\* looks for them without the lock.
ImplementsInputQueue == Promise!FairSpec

=============================================================================
