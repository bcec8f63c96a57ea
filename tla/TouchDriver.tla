----------------------------- MODULE TouchDriver -----------------------------
(***************************************************************************)
(* The touch screen of this port (xf86-input-libdlinput/dummy-input.c):    *)
(* fingers, which Android reports to dlInputSendTouch, become events in a  *)
(* socket; the input thread reads them and posts touch events by way of    *)
(* the driver's touch points (dix/getevents.c, dix/touch.c); the main      *)
(* thread processes those, and turns the device off and on again.          *)
(*                                                                         *)
(* Here a touch lives in the server from its begin to its end; to whom     *)
(* both are delivered is TouchDelivery's subject.  Slots are as many as    *)
(* the touch class has room for, and writes never fail.                    *)
(***************************************************************************)
EXTENDS Integers, Sequences

CONSTANTS
    Slots,            \* the slots of the sender, one per finger
    MaxDowns,         \* bound on the fingers put down
    MaxMoves,         \* bound on their movements
    MaxToggles        \* bound on turning the device off or on

ASSUME DriverBoundsAssumption ==
    MaxDowns \in Nat /\ MaxMoves \in Nat /\ MaxToggles \in Nat

VARIABLES
    finger,           \* the slots with a finger on the screen
    socket,           \* what dlInputSendTouch wrote and nobody has read
    slotState,        \* pEvdev->slot_state
    touch,            \* last.touches, by ddx_id: active, client_id, emulate_pointer
    nextId,           \* next_client_id
    queue,            \* miEventQueue
    begun,            \* the touches the server has begun and not ended, with emulate_pointer
    enabled,          \* the device is on, registered with the input thread, and enabled
    main,             \* where the main thread is
    late,             \* slots that went down while the device was being turned off
    downs, moves, toggles \* bounded counters

deviceVars == <<slotState, touch, nextId, late>>
vars == <<finger, socket, deviceVars, queue, begun, enabled, main, downs, moves, toggles>>

Kinds == {"down", "motion", "up"}
Message == [slot : Slots, state : Kinds]
Touch == [id : Nat, pointer : BOOLEAN]
Point == [active : BOOLEAN, id : Nat, pointer : BOOLEAN]
Event == [type : {"begin", "update", "end"}, id : Nat, pointer : BOOLEAN]

-----------------------------------------------------------------------------
\* The sender

dlInputSendTouch(s, state) == socket' = Append(socket, [slot |-> s, state |-> state])

FingerDown(s) ==
    /\ s \notin finger /\ downs < MaxDowns
    /\ finger' = finger \cup {s}
    /\ downs' = downs + 1
    /\ dlInputSendTouch(s, "down")
    /\ UNCHANGED <<deviceVars, queue, begun, enabled, main, moves, toggles>>

FingerMoves(s) ==
    /\ s \in finger /\ moves < MaxMoves
    /\ moves' = moves + 1
    /\ dlInputSendTouch(s, "motion")
    /\ UNCHANGED <<finger, deviceVars, queue, begun, enabled, main, downs, toggles>>

FingerUp(s) ==
    /\ s \in finger
    /\ finger' = finger \ {s}
    /\ dlInputSendTouch(s, "up")
    /\ UNCHANGED <<deviceVars, queue, begun, enabled, main, downs, moves, toggles>>

-----------------------------------------------------------------------------
\* The input thread

Active(t) == {s \in Slots : t[s].active}

\* Mutant: whichever touch is new emulates the pointer.
EveryoneEmulates(s) == TRUE

\* Only the first touch emulates the pointer.
Emulates(s) == Active(touch) = {}

\* Mutant: the client id is used again.
BeginWithSameId(s) ==
    /\ touch' = [touch EXCEPT ![s] =
                    [active |-> TRUE, id |-> nextId, pointer |-> Emulates(s)]]
    /\ nextId' = nextId

TouchBeginDDXTouch(s) ==
    /\ touch' = [touch EXCEPT ![s] =
                    [active |-> TRUE, id |-> nextId, pointer |-> Emulates(s)]]
    /\ nextId' = nextId + 1

\* QueueTouchEvents, with the event GetTouchEvents makes for a touch point
Post(type, s) ==
    queue' = Append(queue, [type |-> type, id |-> touch'[s].id, pointer |-> touch'[s].pointer])

\* Mutant: a touch point that ends stays active.
EndWithoutPoint(s) ==
    IF s \in Active(touch)
    THEN touch' = touch /\ Post("end", s)
    ELSE UNCHANGED <<touch, queue>>

\* An end for a touch that has no active point is not posted.
PostEnd(s) ==
    IF s \in Active(touch)
    THEN touch' = [touch EXCEPT ![s].active = FALSE] /\ Post("end", s)
    ELSE UNCHANGED <<touch, queue>>

\* A second begin of an active touch point is posted under the id it has.
PostBegin(s) ==
    /\ IF s \in Active(touch) THEN UNCHANGED <<touch, nextId>> ELSE TouchBeginDDXTouch(s)
    /\ Post("begin", s)

PostUpdate(s) ==
    /\ touch' = touch
    /\ IF s \in Active(touch) THEN Post("update", s) ELSE queue' = queue

\* Mutant: a slot counts as down only once it has moved.
ReadDownOnMotion(message) ==
    LET s == message.slot
    IN CASE message.state = "down" ->
                PostBegin(s) /\ slotState' = slotState
         [] message.state = "motion" ->
                PostUpdate(s) /\ nextId' = nextId /\ slotState' = slotState \cup {s}
         [] message.state = "up" ->
                /\ IF s \in slotState THEN PostEnd(s) ELSE UNCHANGED <<touch, queue>>
                /\ nextId' = nextId
                /\ slotState' = slotState \ {s}

\* A motion counts only if the slot was seen going down.
Handle(message) ==
    LET s == message.slot
    IN CASE message.state = "down" ->
                PostBegin(s) /\ slotState' = slotState \cup {s}
         [] message.state = "motion" ->
                /\ IF s \in slotState THEN PostUpdate(s) ELSE UNCHANGED <<touch, queue>>
                /\ UNCHANGED <<nextId, slotState>>
         [] message.state = "up" ->
                PostEnd(s) /\ nextId' = nextId /\ slotState' = slotState \ {s}

\* The lock is free between two steps of the main thread, unless it flushes the queue.
EvdevReadInput ==
    /\ enabled /\ socket # <<>> /\ main # "flush"
    /\ Handle(Head(socket))
    /\ socket' = Tail(socket)
    /\ late' = IF main = "turning off" THEN Active(touch') ELSE late \cap Active(touch')
    /\ UNCHANGED <<finger, begun, enabled, main, downs, moves, toggles>>

-----------------------------------------------------------------------------
\* The main thread

\* What becomes of the touches in the server when an event of the device is processed:
\* a begin of a touch that exists already is ignored, and so is an end of one that
\* does not.
Processed(touches, event) ==
    CASE event.type = "begin" ->
            IF \E t \in touches : t.id = event.id THEN touches
            ELSE touches \cup {[id |-> event.id, pointer |-> event.pointer]}
      [] event.type = "update" -> touches
      [] event.type = "end" -> {t \in touches : t.id # event.id}

\* One event of the queue: Dispatch takes them before every request, and DisableDevice,
\* with the lock held, before it ends the touches.
mieqProcessInputEvents ==
    /\ main \in {"loop", "flush"} /\ queue # <<>>
    /\ begun' = IF enabled THEN Processed(begun, Head(queue)) ELSE begun
    /\ queue' = Tail(queue)
    /\ UNCHANGED <<finger, socket, deviceVars, enabled, main, downs, moves, toggles>>

InputIsProcessed ==
    /\ main = "loop" /\ queue = <<>>
    /\ main' = "request"
    /\ UNCHANGED <<finger, socket, deviceVars, queue, begun, enabled, downs, moves, toggles>>

OtherRequest ==
    /\ main = "request"
    /\ main' = "loop"
    /\ UNCHANGED <<finger, socket, deviceVars, queue, begun, enabled, downs, moves, toggles>>

\* DisableDevice, up to TouchEndPhysicallyActiveTouches, which takes the lock
DisableDevice ==
    /\ main = "request" /\ enabled /\ toggles < MaxToggles
    /\ main' = "flush"
    /\ toggles' = toggles + 1
    /\ UNCHANGED <<finger, socket, deviceVars, queue, begun, enabled, downs, moves>>

\* Mutant: the touches that are active are not ended.
FlushOnly ==
    /\ main = "flush" /\ queue = <<>>
    /\ main' = "turning off"
    /\ UNCHANGED <<finger, socket, deviceVars, queue, begun, enabled, downs, moves, toggles>>

\* When the queue is empty, what is still active ends, and the lock is given up before
\* the driver is called.
TouchEndPhysicallyActiveTouches ==
    /\ main = "flush" /\ queue = <<>>
    /\ begun' = {t \in begun : \A s \in Active(touch) : touch[s].id # t.id}
    /\ touch' = [s \in Slots |-> [touch[s] EXCEPT !.active = FALSE]]
    /\ late' = {}
    /\ main' = "turning off"
    /\ UNCHANGED <<finger, socket, slotState, nextId, queue, enabled, downs, moves, toggles>>

\* EvdevProc with DEVICE_OFF, under the lock
DeviceOff ==
    /\ main = "turning off"
    /\ enabled' = FALSE
    /\ main' = "loop"
    /\ UNCHANGED <<finger, socket, deviceVars, queue, begun, downs, moves, toggles>>

\* Under the lock: what was sent while the device was off is thrown away.
EnableDevice ==
    /\ main = "request" /\ ~enabled /\ toggles < MaxToggles
    /\ socket' = <<>>
    /\ enabled' = TRUE
    /\ main' = "loop"
    /\ toggles' = toggles + 1
    /\ UNCHANGED <<finger, deviceVars, queue, begun, downs, moves>>

Init ==
    /\ finger = {} /\ socket = <<>> /\ slotState = {}
    /\ touch = [s \in Slots |-> [active |-> FALSE, id |-> 0, pointer |-> FALSE]]
    /\ nextId = 1 /\ queue = <<>> /\ begun = {}
    /\ enabled = TRUE /\ main = "loop" /\ late = {}
    /\ downs = 0 /\ moves = 0 /\ toggles = 0

MainThread ==
    \/ mieqProcessInputEvents \/ InputIsProcessed \/ OtherRequest
    \/ DisableDevice \/ TouchEndPhysicallyActiveTouches \/ DeviceOff \/ EnableDevice

Next ==
    \/ \E s \in Slots : FingerDown(s) \/ FingerMoves(s) \/ FingerUp(s)
    \/ EvdevReadInput
    \/ MainThread

\* Fingers are lifted; both threads go on.  Nobody has to turn the device on or off.
Fairness ==
    /\ \A s \in Slots : WF_vars(FingerUp(s))
    /\ WF_vars(EvdevReadInput)
    /\ WF_vars(mieqProcessInputEvents \/ InputIsProcessed \/ OtherRequest
                 \/ TouchEndPhysicallyActiveTouches \/ DeviceOff)

Spec == Init /\ [][Next]_vars /\ Fairness

-----------------------------------------------------------------------------
\* Properties

\* The types; no two active touch points share an id, and none is in use twice.
TypeOK ==
    /\ finger \subseteq Slots /\ slotState \subseteq Slots /\ late \subseteq Slots
    /\ socket \in Seq(Message) /\ queue \in Seq(Event)
    /\ touch \in [Slots -> Point]
    /\ begun \subseteq Touch /\ nextId \in Nat
    /\ main \in {"loop", "request", "flush", "turning off"} /\ enabled \in BOOLEAN
    /\ downs \in 0 .. MaxDowns /\ moves \in 0 .. MaxMoves /\ toggles \in 0 .. MaxToggles
    /\ \A s, r \in Active(touch) : touch[s].id = touch[r].id => s = r

\* At any time at most one touch drives the pointer, however ends and begins of
\* several fingers are interleaved with turning the device off and on.
OnePointer == \A t, r \in begun : t.pointer /\ r.pointer => t = r

\* When the device is off no touch of it is left, in the server or in the driver,
\* other than the points of fingers that were put down too late to be ended with the
\* others.
OffMeansEnded == ~enabled => begun = {} /\ Active(touch) \subseteq late

\* With no finger on the screen and nothing on its way, no touch point is active, so
\* that the next touch drives the pointer again.  The exception are points that became
\* active while the device was being turned off: the release can be thrown away when
\* it is turned on, and no touch drives the pointer until that slot is used again.
PointerComesBack ==
    finger = {} /\ socket = <<>> /\ enabled /\ main # "turning off"
        => Active(touch) \subseteq late

\* Every touch the server has begun ends, lifted or because the device is turned off.
EveryTouchIsLifted ==
    \A i \in 1 .. MaxDowns : (\E t \in begun : t.id = i) ~> ~(\E t \in begun : t.id = i)
=============================================================================
