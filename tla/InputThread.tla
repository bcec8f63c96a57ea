----------------------------- MODULE InputThread -----------------------------
(***************************************************************************)
(* The input thread (xorg-server-1.20.1/os/inputthread.c): how the main    *)
(* thread registers and unregisters devices with it, how it reads them and *)
(* wakes the main thread, and how it is stopped.  The hand-over of the     *)
(* events themselves is EventQueue's; here they are counted.               *)
(*                                                                         *)
(* A pipe is the number of bytes in it.  It has room for more than the     *)
(* bounds let in, so a write never blocks here.                            *)
(***************************************************************************)
EXTENDS Integers

CONSTANTS
    Fds,              \* the devices' file descriptors
    Chunk,            \* how many bytes InputThreadReadPipe takes at most
    MayHurry,         \* whether a device may be unregistered again while the thread
                      \* has not seen yet that its descriptor was unregistered before
    MaxCalls,         \* bound on the calls that register or unregister
    MaxInputs,        \* bound on what the devices have to say
    None

ASSUME ChunkAssumption == Chunk \in Nat /\ Chunk > 0
ASSUME BoundsAssumption == MaxCalls \in Nat /\ MaxInputs \in Nat
ASSUME HurryAssumption == MayHurry \in BOOLEAN
ASSUME NoneAssumption == None \notin Nat
ASSUME PipeAssumption == "hotplugPipeRead" \notin Fds

VARIABLES
    devs,             \* inputThreadInfo->devs: fd, state, and an id for its address;
                      \* entries are appended only, so ids are in the list's order
    polled,           \* inputThreadInfo->fds: the device polled on each descriptor
    changed, running,
    hotplug,          \* bytes in the hotplug pipe
    open,             \* hotplugPipeWrite is open
    wake,             \* bytes in the pipe on which the main thread is woken
    held,             \* input_lock is held by the main thread between two steps
    worker,           \* where the input thread is
    ready,            \* what ospoll_wait has still to call back for
    main,             \* where the main thread is
    registered,       \* the device the drivers have registered on each descriptor
    input,            \* events waiting in each descriptor
    queue,            \* events in miEventQueue
    calls, inputs     \* bounded counters

shared == <<devs, changed, held, hotplug, open>>
threadVars == <<polled, running, worker, ready>>
vars == <<shared, threadVars, wake, main, registered, input, queue, calls, inputs>>

States == {"added", "running", "removed"}
Ids == 1 .. MaxCalls
Device == [fd : Fds, id : Ids, state : States]
Pipe == "hotplugPipeRead"

-----------------------------------------------------------------------------
\* The main thread

\* Where the loop stops that looks for a descriptor in entries in one of these states:
\* at the first one, if there is any
First(fd, states) ==
    LET found == {e \in devs : e.fd = fd /\ e.state \in states}
    IN {e \in found : \A d \in found : e.id <= d.id}

\* Both functions leave with the lock released unless the caller holds it too, as
\* EnableDevice and DisableDevice do.
Announce ==
    /\ changed' = TRUE
    /\ main' = "announce"
    /\ held' \in BOOLEAN
    /\ calls' = calls + 1

\* Mutant: an entry that waits for its removal counts as registered.
RegisterRemoved(fd) ==
    LET known == First(fd, States)
        new == [fd |-> fd, id |-> calls + 1, state |-> "added"]
    IN /\ main = "idle" /\ calls < MaxCalls
       /\ \/ \E e \in known :
                devs' = devs /\ registered' = [registered EXCEPT ![fd] = e.id]
          \/ /\ known = {}
             /\ devs' = devs \cup {new}
             /\ registered' = [registered EXCEPT ![fd] = new.id]
       /\ Announce
       /\ UNCHANGED <<hotplug, open, threadVars, wake, input, queue, inputs>>

\* A descriptor that is registered already keeps its entry, with new procedures;
\* an entry that waits for its removal does not count.
InputThreadRegisterDev(fd) ==
    LET known == First(fd, {"added", "running"})
        new == [fd |-> fd, id |-> calls + 1, state |-> "added"]
    IN /\ main = "idle" /\ calls < MaxCalls
       /\ \/ \E e \in known :
                devs' = devs /\ registered' = [registered EXCEPT ![fd] = e.id]
          \/ /\ known = {}
             /\ devs' = devs \cup {new}
             /\ registered' = [registered EXCEPT ![fd] = new.id]
       /\ Announce
       /\ UNCHANGED <<hotplug, open, threadVars, wake, input, queue, inputs>>

\* What the drivers do, and no more, unless MayHurry.
MayUnregister(fd) ==
    MayHurry \/ \A d \in devs : d.fd = fd /\ d.state = "removed" => registered[fd] = None

Marked(e) == (devs \ {e}) \cup {[e EXCEPT !.state = "removed"]}

\* Mutant: only an entry the thread polls is looked for.
UnregisterRunning(fd) ==
    LET found == First(fd, {"running"})
    IN /\ main = "idle" /\ calls < MaxCalls
       /\ MayUnregister(fd)
       /\ devs' \in IF found = {} THEN {devs} ELSE {Marked(e) : e \in found}
       /\ registered' = [registered EXCEPT ![fd] = None]
       /\ Announce
       /\ UNCHANGED <<hotplug, open, threadVars, wake, input, queue, inputs>>

\* The first entry with that descriptor, whatever its state, is marked.
InputThreadUnregisterDev(fd) ==
    /\ main = "idle" /\ calls < MaxCalls
    /\ MayUnregister(fd)
    /\ \E e \in First(fd, States) : devs' = Marked(e)
    /\ registered' = [registered EXCEPT ![fd] = None]
    /\ Announce
    /\ UNCHANGED <<hotplug, open, threadVars, wake, input, queue, inputs>>

\* InputThreadFillPipe(hotplugPipeWrite), after which both functions return
FillHotplugPipe ==
    /\ main = "announce"
    /\ hotplug' = hotplug + 1
    /\ held' = FALSE
    /\ main' = "idle"
    /\ UNCHANGED <<devs, changed, open, threadVars, wake, registered, input, queue,
                   calls, inputs>>

\* Dispatch looks for events before it goes to sleep in WaitForSomething.
ProcessInputEvents ==
    /\ main = "idle"
    /\ queue > 0
    /\ queue' = 0
    /\ UNCHANGED <<shared, threadVars, wake, main, registered, input, calls, inputs>>

WaitForSomething ==
    /\ main = "idle"
    /\ queue = 0
    /\ main' = "asleep"
    /\ UNCHANGED <<shared, threadVars, wake, registered, input, queue, calls, inputs>>

\* Mutant: it takes the whole array.
DrainedChunk(bytes) == bytes - Chunk

\* InputThreadReadPipe takes what there is, up to the size of its array.
Drained(bytes) == IF bytes > Chunk THEN bytes - Chunk ELSE 0

\* InputThreadNotifyPipe
Woken ==
    /\ main = "asleep"
    /\ wake > 0
    /\ wake' = Drained(wake)
    /\ main' = "idle"
    /\ UNCHANGED <<shared, threadVars, registered, input, queue, calls, inputs>>

\* Something else wakes the main thread: a client, a timer.
WokenOtherwise ==
    /\ main = "asleep"
    /\ main' = "idle"
    /\ UNCHANGED <<shared, threadVars, wake, registered, input, queue, calls, inputs>>

\* The devices that are there have been registered when the thread is created.
InputThreadInit ==
    /\ main = "idle"
    /\ worker = "none"
    /\ worker' = "created"
    /\ UNCHANGED <<shared, polled, running, ready, wake, main, registered, input, queue,
                   calls, inputs>>

\* Mutant: the pipe is closed after the join, with the others.
JoinFirst ==
    /\ main = "idle"
    /\ worker # "none"
    /\ main' = "join"
    /\ UNCHANGED <<devs, changed, held, hotplug, open, threadVars, wake, registered,
                   input, queue, calls, inputs>>

\* InputThreadFini, up to pthread_join: closing the pipe tells the thread to stop.
InputThreadFini ==
    /\ main = "idle"
    /\ worker # "none"
    /\ open' = FALSE
    /\ main' = "join"
    /\ UNCHANGED <<devs, changed, held, hotplug, threadVars, wake, registered, input,
                   queue, calls, inputs>>

\* pthread_join returns and everything is freed.
Joined ==
    /\ main = "join"
    /\ worker = "ended"
    /\ main' = "done"
    /\ devs' = {}
    /\ polled' = [fd \in Fds |-> None]
    /\ registered' = [fd \in Fds |-> None]
    /\ UNCHANGED <<changed, held, hotplug, open, running, worker, ready, wake, input,
                   queue, calls, inputs>>

-----------------------------------------------------------------------------
\* The input thread: InputThreadDoWork

Enter ==
    /\ worker = "created"
    /\ running' = TRUE
    /\ worker' = "loop"
    /\ UNCHANGED <<shared, polled, ready, wake, main, registered, input, queue, calls, inputs>>

\* The head of the loop: only the thread itself writes running, and changed is read
\* without the lock.
LookForChanges ==
    /\ worker = "loop"
    /\ worker' = IF ~running THEN "ended" ELSE IF changed THEN "update" ELSE "wait"
    /\ UNCHANGED <<shared, polled, running, ready, wake, main, registered, input, queue,
                   calls, inputs>>

\* Mutant: an entry that is removed is freed and its descriptor polled on.
ForgetToRemove(fd) == {e \in devs : e.fd = fd /\ e.state = "added"}

\* The entry that the thread handles last, of those it has to poll anew or no more
LastChange(fd) ==
    LET changes == {e \in devs : e.fd = fd /\ e.state # "running"}
    IN {e \in changes : \A d \in changes : d.id <= e.id}

\* ospoll_add and ospoll_remove for each entry in turn
Polled ==
    [fd \in Fds |->
        IF LastChange(fd) = {} THEN polled[fd]
        ELSE LET e == CHOOSE e \in LastChange(fd) : TRUE
             IN IF e.state = "added" THEN e.id ELSE None]

UpdateDevices ==
    /\ worker = "update"
    /\ ~held
    /\ changed' = FALSE
    /\ polled' = Polled
    /\ devs' = {[e EXCEPT !.state = "running"] : e \in {d \in devs : d.state # "removed"}}
    /\ worker' = "wait"
    /\ UNCHANGED <<held, hotplug, open, running, ready, wake, main, registered, input,
                   queue, calls, inputs>>

\* What poll would report; the pipe is readable too when its other end is closed.
Readable ==
    {fd \in Fds : polled[fd] # None /\ input[fd] > 0}
        \cup (IF hotplug > 0 \/ ~open THEN {Pipe} ELSE {})

ospoll_wait ==
    /\ worker = "wait"
    /\ Readable # {}
    /\ ready' = Readable
    /\ worker' = "serve"
    /\ UNCHANGED <<shared, polled, running, wake, main, registered, input, queue, calls, inputs>>

\* The callbacks come in the order of the descriptors, which are any numbers.
\* InputReady reads the device if it was not unregistered meanwhile.
InputReady(fd) ==
    /\ worker = "serve"
    /\ fd \in ready
    /\ ~held
    /\ IF \E e \in devs : e.id = polled[fd] /\ e.state = "running"
       THEN input' = [input EXCEPT ![fd] = @ - 1] /\ queue' = queue + 1
       ELSE UNCHANGED <<input, queue>>
    /\ ready' = ready \ {fd}
    /\ UNCHANGED <<shared, polled, running, worker, wake, main, registered, calls, inputs>>

\* An empty read means that the pipe has been closed.
InputThreadPipeNotify ==
    /\ worker = "serve"
    /\ Pipe \in ready
    /\ IF hotplug > 0
       THEN hotplug' = Drained(hotplug) /\ UNCHANGED running
       ELSE running' = FALSE /\ UNCHANGED hotplug
    /\ ready' = ready \ {Pipe}
    /\ UNCHANGED <<devs, changed, held, open, polled, worker, wake, main, registered,
                   input, queue, calls, inputs>>

\* Mutant: the main thread is woken for the first event that waits, not for more.
KickOnce ==
    /\ worker = "serve"
    /\ ready = {}
    /\ wake' = IF queue > 1 THEN wake ELSE wake + 1
    /\ worker' = "loop"
    /\ UNCHANGED <<shared, polled, running, ready, main, registered, input, queue,
                   calls, inputs>>

\* InputThreadFillPipe(inputThreadInfo->writePipe), whatever the callbacks did
KickMainThread ==
    /\ worker = "serve"
    /\ ready = {}
    /\ wake' = wake + 1
    /\ worker' = "loop"
    /\ UNCHANGED <<shared, polled, running, ready, main, registered, input, queue,
                   calls, inputs>>

\* A device has something to say.
InputArrives(fd) ==
    /\ inputs < MaxInputs
    /\ inputs' = inputs + 1
    /\ input' = [input EXCEPT ![fd] = @ + 1]
    /\ UNCHANGED <<shared, threadVars, wake, main, registered, queue, calls>>

-----------------------------------------------------------------------------

\* InputThreadPreInit
Init ==
    /\ devs = {}
    /\ polled = [fd \in Fds |-> None]
    /\ changed = FALSE /\ running = FALSE
    /\ hotplug = 0 /\ open = TRUE /\ wake = 0
    /\ held = FALSE
    /\ worker = "none" /\ ready = {}
    /\ main = "idle"
    /\ registered = [fd \in Fds |-> None]
    /\ input = [fd \in Fds |-> 0]
    /\ queue = 0
    /\ calls = 0 /\ inputs = 0

MainGoesOn ==
    FillHotplugPipe \/ ProcessInputEvents \/ WaitForSomething \/ Woken \/ Joined

Work ==
    \/ Enter \/ LookForChanges \/ UpdateDevices \/ ospoll_wait
    \/ InputThreadPipeNotify \/ KickMainThread
    \/ \E fd \in Fds : InputReady(fd)

Next ==
    \/ MainGoesOn \/ WokenOtherwise \/ InputThreadInit \/ InputThreadFini
    \/ \E fd \in Fds : InputThreadRegisterDev(fd) \/ InputThreadUnregisterDev(fd)
    \/ Work
    \/ \E fd \in Fds : InputArrives(fd)

Spec == Init /\ [][Next]_vars

\* Both threads are scheduled, and the main thread holds the lock for a while only.
FairSpec == Spec /\ WF_vars(MainGoesOn) /\ WF_vars(Work)

-----------------------------------------------------------------------------

\* Types.
TypeOK ==
    /\ devs \subseteq Device
    /\ polled \in [Fds -> Ids \cup {None}]
    /\ changed \in BOOLEAN /\ running \in BOOLEAN /\ open \in BOOLEAN /\ held \in BOOLEAN
    /\ hotplug \in Nat /\ wake \in Nat /\ queue \in Nat
    /\ worker \in {"none", "created", "loop", "update", "wait", "serve", "ended"}
    /\ ready \subseteq Fds \cup {Pipe}
    /\ main \in {"idle", "announce", "asleep", "join", "done"}
    /\ registered \in [Fds -> Ids \cup {None}]
    /\ input \in [Fds -> Nat]
    /\ calls \in 0 .. MaxCalls /\ inputs \in 0 .. MaxInputs

\* InputReady is only ever called with a device that is still in the list: no
\* entry is freed while its descriptor is polled, although one descriptor may be
\* registered, unregistered and registered again before the thread looks.
PolledDevicesExist ==
    \A fd \in Fds : polled[fd] # None =>
        \E e \in devs : e.fd = fd /\ e.id = polled[fd]

\* "Unregister a device in the threaded input facility": once the call has
\* returned, the thread reads that device no more, now or later.
OnlyRegisteredDevicesRead ==
    \A e \in devs : e.state # "removed" => registered[e.fd] = e.id

\* What a registered device has to say is read as long as it is registered,
\* whenever it was registered: the unlocked look at the flag misses nothing.
InputIsRead ==
    \A fd \in Fds :
        (registered[fd] # None /\ input[fd] > 0 /\ worker # "none")
            ~> (registered[fd] = None \/ input[fd] = 0 \/ ~open)

\* The main thread does not sleep over an event: whatever it was doing when the
\* event was enqueued, it is woken, even if nothing else wakes it.
EventsAreProcessed == (queue > 0) ~> (queue = 0 \/ ~open)

\* InputThreadFini returns: the thread hears that the pipe was closed, although
\* bytes may wait in the pipe and the thread may not have begun to run.
FiniReturns == (main = "join") ~> (main = "done")

=============================================================================
