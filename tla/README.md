# TLA+ models of xorg-bionic-android

This directory specifies, model-checks and proves parts of the Android port of the
X.Org server in this repository (package `org.x.android`). All paths below are
relative to `src/app/src/jni/` unless they start with `src/`. The server's own tree
is `xorg-server-1.20.1/`, written `X/` here.

## 1. The system

The application is one process. A native activity starts a thread that runs
`android_main` (`X/android/android.c`), which unpacks a few files and then calls
`dix_main`: that thread is the X server's *main thread*. The server starts an
*input thread* of its own. Clients are other processes (or threads) that speak X11
over a socket and share fences with the server in shared memory. Most of the 7394 files
are third-party code carried for the build; the table names what keeps state.

| Component | State | Operations | Talks to |
|---|---|---|---|
| Activity glue (`native_app_glue`) | command pipe, mutex and condition variable, pending/actual window and queue, lifecycle state, saved state | one function per activity callback, `android_app_read_cmd`, `pre_exec_cmd`, `post_exec_cmd`, creation, destruction | UI thread of Android; main thread through the looper |
| End of the process (`X/android/android.c`) | none | `exit`, `abort` redefined to finish the activity and end only the thread | activity glue |
| Bootstrap (`android.c`, `assets.c`, `minzip`) | files in the data directory | extraction of `xkbcomp` and the keyboard tables | file system |
| Touch driver (`xf86-input-libdlinput`) | socket pair, state of ten slots | `dlInputSendTouch`, `EvdevReadInput`, on, off, close | video driver (not in the repository), input thread |
| Input thread (`X/os/inputthread.c`) | list of devices, poll set, two pipes, `input_mutex` | register, unregister, the thread's loop, init, fini | drivers, main thread |
| Event queue (`X/mi/mieq.c`) | growing ring of events | enqueue, grow, process | input thread writes, main thread reads |
| Dispatch (`X/dix/dispatch.c`, `X/os/WaitFor.c`, `X/os/ospoll.c`) | ready clients, timers, poll set | main loop, scheduler, timers | everything on the main thread |
| Devices (`X/dix/devices.c`, `X/hw/xfree86/common/xf86Xinput.c`) | lists of devices, enabled/disabled | enable, disable, remove, new | queue, input thread, drivers |
| Fences (`libxshmfence-1.3`) | a word, or a mutex and condition variable, in shared memory | trigger, await, query, reset | X server (`X/miext/sync/misyncshm.c`) and clients |
| Sync, Present (`X/Xext/sync.c`, `X/present`) | counters, alarms, queued presentations | requests and notifications | fences, dispatch, screen |
| Connections (`X/os/connection.c`, `X/os/io.c`) | buffers of requests and output | read a request, write, flush, close | clients |
| Input delivery (`X/dix/events.c`, `X/dix/touch.c`) | grabs, frozen devices, touch sequences | deliver, freeze, replay | event queue, clients |
| Client library (`libxcb-1.13`, `libX11-1.6.6`) | sequence numbers, queues of replies | send, wait for reply | X server |

What is hard in it: two threads and a lock that is taken recursively, a lock-free look at
the queue, a structure shared with the UI thread and freed by it, descriptors that are
reused, processes that die while others wait for them, a ring that grows while it is
in use, a poll that reports an event once only, clients that leave at any moment, lists
that move clients about during a grab, touches that pass from one client to the next,
and a clock that wraps around. `PROJECT.json` lists each such place under "hazards" with its line.

What makes each part correct:

- *glue*: the main thread uses only windows and queues Android has lent and not taken
  back; a callback returns, and then both sides agree; nothing is used after it is freed.
- *fences*: calls are atomic operations on one fence, and nobody sleeps on a triggered one.
- *event queue*: it is a queue, whatever wraps, grows or merges; no event outlives
  its device.
- *input thread*: exactly the registered devices are read, what they say gets to the main
  thread, and the thread can be stopped.
- *touch driver*: a touch that was begun ends, lifted or because the device is turned off,
  and one touch at a time drives the pointer, also after that.
- *touch delivery*: every client is shown a well-formed touch, whoever owned it before;
  the next owner has missed nothing.
- *main loop*: a client that may be served is served; nobody it would have to wait for is
  forgotten; a grab keeps the others out.
- *timers*: a callback comes at its time and not before, and the server does not sleep
  past it, wherever the clock stands.
- *not modelled yet*: a presentation completes once and its fence is triggered when its
  pixmap is idle; a reply reaches the request it answers.

## 2. Modules

| Module | Models | Extends / uses |
|---|---|---|
| `AppGlue` | both threads of the glue, and how the server ends | |
| `Fence` | what a fence promises (abstract) | |
| `FencePthread` | `xshmfence_pthread.c`, the variant the build uses | `Fence` by refinement |
| `FenceFutex` | `xshmfence_futex.c`, `xshmfence_alloc.c` | `Fence` by refinement |
| `InputQueue` | what the event queue promises (abstract) | |
| `EventQueue` | `mieq.c` with the steps of dispatch and hotplug around it | `InputQueue` by refinement |
| `InputThread` | `inputthread.c` with the main thread's calls into it | |
| `TouchDriver` | the driver with its socket, the touch points behind it, and the device turned off and on | |
| `TouchPromise` | what a touch looks like to the clients (abstract) | |
| `TouchDelivery` | `touch.c`, `exevents.c`: listeners, ownership, replay | `TouchPromise` by refinement |
| `ClientLoop` | the main loop: `dispatch.c`, `WaitFor.c`, `ospoll.c`, `connection.c`, `io.c` | |
| `Timers` | `WaitFor.c`: the timers | |
| `AppGlueProofs`, `FencePthreadProofs`, `FenceFutexProofs`, `EventQueueProofs`, `InputThreadProofs`, `TouchProofs`, `ClientLoopProofs`, `TimersProofs` | theorems | the module they are named after, `TouchProofs` both `TouchDriver` and `TouchDelivery`; `TLAPS` |

`Init`, `Next` and the like of `TouchDelivery` are called `DeliveryInit`, `DeliveryNext`, because `TouchProofs` extends it together with
`TouchDriver`.

The chain from a finger to a client is cut where one part hands its work to the next:
`TouchDriver` ends with the touches the server has begun and not ended, and
`TouchDelivery` starts from such a touch; the queue between the two threads is a sequence in `TouchDriver`,
which `EventQueue` is shown to implement, and the wake-up of the main thread is
`InputThread`'s. `ClientLoop` has the main thread's loop as the clients see it: the input
that is processed there is an event for a client.

### AppGlue

The UI thread is in one function at a time (`uop`) at one point of it (`upc`): before the
mutex, at each write to the pipe, at the test of its condition, asleep, woken. Those are
all the places where the other thread can act. A critical section of the main
thread never sleeps and is one step, but for the last, of `android_app_destroy`: there setting `destroyed` with the broadcast is one step and the
unlock another, since after it the UI thread frees the mutex. Between its critical sections it goes through
`android_app_read_cmd` (with the freeing of saved state), `android_app_pre_exec_cmd`,
`onAppCmd` and `android_app_post_exec_cmd`. `pthread_cond_broadcast` wakes at most one thread here,
since only the UI thread waits. Spurious wake-ups are a step. The order of
callbacks (`LifeFollows` and the guards of the callbacks) is Android's documented
lifecycle, which the source relies on and does not contain. `AppExit` is the server's call
of `exit` or `abort`; then the thread ends by `pthread_exit`, or, where the
method `finish` cannot be looked up, `activity_force_finish` gives up, `exit` returns
and so does `android_main`.

### Fence, FencePthread, FenceFutex

In `Fence` a call is made, takes effect at one moment, and returns. An await takes
effect only while the fence is triggered; it may fail instead. `FencePthread` is a step
per critical section, since the mutex protects everything; the refinement maps `value`
to `triggered`. `FenceFutex` is a step per atomic operation and system call; the word is
1 for triggered, and -1 when someone may be asleep. Processes of `Mortal` may die in any
call; a mutex held by a dead process stays held.

### InputQueue, EventQueue

`InputQueue` takes events one at a time, in order; an event supersedes the last one
only if both are motions of one device. `EventQueue` has the ring with its
buckets, indices that wrap, the merge into the last bucket, and the growth, which is split
from the store that follows it because the main thread looks at head and tail without the
lock: `CheckOne` and `CheckOther` are the two reads of `InputCheckPending`, in
either order. The main thread processes the queue in its loop, and also when a device
is disabled; `held` says that it keeps the (recursive) lock over several steps. A device is
off, on, or freed (`removed`); a new device may get the address of a freed one.

### InputThread

`devs` is the list: records with the descriptor, the state, and an id that stands for the
address. Entries are only appended, so the order of the ids is that of the list. `polled` is the poll set, which maps a descriptor to the id that its
callback gets. The thread's loop is cut at every place where it does not hold the
lock. `registered` is what the drivers believe: the property is stated against it. The two
pipes are numbers of bytes; `InputThreadReadPipe` takes up to `Chunk` of them (40 in the
code). Events are counted; their order is the matter of `EventQueue`.

### TouchDriver

A finger is a slot of the sender. `dlInputSendTouch` appends to `socket`; `EvdevReadInput` takes one message
and does all that happens below it under the lock: `slot_state`, the touch point of the slot
(`touch`: is it active, which client id, does it emulate the pointer), and the event for the queue. The main thread goes
from processing its input to a request and back. `DisableDevice` is cut into
the flush of the queue with the end of what is still active, during which the lock is held, and the call of the driver, before which
it is free: a finger that goes down in between gets a touch point nobody ends (`late`).
`DeviceOff`, `EnableDevice` hold the lock again; the latter throws away what was sent meanwhile.
`begun` is what the server knows of touches, by the rules of `TouchPointInfo`: a second begin is ignored,
and so is the end of a touch that does not exist.

### TouchPromise, TouchDelivery

`TouchPromise` looks at what each client was sent: begin, then perhaps ownership, then end;
one owner at a time; when the server forgets the touch, everybody has had the end. `TouchDelivery`
computes that from the touch record (`ti`): the listeners in order of precedence, each with its state, whether an end is pending,
and the history. The server runs each event or request to completion on one thread, one
function nested in the other, so the functions are operators on a record
and a step is a whole event (`Begin`, `Update`, `End`), answer (`TouchAcceptReject`) or
disconnection (`TouchListenerGone`). Listeners of pointer events, active grabs and frozen devices are left out.

### ClientLoop

`s` is the server's state: who is connected, in which of the two lists of ready clients he is, ignored,
impervious to grabs, or waiting for one; what the poll listens to and what it remembers
to have reported; buffered input in units of half a request; buffered output. The operators
named after the functions of the code take and return it. The main loop is one `pc`:
*block* (input is processed, clients wake up, new connections are noticed), *connect*, *poll*, *pick*, *serve*.
The connection set-up is executed in two parts, as `ProcInitialConnection` puts the request back, which may then be longer than
what has arrived. `wire` and `gone` are the clients' side of the sockets; which sockets take output (`taking`) is chosen at each write and each poll, so that one
can be full again after the poll has reported room. Clients act while the server polls or
serves this client; nothing looks at their sockets at other times.

### Timers

`timers` is the sorted list; each element has the expiry as the code has it, a number below `Word` (2^32),
and `left`, the true distance to it, which the properties are stated with. `Tick` is time; it can pass
between any two steps, also between reading the clock and the poll, and between two callbacks.

## 3. What is checked

| Run | Shows | Bounds, and why they are enough |
|---|---|---|
| `app_glue` | types; only lent objects are used; after a callback both sides agree; each saved state has one owner; nothing is used after it is freed; a UI thread that sleeps still has its answer before it (`SleepIsAnswered`); a window changes only by way of NULL; every callback returns | 2 windows (replacement of one by the other), 1 queue, 2 buffers (an old and a new state), at most 1 unacknowledged notice in the pipe: the others are behind a wait, so there are never more than two of them |
| `app_glue_destroy` | **violated**: `onDestroy` does not proceed when the server has ended by `exit` | as above, smaller |
| `fence_pthread` | types; no forgotten sleeper; refinement of `Fence`; calls return | two triggerers, one of which also resets and may die, two waiters, one of which may die: every pair of operations meets, and a broadcast has to wake two |
| `fence_futex` | types; no forgotten sleeper; refinement of `Fence` with its fairness | the same processes; only a waiter may die |
| `event_queue` | types; no event of a freed device; refinement of `InputQueue` with its fairness | 2 devices, a ring of 2 buckets, 4 events: it wraps, merges, and grows twice (to 4 and 8), also when the ring has wrapped; one replugging; `calloc` may fail |
| `event_queue_memory` | **violated**: queued events do not survive a failure of `InitEventList` | 1 device, 3 events |
| `input_thread` | types; polled entries exist; only registered devices are read; registered devices are read; events get processed; `InputThreadFini` returns | 2 descriptors, 4 calls: a descriptor is registered, unregistered and registered again while another device is there; pipe reads of 2 bytes; 2 inputs |
| `input_thread_reuse` | **violated**: an unregistered device is read | 1 descriptor, 4 calls, and no assumption that the thread runs between them |
| `touch_driver` | types; one touch drives the pointer; no touch is left of a device that is off; the pointer comes back; every touch ends | 2 slots, 3 fingers put down, so that a slot is used again while the other is down; 1 movement; the device is turned off, on, and off again |
| `touch_delivery` | types; the owner has missed no movement; once the finger is gone everybody knows; refinement of `TouchPromise`; every touch ends for every client that stays | 3 clients, each a grab or a selection, with or without interest in ownership, in every order: an owner, one that waits, and one that waits unseen; 2 touches one after the other in one record; 2 movements, of which the history (3) takes one |
| `client_loop` | types; nothing that came in or is to go out is forgotten; grabs keep others out; requests are served | 2 clients, one that has the grab and one kept out; room for three half requests, so that one can be whole and the next partial; 2 inputs; one may leave; sockets fill up and empty at any write or poll. All of it also holds with 3 inputs (647,000 states, five minutes) |
| `timers` | types; no timer early, the list sorted, no sleep past a timer | 3 timers, so that one goes between two others; `Word` 12, set for up to 3 and late by up to 2: just below half of the range |

Bounds are guards on counters in the modules (`MaxNotices`, `MaxEvents`, `MaxHotplugs`,
`MaxCalls`, `MaxInputs`, `MaxDowns`, `MaxMoves`, `MaxToggles`, `MaxTouches`, `MaxUpdates`, `MaxInput`,
`MaxGone`), so that liveness can be checked with them. `Word` stands for
2^32 (16 in the runs); it only has to be divisible by the sizes the ring reaches.
`Word` is also 2^32 in `Timers` (12 in the run), where `MaxMillis` and `MaxLate` bound how far a time can be from now: the sum
must stay below half of `Word`, which for the code means below 24 days.
Deadlock is checked everywhere but in the runs of three modules: the glue stops when the activity is
destroyed or its thread has ended; the pthread fence stops when a process has died with the mutex;
the input thread's module stops when the server does.

Fairness:

- `AppGlue`: both threads run and the driver polls the looper. The main thread gets the mutex
  by strong fairness: the UI thread may take it any number of times after spurious wake-ups,
  and a mutex is not kept from one thread for ever. Android owes no callback.
- Fences: steps inside a call are weakly fair, the mutex is strongly fair. No process
  has to call anything, to die or to be woken without cause.
- `EventQueue`: the main thread and the second half of an enqueue are weakly fair. Waiting is
  strongly fair, since `WaitForSomething` handles a finite number of callbacks each
  time round its loop. No device has to generate events.
- `InputThread`: both threads are weakly fair. Nothing has to be registered, and the
  server does not have to stop.
- `TouchDriver`: fingers are lifted; both threads are weakly fair. Nobody has to turn the device on or off.
- `TouchDelivery`: fingers are lifted; a client whose grab owns a touch accepts or rejects it, or goes away.
  The protocol asks that of clients (`specs/XI2proto.txt`), and a touch whose owner never answers is indeed kept.
- `ClientLoop`: the loop is weakly fair. A client that is ready again and again gets its turn, and
  a turn is again and again long enough to serve it: that is what the priorities and the time slice of
  `SmartScheduleClient` are for, and it is strong fairness for each client. Clients send or leave when they like, and need not read.
- `Timers`: none; the properties are about safety.

Each property has a mutant in `PROJECT.json`: a plausible bug in the code that the run then
finds. Mutants are defined in the modules, before the definition they change.

### What the violated runs say

1. **`DestroyProceeds`**. `android_native_app_glue.h` (307-311) says of `APP_CMD_DESTROY` that
   the UI thread waits "for the app thread to clean up and exit before proceeding". `exit` and `abort` in
   `X/android/android.c` end the thread by `pthread_exit`, so `android_app_destroy` does not
   run, `destroyed` stays 0 and `android_app_free` (324) waits for ever: the activity
   hangs in `onDestroy`, which that very `exit` has asked for by `ANativeActivity_finish`.
2. **`QueuedEventsSurvive`**. `mieqGrowQueue` fills the new array with the event lists of the old one
   and, if `InitEventList` fails, frees them all (138-147), while the old array
   stays in use. The message at 223-224 promises that only additional events are discarded.
3. **`OnlyRegisteredDevicesRead`** in `input_thread_reuse`. `InputThreadUnregisterDev` (270-274) takes the first entry with the
   descriptor, also one that already waits for its removal; the entry that was meant stays and
   is read. It needs two registrations of one descriptor before the thread runs once.

### What else we met

None of these is a finding of its own: but for the first, nothing in the repository promises otherwise of this code.

The other callbacks of the glue fare as `onDestroy` does when the thread has ended by `exit`: what the platform calls before
it, `onPause` and `onStop` for instance, waits (`android_native_app_glue.c`, 315; 291, 306, 359 for the others) for an answer of a thread that
is gone, though the header (`android_native_app_glue.h`, 38-39) says that callbacks "_should_ _not_ block". It has the same cause as `DestroyProceeds`. `CallbackReturns`
excepts a thread that has ended; without that exception TLC finds it violated.

A race in the event queue (the code marks the function as
one not to be looked at by the thread sanitizer): `InputCheckPending` (`X/include/dix.h`, 137-141) reads
head and tail without the lock. If `mieqGrowQueue` runs between the reads, a queue that is
not empty can look empty once. Then an event of a device that was disabled may stay in the queue until
the device is removed and freed. The variable `fooled` records this, and `NoEventOfFreedDevice` is
stated for the behaviours in which it does not happen; without that exception TLC finds it violated.

In the touch driver, a finger that goes down after `DisableDevice` has ended the touches and before the driver has been
called leaves an active touch point (`late`); if its release is thrown away by `EnableDevice`, no touch drives the
pointer until the slot is used again. `OffMeansEnded` and `PointerComesBack` make that exception and no other.

In touch delivery, `TouchListenerGone` (`X/dix/touch.c`, 961) stops at the first listener of the client, so that the second of a client with two grabs
stays; the model gives a client one. The history has room for `TOUCH_HISTORY_SIZE - 2`
updates, hence the bound in `OwnerMissesNothing`.

In the main loop:
`mark_client_grab` (`X/dix/dispatch.c`, 286-296) puts impervious clients that are ready away too, although they are listened to:
they wait for the end of the grab, and meanwhile the poll returns at once for nothing.
`MakeClientGrabPervious` leaves the client in the list it is in, so that it is served during the grab of
another (`lapsed`). `UngrabServer` wakes one of the clients that wait for the grab; if that one goes away before
it has grabbed, the next is not woken before the next ungrab (three clients are needed for this; the liveness property
says nothing of ignored clients).
`FlushAllOutput` puts off the output of saved clients as well, that is until after the grab or
until the next output is too big for the buffer.

## 4. What is proved

The theorems hold for every value of the constants under the assumptions named in the modules
(`NoneAssumption`: NULL is none of the values; `BucketAssumption`: an empty or freed bucket is no
event; sizes and bounds are natural numbers, the ring starts with more than one bucket; clients are
finitely many numbers; times stay within half of the clock's range, `RangeAssumption`). No proof uses a bound of a run.

- **`AppGlueProofs`**. `TypeCorrect` needs to know which argument each function has (`ArgumentOK`).
  `FreedAfterLastUse` rests on `FreeInv`: `destroyed` is set only in the last critical section of the thread,
  the UI thread reaches the release only when it has seen it, and to see it it needs the mutex, which the thread gives up last. `SavedStateHasOneOwner` rests on `HeapInv`, which
  says between which steps `savedState` is NULL. `CallbackReturnsInAgreement` and
  `OnlyLentObjectsUsed` rest on `HandshakeInv`: every command that is in the pipe or in
  the thread's hands belongs to the function the UI thread is in (`Outstanding`), two of them are under way only when a window
  is replaced, and as long as one is under way the condition the UI thread waits for is false (`WindowInv`, `InputInv`, `LifeInv`, `SaveInv`).
  That is why the wait ends only after the last of them. None of the properties is inductive without it.
  `NoWakeUpLost` adds the other half, `SleepInv`: while the condition does not hold, the command that makes it
  hold (`Awaited`) is under way, or the thread has not started, or has ended; and every step that makes it hold broadcasts, so a thread that is
  asleep has not been passed over. For `onDestroy` it says where the promise stops: once `DESTROY` has been heard nothing is under way.
  With the fairness of both threads that is why callbacks return (`CallbackReturns`, model-checked).
  `WindowReplacedViaNull` adds `ReplaceInv`: a command that brings a window in while another is held comes
  after the command that gives the old one up.
- **`FencePthreadProofs`**, **`FenceFutexProofs`**. One invariant each: types, where a sleeper is in
  its call, and that no one sleeps on a triggered fence; for the futex also that
  between the store and the wake-up a triggerer is there to wake. From it follow the safety
  properties, and that each step of the implementation is a step of `Fence` or
  leaves it unchanged (`PthreadImplementsFence`, `FutexImplementsFence`; for the futex the property of the run
  includes fairness and the theorem does not).
- **`EventQueueProofs`**. `TypeCorrect`: head and tail stay in the ring and every bucket holds an
  event, nothing, or freed memory, for any size of ring. The lemmas say what
  the modulo arithmetic yields (`ModRange`, `SlotInRing`), that the count never reaches the size (`Counted`), and what storing
  and growing do to the types.
  `NoEventOutlivesItsDevice` rests on `FlushInv`. Call an event stale when its device is not on: stale events
  cannot be forbidden, as `DEVICE_OFF` makes them. `StaleInv` says that while one is queued the main thread is
  in a check or in the loop that processes the queue, and goes on to a wait or a request only from there;
  `SeenInv` and `PathInv` say why neither a check nor the loop ends while it is there. No step that frees a device lies
  on that way. The theorem has the hypothesis that the size of the ring divides 2^32 (`SizeDivides`), which is
  true of 512 doubled up to 23 times: it makes `(oldtail - 1) % nevents` the bucket before the tail (`PreviousIs`);
  with another size a motion would be stored into a bucket that is not queued.

  `RingIsAQueue`: the ring implements `InputQueue` without its fairness, if `InitEventList` does not fail, which is what
  `event_queue_memory` shows to be needed. The lemmas say how `Queued`, the events from head to tail, changes when an event is
  stored, merged, taken, or the ring grows. `KindInv` says that `lastMotion` is right about the last event in the queue, so that a merge is one
  `InputQueue` allows, and `BusyInv` when the main thread is busy with an event.
- **`InputThreadProofs`**. `FreshInv`: ids are new. `ListInv`: a descriptor has one live entry and one to be removed at most, the latter before
  the former. `RegisteredInv` and `PolledInv` relate the list to what drivers believe and to the poll set; from them
  `CalledBackWithExistingDevices` and, unless `MayHurry`, `UnregisteredDevicesUnread`. `ChangeInv` says that a change of the list is
  in the flag and announced in the pipe or about to be looked for, and `RunningInv` when the thread stops. `NoChangeMissed` is the safety behind
  `InputIsRead`: a thread that sleeps with an empty hotplug pipe polls the registered devices and no other. `SleeperIsWoken` is
  that behind `EventsAreProcessed`: no event waits for a sleeping main thread without a byte on its way.
- **`TouchProofs`, on `TouchDriver`**. `PointerIsDrivenOnce` is not inductive by far: between the driver's touch points and the server's touches is the
  queue. `PointInv` has it for the touch points; `AgreeInv` says that events carry what the touch point says; `EndInv` that
  a touch the server knows, or is about to, is active or its end is in the queue; `OrderInv` that before the begin of another pointer touch
  comes the end of the last; `FreshInv` that ids are not used again. `OffEndsTouches` adds `OffInv`, where the flush comes in, and
  `PointerReturns` adds `ReleaseInv`: the release of each slot that went down is in the socket, or the finger is still there.
- **`TouchProofs`, on `TouchDelivery`**. The idea of `DeliveryInv` is that the state of a listener is the memory of what its client has
  been sent (`Shown`, `Fits`): `AWAITING_BEGIN` of nothing, `AWAITING_OWNER` and `EARLY_ACCEPT` of the begin, `IS_OWNER` and `HAS_ACCEPTED` of
  the ownership too if it was asked for, `HAS_END` of the end. Then a client that is cut off has seen a whole touch, or nothing of it.
  `Common` says that of all listeners, that whoever listens no more has seen a whole touch (`Whole`), that each client listens once, grabs first
  (`Placed`), that all but the first listener wait (`Ranked`), and what the history holds (`Recorded`); it holds between any two of the nested calls.
  `Owned` holds besides once a handler is done: the first listener owns the touch, and has had its end when the finger is gone. It does not hold while
  the touch passes from one owner to the next, which is why the two are apart.
  There is a lemma for each operator that sends (`Sending`, `CuttingOff`, `Beginning`, `ReplayIs`, ...) and for each that passes the touch on
  (`TakingOver`, `EndingOwner`, `EndingTouch`, `PuntIs`, `AcceptIs`, `RejectedIs`, `NotingIs`), the latter in terms of `After`: the invariant, nothing that
  was sent taken back, and no listener added.
  `OwnerHasEverything` and `EndsAreAnnounced` follow from the invariant, and `DeliveryKeepsPromise` from it and from what the steps leave in place:
  the steps of an active touch are `Show`, a `Begin` is `Open`, and what comes after the touch is over is `Leave` or changes nothing.
  The hypotheses are that the size of the history is two at least (`TOUCH_HISTORY_SIZE` is 100), and that the bounds on touches and updates,
  which cap the runs, are numbers: any numbers.
- **`ClientLoopProofs`**. `IInv` holds between the steps of the loop: types and the lists (`ListInv`), the poll listens to the clients it should
  (`PollInv`), an ignored client is in no list unless its connection is closed (`IgnoredInv`), a client that may be served is in a list or will be reported (`ServedInv`), with a whole request it is in a list (`WholeInv`),
  the grab (`GrabInv`), the output (`OutputInv`). One lemma for each operator of the module (`GrabKeeps`, `FlushKeeps`, `InitialKeeps`, `CloseKeeps`, ...) says that it
  keeps these; the client being served stays in its list for that until the end of its turn (`LoopInv`).
  `FirstWaiterWaits` needs that finite sets of numbers have extremes (`HasExtremes`).
- **`TimersProofs`**. `ListOK`: the number in each timer stands for its true distance from now, up to one multiple of `Word`, the list is sorted by the
  true distance and has no timer twice. `SignedIs` and `DifferenceIs`: the signed difference of two such numbers is the difference of
  the true times; that is where half of the range is needed, and why it works at the wrap. `PlaceIs` and `InsertKeeps`
  carry the order through an insertion; `RoundInv` bounds the age of the time `DoTimers` goes by, so that no callback is early.

Only model-checked: all liveness properties, and the refinements with their fairness (the prover
does not handle fairness and ENABLED). That a touch ends for everyone who saw it begin, for one, is proved as far as safety goes (nobody is left
without its end when the record is given up, and whoever waits has been told that the finger is gone) and model-checked as `EveryTouchEnds`;
that a callback returns is proved up to `NoWakeUpLost`.
For the invariants the runs are a check of the statements, on the way to a proof; the theorems hold for all constants.

## 5. Not modelled, and why

- Rendering, keymaps, protocol marshalling and the vendored libraries, which are nearly all of the 1.8 million lines: data
  transformation, with little control a model checker could explore.
- The bootstrap and `minzip`: straight-line file output. EGL: glue to libraries that are not in the repository.
- `X/present`, `X/Xext/sync.c`: their requests keep queues of their own on top of the fences and the loop; they would be the next modules.
  `libxcb` is a client's library: who reads the socket, sequence numbers that wrap.
  `X/dix/resource.c`: what closes a client frees its resources in one step of the main thread.
- In `AppGlue`: input events taken from the queue and configuration changes, which nothing in `src/`
  acts on. In `EventQueue`: screens, custom handlers, master devices, and the times of events.
  In `InputThread`: the paths without an input thread, the failures of `pipe`
  and `pthread_create` and of the `calloc` of an entry (the call returns 0 and changes nothing), a descriptor the poll finds invalid (`POLLNVAL`), and a hotplug pipe so full that a write blocks.
- In the fences: mapping and unmapping of the memory.
- In `TouchDriver`: failed or short reads of the socket, slots out of range, coordinates. The sender is not in the repository.
- In `TouchDelivery`: listeners of emulated pointer events, active grabs, frozen devices and their replay, a client with two listeners; of
  `X/dix/events.c` the rest: keys, buttons, masks, focus.
- In `ClientLoop`: requests that do not change the lists, big requests and input that is skipped, `dispatchException`, clients that are retained, nested
  `IgnoreClient`, a client with priority over others for ever (`SyncSetPriority`), critical output, the time-out of a connection that
  is not set up, a connection that is refused, `KillClient`, a failed accept, the sizes of buffers. New input from devices is processed only where the loop blocks.
- In `Timers`: `CheckAllTimers`, which repairs the list when the clock was set back (the build's clock is monotonic), and the flags
  of `TimerSet`, which no caller uses.

## 6. What is left

1. `Present`: the queue of presentations, flips and idle fences over the abstract `Fence`.
2. `SyncTriggers`: counters, alarms and awaits.
3. Frozen devices and the replay of events (`X/dix/events.c`), as a second kind of listener in `TouchDelivery`.
4. `XcbSequence`: which thread reads the socket, and sequence numbers that wrap.
