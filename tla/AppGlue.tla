------------------------------ MODULE AppGlue ------------------------------
(***************************************************************************)
(* The glue between the activity's UI thread and the server's thread:      *)
(* native_app_glue/android_native_app_glue.c, and the way the server ends  *)
(* in xorg-server-1.20.1/android/android.c.                                *)
(*                                                                         *)
(* The UI thread turns each activity callback into a command on a pipe     *)
(* and, for most of them, sleeps on a condition variable until the server  *)
(* thread has acted on it.  A critical section of the server thread never  *)
(* sleeps and is one step, but for its last one, where what comes between  *)
(* the flag and the unlock matters; the UI thread's are split where the    *)
(* server thread can act in between, that is at each write to the pipe.    *)
(***************************************************************************)
EXTENDS Naturals, Sequences

CONSTANTS Windows,     \* the ANativeWindow objects the platform may lend
          Queues,      \* the AInputQueue objects the platform may lend
          Buffers,     \* the heap blocks that can hold a saved state
          None,        \* NULL
          MaxNotices   \* bound: unacknowledged commands waiting in the pipe

ASSUME NoneAssumption == None \notin Windows \cup Queues \cup Buffers

ASSUME MaxNoticesAssumption == MaxNotices \in Nat

VARIABLES
    pipe,             \* commands written to msgwrite, not yet read
    upc, uop, uarg,   \* the UI thread: where it is, in which function, with what
    life,             \* the last lifecycle command the platform delivered
    pendingWindow, pendingInputQueue,
    stateSaved,
    lent,             \* history: windows and queues the platform has lent
    apc, acmd,        \* the server thread: where it is, with which command
    running, window, inputQueue, activityState,
    destroyRequested, destroyed,
    savedState,       \* the block android_app->savedState points to, or NULL
    heap,             \* the saved-state blocks the glue must still free or pass on
    freed             \* android_app has been freed

uiVars  == <<upc, uop, uarg, life, pendingWindow, pendingInputQueue, lent, freed>>
appVars == <<apc, acmd, running, window, inputQueue, activityState,
             destroyRequested, destroyed>>
vars    == <<uiVars, appVars, pipe, stateSaved, savedState, heap>>

-----------------------------------------------------------------------------

LifeCmds == {"START", "RESUME", "PAUSE", "STOP"}

\* CONFIG_CHANGED, LOW_MEMORY, GAINED_FOCUS and LOST_FOCUS: nobody waits for them.
Notice == "NOTICE"

Cmds == LifeCmds \cup {"INPUT_CHANGED", "INIT_WINDOW", "TERM_WINDOW",
                       "SAVE_STATE", "DESTROY", Notice}

\* The functions in which the UI thread waits for the server thread.
UiOps == {"android_app_create", "set_window", "set_input", "set_activity_state",
          "onSaveInstanceState", "android_app_free"}

\* The UI thread owns android_app->mutex at these points.
UiHolds == upc \in {"term", "write", "check"}

\* The server thread owns it at this point.
AppHolds == apc = "unlock"

MutexFree == ~UiHolds

\* Mutant: the broadcast is forgotten.
BroadcastForgotten == upc' = upc

\* pthread_cond_broadcast: the UI thread is the only one that ever waits.
Broadcast == upc' = IF upc = "asleep" THEN "woken" ELSE upc

\* Mutant: set_window does not wait.
WindowNotAwaited == TRUE

WindowTaken == window = pendingWindow

\* Mutant: the lifecycle state is taken for reached as soon as the server runs.
LifeNotAwaited == running

LifeTaken == activityState = uarg

\* What the UI thread waits for in each function.
Satisfied(op) ==
    CASE op = "android_app_create"  -> running
      [] op = "set_window"          -> WindowTaken
      [] op = "set_input"           -> inputQueue = pendingInputQueue
      [] op = "set_activity_state"  -> LifeTaken
      [] op = "onSaveInstanceState" -> stateSaved
      [] op = "android_app_free"    -> destroyed

\* Mutant: the window being replaced is not terminated first.
TermNever == FALSE

\* set_window terminates the window it replaces.
TermNeeded == uop = "set_window" /\ pendingWindow # None

\* The command a function sends after the ones that depend on the old state.
CommandFor(op) ==
    CASE op = "set_input"           -> "INPUT_CHANGED"
      [] op = "set_activity_state"  -> uarg
      [] op = "onSaveInstanceState" -> "SAVE_STATE"
      [] op = "android_app_free"    -> "DESTROY"

-----------------------------------------------------------------------------
(***************************************************************************)
(* The platform, which is not part of the repository: it calls one         *)
(* callback at a time, follows the activity lifecycle, gives back a window *)
(* or a queue before the activity is destroyed and never lends the window  *)
(* it has already lent.                                                    *)
(***************************************************************************)

LifeFollows(cmd) ==
    CASE cmd = "START"  -> life = "STOP"
      [] cmd = "RESUME" -> life \in {"START", "PAUSE"}
      [] cmd = "PAUSE"  -> life = "RESUME"
      [] cmd = "STOP"   -> life \in {"START", "PAUSE"}

\* A callback that waits enters its function, which begins by taking the mutex.
Enter(op, arg) ==
    /\ upc = "idle"
    /\ upc' = "lock"
    /\ uop' = op
    /\ uarg' = arg
    /\ UNCHANGED <<pipe, pendingWindow, pendingInputQueue, stateSaved, savedState,
                   heap, freed, appVars>>

onNativeWindowCreated(w) ==
    /\ w # pendingWindow
    /\ Enter("set_window", w)
    /\ lent' = lent \cup {w}
    /\ UNCHANGED life

onNativeWindowDestroyed ==
    /\ pendingWindow # None
    /\ Enter("set_window", None)
    /\ UNCHANGED <<lent, life>>

onInputQueueCreated(q) ==
    /\ pendingInputQueue = None
    /\ Enter("set_input", q)
    /\ lent' = lent \cup {q}
    /\ UNCHANGED life

onInputQueueDestroyed ==
    /\ pendingInputQueue # None
    /\ Enter("set_input", None)
    /\ UNCHANGED <<lent, life>>

\* onStart, onResume, onPause, onStop
onLifecycle(cmd) ==
    /\ LifeFollows(cmd)
    /\ Enter("set_activity_state", cmd)
    /\ life' = cmd
    /\ UNCHANGED lent

onSaveInstanceState ==
    /\ life \in {"PAUSE", "STOP"}
    /\ Enter("onSaveInstanceState", None)
    /\ UNCHANGED <<lent, life>>

onDestroy ==
    /\ life = "STOP"
    /\ pendingWindow = None
    /\ pendingInputQueue = None
    /\ Enter("android_app_free", None)
    /\ UNCHANGED <<lent, life>>

\* onConfigurationChanged, onLowMemory, onWindowFocusChanged: write and return.
onNotice ==
    /\ upc = "idle"
    /\ Len(SelectSeq(pipe, LAMBDA c : c = Notice)) < MaxNotices
    /\ pipe' = Append(pipe, Notice)
    /\ UNCHANGED <<uiVars, appVars, stateSaved, savedState, heap>>

Callback ==
    \/ \E w \in Windows : onNativeWindowCreated(w)
    \/ onNativeWindowDestroyed
    \/ \E q \in Queues : onInputQueueCreated(q)
    \/ onInputQueueDestroyed
    \/ \E cmd \in LifeCmds : onLifecycle(cmd)
    \/ onSaveInstanceState
    \/ onDestroy
    \/ onNotice

-----------------------------------------------------------------------------
(***************************************************************************)
(* The UI thread inside a function.                                        *)
(***************************************************************************)

\* pthread_mutex_lock and what precedes the first write.  set_window writes
\* TERM_WINDOW first when a window is pending.
UiLock ==
    /\ upc = "lock"
    /\ ~AppHolds
    /\ upc' = CASE uop = "android_app_create" -> "check"
                [] TermNeeded -> "term"
                [] OTHER -> "write"
    /\ pendingInputQueue' = IF uop = "set_input" THEN uarg ELSE pendingInputQueue
    /\ stateSaved' = IF uop = "onSaveInstanceState" THEN FALSE ELSE stateSaved
    /\ UNCHANGED <<pipe, uop, uarg, life, pendingWindow, lent, savedState, heap,
                   freed, appVars>>

UiWriteTerm ==
    /\ upc = "term"
    /\ pipe' = Append(pipe, "TERM_WINDOW")
    /\ upc' = "write"
    /\ UNCHANGED <<uop, uarg, life, pendingWindow, pendingInputQueue, stateSaved,
                   lent, savedState, heap, freed, appVars>>

\* Mutant: the argument of any function is taken for a window.
UiWriteAnyArgument ==
    /\ upc = "write"
    /\ upc' = "check"
    /\ pendingWindow' = uarg
    /\ pipe' = Append(pipe, IF uop = "set_window" THEN "INIT_WINDOW"
                                                  ELSE CommandFor(uop))
    /\ UNCHANGED <<uop, uarg, life, pendingInputQueue, stateSaved, lent, savedState,
                   heap, freed, appVars>>

UiWrite ==
    /\ upc = "write"
    /\ upc' = "check"
    /\ IF uop = "set_window"
       THEN /\ pendingWindow' = uarg
            /\ pipe' = IF uarg # None THEN Append(pipe, "INIT_WINDOW") ELSE pipe
       ELSE /\ pipe' = Append(pipe, CommandFor(uop))
            /\ UNCHANGED pendingWindow
    /\ UNCHANGED <<uop, uarg, life, pendingInputQueue, stateSaved, lent, savedState,
                   heap, freed, appVars>>

\* The condition does not hold: pthread_cond_wait gives up the mutex.
UiSleep ==
    /\ upc = "check"
    /\ ~Satisfied(uop)
    /\ upc' = "asleep"
    /\ UNCHANGED <<pipe, uop, uarg, life, pendingWindow, pendingInputQueue,
                   stateSaved, lent, savedState, heap, freed, appVars>>

\* pthread_cond_wait may return without a broadcast.
UiSpuriousWake ==
    /\ upc = "asleep"
    /\ upc' = "woken"
    /\ UNCHANGED <<pipe, uop, uarg, life, pendingWindow, pendingInputQueue,
                   stateSaved, lent, savedState, heap, freed, appVars>>

\* pthread_cond_wait returns with the mutex; the loop tests its condition again.
UiReacquire ==
    /\ upc = "woken"
    /\ ~AppHolds
    /\ upc' = "check"
    /\ UNCHANGED <<pipe, uop, uarg, life, pendingWindow, pendingInputQueue,
                   stateSaved, lent, savedState, heap, freed, appVars>>

\* The condition holds: unlock and return to the platform, which takes back
\* what the callback was about.  onSaveInstanceState takes the block over, the
\* platform copies and frees it.  android_app_free goes on to free android_app.
UiReturn ==
    /\ upc = "check"
    /\ Satisfied(uop)
    /\ upc' = IF uop = "android_app_free" THEN "free" ELSE "idle"
    /\ lent' = {pendingWindow, pendingInputQueue} \ {None}
    /\ IF uop = "onSaveInstanceState"
       THEN /\ savedState' = None
            /\ heap' = heap \ {savedState}
       ELSE UNCHANGED <<savedState, heap>>
    /\ UNCHANGED <<pipe, uop, uarg, life, pendingWindow, pendingInputQueue,
                   stateSaved, freed, appVars>>

\* close, pthread_cond_destroy, pthread_mutex_destroy, free
UiFree ==
    /\ upc = "free"
    /\ upc' = "gone"
    /\ freed' = TRUE
    /\ UNCHANGED <<pipe, uop, uarg, life, pendingWindow, pendingInputQueue,
                   stateSaved, lent, savedState, heap, appVars>>

Ui == \/ UiLock \/ UiWriteTerm \/ UiWrite \/ UiSleep \/ UiReacquire
      \/ UiReturn \/ UiFree

-----------------------------------------------------------------------------
(***************************************************************************)
(* The server thread.  It reads commands when the video driver, which is   *)
(* not in the repository, polls the looper and calls process_cmd.          *)
(***************************************************************************)

\* free_saved_state without its locking
FreeSavedState ==
    /\ heap' = heap \ {savedState}
    /\ savedState' = None

\* android_app_entry up to android_main
AppEntry ==
    /\ apc = "entry"
    /\ MutexFree
    /\ running' = TRUE
    /\ Broadcast
    /\ apc' = "poll"
    /\ UNCHANGED <<uop, uarg, life, pendingWindow, pendingInputQueue, lent, freed,
                   acmd, window, inputQueue, activityState, destroyRequested,
                   destroyed, pipe, stateSaved, savedState, heap>>

\* Mutant: the old state is not freed when a new one is asked for.
FreesNever(cmd) == FALSE

\* android_app_read_cmd frees the old state before it returns SAVE_STATE.
FreesOnRead(cmd) == cmd = "SAVE_STATE"

\* read() in android_app_read_cmd
AppReadCmd ==
    /\ apc = "poll"
    /\ pipe # <<>>
    /\ acmd' = Head(pipe)
    /\ pipe' = Tail(pipe)
    /\ apc' = IF FreesOnRead(acmd') THEN "read_free" ELSE "pre_exec"
    /\ UNCHANGED <<uiVars, running, window, inputQueue, activityState,
                   destroyRequested, destroyed, stateSaved, savedState, heap>>

AppReadFree ==
    /\ apc = "read_free"
    /\ MutexFree
    /\ FreeSavedState
    /\ apc' = "pre_exec"
    /\ UNCHANGED <<uiVars, acmd, running, window, inputQueue, activityState,
                   destroyRequested, destroyed, pipe, stateSaved>>

\* android_app_pre_exec_cmd: INPUT_CHANGED, INIT_WINDOW and the lifecycle
\* commands take effect under the mutex, TERM_WINDOW only broadcasts, without it.
AppPreExec ==
    /\ apc = "pre_exec"
    /\ acmd \in LifeCmds \cup {"INPUT_CHANGED", "INIT_WINDOW"} => MutexFree
    /\ apc' = "onAppCmd"
    /\ inputQueue' = IF acmd = "INPUT_CHANGED" THEN pendingInputQueue ELSE inputQueue
    /\ window' = IF acmd = "INIT_WINDOW" THEN pendingWindow ELSE window
    /\ activityState' = IF acmd \in LifeCmds THEN acmd ELSE activityState
    /\ destroyRequested' = (destroyRequested \/ acmd = "DESTROY")
    /\ IF acmd \in LifeCmds \cup {"INPUT_CHANGED", "INIT_WINDOW", "TERM_WINDOW"}
       THEN Broadcast
       ELSE UNCHANGED upc
    /\ UNCHANGED <<uop, uarg, life, pendingWindow, pendingInputQueue, lent, freed,
                   acmd, running, destroyed, pipe, stateSaved, savedState, heap>>

\* app->onAppCmd, set by the driver: it may leave a state in a block of its own
\* when it is asked for one, and does not touch the fields of the glue otherwise.
AppOnAppCmd ==
    /\ apc = "onAppCmd"
    /\ apc' = "post_exec"
    /\ \/ UNCHANGED <<savedState, heap>>
       \/ /\ acmd = "SAVE_STATE"
          /\ \E b \in Buffers \ heap :
                /\ savedState' = b
                /\ heap' = heap \cup {b}
    /\ UNCHANGED <<uiVars, acmd, running, window, inputQueue, activityState,
                   destroyRequested, destroyed, pipe, stateSaved>>

\* Mutant: the broadcast made before onAppCmd is taken to be enough.
AppPostExecQuiet ==
    /\ apc = "post_exec"
    /\ acmd \in {"TERM_WINDOW", "SAVE_STATE", "RESUME"} => MutexFree
    /\ apc' = "poll"
    /\ window' = IF acmd = "TERM_WINDOW" THEN None ELSE window
    /\ stateSaved' = (stateSaved \/ acmd = "SAVE_STATE")
    /\ IF acmd = "RESUME" THEN FreeSavedState ELSE UNCHANGED <<savedState, heap>>
    /\ IF acmd = "SAVE_STATE" THEN Broadcast ELSE UNCHANGED upc
    /\ UNCHANGED <<uop, uarg, life, pendingWindow, pendingInputQueue, lent, freed,
                   acmd, running, inputQueue, activityState, destroyRequested,
                   destroyed, pipe>>

\* android_app_post_exec_cmd
AppPostExec ==
    /\ apc = "post_exec"
    /\ acmd \in {"TERM_WINDOW", "SAVE_STATE", "RESUME"} => MutexFree
    /\ apc' = "poll"
    /\ window' = IF acmd = "TERM_WINDOW" THEN None ELSE window
    /\ stateSaved' = (stateSaved \/ acmd = "SAVE_STATE")
    /\ IF acmd = "RESUME" THEN FreeSavedState ELSE UNCHANGED <<savedState, heap>>
    /\ IF acmd \in {"TERM_WINDOW", "SAVE_STATE"} THEN Broadcast ELSE UNCHANGED upc
    /\ UNCHANGED <<uop, uarg, life, pendingWindow, pendingInputQueue, lent, freed,
                   acmd, running, inputQueue, activityState, destroyRequested,
                   destroyed, pipe>>

\* The server calls exit() or abort(), or dix_main returns and android_main
\* calls exit(0): at any point of its work, in onAppCmd too.
AppExit ==
    /\ apc \in {"poll", "onAppCmd"}
    /\ apc' = "exit"
    /\ UNCHANGED <<uiVars, acmd, running, window, inputQueue, activityState,
                   destroyRequested, destroyed, pipe, stateSaved, savedState, heap>>

\* activity_force_finish: the activity is told to finish and pthread_exit ends
\* the thread, so that android_main does not return.
AppPthreadExit ==
    /\ apc = "exit"
    /\ apc' = "pthread_exit"
    /\ UNCHANGED <<uiVars, acmd, running, window, inputQueue, activityState,
                   destroyRequested, destroyed, pipe, stateSaved, savedState, heap>>

\* activity_force_finish gives up where Activity.finish cannot be looked up:
\* exit() then returns, and android_main with it.  android_app_destroy starts.
AppMainReturns ==
    /\ apc = "exit"
    /\ MutexFree
    /\ FreeSavedState
    /\ apc' = "destroy"
    /\ UNCHANGED <<uiVars, acmd, running, window, inputQueue, activityState,
                   destroyRequested, destroyed, pipe, stateSaved>>

\* Mutant: the end is announced without the mutex, as TERM_WINDOW is.
AppDestroyUnlocked ==
    /\ apc = "destroy"
    /\ destroyed' = TRUE
    /\ Broadcast
    /\ apc' = "unlock"
    /\ UNCHANGED <<uop, uarg, life, pendingWindow, pendingInputQueue, lent, freed,
                   acmd, running, window, inputQueue, activityState,
                   destroyRequested, pipe, stateSaved, savedState, heap>>

\* The second critical section of android_app_destroy, up to the broadcast
AppDestroy ==
    /\ apc = "destroy"
    /\ MutexFree
    /\ destroyed' = TRUE
    /\ Broadcast
    /\ apc' = "unlock"
    /\ UNCHANGED <<uop, uarg, life, pendingWindow, pendingInputQueue, lent, freed,
                   acmd, running, window, inputQueue, activityState,
                   destroyRequested, pipe, stateSaved, savedState, heap>>

\* pthread_mutex_unlock: nothing after it touches android_app.
AppUnlock ==
    /\ apc = "unlock"
    /\ apc' = "returned"
    /\ UNCHANGED <<uiVars, acmd, running, window, inputQueue, activityState,
                   destroyRequested, destroyed, pipe, stateSaved, savedState, heap>>

\* The steps the thread goes on to take as long as the driver polls the looper.
AppProcess == \/ AppEntry \/ AppReadCmd \/ AppReadFree \/ AppPreExec
              \/ AppOnAppCmd \/ AppPostExec

AppEnd == AppPthreadExit \/ AppMainReturns \/ AppDestroy \/ AppUnlock

-----------------------------------------------------------------------------

\* android_app_create, just after pthread_create; the activity may come with the
\* state an earlier instance of it saved.
Init ==
    /\ pipe = <<>>
    /\ upc = "lock" /\ uop = "android_app_create" /\ uarg = None
    /\ life = "STOP"
    /\ pendingWindow = None /\ pendingInputQueue = None
    /\ stateSaved = FALSE
    /\ lent = {}
    /\ apc = "entry" /\ acmd = Notice
    /\ running = FALSE
    /\ window = None /\ inputQueue = None
    /\ activityState = "INPUT_CHANGED"      \* zeroed memory: the command numbered 0
    /\ destroyRequested = FALSE /\ destroyed = FALSE
    /\ savedState \in Buffers \cup {None}
    /\ heap = {savedState} \ {None}
    /\ freed = FALSE

Next == \/ Callback
        \/ Ui
        \/ UiSpuriousWake
        \/ AppProcess
        \/ AppExit
        \/ AppEnd

Spec == Init /\ [][Next]_vars

\* Both threads are scheduled, and the driver polls the looper.  The platform
\* owes no callback, the server need never exit, and no wake-up is owed without
\* a broadcast.  The server thread is owed the mutex only if it is free again
\* and again: spurious wake-ups make the UI thread take it any number of times.
Fairness == WF_vars(Ui) /\ SF_vars(AppProcess) /\ SF_vars(AppEnd)

FairSpec == Spec /\ Fairness

-----------------------------------------------------------------------------

UiPoints == {"idle", "lock", "term", "write", "check", "asleep", "woken", "free", "gone"}

AppPoints == {"entry", "poll", "read_free", "pre_exec", "onAppCmd", "post_exec",
              "exit", "pthread_exit", "destroy", "unlock", "returned"}

TypeOK ==
    /\ pipe \in Seq(Cmds)
    /\ upc \in UiPoints
    /\ uop \in UiOps
    /\ uarg \in Windows \cup Queues \cup LifeCmds \cup {None}
    /\ life \in LifeCmds
    /\ pendingWindow \in Windows \cup {None}
    /\ pendingInputQueue \in Queues \cup {None}
    /\ stateSaved \in BOOLEAN
    /\ lent \subseteq Windows \cup Queues
    /\ apc \in AppPoints
    /\ acmd \in Cmds
    /\ running \in BOOLEAN
    /\ window \in Windows \cup {None}
    /\ inputQueue \in Queues \cup {None}
    /\ activityState \in LifeCmds \cup {"INPUT_CHANGED"}
    /\ destroyRequested \in BOOLEAN
    /\ destroyed \in BOOLEAN
    /\ savedState \in Buffers \cup {None}
    /\ heap \subseteq Buffers
    /\ freed \in BOOLEAN

\* exit() has been called: the server thread reads no more commands.
AppEnded == apc \in {"exit", "pthread_exit", "destroy", "unlock", "returned"}

\* The window and the input queue the server thread works with are ones the
\* platform has lent and not yet taken back: set_window and set_input return
\* only when the server thread has let go of the old one.
UsesOnlyLent == {window, inputQueue} \subseteq lent \cup {None}

\* While no callback is in progress the two sides agree on the window, the
\* queue and the lifecycle state, whatever order the server thread found the
\* commands in: a command that is still in the pipe is never one that would
\* change them again.
CallbacksSynchronous ==
    upc = "idle" =>
        /\ window = pendingWindow
        /\ inputQueue = pendingInputQueue
        /\ activityState \in {life, "INPUT_CHANGED"}
        /\ {pipe[i] : i \in DOMAIN pipe} \subseteq {Notice}

\* The saved state has one owner: the glue owes a free for exactly the block
\* savedState points to, through SAVE_STATE and RESUME commands, the hand-over
\* to onSaveInstanceState and the end of the server thread; none is left behind
\* when android_app is freed.
SavedStateOwned ==
    /\ heap = {savedState} \ {None}
    /\ freed => heap = {}

\* android_app_free frees android_app, and the mutex in it, only when the server
\* thread is past the point after which it "can't touch android_app": between
\* destroyed = 1 and the unlock the mutex itself keeps the UI thread out.
NoUseAfterFree == freed => apc = "returned"

\* A command is under way from the write until it takes effect: in the pipe, or
\* read by the server thread (TERM_WINDOW and SAVE_STATE take effect in
\* android_app_post_exec_cmd, the others in android_app_pre_exec_cmd).
InHand ==
    /\ acmd # Notice
    /\ \/ apc = "pre_exec"
       \/ /\ apc \in {"read_free", "onAppCmd", "post_exec"}
          /\ acmd \in {"TERM_WINDOW", "SAVE_STATE"}

InPipe(c) == \E i \in 1..Len(pipe) : pipe[i] = c

Open(c) == InPipe(c) \/ (InHand /\ acmd = c)

\* The command whose effect the UI thread waits for.
Awaited == IF uop = "set_window"
           THEN IF uarg = None THEN "TERM_WINDOW" ELSE "INIT_WINDOW"
           ELSE CommandFor(uop)

\* What the UI thread waits for can still happen: the server thread has not
\* started yet, or has the awaited command before it.  android_app_free is the
\* exception: once DESTROY has been heard only the thread's end is to come.
StillToCome ==
    \/ uop = "android_app_create" /\ apc = "entry"
    \/ uop = "android_app_free" /\ destroyRequested
    \/ uop # "android_app_create" /\ Open(Awaited)

\* No wake-up and no command is lost: while the UI thread sleeps in one of the
\* glue's wait loops its condition does not hold, and unless the server thread
\* has ended what will make it hold is still to come.
SleepIsAnswered ==
    upc = "asleep" => ~Satisfied(uop) /\ (StillToCome \/ AppEnded)

\* The server sees its window go away before it is given another one, also when
\* the platform replaces a window in a single callback.
WindowOnlyViaNull ==
    [][window # None /\ window' # window => window' = None]_vars

\* A callback that has entered its function returns to the platform, unless the
\* server thread comes to its end: no broadcast is lost between the test of the
\* condition and the sleep, and neither thread waits for the other's mutex for
\* ever.  onDestroy waits for the thread's end instead: it returns if
\* android_main does (nothing in the repository reads destroyRequested).
CallbackReturns ==
    /\ (upc \notin {"idle", "gone"} /\ uop # "android_app_free")
          ~> (upc = "idle" \/ AppEnded)
    /\ (uop = "android_app_free" /\ apc = "destroy") ~> freed

\* What the header says of APP_CMD_DESTROY: the UI thread is "waiting for the
\* app thread to clean up and exit before proceeding".  Once the app thread has
\* exited, onDestroy proceeds and frees android_app.
DestroyProceeds ==
    (uop = "android_app_free" /\ apc \in {"pthread_exit", "returned"}) ~> freed

=============================================================================
