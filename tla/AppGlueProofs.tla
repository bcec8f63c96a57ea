--------------------------- MODULE AppGlueProofs ---------------------------
(***************************************************************************)
(* Theorems about AppGlue, for every set of windows, queues and buffers    *)
(* and every bound on the notices.                                         *)
(***************************************************************************)
EXTENDS AppGlue, TLAPS

-----------------------------------------------------------------------------
(***************************************************************************)
(* Types.  The argument of a function has the type the function uses it    *)
(* at: without that, set_window could leave anything in pendingWindow.     *)
(***************************************************************************)

ArgumentOK ==
    /\ uop = "set_window" => uarg \in Windows \cup {None}
    /\ uop = "set_input" => uarg \in Queues \cup {None}
    /\ uop = "set_activity_state" => uarg \in LifeCmds
    /\ uop = "android_app_create" => upc \notin {"term", "write"}
    /\ upc = "term" => uop = "set_window"

TypeInv == TypeOK /\ ArgumentOK

LEMMA InitTypeInv == Init => TypeInv
<1> SUFFICES ASSUME Init PROVE TypeInv
  OBVIOUS
<1>1. pipe \in Seq(Cmds)
  BY DEF Init
<1>2. acmd \in Cmds
  BY DEF Init, Cmds
<1>3. heap \subseteq Buffers
  BY DEF Init
<1> QED
  BY <1>1, <1>2, <1>3
  DEF Init, TypeInv, TypeOK, ArgumentOK, LifeCmds, UiPoints, UiOps, AppPoints

\* A callback of the platform starts a function with an argument of its type.
LEMMA CallbackTypeInv == TypeInv /\ Callback => TypeInv'
<1> SUFFICES ASSUME TypeInv, Callback PROVE TypeInv'
  OBVIOUS
<1> USE DEF TypeInv, TypeOK, ArgumentOK, Enter, appVars, uiVars, UiPoints, UiOps, LifeCmds
<1>1. ASSUME NEW w \in Windows, onNativeWindowCreated(w) PROVE TypeInv'
  BY <1>1 DEF onNativeWindowCreated
<1>2. CASE onNativeWindowDestroyed
  BY <1>2 DEF onNativeWindowDestroyed
<1>3. ASSUME NEW q \in Queues, onInputQueueCreated(q) PROVE TypeInv'
  BY <1>3 DEF onInputQueueCreated
<1>4. CASE onInputQueueDestroyed
  BY <1>4 DEF onInputQueueDestroyed
<1>5. ASSUME NEW cmd \in LifeCmds, onLifecycle(cmd) PROVE TypeInv'
  BY <1>5 DEF onLifecycle
<1>6. CASE onSaveInstanceState
  BY <1>6 DEF onSaveInstanceState
<1>7. CASE onDestroy
  BY <1>7 DEF onDestroy
<1>8. CASE onNotice
  <2>1. pipe' \in Seq(Cmds)
    BY <1>8 DEF onNotice, Cmds, Notice
  <2> QED
    BY <1>8, <2>1 DEF onNotice
<1> QED
  BY <1>1, <1>2, <1>3, <1>4, <1>5, <1>6, <1>7, <1>8 DEF Callback

LEMMA UiTypeInv == TypeInv /\ (Ui \/ UiSpuriousWake) => TypeInv'
<1> SUFFICES ASSUME TypeInv, Ui \/ UiSpuriousWake PROVE TypeInv'
  OBVIOUS
<1> USE DEF TypeInv, TypeOK, ArgumentOK, appVars, UiPoints, UiOps
<1>1. CASE UiLock
  <2>1. /\ upc' \in {"check", "term", "write"}
        /\ uop = "android_app_create" => upc' = "check"
        /\ upc' = "term" => uop = "set_window"
    BY <1>1 DEF UiLock, TermNeeded
  <2>2. pendingInputQueue' \in Queues \cup {None} /\ stateSaved' \in BOOLEAN
    BY <1>1 DEF UiLock
  <2>3. UNCHANGED <<pipe, uop, uarg, life, pendingWindow, lent, savedState, heap,
                    freed, appVars>>
    BY <1>1 DEF UiLock
  <2> QED
    BY <2>1, <2>2, <2>3
<1>2. CASE UiWriteTerm
  <2>1. pipe' \in Seq(Cmds)
    BY <1>2 DEF UiWriteTerm, Cmds
  <2> QED
    BY <1>2, <2>1 DEF UiWriteTerm
<1>3. CASE UiWrite
  <2>1. pipe' \in Seq(Cmds)
    BY <1>3 DEF UiWrite, Cmds, CommandFor, LifeCmds
  <2> QED
    BY <1>3, <2>1 DEF UiWrite
<1>4. CASE UiSleep
  BY <1>4 DEF UiSleep
<1>5. CASE UiReacquire
  BY <1>5 DEF UiReacquire
<1>6. CASE UiReturn
  BY <1>6 DEF UiReturn
<1>7. CASE UiFree
  BY <1>7 DEF UiFree
<1>8. CASE UiSpuriousWake
  BY <1>8 DEF UiSpuriousWake
<1> QED
  BY <1>1, <1>2, <1>3, <1>4, <1>5, <1>6, <1>7, <1>8 DEF Ui

LEMMA AppTypeInv == TypeInv /\ (AppProcess \/ AppExit \/ AppEnd) => TypeInv'
<1> SUFFICES ASSUME TypeInv, AppProcess \/ AppExit \/ AppEnd PROVE TypeInv'
  OBVIOUS
<1> USE DEF TypeInv, TypeOK, ArgumentOK, uiVars, UiPoints, AppPoints
<1>1. CASE AppEntry
  BY <1>1 DEF AppEntry, Broadcast
<1>2. CASE AppReadCmd
  <2>1. pipe' \in Seq(Cmds) /\ acmd' \in Cmds
    BY <1>2 DEF AppReadCmd
  <2> QED
    BY <1>2, <2>1 DEF AppReadCmd
<1>3. CASE AppReadFree
  BY <1>3 DEF AppReadFree, FreeSavedState
<1>4. CASE AppPreExec
  BY <1>4 DEF AppPreExec, Broadcast
<1>5. CASE AppOnAppCmd
  BY <1>5 DEF AppOnAppCmd
<1>6. CASE AppPostExec
  BY <1>6 DEF AppPostExec, Broadcast, FreeSavedState
<1>7. CASE AppExit
  BY <1>7 DEF AppExit
<1>8. CASE AppPthreadExit
  BY <1>8 DEF AppPthreadExit
<1>9. CASE AppMainReturns
  BY <1>9 DEF AppMainReturns, FreeSavedState
<1>10. CASE AppDestroy
  BY <1>10 DEF AppDestroy, Broadcast
<1>11. CASE AppUnlock
  BY <1>11 DEF AppUnlock
<1> QED
  BY <1>1, <1>2, <1>3, <1>4, <1>5, <1>6, <1>7, <1>8, <1>9, <1>10, <1>11 DEF AppProcess, AppEnd

LEMMA StutterTypeInv == TypeInv /\ UNCHANGED vars => TypeInv'
BY DEF TypeInv, TypeOK, ArgumentOK, vars, uiVars, appVars

LEMMA TypeInvariant == Spec => []TypeInv
<1>1. TypeInv /\ [Next]_vars => TypeInv'
  BY CallbackTypeInv, UiTypeInv, AppTypeInv, StutterTypeInv DEF Next
<1> QED
  BY InitTypeInv, <1>1, PTL DEF Spec

\* Every variable of the glue keeps its type: in particular the fields that two
\* threads assign, each in its own function.
THEOREM TypeCorrect == Spec => []TypeOK
<1>1. TypeInv => TypeOK
  BY DEF TypeInv
<1> QED
  BY TypeInvariant, <1>1, PTL

-----------------------------------------------------------------------------
(***************************************************************************)
(* The end of the server thread and the release of android_app.            *)
(***************************************************************************)

\* While the server thread holds the mutex for the last time, the UI thread is kept out
\* of its critical sections, in particular of the test of destroyed.
FreeInv ==
    /\ destroyed => apc \in {"unlock", "returned"}
    /\ apc = "unlock" => ~UiHolds /\ upc \notin {"free", "gone"}
    /\ upc \in {"free", "gone"} => destroyed
    /\ freed => upc = "gone"

LEMMA FreeInvStep == TypeInv /\ FreeInv /\ [Next]_vars => FreeInv'
<1> SUFFICES ASSUME TypeInv, FreeInv, [Next]_vars PROVE FreeInv'
  OBVIOUS
<1> USE DEF FreeInv, appVars, uiVars, UiHolds, AppHolds, MutexFree
<1>1. CASE Callback
  BY <1>1 DEF Callback, onNativeWindowCreated, onNativeWindowDestroyed, onInputQueueCreated,
     onInputQueueDestroyed, onLifecycle, onSaveInstanceState, onDestroy, onNotice, Enter
<1>2. CASE Ui
  <2>1. CASE UiLock
    <3>1. upc' \in {"check", "term", "write"}
      BY <2>1 DEF UiLock
    <3> QED
      BY <2>1, <3>1 DEF UiLock
  <2>2. CASE UiReturn
    <3>1. upc' = "free" => destroyed
      BY <2>2 DEF UiReturn, Satisfied
    <3>2. upc' \in {"free", "idle"} /\ upc = "check" /\ UNCHANGED <<destroyed, apc, freed>>
      BY <2>2 DEF UiReturn
    <3> QED
      BY <3>1, <3>2
  <2>3. CASE UiWriteTerm \/ UiWrite \/ UiSleep \/ UiReacquire \/ UiFree
    BY <2>3 DEF UiWriteTerm, UiWrite, UiSleep, UiReacquire, UiFree
  <2> QED
    BY <1>2, <2>1, <2>2, <2>3 DEF Ui
<1>3. CASE UiSpuriousWake
  BY <1>3 DEF UiSpuriousWake
<1>4. CASE AppProcess
  BY <1>4 DEF AppProcess, AppEntry, AppReadCmd, AppReadFree, AppPreExec, AppOnAppCmd,
     AppPostExec, Broadcast
<1>5. CASE AppExit
  BY <1>5 DEF AppExit
<1>6. CASE AppEnd
  BY <1>6 DEF AppEnd, AppPthreadExit, AppMainReturns, AppDestroy, AppUnlock, Broadcast
<1>7. CASE UNCHANGED vars
  BY <1>7 DEF vars
<1> QED
  BY <1>1, <1>2, <1>3, <1>4, <1>5, <1>6, <1>7 DEF Next

LEMMA FreeInvariant == Spec => []FreeInv
<1>1. Init => FreeInv
  BY DEF Init, FreeInv
<1> QED
  BY TypeInvariant, <1>1, FreeInvStep, PTL DEF Spec

\* android_app_free releases android_app only after the server thread has made
\* its last access to it.
THEOREM FreedAfterLastUse == Spec => []NoUseAfterFree
<1>1. FreeInv => NoUseAfterFree
  BY DEF FreeInv, NoUseAfterFree
<1> QED
  BY FreeInvariant, <1>1, PTL

-----------------------------------------------------------------------------
(***************************************************************************)
(* The saved state.  The server allocates a block only between the free in *)
(* android_app_read_cmd and the end of SAVE_STATE, when it holds none; and *)
(* android_main leaves none behind.                                        *)
(***************************************************************************)

HeapInv ==
    /\ heap = {savedState} \ {None}
    /\ apc \in {"pre_exec", "onAppCmd"} /\ acmd = "SAVE_STATE" => savedState = None
    /\ apc \in {"destroy", "unlock", "returned"} => savedState = None

LEMMA HeapInvStep == TypeInv /\ HeapInv /\ [Next]_vars => HeapInv'
<1> SUFFICES ASSUME TypeInv, HeapInv, [Next]_vars PROVE HeapInv'
  OBVIOUS
<1> USE DEF HeapInv, appVars, uiVars
<1>1. CASE Callback
  BY <1>1 DEF Callback, onNativeWindowCreated, onNativeWindowDestroyed, onInputQueueCreated,
     onInputQueueDestroyed, onLifecycle, onSaveInstanceState, onDestroy, onNotice, Enter
<1>2. CASE Ui
  <2>1. CASE UiLock
    <3>1. UNCHANGED <<heap, savedState, apc, acmd>>
      BY <2>1 DEF UiLock
    <3> QED
      BY <3>1
  <2>2. CASE UiReturn
    <3>1. UNCHANGED <<apc, acmd>> /\ (\/ savedState' = None /\ heap' = heap \ {savedState}
                                      \/ UNCHANGED <<savedState, heap>>)
      BY <2>2 DEF UiReturn
    <3> QED
      BY <3>1
  <2>3. CASE UiWriteTerm \/ UiWrite \/ UiSleep \/ UiReacquire \/ UiFree
    BY <2>3 DEF UiWriteTerm, UiWrite, UiSleep, UiReacquire, UiFree
  <2> QED
    BY <1>2, <2>1, <2>2, <2>3 DEF Ui
<1>3. CASE UiSpuriousWake
  BY <1>3 DEF UiSpuriousWake
<1>4. CASE AppProcess
  <2>1. CASE AppEntry \/ AppReadFree
    BY <2>1 DEF AppEntry, AppReadFree, FreeSavedState
  <2>2. CASE AppReadCmd
    BY <2>2 DEF AppReadCmd, FreesOnRead
  <2>3. CASE AppPreExec
    BY <2>3 DEF AppPreExec
  <2>4. CASE AppOnAppCmd
    <3>1. ASSUME NEW b \in Buffers, acmd = "SAVE_STATE", savedState' = b, heap' = heap \cup {b}
          PROVE heap' = {savedState'} \ {None}
      BY <2>4, <3>1, NoneAssumption DEF AppOnAppCmd
    <3> QED
      BY <2>4, <3>1 DEF AppOnAppCmd
  <2>5. CASE AppPostExec
    BY <2>5 DEF AppPostExec, FreeSavedState
  <2> QED
    BY <1>4, <2>1, <2>2, <2>3, <2>4, <2>5 DEF AppProcess
<1>5. CASE AppExit
  BY <1>5 DEF AppExit
<1>6. CASE AppEnd
  BY <1>6 DEF AppEnd, AppPthreadExit, AppMainReturns, AppDestroy, AppUnlock, FreeSavedState
<1>7. CASE UNCHANGED vars
  BY <1>7 DEF vars
<1> QED
  BY <1>1, <1>2, <1>3, <1>4, <1>5, <1>6, <1>7 DEF Next

\* Exactly one block is owed a free while savedState points to one, none
\* otherwise, and none when android_app is freed.
THEOREM SavedStateHasOneOwner == Spec => []SavedStateOwned
<1>1. Init => HeapInv
  BY DEF Init, HeapInv
<1>2. Spec => []HeapInv
  BY TypeInvariant, <1>1, HeapInvStep, PTL DEF Spec
<1>3. HeapInv /\ NoUseAfterFree => SavedStateOwned
  BY DEF HeapInv, NoUseAfterFree, SavedStateOwned
<1> QED
  BY <1>2, <1>3, FreedAfterLastUse, PTL

-----------------------------------------------------------------------------
(***************************************************************************)
(* The handshake.  A command the UI thread waits for is outstanding until  *)
(* it takes effect, and while it is, the condition of the wait does not    *)
(* hold; so the UI thread cannot return before every command it has sent   *)
(* has taken effect.                                                       *)
(***************************************************************************)

Waiting == upc \in {"check", "asleep", "woken"}

\* The commands the function in progress may have sent.
Outstanding(c) ==
    \/ uop = "set_window" /\ c = "TERM_WINDOW" /\ (Waiting \/ upc = "write")
    \/ uop = "set_window" /\ c = "INIT_WINDOW" /\ Waiting /\ uarg # None
    \/ uop = "set_input" /\ c = "INPUT_CHANGED" /\ Waiting
    \/ uop = "set_activity_state" /\ c = uarg /\ Waiting
    \/ uop = "onSaveInstanceState" /\ c = "SAVE_STATE" /\ Waiting
    \/ uop = "android_app_free" /\ c = "DESTROY" /\ (Waiting \/ upc \in {"free", "gone"})

\* Two commands are under way only when a window is replaced.
PipeInv ==
    /\ \A i \in 1..Len(pipe) : pipe[i] # Notice => Outstanding(pipe[i])
    /\ \A i, j \in 1..Len(pipe) : i < j /\ pipe[i] # Notice /\ pipe[j] # Notice
          => pipe[i] = "TERM_WINDOW" /\ pipe[j] = "INIT_WINDOW"
    /\ InHand =>
          /\ Outstanding(acmd)
          /\ \A i \in 1..Len(pipe) :
                pipe[i] # Notice => acmd = "TERM_WINDOW" /\ pipe[i] = "INIT_WINDOW"
    /\ apc = "read_free" => acmd = "SAVE_STATE"

WindowInv ==
    /\ (uop # "set_window" \/ upc \in {"idle", "lock", "term"}) => window = pendingWindow
    /\ (uop = "set_window" /\ upc \in {"lock", "term", "write"}) => uarg # pendingWindow
    /\ upc = "term" => pendingWindow # None
    /\ (uop = "set_window" /\ upc = "write") => window \in {pendingWindow, None}
    /\ (uop = "set_window" /\ Waiting) => pendingWindow = uarg
    /\ Open("TERM_WINDOW") => window # None /\ window # uarg
    /\ Open("INIT_WINDOW") => window # uarg

InputInv ==
    /\ (uop # "set_input" \/ upc \in {"idle", "lock"}) => inputQueue = pendingInputQueue
    /\ (uop = "set_input" /\ upc = "lock") => uarg # pendingInputQueue
    /\ (uop = "set_input" /\ upc = "write") => inputQueue # pendingInputQueue
    /\ Open("INPUT_CHANGED") => inputQueue # pendingInputQueue

LifeInv ==
    /\ (uop # "set_activity_state" \/ upc = "idle") => activityState \in {life, "INPUT_CHANGED"}
    /\ uop = "set_activity_state" => life = uarg
    /\ (uop = "set_activity_state" /\ upc \in {"lock", "write"}) => activityState # uarg
    /\ (uop = "set_activity_state" /\ Open(uarg)) => activityState # uarg

SaveInv ==
    /\ (uop = "onSaveInstanceState" /\ upc = "write") => ~stateSaved
    /\ Open("SAVE_STATE") => ~stateSaved

HandshakeInv == PipeInv /\ WindowInv /\ InputInv /\ LifeInv /\ SaveInv

\* What a write does to the pipe, and what a read does.
LEMMA WriteFacts ==
    ASSUME NEW c \in Cmds, pipe \in Seq(Cmds), pipe' = Append(pipe, c)
    PROVE  /\ Len(pipe') = Len(pipe) + 1
           /\ \A i \in 1..Len(pipe) : pipe'[i] = pipe[i]
           /\ pipe'[Len(pipe')] = c
OBVIOUS

LEMMA ReadFacts ==
    ASSUME pipe \in Seq(Cmds), pipe # <<>>, pipe' = Tail(pipe)
    PROVE  /\ Len(pipe') = Len(pipe) - 1 /\ Len(pipe) \in Nat \ {0}
           /\ \A i \in 1..Len(pipe') : pipe'[i] = pipe[i + 1] /\ i + 1 \in 1..Len(pipe)
           /\ Head(pipe) = pipe[1]
OBVIOUS

\* While a function holds no command of its own, the pipe carries only notices.
LEMMA NothingOpen ==
    ASSUME TypeInv, PipeInv, \A c \in Cmds : ~Outstanding(c)
    PROVE  \A c \in Cmds \ {Notice} : ~Open(c)
BY DEF PipeInv, Open, InPipe, TypeInv, TypeOK

LEMMA CallbackHandshake ==
    ASSUME TypeInv, HandshakeInv, Callback
    PROVE  HandshakeInv'
<1> USE DEF HandshakeInv, TypeInv, TypeOK, ArgumentOK
<1>1. ASSUME NEW op \in UiOps, NEW arg, Enter(op, arg),
             op = "set_window" => arg # pendingWindow,
             op = "set_input" => arg # pendingInputQueue,
             op = "set_activity_state" => arg = life' /\ life' # life /\ arg \in LifeCmds,
             op # "set_activity_state" => life' = life
      PROVE  HandshakeInv'
  <2>1. upc = "idle" /\ upc' = "lock" /\ uop' = op /\ uarg' = arg
    BY <1>1 DEF Enter
  <2>2. UNCHANGED <<pipe, pendingWindow, pendingInputQueue, stateSaved, window, inputQueue,
                    activityState, apc, acmd>>
    BY <1>1 DEF Enter, appVars
  <2>3. \A c \in Cmds : ~Outstanding(c)
    BY <2>1 DEF Outstanding, Waiting
  <2>4. \A c \in Cmds \ {Notice} : ~Open(c) /\ ~Open(c)'
    BY <2>2, <2>3, NothingOpen DEF Open, InPipe, InHand
  <2>5. /\ \A i \in 1..Len(pipe) : pipe[i] = Notice
        /\ ~InHand
    BY <2>3 DEF PipeInv
  <2>6. PipeInv'
    BY <2>2, <2>5 DEF PipeInv, InHand
  <2>7. WindowInv'
    BY <1>1, <2>1, <2>2, <2>4 DEF WindowInv, Waiting, Cmds, Notice
  <2>8. InputInv'
    BY <1>1, <2>1, <2>2, <2>4 DEF InputInv, Cmds, Notice
  <2>9. LifeInv'
    BY <1>1, <2>1, <2>2, <2>4 DEF LifeInv, Cmds, Notice, LifeCmds
  <2>10. SaveInv'
    BY <2>1, <2>2, <2>4 DEF SaveInv, Cmds, Notice
  <2> QED
    BY <2>6, <2>7, <2>8, <2>9, <2>10
<1>2. ASSUME NEW w \in Windows, onNativeWindowCreated(w) PROVE HandshakeInv'
  BY <1>1, <1>2 DEF onNativeWindowCreated, UiOps
<1>3. CASE onNativeWindowDestroyed
  BY <1>1, <1>3 DEF onNativeWindowDestroyed, UiOps
<1>4. ASSUME NEW q \in Queues, onInputQueueCreated(q) PROVE HandshakeInv'
  BY <1>1, <1>4, NoneAssumption DEF onInputQueueCreated, UiOps
<1>5. CASE onInputQueueDestroyed
  BY <1>1, <1>5 DEF onInputQueueDestroyed, UiOps
<1>6. ASSUME NEW cmd \in LifeCmds, onLifecycle(cmd) PROVE HandshakeInv'
  <2>1. cmd # life
    BY <1>6 DEF onLifecycle, LifeFollows, LifeCmds
  <2> QED
    BY <1>1, <1>6, <2>1 DEF onLifecycle, UiOps
<1>7. CASE onSaveInstanceState
  BY <1>1, <1>7 DEF onSaveInstanceState, UiOps
<1>8. CASE onDestroy
  BY <1>1, <1>8 DEF onDestroy, UiOps
<1>9. CASE onNotice
  <2>1. /\ upc = "idle"
        /\ pipe' = Append(pipe, Notice)
        /\ UNCHANGED <<upc, uop, uarg, life, pendingWindow, pendingInputQueue, stateSaved,
                       window, inputQueue, activityState, apc, acmd>>
    BY <1>9 DEF onNotice, uiVars, appVars
  <2>2. \A c \in Cmds : ~Outstanding(c)
    BY <2>1 DEF Outstanding, Waiting
  <2>3. ~InHand /\ \A i \in 1..Len(pipe) : pipe[i] = Notice
    BY <2>2 DEF PipeInv
  <2>4. ~InHand' /\ \A i \in 1..Len(pipe') : pipe'[i] = Notice
    BY <2>1, <2>3, WriteFacts DEF InHand, Cmds
  <2>5. \A c \in Cmds \ {Notice} : ~Open(c)'
    BY <2>4 DEF Open, InPipe
  <2>6. PipeInv'
    BY <2>1, <2>4 DEF PipeInv
  <2>7. WindowInv'
    BY <2>1, <2>5 DEF WindowInv, Waiting, Cmds, Notice
  <2>8. InputInv'
    BY <2>1, <2>5 DEF InputInv, Cmds, Notice
  <2>9. LifeInv'
    BY <2>1, <2>5 DEF LifeInv, Cmds, Notice, LifeCmds
  <2>10. SaveInv'
    BY <2>1, <2>5 DEF SaveInv, Cmds, Notice
  <2> QED
    BY <2>6, <2>7, <2>8, <2>9, <2>10
<1> QED
  BY <1>2, <1>3, <1>4, <1>5, <1>6, <1>7, <1>8, <1>9 DEF Callback

LEMMA UiHandshake ==
    ASSUME TypeInv, HandshakeInv, Ui \/ UiSpuriousWake
    PROVE  HandshakeInv'
<1> USE DEF HandshakeInv, TypeInv, TypeOK, ArgumentOK
<1>1. CASE UiLock
  <2>1. /\ upc = "lock" /\ upc' \in {"check", "term", "write"}
        /\ upc' = "term" => uop = "set_window" /\ pendingWindow # None
        /\ uop = "android_app_create" <=> upc' = "check"
    BY <1>1 DEF UiLock, TermNeeded
  <2>2. UNCHANGED <<pipe, uop, uarg, life, pendingWindow, window, inputQueue,
                    activityState, apc, acmd>>
    BY <1>1 DEF UiLock, appVars
  <2>3. \A c \in Cmds : ~Outstanding(c)
    BY <2>1 DEF Outstanding, Waiting
  <2>4. ~InHand /\ \A i \in 1..Len(pipe) : pipe[i] = Notice
    BY <2>3 DEF PipeInv
  <2>5. PipeInv'
    BY <2>2, <2>4 DEF PipeInv, InHand
  <2>6. \A c \in Cmds \ {Notice} : ~Open(c)'
    BY <2>2, <2>4 DEF Open, InPipe, InHand
  <2>7. WindowInv'
    BY <2>1, <2>2, <2>6 DEF WindowInv, Waiting, Cmds, Notice
  <2>8. InputInv'
    <3>1. pendingInputQueue' = IF uop = "set_input" THEN uarg ELSE pendingInputQueue
      BY <1>1 DEF UiLock
    <3> QED
      BY <3>1, <2>1, <2>2, <2>6 DEF InputInv, Cmds, Notice
  <2>9. LifeInv'
    BY <2>1, <2>2, <2>6 DEF LifeInv, Cmds, Notice, LifeCmds
  <2>10. SaveInv'
    <3>1. uop = "onSaveInstanceState" => ~stateSaved'
      BY <1>1 DEF UiLock
    <3> QED
      BY <3>1, <2>1, <2>2, <2>6 DEF SaveInv, Cmds, Notice
  <2> QED
    BY <2>5, <2>7, <2>8, <2>9, <2>10
<1>2. CASE UiWriteTerm
  <2>1. /\ upc = "term" /\ upc' = "write" /\ uop = "set_window"
        /\ pipe' = Append(pipe, "TERM_WINDOW")
        /\ UNCHANGED <<uop, uarg, life, pendingWindow, pendingInputQueue, stateSaved,
                       window, inputQueue, activityState, apc, acmd>>
    BY <1>2 DEF UiWriteTerm, appVars
  <2>2. \A c \in Cmds : ~Outstanding(c)
    BY <2>1 DEF Outstanding, Waiting
  <2>3. ~InHand /\ \A i \in 1..Len(pipe) : pipe[i] = Notice
    BY <2>2 DEF PipeInv
  <2>4. /\ ~InHand'
        /\ Len(pipe') = Len(pipe) + 1 /\ Len(pipe) \in Nat
        /\ \A i \in 1..Len(pipe) : pipe'[i] = Notice
        /\ pipe'[Len(pipe) + 1] = "TERM_WINDOW"
    BY <2>1, <2>3, WriteFacts DEF InHand, Cmds
  <2>5. Outstanding("TERM_WINDOW")'
    BY <2>1 DEF Outstanding
  <2>6. PipeInv'
    BY <2>1, <2>4, <2>5 DEF PipeInv
  <2>7. \A c \in Cmds \ {Notice, "TERM_WINDOW"} : ~Open(c)'
    BY <2>4 DEF Open, InPipe
  <2>8. WindowInv'
    BY <2>1, <2>7 DEF WindowInv, Waiting, Cmds, Notice
  <2>9. InputInv' /\ LifeInv' /\ SaveInv'
    BY <2>1, <2>7 DEF InputInv, LifeInv, SaveInv, Cmds, Notice
  <2> QED
    BY <2>6, <2>8, <2>9
<1>3. CASE UiWrite /\ uop = "set_window"
  <2>1. /\ upc = "write" /\ upc' = "check"
        /\ pendingWindow' = uarg
        /\ UNCHANGED <<uop, uarg, life, pendingInputQueue, stateSaved,
                       window, inputQueue, activityState, apc, acmd>>
    BY <1>3 DEF UiWrite, appVars
  <2>2. \A c \in Cmds : Outstanding(c) => c = "TERM_WINDOW" /\ Outstanding(c)'
    BY <1>3, <2>1 DEF Outstanding, Waiting
  <2>3. \A c \in Cmds \ {Notice, "TERM_WINDOW"} : ~Open(c)
    BY <2>2 DEF PipeInv, Open, InPipe
  <2>4. CASE uarg = None
    <3>1. pipe' = pipe
      BY <1>3, <2>4 DEF UiWrite
    <3>2. PipeInv'
      BY <2>1, <2>2, <3>1 DEF PipeInv, InHand
    <3>3. \A c : Open(c)' <=> Open(c)
      BY <2>1, <3>1 DEF Open, InPipe, InHand
    <3>4. WindowInv'
      BY <1>3, <2>1, <2>3, <2>4, <3>3 DEF WindowInv, Waiting, Cmds, Notice
    <3>5. InputInv' /\ LifeInv' /\ SaveInv'
      BY <1>3, <2>1, <3>3 DEF InputInv, LifeInv, SaveInv
    <3> QED
      BY <3>2, <3>4, <3>5
  <2>5. CASE uarg # None
    <3>1. pipe' = Append(pipe, "INIT_WINDOW")
      BY <1>3, <2>5 DEF UiWrite
    <3>2. /\ Len(pipe') = Len(pipe) + 1 /\ Len(pipe) \in Nat
          /\ \A i \in 1..Len(pipe) : pipe'[i] = pipe[i]
          /\ pipe'[Len(pipe) + 1] = "INIT_WINDOW"
      BY <3>1, WriteFacts DEF Cmds
    <3>3. \A i \in 1..Len(pipe) : pipe[i] = Notice \/ pipe[i] = "TERM_WINDOW"
      BY <2>2 DEF PipeInv
    <3>4. InHand => acmd = "TERM_WINDOW" /\ \A i \in 1..Len(pipe) : pipe[i] = Notice
      BY <2>2, <3>3 DEF PipeInv
    <3>5. \A i, j \in 1..Len(pipe) : i < j => pipe[i] = Notice \/ pipe[j] = Notice
      BY <3>3 DEF PipeInv
    <3>6. Outstanding("INIT_WINDOW")' /\ Outstanding("TERM_WINDOW")'
      BY <1>3, <2>1, <2>5 DEF Outstanding, Waiting
    <3>7. InHand' <=> InHand
      BY <2>1 DEF InHand
    <3>8. PipeInv'
      <4>1. (\A i \in 1..Len(pipe) : pipe[i] # Notice => Outstanding(pipe[i]))'
        BY <3>2, <3>3, <3>6
      <4>2. \A i, j \in 1..Len(pipe') : i < j /\ pipe'[i] # Notice /\ pipe'[j] # Notice
               => pipe'[i] = "TERM_WINDOW" /\ pipe'[j] = "INIT_WINDOW"
        BY <3>2, <3>3, <3>5
      <4>3. InHand' =>
               /\ Outstanding(acmd)'
               /\ \A i \in 1..Len(pipe') :
                     pipe'[i] # Notice => acmd' = "TERM_WINDOW" /\ pipe'[i] = "INIT_WINDOW"
        BY <2>1, <3>2, <3>4, <3>6, <3>7
      <4> QED
        BY <2>1, <4>1, <4>2, <4>3 DEF PipeInv
    <3>9. \A c \in Cmds \ {"INIT_WINDOW"} : Open(c)' <=> Open(c)
      BY <2>1, <3>2, <3>7 DEF Open, InPipe
    <3>10. WindowInv'
      BY <1>3, <2>1, <2>5, <3>9 DEF WindowInv, Waiting, Cmds
    <3>11. InputInv' /\ LifeInv' /\ SaveInv'
      BY <1>3, <2>1, <3>9 DEF InputInv, LifeInv, SaveInv, Cmds
    <3> QED
      BY <3>8, <3>10, <3>11
  <2> QED
    BY <2>4, <2>5
<1>4. CASE UiWrite /\ uop # "set_window"
  <2>1. /\ upc = "write" /\ upc' = "check"
        /\ UNCHANGED <<uop, uarg, life, pendingWindow, pendingInputQueue, stateSaved,
                       window, inputQueue, activityState, apc, acmd>>
    BY <1>4 DEF UiWrite, appVars
  <2>2. PICK c \in Cmds \ {Notice, "TERM_WINDOW", "INIT_WINDOW"} :
           /\ pipe' = Append(pipe, c)
           /\ Outstanding(c)'
           /\ c = "INPUT_CHANGED" => uop = "set_input"
           /\ c = "SAVE_STATE" => uop = "onSaveInstanceState"
    BY <1>4, <2>1 DEF UiWrite, CommandFor, Outstanding, Waiting, UiOps, Cmds, LifeCmds, Notice
  <2>3. \A d \in Cmds : ~Outstanding(d)
    BY <1>4, <2>1 DEF Outstanding, Waiting
  <2>4. ~InHand /\ \A i \in 1..Len(pipe) : pipe[i] = Notice
    BY <2>3 DEF PipeInv
  <2>5. /\ ~InHand'
        /\ Len(pipe') = Len(pipe) + 1 /\ Len(pipe) \in Nat
        /\ \A i \in 1..Len(pipe) : pipe'[i] = Notice
        /\ pipe'[Len(pipe) + 1] = c
    BY <2>1, <2>2, <2>4, WriteFacts DEF InHand
  <2>6. PipeInv'
    BY <2>1, <2>2, <2>5 DEF PipeInv
  <2>7. \A d \in Cmds \ {Notice, c} : ~Open(d)'
    BY <2>5 DEF Open, InPipe
  <2>8. WindowInv'
    BY <1>4, <2>1, <2>2, <2>7 DEF WindowInv, Cmds, Notice
  <2>9. InputInv'
    BY <1>4, <2>1, <2>2, <2>7 DEF InputInv, Cmds, Notice
  <2>10. LifeInv'
    BY <1>4, <2>1, <2>2, <2>7 DEF LifeInv
  <2>11. SaveInv'
    BY <1>4, <2>1, <2>2, <2>7 DEF SaveInv, Cmds, Notice
  <2> QED
    BY <2>6, <2>8, <2>9, <2>10, <2>11
<1>5. CASE UiSleep \/ UiReacquire \/ UiSpuriousWake
  <2>1. /\ Waiting /\ Waiting' /\ upc' # "idle"
        /\ UNCHANGED <<pipe, uop, uarg, life, pendingWindow, pendingInputQueue, stateSaved,
                       window, inputQueue, activityState, apc, acmd>>
    BY <1>5 DEF UiSleep, UiReacquire, UiSpuriousWake, appVars, Waiting
  <2>2. upc \notin {"idle", "lock", "term", "write"} /\ upc' \notin {"idle", "lock", "term", "write"}
    BY <2>1 DEF Waiting
  <2>3. \A c : (Outstanding(c) => Outstanding(c)') /\ (Open(c)' <=> Open(c))
    BY <2>1 DEF Outstanding, Open, InPipe, InHand
  <2>4. PipeInv'
    BY <2>1, <2>3 DEF PipeInv, InHand
  <2> QED
    BY <2>1, <2>2, <2>3, <2>4 DEF WindowInv, InputInv, LifeInv, SaveInv
<1>6. CASE UiReturn
  <2>1. /\ upc = "check" /\ Satisfied(uop)
        /\ upc' = IF uop = "android_app_free" THEN "free" ELSE "idle"
        /\ UNCHANGED <<pipe, uop, uarg, life, pendingWindow, pendingInputQueue, stateSaved,
                       window, inputQueue, activityState, apc, acmd>>
    BY <1>6 DEF UiReturn, appVars
  <2>2. \A c : Open(c)' <=> Open(c)
    BY <2>1 DEF Open, InPipe, InHand
  <2>3. CASE uop = "set_window"
    <3>1. window = pendingWindow /\ pendingWindow = uarg
      BY <2>1, <2>3 DEF Satisfied, WindowTaken, WindowInv, Waiting
    <3>2. ~Open("TERM_WINDOW") /\ ~Open("INIT_WINDOW")
      BY <3>1 DEF WindowInv
    <3>3. \A c \in Cmds : Outstanding(c) => c \in {"TERM_WINDOW", "INIT_WINDOW"}
      BY <2>3 DEF Outstanding
    <3>4. ~InHand /\ \A i \in 1..Len(pipe) : pipe[i] = Notice
      BY <3>2, <3>3 DEF PipeInv, Open, InPipe
    <3>5. PipeInv'
      BY <2>1, <3>4 DEF PipeInv, InHand
    <3> QED
      BY <2>1, <2>2, <2>3, <3>1, <3>2, <3>5 DEF WindowInv, InputInv, LifeInv, SaveInv, Waiting
  <2>4. CASE uop = "set_input"
    <3>1. inputQueue = pendingInputQueue
      BY <2>1, <2>4 DEF Satisfied
    <3>2. ~Open("INPUT_CHANGED")
      BY <3>1 DEF InputInv
    <3>3. \A c \in Cmds : Outstanding(c) => c = "INPUT_CHANGED"
      BY <2>4 DEF Outstanding
    <3>4. ~InHand /\ \A i \in 1..Len(pipe) : pipe[i] = Notice
      BY <3>2, <3>3 DEF PipeInv, Open, InPipe
    <3>5. PipeInv'
      BY <2>1, <3>4 DEF PipeInv, InHand
    <3> QED
      BY <2>1, <2>2, <2>4, <3>1, <3>2, <3>5 DEF WindowInv, InputInv, LifeInv, SaveInv, Waiting
  <2>5. CASE uop = "set_activity_state"
    <3>1. activityState = uarg
      BY <2>1, <2>5 DEF Satisfied, LifeTaken
    <3>2. ~Open(uarg)
      BY <2>5, <3>1 DEF LifeInv
    <3>3. \A c \in Cmds : Outstanding(c) => c = uarg
      BY <2>5 DEF Outstanding
    <3>4. ~InHand /\ \A i \in 1..Len(pipe) : pipe[i] = Notice
      BY <3>2, <3>3 DEF PipeInv, Open, InPipe
    <3>5. PipeInv'
      BY <2>1, <3>4 DEF PipeInv, InHand
    <3> QED
      BY <2>1, <2>2, <2>5, <3>1, <3>2, <3>5 DEF WindowInv, InputInv, LifeInv, SaveInv, Waiting
  <2>6. CASE uop = "onSaveInstanceState"
    <3>1. stateSaved
      BY <2>1, <2>6 DEF Satisfied
    <3>2. ~Open("SAVE_STATE")
      BY <3>1 DEF SaveInv
    <3>3. \A c \in Cmds : Outstanding(c) => c = "SAVE_STATE"
      BY <2>6 DEF Outstanding
    <3>4. ~InHand /\ \A i \in 1..Len(pipe) : pipe[i] = Notice
      BY <3>2, <3>3 DEF PipeInv, Open, InPipe
    <3>5. PipeInv'
      BY <2>1, <3>4 DEF PipeInv, InHand
    <3> QED
      BY <2>1, <2>2, <2>6, <3>1, <3>2, <3>5 DEF WindowInv, InputInv, LifeInv, SaveInv, Waiting
  <2>7. CASE uop = "android_app_create"
    <3>1. \A c \in Cmds : ~Outstanding(c)
      BY <2>7 DEF Outstanding
    <3>2. ~InHand /\ \A i \in 1..Len(pipe) : pipe[i] = Notice
      BY <3>1 DEF PipeInv
    <3>3. PipeInv'
      BY <2>1, <3>2 DEF PipeInv, InHand
    <3> QED
      BY <2>1, <2>2, <2>7, <3>3 DEF WindowInv, InputInv, LifeInv, SaveInv, Waiting
  <2>8. CASE uop = "android_app_free"
    <3>1. \A c : Outstanding(c) => Outstanding(c)'
      BY <2>1, <2>8 DEF Outstanding
    <3>2. PipeInv'
      BY <2>1, <3>1 DEF PipeInv, InHand
    <3> QED
      BY <2>1, <2>2, <2>8, <3>2 DEF WindowInv, InputInv, LifeInv, SaveInv, Waiting
  <2> QED
    BY <2>3, <2>4, <2>5, <2>6, <2>7, <2>8 DEF UiOps
<1>7. CASE UiFree
  <2>1. /\ upc = "free" /\ upc' = "gone"
        /\ UNCHANGED <<pipe, uop, uarg, life, pendingWindow, pendingInputQueue, stateSaved,
                       window, inputQueue, activityState, apc, acmd>>
    BY <1>7 DEF UiFree, appVars
  <2>2. \A c : (Outstanding(c) => Outstanding(c)') /\ (Open(c)' <=> Open(c))
    BY <2>1 DEF Outstanding, Open, InPipe, InHand, Waiting
  <2>3. PipeInv'
    BY <2>1, <2>2 DEF PipeInv, InHand
  <2> QED
    BY <2>1, <2>2, <2>3 DEF WindowInv, InputInv, LifeInv, SaveInv, Waiting
<1> QED
  BY <1>1, <1>2, <1>3, <1>4, <1>5, <1>6, <1>7 DEF Ui

\* Steps of the server thread that change nothing the handshake is about, or
\* give up the command in hand, or wake the UI thread.
LEMMA QuietAppHandshake ==
    ASSUME TypeInv, HandshakeInv,
           \/ AppEntry \/ AppReadFree \/ AppOnAppCmd
           \/ AppExit \/ AppPthreadExit \/ AppMainReturns \/ AppDestroy \/ AppUnlock
    PROVE  HandshakeInv'
<1> USE DEF HandshakeInv, TypeInv, TypeOK, ArgumentOK
<1>1. /\ UNCHANGED <<pipe, uop, uarg, life, pendingWindow, pendingInputQueue, stateSaved,
                     window, inputQueue, activityState, acmd>>
      /\ upc' = upc \/ (upc = "asleep" /\ upc' = "woken")
  BY DEF AppEntry, AppReadFree, AppOnAppCmd, AppExit, AppPthreadExit, AppMainReturns,
     AppDestroy, AppUnlock, Broadcast, uiVars
<1>2. InHand' => InHand
  <2>1. CASE AppReadFree
    BY <2>1 DEF AppReadFree, PipeInv, InHand, Notice
  <2>2. CASE AppOnAppCmd
    BY <2>2 DEF AppOnAppCmd, InHand
  <2>3. CASE \/ AppEntry \/ AppExit \/ AppPthreadExit \/ AppMainReturns \/ AppDestroy \/ AppUnlock
    BY <2>3 DEF AppEntry, AppExit, AppPthreadExit, AppMainReturns, AppDestroy, AppUnlock, InHand
  <2> QED
    BY <2>1, <2>2, <2>3
<1>3. apc' # "read_free"
  BY DEF AppEntry, AppReadFree, AppOnAppCmd, AppExit, AppPthreadExit, AppMainReturns,
     AppDestroy, AppUnlock
<1>4. \A c : (Outstanding(c) => Outstanding(c)') /\ (Open(c)' => Open(c))
  BY <1>1, <1>2 DEF Outstanding, Open, InPipe, Waiting
<1>5. PipeInv'
  BY <1>1, <1>2, <1>3, <1>4 DEF PipeInv
<1>6. WindowInv' /\ InputInv' /\ LifeInv' /\ SaveInv'
  BY <1>1, <1>4 DEF WindowInv, InputInv, LifeInv, SaveInv, Waiting
<1> QED
  BY <1>5, <1>6

LEMMA ReadHandshake ==
    ASSUME TypeInv, HandshakeInv, AppReadCmd
    PROVE  HandshakeInv'
<1> USE DEF HandshakeInv, TypeInv, TypeOK, ArgumentOK
<1>1. /\ apc = "poll" /\ pipe # <<>> /\ acmd' = pipe[1] /\ pipe' = Tail(pipe)
      /\ Len(pipe') = Len(pipe) - 1 /\ Len(pipe) \in Nat \ {0}
      /\ \A i \in 1..Len(pipe') : pipe'[i] = pipe[i + 1] /\ i + 1 \in 1..Len(pipe)
      /\ UNCHANGED <<upc, uop, uarg, life, pendingWindow, pendingInputQueue, stateSaved,
                     window, inputQueue, activityState>>
  BY ReadFacts DEF AppReadCmd, uiVars
<1>2. apc' = IF acmd' = "SAVE_STATE" THEN "read_free" ELSE "pre_exec"
  BY DEF AppReadCmd, FreesOnRead
<1>3. \A c : (Outstanding(c)' <=> Outstanding(c)) /\ (Open(c)' => Open(c))
  BY <1>1 DEF Outstanding, Open, InPipe, InHand, Waiting
<1>4. PipeInv'
  <2>1. (\A i \in 1..Len(pipe) : pipe[i] # Notice => Outstanding(pipe[i]))'
    BY <1>1, <1>3 DEF PipeInv
  <2>2. \A i, j \in 1..Len(pipe') : i < j /\ pipe'[i] # Notice /\ pipe'[j] # Notice
           => pipe'[i] = "TERM_WINDOW" /\ pipe'[j] = "INIT_WINDOW"
    <3> SUFFICES ASSUME NEW i \in 1..Len(pipe'), NEW j \in 1..Len(pipe'),
                        i < j, pipe'[i] # Notice, pipe'[j] # Notice
                 PROVE  pipe'[i] = "TERM_WINDOW" /\ pipe'[j] = "INIT_WINDOW"
      OBVIOUS
    <3>1. i + 1 < j + 1 /\ pipe[i + 1] # Notice /\ pipe[j + 1] # Notice
      BY <1>1
    <3> QED
      BY <1>1, <3>1 DEF PipeInv
  <2>3. InHand' => Outstanding(acmd)'
    BY <1>1, <1>3 DEF PipeInv, InHand
  <2>4. InHand' => \A i \in 1..Len(pipe') :
                      pipe'[i] # Notice => acmd' = "TERM_WINDOW" /\ pipe'[i] = "INIT_WINDOW"
    <3> SUFFICES ASSUME InHand', NEW i \in 1..Len(pipe'), pipe'[i] # Notice
                 PROVE  acmd' = "TERM_WINDOW" /\ pipe'[i] = "INIT_WINDOW"
      OBVIOUS
    <3>1. pipe[1] # Notice /\ pipe[i + 1] # Notice /\ 1 < i + 1 /\ 1 \in 1..Len(pipe)
      BY <1>1 DEF InHand
    <3> QED
      BY <1>1, <3>1 DEF PipeInv
  <2> QED
    BY <1>2, <2>1, <2>2, <2>3, <2>4 DEF PipeInv
<1>5. WindowInv' /\ InputInv' /\ LifeInv' /\ SaveInv'
  BY <1>1, <1>3 DEF WindowInv, InputInv, LifeInv, SaveInv, Waiting
<1> QED
  BY <1>4, <1>5

\* The steps at which a command takes effect: it was the only one under way, or
\* it is the TERM_WINDOW of a replacement.
LEMMA ExecHandshake ==
    ASSUME TypeInv, HandshakeInv, AppPreExec \/ AppPostExec
    PROVE  HandshakeInv'
<1> USE DEF HandshakeInv, TypeInv, TypeOK, ArgumentOK
<1>1. /\ UNCHANGED <<pipe, uop, uarg, life, pendingWindow, pendingInputQueue, acmd>>
      /\ upc' = upc \/ (upc = "asleep" /\ upc' = "woken")
      /\ apc' # "read_free"
  BY DEF AppPreExec, AppPostExec, Broadcast
<1>2. Waiting' <=> Waiting
  BY <1>1 DEF Waiting
<1>3. \A c : Outstanding(c)' <=> Outstanding(c)
  BY <1>1, <1>2 DEF Outstanding
<1>4. \A c : InPipe(c)' <=> InPipe(c)
  BY <1>1 DEF InPipe
<1>5. InHand' => InHand
  BY DEF InHand, AppPreExec, AppPostExec, Notice
<1>6. PipeInv'
  BY <1>1, <1>3, <1>5 DEF PipeInv
<1>7. \A c : Open(c)' => Open(c)
  BY <1>1, <1>4, <1>5 DEF Open
<1>8. InHand => \A c \in Cmds \ {Notice, acmd} : Open(c) => acmd = "TERM_WINDOW" /\ c = "INIT_WINDOW"
  BY DEF PipeInv, Open, InPipe
<1>9. InHand => Outstanding(acmd) /\ (InPipe(acmd) => FALSE)
  BY DEF PipeInv, InPipe, InHand
<1>10. CASE AppPreExec
  <2>1. /\ apc = "pre_exec" /\ apc' = "onAppCmd" /\ stateSaved' = stateSaved
        /\ inputQueue' = IF acmd = "INPUT_CHANGED" THEN pendingInputQueue ELSE inputQueue
        /\ window' = IF acmd = "INIT_WINDOW" THEN pendingWindow ELSE window
        /\ activityState' = IF acmd \in LifeCmds THEN acmd ELSE activityState
    BY <1>10 DEF AppPreExec
  <2>2. acmd # Notice => InHand
    BY <2>1 DEF InHand
  <2>3. acmd \notin {"TERM_WINDOW", "SAVE_STATE"} => ~Open(acmd)' \/ acmd = Notice
    BY <1>1, <1>4, <1>9, <2>1, <2>2 DEF Open, InHand
  <2>4. WindowInv'
    <3>1. CASE acmd = "INIT_WINDOW"
      <4>1. uop = "set_window" /\ Waiting /\ uarg # None /\ pendingWindow = uarg
        BY <1>9, <2>2, <3>1 DEF Outstanding, WindowInv, Notice, LifeCmds
      <4>2. ~Open("TERM_WINDOW")' /\ ~Open("INIT_WINDOW")'
        BY <1>1, <1>7, <1>8, <2>2, <2>3, <3>1 DEF Cmds, Notice
      <4> QED
        BY <1>1, <1>2, <2>1, <3>1, <4>1, <4>2 DEF WindowInv, Waiting
    <3>2. CASE acmd # "INIT_WINDOW"
      BY <1>1, <1>2, <1>7, <2>1, <3>2 DEF WindowInv, Waiting
    <3> QED
      BY <3>1, <3>2
  <2>5. InputInv'
    <3>1. CASE acmd = "INPUT_CHANGED"
      <4>1. uop = "set_input" /\ Waiting
        BY <1>9, <2>2, <3>1 DEF Outstanding, Notice, LifeCmds
      <4> QED
        BY <1>1, <1>2, <2>1, <2>3, <3>1, <4>1 DEF InputInv, Waiting, Notice
    <3>2. CASE acmd # "INPUT_CHANGED"
      BY <1>1, <1>7, <2>1, <3>2 DEF InputInv
    <3> QED
      BY <3>1, <3>2
  <2>6. LifeInv'
    <3>1. CASE acmd \in LifeCmds
      <4>1. uop = "set_activity_state" /\ Waiting /\ acmd = uarg
        BY <1>9, <2>2, <3>1 DEF Outstanding, Notice, LifeCmds
      <4>2. ~Open(uarg)'
        BY <1>1, <2>3, <3>1, <4>1 DEF Notice, LifeCmds
      <4>3. life = uarg /\ upc' \notin {"lock", "write"}
        BY <1>1, <4>1 DEF LifeInv, Waiting
      <4> QED
        BY <1>1, <2>1, <3>1, <4>1, <4>2, <4>3 DEF LifeInv
    <3>2. CASE acmd \notin LifeCmds
      BY <1>1, <1>7, <2>1, <3>2 DEF LifeInv
    <3> QED
      BY <3>1, <3>2
  <2>7. SaveInv'
    BY <1>1, <1>7, <2>1 DEF SaveInv
  <2> QED
    BY <1>6, <2>4, <2>5, <2>6, <2>7
<1>11. CASE AppPostExec
  <2>1. /\ apc = "post_exec" /\ apc' = "poll"
        /\ UNCHANGED <<inputQueue, activityState>>
        /\ window' = IF acmd = "TERM_WINDOW" THEN None ELSE window
        /\ stateSaved' = (stateSaved \/ acmd = "SAVE_STATE")
    BY <1>11 DEF AppPostExec
  <2>2. acmd \in {"TERM_WINDOW", "SAVE_STATE"} => InHand
    BY <2>1 DEF InHand, Notice
  <2>3. acmd \in {"TERM_WINDOW", "SAVE_STATE"} => ~Open(acmd)'
    BY <1>1, <1>4, <1>9, <2>1, <2>2 DEF Open, InHand
  <2>4. WindowInv'
    <3>1. CASE acmd = "TERM_WINDOW"
      <4>1. uop = "set_window" /\ (Waiting \/ upc = "write")
        BY <1>9, <2>2, <3>1 DEF Outstanding, LifeCmds
      <4>2. Open("INIT_WINDOW")' => uarg # None
        <5>1. ~InHand'
          BY <2>1 DEF InHand
        <5>2. InPipe("INIT_WINDOW") => Outstanding("INIT_WINDOW")
          BY DEF InPipe, PipeInv, Notice
        <5> QED
          BY <1>4, <5>1, <5>2 DEF Open, Outstanding, LifeCmds
      <4> QED
        BY <1>1, <1>2, <2>1, <2>3, <3>1, <4>1, <4>2 DEF WindowInv, Waiting
    <3>2. CASE acmd # "TERM_WINDOW"
      BY <1>1, <1>2, <1>7, <2>1, <3>2 DEF WindowInv, Waiting
    <3> QED
      BY <3>1, <3>2
  <2>5. InputInv' /\ LifeInv'
    BY <1>1, <1>7, <2>1 DEF InputInv, LifeInv
  <2>6. SaveInv'
    <3>1. CASE acmd = "SAVE_STATE"
      <4>1. uop = "onSaveInstanceState" /\ Waiting
        BY <1>9, <2>2, <3>1 DEF Outstanding, LifeCmds
      <4> QED
        BY <1>1, <2>3, <3>1, <4>1 DEF SaveInv, Waiting
    <3>2. CASE acmd # "SAVE_STATE"
      BY <1>1, <1>7, <2>1, <3>2 DEF SaveInv
    <3> QED
      BY <3>1, <3>2
  <2> QED
    BY <1>6, <2>4, <2>5, <2>6
<1> QED
  BY <1>10, <1>11

LEMMA HandshakeInvariant == Spec => []HandshakeInv
<1>1. Init => HandshakeInv
  BY DEF Init, HandshakeInv, PipeInv, WindowInv, InputInv, LifeInv, SaveInv, Open, InPipe,
     InHand, Waiting, LifeCmds
<1>2. TypeInv /\ HandshakeInv /\ [Next]_vars => HandshakeInv'
  <2>1. ASSUME HandshakeInv, UNCHANGED vars PROVE HandshakeInv'
    BY <2>1 DEF vars, uiVars, appVars, HandshakeInv, PipeInv, WindowInv, InputInv, LifeInv,
       SaveInv, Open, InPipe, InHand, Waiting, Outstanding
  <2> QED
    BY <2>1, CallbackHandshake, UiHandshake, QuietAppHandshake, ReadHandshake, ExecHandshake
    DEF Next, AppProcess, AppEnd
<1> QED
  BY TypeInvariant, <1>1, <1>2, PTL DEF Spec

\* When a callback has returned, the server thread has taken over the window,
\* the queue and the lifecycle state, and only notices are still in the pipe.
THEOREM CallbackReturnsInAgreement == Spec => []CallbacksSynchronous
<1>1. TypeInv /\ HandshakeInv => CallbacksSynchronous
  <2> SUFFICES ASSUME TypeInv, HandshakeInv, upc = "idle"
               PROVE  /\ window = pendingWindow
                      /\ inputQueue = pendingInputQueue
                      /\ activityState \in {life, "INPUT_CHANGED"}
                      /\ {pipe[i] : i \in DOMAIN pipe} \subseteq {Notice}
    BY DEF CallbacksSynchronous
  <2>1. \A c : ~Outstanding(c)
    BY DEF Outstanding, Waiting
  <2>2. \A i \in 1..Len(pipe) : pipe[i] = Notice
    BY <2>1 DEF HandshakeInv, PipeInv
  <2>3. DOMAIN pipe = 1..Len(pipe)
    BY DEF TypeInv, TypeOK
  <2> QED
    BY <2>2, <2>3 DEF HandshakeInv, WindowInv, InputInv, LifeInv
<1> QED
  BY TypeInvariant, HandshakeInvariant, <1>1, PTL

-----------------------------------------------------------------------------
(***************************************************************************)
(* No lost wake-up.  The condition changes only in steps that broadcast,   *)
(* and until it holds the command that makes it hold is under way.         *)
(***************************************************************************)

SleepInv ==
    /\ running \/ apc = "entry"
    /\ upc = "asleep" => ~Satisfied(uop)
    /\ Waiting => Satisfied(uop) \/ StillToCome \/ AppEnded
    /\ (uop = "set_window" /\ upc = "write" /\ window # None)
          => Open("TERM_WINDOW") \/ AppEnded

\* The awaited command is one of the pipe's, and never a notice.
LEMMA AwaitedFacts ==
    ASSUME TypeInv, uop # "android_app_create"
    PROVE  Awaited \in Cmds \ {Notice}
BY DEF TypeInv, TypeOK, ArgumentOK, UiOps, Awaited, CommandFor, Cmds, Notice, LifeCmds

\* Reading a command leaves it under way.
LEMMA ReadKeepsOpen ==
    ASSUME TypeInv, AppReadCmd, NEW c \in Cmds \ {Notice}, Open(c)
    PROVE  Open(c)'
<1>1. /\ apc = "poll" /\ pipe # <<>> /\ acmd' = pipe[1] /\ pipe' = Tail(pipe)
      /\ apc' \in {"read_free", "pre_exec"}
      /\ acmd' = "SAVE_STATE" \/ apc' = "pre_exec"
  BY ReadFacts DEF AppReadCmd, FreesOnRead, TypeInv, TypeOK
<1>2. PICK i \in 1..Len(pipe) : pipe[i] = c
  BY <1>1 DEF Open, InHand, InPipe
<1>3. CASE i = 1
  BY <1>1, <1>2, <1>3 DEF Open, InHand
<1>4. CASE i # 1
  <2>1. i - 1 \in 1..Len(pipe') /\ pipe'[i - 1] = pipe[i]
    BY <1>1, <1>2, <1>4 DEF TypeInv, TypeOK
  <2> QED
    BY <1>2, <2>1 DEF Open, InPipe
<1> QED
  BY <1>3, <1>4

LEMMA UiSleeps ==
    ASSUME TypeInv, HandshakeInv, SleepInv, Callback \/ Ui \/ UiSpuriousWake
    PROVE  SleepInv'
<1> USE DEF SleepInv
<1>1. CASE Callback
  <2>1. upc = "idle" /\ upc' \in {"idle", "lock"} /\ UNCHANGED <<running, apc>>
    BY <1>1 DEF Callback, onNativeWindowCreated, onNativeWindowDestroyed,
       onInputQueueCreated, onInputQueueDestroyed, onLifecycle, onSaveInstanceState,
       onDestroy, onNotice, Enter, appVars, uiVars
  <2> QED
    BY <2>1 DEF Waiting
<1>2. CASE UiLock
  <2>1. /\ upc = "lock" /\ upc' \in {"check", "term", "write"}
        /\ upc' = "check" => uop = "android_app_create"
        /\ (uop = "set_window" /\ upc' = "write") => pendingWindow = None
        /\ UNCHANGED <<uop, window, running, apc>>
    BY <1>2 DEF UiLock, TermNeeded, appVars
  <2>2. Waiting' => (Satisfied(uop) \/ StillToCome)'
    BY <2>1 DEF Waiting, Satisfied, StillToCome
  <2>3. (uop = "set_window" /\ upc' = "write") => window' = None
    BY <2>1 DEF HandshakeInv, WindowInv
  <2> QED
    BY <2>1, <2>2, <2>3
<1>3. CASE UiWriteTerm
  <2>1. /\ upc = "term" /\ upc' = "write" /\ pipe' = Append(pipe, "TERM_WINDOW")
        /\ UNCHANGED <<running, apc>>
    BY <1>3 DEF UiWriteTerm, appVars
  <2>2. Open("TERM_WINDOW")'
    BY <2>1, WriteFacts DEF Open, InPipe, TypeInv, TypeOK, Cmds
  <2> QED
    BY <2>1, <2>2 DEF Waiting
<1>4. CASE UiWrite
  <2>1. /\ upc = "write" /\ upc' = "check"
        /\ UNCHANGED <<uop, uarg, window, running, apc, acmd, destroyRequested>>
    BY <1>4 DEF UiWrite, appVars
  <2>2. uop # "android_app_create"
    BY <2>1 DEF TypeInv, ArgumentOK
  <2>3. Awaited' = Awaited
    BY <2>1, <2>2 DEF Awaited, CommandFor
  <2>4. CASE uop = "set_window" /\ uarg = None
    <3>1. pendingWindow' = None /\ pipe' = pipe
      BY <1>4, <2>1, <2>4 DEF UiWrite
    <3>2. Satisfied(uop)' \/ Open("TERM_WINDOW")' \/ AppEnded'
      <4>1. CASE window = None
        BY <2>1, <2>4, <3>1, <4>1 DEF Satisfied, WindowTaken
      <4>2. CASE window # None
        BY <2>1, <2>4, <3>1, <4>2 DEF Open, InPipe, InHand, AppEnded
      <4> QED
        BY <4>1, <4>2
    <3> QED
      BY <2>1, <2>2, <2>4, <3>2 DEF StillToCome, Awaited
  <2>5. CASE ~(uop = "set_window" /\ uarg = None)
    <3>1. pipe' = Append(pipe, Awaited)
      <4>1. CASE uop = "set_window"
        BY <1>4, <2>5, <4>1 DEF UiWrite, Awaited
      <4>2. CASE uop # "set_window"
        BY <1>4, <4>2 DEF UiWrite, Awaited
      <4> QED
        BY <4>1, <4>2
    <3>2. Awaited \in Cmds
      BY <2>2, AwaitedFacts
    <3>3. Open(Awaited)'
      BY <2>3, <3>1, <3>2, WriteFacts DEF Open, InPipe, TypeInv, TypeOK
    <3> QED
      BY <2>1, <2>2, <3>3 DEF StillToCome
  <2> QED
    BY <2>4, <2>5
<1>5. CASE UiSleep \/ UiReacquire \/ UiSpuriousWake
  <2>1. /\ Waiting /\ upc' # "write"
        /\ UNCHANGED <<pipe, uop, uarg, pendingWindow, pendingInputQueue, stateSaved,
                       running, window, inputQueue, activityState, destroyed,
                       destroyRequested, apc, acmd>>
    BY <1>5 DEF UiSleep, UiReacquire, UiSpuriousWake, appVars, Waiting
  <2>2. Satisfied(uop)' <=> Satisfied(uop)
    BY <2>1 DEF Satisfied, WindowTaken, LifeTaken
  <2>3. (StillToCome' <=> StillToCome) /\ (AppEnded' <=> AppEnded)
    BY <2>1 DEF StillToCome, Open, InPipe, InHand, Awaited, CommandFor, AppEnded
  <2>4. upc' = "asleep" => ~Satisfied(uop)
    BY <1>5 DEF UiSleep, UiReacquire, UiSpuriousWake
  <2> QED
    BY <2>1, <2>2, <2>3, <2>4
<1>6. CASE UiReturn \/ UiFree
  <2>1. upc' \in {"free", "idle", "gone"} /\ UNCHANGED <<running, apc>>
    BY <1>6 DEF UiReturn, UiFree, appVars
  <2> QED
    BY <2>1 DEF Waiting
<1> QED
  BY <1>1, <1>2, <1>3, <1>4, <1>5, <1>6 DEF Ui

\* The steps of the server thread between a read and the next change, and its end.
LEMMA QuietAppSleeps ==
    ASSUME TypeInv, HandshakeInv, SleepInv,
           \/ AppEntry \/ AppReadCmd \/ AppReadFree \/ AppOnAppCmd
           \/ AppExit \/ AppPthreadExit \/ AppMainReturns \/ AppDestroy \/ AppUnlock
    PROVE  SleepInv'
<1> USE DEF SleepInv
<1>1. CASE AppEntry
  <2>1. /\ apc = "entry" /\ apc' = "poll" /\ running' = TRUE
        /\ upc' = (IF upc = "asleep" THEN "woken" ELSE upc)
        /\ UNCHANGED <<pipe, uop, uarg, pendingWindow, pendingInputQueue, stateSaved, window,
                       inputQueue, activityState, destroyed, destroyRequested, acmd>>
    BY <1>1 DEF AppEntry, Broadcast
  <2>2. /\ Waiting' <=> Waiting
        /\ upc' # "asleep"
        /\ upc' = "write" => upc = "write"
    BY <2>1 DEF Waiting
  <2>3. ~AppEnded /\ \A c : Open(c)' <=> Open(c)
    BY <2>1 DEF AppEnded, Open, InPipe, InHand
  <2>4. CASE uop = "android_app_create"
    BY <2>1, <2>2, <2>4 DEF Satisfied
  <2>5. CASE uop # "android_app_create"
    <3>1. Satisfied(uop)' <=> Satisfied(uop)
      <4>1. uop \in UiOps \ {"android_app_create"}
        BY <2>5 DEF TypeInv, TypeOK
      <4>2. CASE uop = "set_window"
        BY <2>1, <4>2 DEF Satisfied, WindowTaken
      <4>3. CASE uop = "set_activity_state"
        BY <2>1, <4>3 DEF Satisfied, LifeTaken
      <4>4. CASE uop = "android_app_free"
        BY <2>1, <4>4 DEF Satisfied
      <4>5. CASE uop \in {"set_input", "onSaveInstanceState"}
        BY <2>1, <4>5 DEF Satisfied
      <4> QED
        BY <4>1, <4>2, <4>3, <4>4, <4>5 DEF UiOps
    <3>2. Awaited' = Awaited
      BY <2>1 DEF Awaited, CommandFor
    <3>3. StillToCome => StillToCome'
      BY <2>1, <2>3, <2>5, <3>2 DEF StillToCome
    <3> QED
      BY <2>1, <2>2, <2>3, <3>1, <3>3
  <2> QED
    BY <2>4, <2>5
<1>2. CASE AppReadCmd \/ AppReadFree \/ AppOnAppCmd
  <2>1. /\ apc \in {"poll", "read_free", "onAppCmd"} /\ apc' # "entry"
        /\ UNCHANGED <<upc, uop, uarg, pendingWindow, pendingInputQueue, stateSaved, running,
                       window, inputQueue, activityState, destroyed, destroyRequested>>
    BY <1>2 DEF AppReadCmd, AppReadFree, AppOnAppCmd, uiVars, FreesOnRead
  <2>2. Satisfied(uop)' <=> Satisfied(uop)
    BY <2>1 DEF Satisfied, WindowTaken, LifeTaken
  <2>3. \A c \in Cmds \ {Notice} : Open(c) => Open(c)'
    <3>1. CASE AppReadCmd
      BY <3>1, ReadKeepsOpen
    <3>2. CASE AppReadFree \/ AppOnAppCmd
      BY <3>2 DEF AppReadFree, AppOnAppCmd, Open, InPipe, InHand
    <3> QED
      BY <1>2, <3>1, <3>2
  <2>4. StillToCome => StillToCome'
    <3>1. Awaited' = Awaited
      BY <2>1 DEF Awaited, CommandFor
    <3>2. (uop # "android_app_create" /\ Open(Awaited)) => Open(Awaited)'
      BY <2>3, <3>1, AwaitedFacts
    <3> QED
      BY <2>1, <3>2 DEF StillToCome
  <2>5. ~AppEnded
    BY <2>1 DEF AppEnded
  <2>6. Open("TERM_WINDOW") => Open("TERM_WINDOW")'
    BY <2>3 DEF Cmds, Notice
  <2>7. running
    BY <2>1
  <2> QED
    BY <2>1, <2>2, <2>4, <2>5, <2>6, <2>7 DEF Waiting
<1>3. CASE AppExit \/ AppPthreadExit \/ AppMainReturns \/ AppDestroy \/ AppUnlock
  <2>1. /\ apc # "entry" /\ AppEnded'
        /\ UNCHANGED <<uop, uarg, pendingWindow, pendingInputQueue, stateSaved, running,
                       window, inputQueue, activityState>>
        /\ \/ UNCHANGED <<upc, destroyed>>
           \/ upc' = IF upc = "asleep" THEN "woken" ELSE upc
    BY <1>3 DEF AppExit, AppPthreadExit, AppMainReturns, AppDestroy, AppUnlock, AppEnded, uiVars, Broadcast
  <2>2. upc' = "asleep" => upc = "asleep" /\ destroyed' = destroyed
    BY <2>1
  <2>3. upc' = "asleep" => ~Satisfied(uop)'
    BY <2>1, <2>2 DEF Satisfied, WindowTaken, LifeTaken
  <2> QED
    BY <2>1, <2>3
<1> QED
  BY <1>1, <1>2, <1>3

\* A command that takes effect makes the condition hold, and says so.
LEMMA ExecSleeps ==
    ASSUME TypeInv, HandshakeInv, SleepInv, AppPreExec \/ AppPostExec
    PROVE  SleepInv'
<1> USE DEF SleepInv
<1>1. /\ UNCHANGED <<pipe, uop, uarg, pendingWindow, pendingInputQueue, running, destroyed, acmd>>
      /\ upc' = upc \/ (upc = "asleep" /\ upc' = "woken")
      /\ apc \in {"pre_exec", "post_exec"} /\ apc' # "entry" /\ running
  BY DEF AppPreExec, AppPostExec, Broadcast
<1>2. (Waiting' <=> Waiting) /\ (upc' = "write" <=> upc = "write") /\ ~AppEnded
  BY <1>1 DEF Waiting, AppEnded
<1>3. \A c : InPipe(c)' <=> InPipe(c)
  BY <1>1 DEF InPipe
<1>4. Awaited' = Awaited
  BY <1>1 DEF Awaited, CommandFor
<1>5. (InHand => Outstanding(acmd)) /\ acmd \in Cmds
  BY DEF HandshakeInv, PipeInv, TypeInv, TypeOK
<1>6. CASE AppPreExec /\ acmd \in LifeCmds \cup {"INPUT_CHANGED", "INIT_WINDOW"}
  <2>1. /\ upc' # "asleep" /\ apc = "pre_exec"
        /\ acmd = "INIT_WINDOW" => window' = pendingWindow
        /\ acmd # "INIT_WINDOW" => window' = window
        /\ acmd = "INPUT_CHANGED" => inputQueue' = pendingInputQueue
        /\ acmd \in LifeCmds => activityState' = acmd
    BY <1>6 DEF AppPreExec, Broadcast, LifeCmds
  <2>2. InHand /\ Outstanding(acmd)
    BY <1>5, <1>6, <2>1 DEF InHand, LifeCmds, Notice
  <2>3. Waiting /\ Satisfied(uop)'
    <3>1. CASE acmd = "INIT_WINDOW"
      <4>1. uop = "set_window" /\ Waiting
        BY <2>2, <3>1 DEF Outstanding, TypeInv, ArgumentOK, LifeCmds
      <4> QED
        BY <1>1, <2>1, <3>1, <4>1 DEF Satisfied, WindowTaken
    <3>2. CASE acmd = "INPUT_CHANGED"
      <4>1. uop = "set_input" /\ Waiting
        BY <2>2, <3>2 DEF Outstanding, TypeInv, ArgumentOK, LifeCmds
      <4> QED
        BY <1>1, <2>1, <3>2, <4>1 DEF Satisfied
    <3>3. CASE acmd \in LifeCmds
      <4>1. uop = "set_activity_state" /\ acmd = uarg /\ Waiting
        BY <2>2, <3>3 DEF Outstanding, LifeCmds
      <4> QED
        BY <1>1, <2>1, <3>3, <4>1 DEF Satisfied, LifeTaken
    <3> QED
      BY <1>6, <3>1, <3>2, <3>3
  <2> QED
    BY <1>1, <2>1, <2>3 DEF Waiting
<1>7. CASE AppPreExec /\ acmd \notin LifeCmds \cup {"INPUT_CHANGED", "INIT_WINDOW"}
  <2>1. /\ apc = "pre_exec" /\ apc' = "onAppCmd"
        /\ UNCHANGED <<window, inputQueue, activityState, stateSaved>>
        /\ destroyRequested' = (destroyRequested \/ acmd = "DESTROY")
    BY <1>7 DEF AppPreExec
  <2>2. Satisfied(uop)' <=> Satisfied(uop)
    BY <1>1, <2>1 DEF Satisfied, WindowTaken, LifeTaken
  <2>3. acmd \in {"TERM_WINDOW", "SAVE_STATE", "DESTROY", Notice}
    BY <1>5, <1>7 DEF Cmds
  <2>4. \A c : c # "DESTROY" /\ Open(c) => Open(c)'
    BY <1>1, <1>3, <2>1, <2>3 DEF Open, InHand
  <2>5. StillToCome => StillToCome'
    <3>1. CASE uop = "android_app_free"
      <4>1. Awaited = "DESTROY"
        BY <3>1 DEF Awaited, CommandFor
      <4>2. Open("DESTROY") => Open("DESTROY")' \/ destroyRequested'
        BY <1>1, <1>3, <2>1 DEF Open, InHand
      <4> QED
        BY <1>1, <1>4, <2>1, <3>1, <4>1, <4>2 DEF StillToCome
    <3>2. CASE uop # "android_app_free"
      <4>1. uop # "android_app_create" => Awaited # "DESTROY"
        BY <3>2 DEF Awaited, CommandFor, TypeInv, TypeOK, ArgumentOK, UiOps, LifeCmds
      <4> QED
        BY <1>1, <1>4, <2>1, <2>4, <3>2, <4>1 DEF StillToCome
    <3> QED
      BY <3>1, <3>2
  <2> QED
    BY <1>1, <1>2, <2>1, <2>2, <2>4, <2>5
<1>8. CASE AppPostExec /\ acmd = "TERM_WINDOW"
  <2>1. /\ upc' # "asleep" /\ apc = "post_exec" /\ window' = None
    BY <1>8 DEF AppPostExec, Broadcast
  <2>2. InHand /\ Open("TERM_WINDOW") /\ uop = "set_window"
    BY <1>5, <1>8, <2>1 DEF InHand, Open, Outstanding, TypeInv, ArgumentOK, LifeCmds, Notice
  <2>3. Waiting => pendingWindow = uarg /\ window # uarg
    BY <2>2 DEF HandshakeInv, WindowInv
  <2>4. CASE uarg = None
    <3>1. Waiting => Satisfied(uop)'
      BY <1>1, <2>1, <2>2, <2>3, <2>4 DEF Satisfied, WindowTaken
    <3> QED
      BY <1>1, <1>2, <2>1, <3>1
  <2>5. CASE uarg # None
    <3>1. Waiting => ~Satisfied(uop)
      BY <2>2, <2>3 DEF Satisfied, WindowTaken
    <3>2. Waiting => Open("INIT_WINDOW")
      BY <1>2, <2>2, <2>5, <3>1 DEF StillToCome, Awaited
    <3>3. Waiting => Open("INIT_WINDOW")'
      BY <1>3, <1>8, <3>2 DEF Open
    <3>4. Waiting => StillToCome'
      BY <1>1, <2>2, <2>5, <3>3 DEF StillToCome, Awaited
    <3> QED
      BY <1>1, <1>2, <2>1, <3>4
  <2> QED
    BY <2>4, <2>5
<1>9. CASE AppPostExec /\ acmd = "SAVE_STATE"
  <2>1. /\ upc' # "asleep" /\ apc = "post_exec" /\ stateSaved' = TRUE
    BY <1>9 DEF AppPostExec, Broadcast
  <2>2. uop = "onSaveInstanceState"
    BY <1>5, <1>9, <2>1 DEF InHand, Outstanding, TypeInv, ArgumentOK, LifeCmds, Notice
  <2>3. Satisfied(uop)'
    BY <1>1, <2>1, <2>2 DEF Satisfied
  <2> QED
    BY <1>1, <2>1, <2>2, <2>3
<1>10. CASE AppPostExec /\ acmd \notin {"TERM_WINDOW", "SAVE_STATE"}
  <2>1. /\ apc = "post_exec" /\ apc' = "poll"
        /\ UNCHANGED <<upc, window, inputQueue, activityState, destroyRequested>>
        /\ stateSaved' = stateSaved \/ stateSaved' = (stateSaved \/ FALSE)
    BY <1>10 DEF AppPostExec
  <2>2. stateSaved' = stateSaved
    BY <2>1 DEF TypeInv, TypeOK
  <2>3. Satisfied(uop)' <=> Satisfied(uop)
    BY <1>1, <2>1, <2>2 DEF Satisfied, WindowTaken, LifeTaken
  <2>4. \A c : Open(c) => Open(c)'
    BY <1>1, <1>3, <1>10, <2>1 DEF Open, InHand
  <2>5. StillToCome => StillToCome'
    BY <1>1, <1>4, <2>1, <2>4 DEF StillToCome
  <2> QED
    BY <1>1, <1>2, <2>1, <2>3, <2>4, <2>5
<1> QED
  BY <1>6, <1>7, <1>8, <1>9, <1>10

LEMMA SleepInvariant == Spec => []SleepInv
<1>1. Init => SleepInv
  BY DEF Init, SleepInv, Waiting
<1>2. TypeInv /\ HandshakeInv /\ SleepInv /\ [Next]_vars => SleepInv'
  <2>1. ASSUME SleepInv, UNCHANGED vars PROVE SleepInv'
    BY <2>1 DEF vars, uiVars, appVars, SleepInv, Waiting, Satisfied, WindowTaken, LifeTaken,
       StillToCome, AppEnded, Open, InPipe, InHand, Awaited, CommandFor
  <2> QED
    BY <2>1, UiSleeps, QuietAppSleeps, ExecSleeps DEF Next, AppProcess, AppEnd
<1> QED
  BY TypeInvariant, HandshakeInvariant, <1>1, <1>2, PTL DEF Spec

\* No wake-up is lost in the glue's wait loops: a UI thread that sleeps waits for
\* something that has not happened, and that a thread still running has before it.
THEOREM NoWakeUpLost == Spec => []SleepIsAnswered
<1>1. SleepInv => SleepIsAnswered
  BY DEF SleepInv, SleepIsAnswered, Waiting
<1> QED
  BY SleepInvariant, <1>1, PTL

-----------------------------------------------------------------------------
(***************************************************************************)
(* What the server thread works with has been lent to it.                  *)
(***************************************************************************)

LentInv ==
    /\ {pendingWindow, pendingInputQueue, window, inputQueue} \subseteq lent \cup {None}
    /\ uop \in {"set_window", "set_input"} /\ upc \in {"lock", "term", "write"}
          => uarg \in lent \cup {None}

LEMMA LentInvStep == TypeInv /\ HandshakeInv /\ LentInv /\ [Next]_vars => LentInv'
<1> SUFFICES ASSUME TypeInv, HandshakeInv, LentInv, [Next]_vars PROVE LentInv'
  OBVIOUS
<1> USE DEF LentInv
<1>1. CASE Callback
  BY <1>1 DEF Callback, onNativeWindowCreated, onNativeWindowDestroyed, onInputQueueCreated,
     onInputQueueDestroyed, onLifecycle, onSaveInstanceState, onDestroy, onNotice, Enter,
     appVars, uiVars
<1>2. CASE UiLock
  <2>1. /\ upc = "lock" /\ UNCHANGED <<uop, uarg, lent, pendingWindow, window, inputQueue>>
        /\ pendingInputQueue' = IF uop = "set_input" THEN uarg ELSE pendingInputQueue
    BY <1>2 DEF UiLock, appVars
  <2> QED
    BY <2>1
<1>3. CASE UiWriteTerm
  BY <1>3 DEF UiWriteTerm, appVars
<1>4. CASE UiWrite
  BY <1>4 DEF UiWrite, appVars
<1>5. CASE UiReturn
  <2>1. /\ upc = "check" /\ upc' \in {"free", "idle"} /\ Satisfied(uop)
        /\ lent' = {pendingWindow, pendingInputQueue} \ {None}
        /\ UNCHANGED <<uop, uarg, pendingWindow, pendingInputQueue, window, inputQueue>>
    BY <1>5 DEF UiReturn, appVars
  <2>2. window = pendingWindow
    BY <2>1 DEF Satisfied, WindowTaken, HandshakeInv, WindowInv
  <2>3. inputQueue = pendingInputQueue
    BY <2>1 DEF Satisfied, HandshakeInv, InputInv
  <2> QED
    BY <2>1, <2>2, <2>3
<1>6. CASE UiSleep \/ UiReacquire \/ UiFree \/ UiSpuriousWake
  BY <1>6 DEF UiSleep, UiReacquire, UiFree, UiSpuriousWake, appVars
<1>7. CASE AppProcess
  <2>1. CASE AppPreExec
    BY <2>1 DEF AppPreExec, Broadcast
  <2>2. CASE AppPostExec
    BY <2>2 DEF AppPostExec, Broadcast
  <2>3. CASE AppEntry \/ AppReadCmd \/ AppReadFree \/ AppOnAppCmd
    BY <2>3 DEF AppEntry, AppReadCmd, AppReadFree, AppOnAppCmd, Broadcast, uiVars
  <2> QED
    BY <1>7, <2>1, <2>2, <2>3 DEF AppProcess
<1>8. CASE AppExit \/ AppEnd
  BY <1>8 DEF AppExit, AppEnd, AppPthreadExit, AppMainReturns, AppDestroy, AppUnlock, Broadcast, uiVars
<1>9. CASE UNCHANGED vars
  BY <1>9 DEF vars, uiVars, appVars
<1> QED
  BY <1>1, <1>2, <1>3, <1>4, <1>5, <1>6, <1>7, <1>8, <1>9 DEF Next, Ui

\* The server thread never works with a window or a queue the platform has
\* taken back.
THEOREM OnlyLentObjectsUsed == Spec => []UsesOnlyLent
<1>1. Init => LentInv
  BY DEF Init, LentInv
<1>2. LentInv => UsesOnlyLent
  BY DEF LentInv, UsesOnlyLent
<1> QED
  BY TypeInvariant, HandshakeInvariant, <1>1, <1>2, LentInvStep, PTL DEF Spec

-----------------------------------------------------------------------------
(***************************************************************************)
(* A window is replaced by way of NULL: a window that is neither wanted    *)
(* nor gone has its TERM_WINDOW under way, and that comes before any       *)
(* INIT_WINDOW.                                                            *)
(***************************************************************************)

ReplaceInv ==
    uop = "set_window" /\ (Waiting \/ upc = "write") /\ window \notin {None, uarg}
        => Open("TERM_WINDOW") \/ AppEnded

\* The command in hand is the only one under way when it is not TERM_WINDOW.
LEMMA InitInHand ==
    ASSUME TypeInv, HandshakeInv, apc = "pre_exec", acmd = "INIT_WINDOW"
    PROVE  /\ uop = "set_window" /\ Waiting /\ pendingWindow = uarg
           /\ ~Open("TERM_WINDOW") /\ ~AppEnded
<1>1. InHand
  BY DEF InHand, Notice
<1>2. uop = "set_window" /\ Waiting
  BY <1>1 DEF HandshakeInv, PipeInv, Outstanding, TypeInv, ArgumentOK, LifeCmds
<1>3. pendingWindow = uarg
  BY <1>2 DEF HandshakeInv, WindowInv
<1>4. ~Open("TERM_WINDOW")
  BY <1>1 DEF HandshakeInv, PipeInv, Open, InPipe, Notice
<1> QED
  BY <1>2, <1>3, <1>4 DEF AppEnded

\* A write leaves what is under way under way.
LEMMA WriteKeepsOpen ==
    ASSUME NEW c \in Cmds, pipe \in Seq(Cmds), pipe' = Append(pipe, c),
           UNCHANGED <<apc, acmd>>
    PROVE  /\ Open("TERM_WINDOW") => Open("TERM_WINDOW")'
           /\ c = "TERM_WINDOW" => Open("TERM_WINDOW")'
<1>1. /\ Len(pipe') = Len(pipe) + 1 /\ Len(pipe) \in Nat
      /\ \A i \in 1..Len(pipe) : pipe'[i] = pipe[i]
      /\ pipe'[Len(pipe')] = c
  BY WriteFacts
<1>2. InHand' <=> InHand
  BY DEF InHand
<1>3. InPipe("TERM_WINDOW") => InPipe("TERM_WINDOW")'
  BY <1>1 DEF InPipe
<1>4. c = "TERM_WINDOW" => InPipe("TERM_WINDOW")'
  BY <1>1 DEF InPipe
<1> QED
  BY <1>2, <1>3, <1>4 DEF Open

LEMMA ReplaceInvStep == TypeInv /\ HandshakeInv /\ ReplaceInv /\ [Next]_vars => ReplaceInv'
<1> SUFFICES ASSUME TypeInv, HandshakeInv, ReplaceInv, [Next]_vars PROVE ReplaceInv'
  OBVIOUS
<1>1. CASE Callback
  <2>1. CASE onNotice
    <3>1. /\ pipe' = Append(pipe, Notice) /\ Notice \in Cmds /\ pipe \in Seq(Cmds)
          /\ UNCHANGED <<upc, uop, uarg, window, apc, acmd>>
      BY <2>1 DEF onNotice, uiVars, appVars, Cmds, TypeInv, TypeOK
    <3>2. Open("TERM_WINDOW") => Open("TERM_WINDOW")'
      BY <3>1, WriteKeepsOpen
    <3> QED
      BY <3>1, <3>2 DEF ReplaceInv, Waiting, AppEnded
  <2>2. CASE ~onNotice
    <3>1. upc' = "lock"
      BY <1>1, <2>2 DEF Callback, onNativeWindowCreated, onNativeWindowDestroyed,
         onInputQueueCreated, onInputQueueDestroyed, onLifecycle, onSaveInstanceState,
         onDestroy, Enter
    <3> QED
      BY <3>1 DEF ReplaceInv, Waiting
  <2> QED
    BY <2>1, <2>2
<1>2. CASE UiLock
  <2>1. /\ upc = "lock" /\ UNCHANGED <<uop, uarg, window>>
        /\ uop = "set_window" /\ upc' = "write" => pendingWindow = None
        /\ uop = "set_window" => upc' \in {"term", "write"}
    BY <1>2 DEF UiLock, TermNeeded, appVars
  <2>2. window = pendingWindow
    BY <2>1 DEF HandshakeInv, WindowInv
  <2> QED
    BY <2>1, <2>2 DEF ReplaceInv, Waiting
<1>3. CASE UiWriteTerm
  <2>1. /\ pipe' = Append(pipe, "TERM_WINDOW") /\ "TERM_WINDOW" \in Cmds
        /\ pipe \in Seq(Cmds) /\ UNCHANGED <<apc, acmd>>
    BY <1>3 DEF UiWriteTerm, appVars, Cmds, TypeInv, TypeOK
  <2>2. Open("TERM_WINDOW")'
    BY <2>1, WriteKeepsOpen
  <2> QED
    BY <2>2 DEF ReplaceInv
<1>4. CASE UiWrite
  <2>1. upc = "write" /\ UNCHANGED <<uop, uarg, window, apc, acmd>> /\ pipe \in Seq(Cmds)
    BY <1>4 DEF UiWrite, appVars, TypeInv, TypeOK
  <2>2. uop = "set_window" /\ Open("TERM_WINDOW") => Open("TERM_WINDOW")'
    <3>1. CASE uop = "set_window" /\ uarg # None
      <4>1. pipe' = Append(pipe, "INIT_WINDOW") /\ "INIT_WINDOW" \in Cmds
        BY <1>4, <3>1 DEF UiWrite, Cmds
      <4> QED
        BY <2>1, <4>1, WriteKeepsOpen
    <3>2. CASE uop = "set_window" /\ uarg = None
      <4>1. pipe' = pipe
        BY <1>4, <3>2 DEF UiWrite
      <4> QED
        BY <2>1, <4>1 DEF Open, InPipe, InHand
    <3> QED
      BY <3>1, <3>2
  <2> QED
    BY <2>1, <2>2 DEF ReplaceInv, AppEnded
<1>5. CASE UiSleep \/ UiReacquire \/ UiReturn \/ UiFree \/ UiSpuriousWake
  <2>1. /\ UNCHANGED <<uop, uarg, window, pipe, apc, acmd>>
        /\ Waiting \/ upc = "free"
        /\ Waiting' \/ upc' \in {"free", "idle", "gone"}
    BY <1>5 DEF UiSleep, UiReacquire, UiReturn, UiFree, UiSpuriousWake, appVars, Waiting
  <2>2. upc = "free" => upc' = "gone"
    BY <1>5 DEF UiSleep, UiReacquire, UiReturn, UiFree, UiSpuriousWake
  <2> QED
    BY <2>1, <2>2 DEF ReplaceInv, AppEnded, Open, InPipe, InHand, Waiting
<1>6. CASE AppReadCmd
  <2>1. /\ apc = "poll" /\ pipe # <<>> /\ acmd' = pipe[1]
        /\ Len(pipe') = Len(pipe) - 1 /\ Len(pipe) \in Nat \ {0}
        /\ \A i \in 1..Len(pipe') : pipe'[i] = pipe[i + 1] /\ i + 1 \in 1..Len(pipe)
        /\ UNCHANGED <<upc, uop, uarg, window>>
    BY <1>6, ReadFacts DEF AppReadCmd, uiVars, TypeInv, TypeOK
  <2>2. acmd' = "TERM_WINDOW" => apc' = "pre_exec"
    BY <1>6 DEF AppReadCmd, FreesOnRead
  <2>3. Open("TERM_WINDOW") => Open("TERM_WINDOW")'
    <3> SUFFICES ASSUME Open("TERM_WINDOW") PROVE Open("TERM_WINDOW")'
      OBVIOUS
    <3>1. PICK i \in 1..Len(pipe) : pipe[i] = "TERM_WINDOW"
      BY <2>1 DEF Open, InPipe, InHand
    <3>2. CASE i = 1
      BY <2>1, <2>2, <3>1, <3>2 DEF Open, InHand, Notice
    <3>3. CASE i # 1
      <4>1. i - 1 \in 1..Len(pipe') /\ pipe'[i - 1] = "TERM_WINDOW"
        BY <2>1, <3>1, <3>3
      <4> QED
        BY <4>1 DEF Open, InPipe
    <3> QED
      BY <3>2, <3>3
  <2> QED
    BY <2>1, <2>3 DEF ReplaceInv, Waiting, AppEnded
<1>7. CASE AppPreExec
  <2>1. /\ UNCHANGED <<pipe, uop, uarg, acmd>>
        /\ upc' = upc \/ (upc = "asleep" /\ upc' = "woken")
        /\ apc = "pre_exec" /\ apc' = "onAppCmd"
        /\ window' = IF acmd = "INIT_WINDOW" THEN pendingWindow ELSE window
    BY <1>7 DEF AppPreExec, Broadcast
  <2>2. Open("TERM_WINDOW") => Open("TERM_WINDOW")'
    BY <2>1 DEF Open, InPipe, InHand
  <2>3. acmd = "INIT_WINDOW" => window' = uarg'
    BY <2>1, InitInHand
  <2> QED
    BY <2>1, <2>2, <2>3 DEF ReplaceInv, Waiting, AppEnded
<1>8. CASE AppPostExec
  <2>1. /\ UNCHANGED <<pipe, uop, uarg, acmd>>
        /\ upc' = upc \/ (upc = "asleep" /\ upc' = "woken")
        /\ apc = "post_exec" /\ apc' = "poll"
        /\ window' = IF acmd = "TERM_WINDOW" THEN None ELSE window
    BY <1>8 DEF AppPostExec, Broadcast
  <2>2. acmd # "TERM_WINDOW" => (Open("TERM_WINDOW") => Open("TERM_WINDOW")')
    BY <2>1 DEF Open, InPipe
  <2> QED
    BY <2>1, <2>2 DEF ReplaceInv, Waiting, AppEnded
<1>9. CASE AppEntry \/ AppReadFree \/ AppOnAppCmd
  <2>1. /\ UNCHANGED <<pipe, uop, uarg, acmd, window>>
        /\ upc' = upc \/ (upc = "asleep" /\ upc' = "woken")
        /\ apc \in {"entry", "read_free", "onAppCmd"}
    BY <1>9 DEF AppEntry, AppReadFree, AppOnAppCmd, Broadcast, uiVars
  <2>2. InHand /\ acmd = "TERM_WINDOW" => InHand'
    BY <1>9, <2>1 DEF AppEntry, AppReadFree, AppOnAppCmd, InHand
  <2> QED
    BY <2>1, <2>2 DEF ReplaceInv, Waiting, AppEnded, Open, InPipe
<1>10. CASE AppExit \/ AppEnd
  <2>1. AppEnded'
    BY <1>10 DEF AppExit, AppEnd, AppPthreadExit, AppMainReturns, AppDestroy, AppUnlock, AppEnded
  <2> QED
    BY <2>1 DEF ReplaceInv
<1>11. CASE UNCHANGED vars
  BY <1>11 DEF vars, uiVars, appVars, ReplaceInv, Waiting, AppEnded, Open, InPipe, InHand
<1> QED
  BY <1>1, <1>2, <1>3, <1>4, <1>5, <1>6, <1>7, <1>8, <1>9, <1>10, <1>11
  DEF Next, Ui, AppProcess

\* The server thread never goes from one window straight to another: it sees
\* NULL in between, also when the platform replaces the window in one callback.
THEOREM WindowReplacedViaNull == Spec => WindowOnlyViaNull
<1>1. Init => ReplaceInv
  BY DEF Init, ReplaceInv, Waiting
<1>2. TypeInv /\ HandshakeInv /\ ReplaceInv /\ [Next]_vars
        => [window # None /\ window' # window => window' = None]_vars
  <2> SUFFICES ASSUME TypeInv, HandshakeInv, ReplaceInv, Next,
                      window # None, window' # window
               PROVE  window' = None
    OBVIOUS
  <2>1. CASE AppPreExec
    <3>1. apc = "pre_exec" /\ acmd = "INIT_WINDOW" /\ window' = pendingWindow
      BY <2>1 DEF AppPreExec
    <3>2. window \in {None, uarg} /\ pendingWindow = uarg
      BY <3>1, InitInHand DEF ReplaceInv
    <3> QED
      BY <3>1, <3>2
  <2>2. CASE AppPostExec
    BY <2>2 DEF AppPostExec
  <2>3. CASE Callback
    BY <2>3 DEF Callback, onNativeWindowCreated, onNativeWindowDestroyed,
       onInputQueueCreated, onInputQueueDestroyed, onLifecycle, onSaveInstanceState,
       onDestroy, onNotice, Enter, appVars
  <2>4. CASE Ui \/ UiSpuriousWake
    BY <2>4 DEF Ui, UiLock, UiWriteTerm, UiWrite, UiSleep, UiReacquire, UiReturn, UiFree,
       UiSpuriousWake, appVars
  <2>5. CASE AppEntry \/ AppReadCmd \/ AppReadFree \/ AppOnAppCmd \/ AppExit \/ AppEnd
    BY <2>5 DEF AppEntry, AppReadCmd, AppReadFree, AppOnAppCmd, AppExit, AppEnd,
       AppPthreadExit, AppMainReturns, AppDestroy, AppUnlock
  <2> QED
    BY <2>1, <2>2, <2>3, <2>4, <2>5 DEF Next, AppProcess
<1>3. Spec => []ReplaceInv
  BY TypeInvariant, HandshakeInvariant, <1>1, ReplaceInvStep, PTL DEF Spec
<1> QED
  BY TypeInvariant, HandshakeInvariant, <1>2, <1>3, PTL DEF Spec, WindowOnlyViaNull

=============================================================================
