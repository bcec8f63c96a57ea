----------------------------- MODULE FenceFutex -----------------------------
(***************************************************************************)
(* libxshmfence-1.3/src/xshmfence_futex.c, the variant for systems with    *)
(* futexes: one shared word, 0 for reset, 1 for triggered, -1 for reset    *)
(* with someone waiting.  Each atomic operation on the word and each       *)
(* system call is a step.                                                  *)
(***************************************************************************)
EXTENDS Integers, FiniteSets

CONSTANTS Triggerers, Resetters, Waiters, Mortal

\* A process that dies between the store and the wake-up of a trigger takes the
\* wake-up with it: only the others may die.
ASSUME MortalAssumption ==
    Mortal \subseteq (Resetters \cup Waiters) \ Triggerers

VARIABLES
    v,                \* struct xshmfence
    sleeping,         \* the processes asleep in the kernel on v
    call,             \* the function each process is in, or "none", or "dead"
    pc                \* where it is in it, or how it ended: "ok", "error"

vars == <<v, sleeping, call, pc>>

Procs == Triggerers \cup Resetters \cup Waiters

Allowed(p) == {o \in {"trigger", "reset", "await"} :
                 \/ o = "trigger" /\ p \in Triggerers
                 \/ o = "reset" /\ p \in Resetters
                 \/ o = "await" /\ p \in Waiters}

InCall(p, o, at) == call[p] = o /\ pc[p] = at

\* xshmfence_query
Triggered == v = 1

\* __sync_val_compare_and_swap: the value the word has afterwards
Swapped(old, new) == IF v = old THEN new ELSE v

GoTo(p, at) == pc' = [pc EXCEPT ![p] = at]

TypeOK ==
    /\ v \in {-1, 0, 1}
    /\ sleeping \subseteq Procs
    /\ call \in [Procs -> {"trigger", "reset", "await", "none", "dead"}]
    /\ pc \in [Procs -> {"enter", "store", "wake", "wait", "asleep", "ok", "error"}]

\* ftruncate leaves the word zero.
Init ==
    /\ v = 0
    /\ sleeping = {}
    /\ call = [p \in Procs |-> "none"]
    /\ pc = [p \in Procs |-> "ok"]

Call(p) ==
    /\ call[p] = "none"
    /\ \E o \in Allowed(p) : call' = [call EXCEPT ![p] = o]
    /\ GoTo(p, "enter")
    /\ UNCHANGED <<v, sleeping>>

\* xshmfence_trigger: the compare-and-swap does it unless someone waits.
TriggerSwap(p) ==
    /\ InCall(p, "trigger", "enter")
    /\ v' = Swapped(0, 1)
    /\ GoTo(p, IF v = -1 THEN "store" ELSE "ok")
    /\ UNCHANGED <<sleeping, call>>

\* Mutant: the fence is triggered again without waking anyone.
TriggerStoreOnly(p) ==
    /\ InCall(p, "trigger", "store")
    /\ v' = 1
    /\ GoTo(p, "ok")
    /\ UNCHANGED <<sleeping, call>>

TriggerStore(p) ==
    /\ InCall(p, "trigger", "store")
    /\ v' = 1
    /\ GoTo(p, "wake")
    /\ UNCHANGED <<sleeping, call>>

\* futex_wake: the sleepers go back to the head of their loop.
TriggerWake(p) ==
    /\ InCall(p, "trigger", "wake")
    /\ sleeping' = {}
    /\ pc' = [q \in Procs |-> IF q = p THEN "ok"
                              ELSE IF q \in sleeping THEN "enter" ELSE pc[q]]
    /\ UNCHANGED <<v, call>>

\* Mutant: whatever the word holds, it becomes 0.
ResetBlindly(p) ==
    /\ InCall(p, "reset", "enter")
    /\ v' = 0
    /\ GoTo(p, "ok")
    /\ UNCHANGED <<sleeping, call>>

\* Mutant: the word is decremented, as a counter would be.
ResetDecrements(p) ==
    /\ InCall(p, "reset", "enter")
    /\ v' = v - 1
    /\ GoTo(p, "ok")
    /\ UNCHANGED <<sleeping, call>>

\* xshmfence_reset leaves the word alone when someone waits: it is reset then.
xshmfence_reset(p) ==
    /\ InCall(p, "reset", "enter")
    /\ v' = Swapped(1, 0)
    /\ GoTo(p, "ok")
    /\ UNCHANGED <<sleeping, call>>

\* xshmfence_await: the compare-and-swap at the head of the loop.
AwaitSwap(p) ==
    /\ InCall(p, "await", "enter")
    /\ v' = Swapped(0, -1)
    /\ GoTo(p, IF v = 1 THEN "ok" ELSE "wait")
    /\ UNCHANGED <<sleeping, call>>

\* Mutant: the kernel puts the caller to sleep whatever the word holds.
WaitUnconditionally(p) ==
    /\ InCall(p, "await", "wait")
    /\ sleeping' = sleeping \cup {p}
    /\ GoTo(p, "asleep")
    /\ UNCHANGED <<v, call>>

\* futex_wait: sleep if the word is still -1, else EWOULDBLOCK and round again.
AwaitWait(p) ==
    /\ InCall(p, "await", "wait")
    /\ IF v = -1
       THEN sleeping' = sleeping \cup {p} /\ GoTo(p, "asleep")
       ELSE GoTo(p, "enter") /\ UNCHANGED sleeping
    /\ UNCHANGED <<v, call>>

\* A signal interrupts the sleep (EINTR): xshmfence_await returns -1.
Interrupted(p) ==
    /\ p \in sleeping
    /\ sleeping' = sleeping \ {p}
    /\ GoTo(p, "error")
    /\ UNCHANGED <<v, call>>

\* The kernel may also end the sleep for no reason of ours.
SpuriousWake(p) ==
    /\ p \in sleeping
    /\ sleeping' = sleeping \ {p}
    /\ GoTo(p, "enter")
    /\ UNCHANGED <<v, call>>

Return(p) ==
    /\ call[p] \in {"trigger", "reset", "await"}
    /\ pc[p] \in {"ok", "error"}
    /\ call' = [call EXCEPT ![p] = "none"]
    /\ UNCHANGED <<v, sleeping, pc>>

Die(p) ==
    /\ p \in Mortal
    /\ call[p] \in {"reset", "await"}
    /\ call' = [call EXCEPT ![p] = "dead"]
    /\ sleeping' = sleeping \ {p}
    /\ UNCHANGED <<v, pc>>

Body(p) == \/ TriggerSwap(p) \/ TriggerStore(p) \/ TriggerWake(p)
           \/ xshmfence_reset(p)
           \/ AwaitSwap(p) \/ AwaitWait(p)

Next == \E p \in Procs : \/ Call(p) \/ Body(p) \/ Return(p)
                         \/ Interrupted(p) \/ SpuriousWake(p) \/ Die(p)

Spec == Init /\ [][Next]_vars

Fairness == \A p \in Procs : WF_vars(Body(p)) /\ WF_vars(Return(p))

FairSpec == Spec /\ Fairness

-----------------------------------------------------------------------------

\* Whoever sleeps will be woken when it matters: the word still says that
\* someone waits, or a trigger that saw it is about to wake everybody; resets and
\* new waiters come in between as they may.
NoForgottenSleeper ==
    sleeping # {} => v = -1 \/ \E p \in Procs : InCall(p, "trigger", "wake")

\* The abstract fence: a trigger takes effect at its compare-and-swap, or at its
\* store if someone waits.
result == [p \in Procs |-> IF pc[p] \in {"ok", "wake"} THEN "ok"
                           ELSE IF pc[p] = "error" THEN "error" ELSE "pending"]

Promise == INSTANCE Fence WITH triggered <- Triggered

\* The calls behave like atomic operations on one fence, and no wake-up is lost:
\* an await returns if the fence stays triggered, whatever the others do and
\* although a waiter may die at any moment.
ImplementsFence == Promise!FairSpec

=============================================================================
